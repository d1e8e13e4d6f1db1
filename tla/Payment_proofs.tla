--------------------------- MODULE Payment_proofs ---------------------------
(***************************************************************************)
(* Proofs about Payment, for any number of getOrder and                    *)
(* createPaymentIntent calls and of items.  IInv (module Payment) is       *)
(* inductive: one lemma per conjunct, one step per action.  The theorems   *)
(* at the end follow from it.                                              *)
(***************************************************************************)
EXTENDS Payment, FiniteSetTheorems, TLAPS

-----------------------------------------------------------------------------
(* Each conjunct of IInv is preserved, given the conjuncts it leans on *)

\* Every action keeps the types.
LEMMA TypeStep ==
    ASSUME TypeOK, SyncInv, PayInv, [Next]_vars
    PROVE  TypeOK'
<1> USE CallAssumption DEF Call, row, stripe, effects, syncLocal, history, Goto,
      TypeOK, Snapshot, PaymentStatus, IntentStatus, SyncStage, PayStage,
      TransactionStage, Over
<1>1. ASSUME NEW s \in Sync, GetOrder(s) PROVE TypeOK'
  BY <1>1 DEF GetOrder, ReadRow
<1>2. ASSUME NEW s \in Sync, RetrieveIntent(s) PROVE TypeOK'
  BY <1>2 DEF RetrieveIntent, StatusOf, Open, SyncInv
<1>3. ASSUME NEW s \in Sync, UpdateStatus(s) PROVE TypeOK'
  BY <1>3 DEF UpdateStatus
<1>4. ASSUME NEW s \in Sync, CreateInvoice(s) PROVE TypeOK'
  BY <1>4 DEF CreateInvoice
<1>5. ASSUME NEW s \in Sync, RecordInvoice(s) PROVE TypeOK'
  BY <1>5 DEF RecordInvoice
<1>6. ASSUME NEW s \in Sync, ReadItems(s) PROVE TypeOK'
  BY <1>6 DEF ReadItems
<1>7. ASSUME NEW s \in Sync, NEW i \in Item, GenerateTicket(s, i) PROVE TypeOK'
  BY <1>7 DEF GenerateTicket
<1>8. ASSUME NEW s \in Sync, SendTickets(s) PROVE TypeOK'
  BY <1>8 DEF SendTickets
<1>9. ASSUME NEW s \in Sync, InvoiceError(s) PROVE TypeOK'
  BY <1>9 DEF InvoiceError
<1>10. ASSUME NEW s \in Sync, CommitStatus(s) PROVE TypeOK'
  BY <1>10 DEF CommitStatus, Overtake, TicketsAfter, SyncInv
<1>11. ASSUME NEW s \in Sync, Expire(s) PROVE TypeOK'
  BY <1>11 DEF Expire, InTransaction
<1>12. ASSUME NEW s \in Sync, SyncFails(s) PROVE TypeOK'
  BY <1>12 DEF SyncFails
<1>13. ASSUME NEW p \in Pay, PayRead(p) PROVE TypeOK'
  BY <1>13 DEF PayRead, ReadRow
<1>14. ASSUME NEW p \in Pay, ReuseIntent(p) PROVE TypeOK'
  BY <1>14 DEF ReuseIntent, PayInv
<1>15. ASSUME NEW p \in Pay, ReuseFails(p) PROVE TypeOK'
  BY <1>15 DEF ReuseFails
<1>16. ASSUME NEW p \in Pay, SearchIntents(p) PROVE TypeOK'
  BY <1>16 DEF SearchIntents, Created
<1>17. ASSUME NEW p \in Pay, LinkIntent(p) PROVE TypeOK'
  BY <1>17 DEF LinkIntent, Overtake, PayInv
<1>18. ASSUME NEW p \in Pay, SearchFails(p) PROVE TypeOK'
  BY <1>18 DEF SearchFails
<1>19. ASSUME NEW p \in Pay, ResetStatus(p) PROVE TypeOK'
  BY <1>19 DEF ResetStatus, Overtake
<1>20. ASSUME NEW p \in Pay, CreateIntent(p) PROVE TypeOK'
  BY <1>20 DEF CreateIntent
<1>21. ASSUME NEW p \in Pay, NameIntent(p) PROVE TypeOK'
  BY <1>21 DEF NameIntent, Overtake
<1>22. ASSUME NEW p \in Pay, PayFails(p) PROVE TypeOK'
  BY <1>22 DEF PayFails
<1>23. ASSUME NEW i \in Pay, ConfirmPayment(i) PROVE TypeOK'
  BY <1>23 DEF ConfirmPayment, Become
<1>24. ASSUME NEW i \in Pay, PaymentSucceeds(i) PROVE TypeOK'
  BY <1>24 DEF PaymentSucceeds, Become
<1>25. ASSUME NEW i \in Pay, PaymentDeclined(i) PROVE TypeOK'
  BY <1>25 DEF PaymentDeclined, Become
<1>26. ASSUME NEW i \in Pay, CancelIntent(i) PROVE TypeOK'
  BY <1>26 DEF CancelIntent, Become
<1>27. ASSUME NEW i \in Pay, RefundPayment(i) PROVE TypeOK'
  BY <1>27 DEF RefundPayment
<1>28. CASE UNCHANGED vars
  BY <1>28 DEF vars
<1> QED
  BY <1>1, <1>2, <1>3, <1>4, <1>5, <1>6, <1>7, <1>8, <1>9, <1>10, <1>11, <1>12,
        <1>13, <1>14, <1>15, <1>16, <1>17, <1>18, <1>19, <1>20, <1>21, <1>22, <1>23,
        <1>24, <1>25, <1>26, <1>27, <1>28 DEF Next, SyncNext, PayNext, StripeNext

\* At most one transaction holds the order row: only UpdateStatus opens one.
LEMMA LockStep ==
    ASSUME TypeOK, LockInv, [Next]_vars
    PROVE  LockInv'
<1> USE CallAssumption DEF Call, row, stripe, effects, syncLocal, history, Goto,
      TypeOK, LockInv, InTransaction, TransactionStage
<1>1. ASSUME NEW s \in Sync, GetOrder(s) PROVE LockInv'
  BY <1>1 DEF GetOrder, ReadRow
<1>2. ASSUME NEW s \in Sync, RetrieveIntent(s) PROVE LockInv'
  BY <1>2 DEF RetrieveIntent
<1>3. ASSUME NEW s \in Sync, UpdateStatus(s) PROVE LockInv'
  BY <1>3 DEF UpdateStatus, RowUnlocked
<1>4. ASSUME NEW s \in Sync, CreateInvoice(s) PROVE LockInv'
  BY <1>4 DEF CreateInvoice
<1>5. ASSUME NEW s \in Sync, RecordInvoice(s) PROVE LockInv'
  BY <1>5 DEF RecordInvoice
<1>6. ASSUME NEW s \in Sync, ReadItems(s) PROVE LockInv'
  BY <1>6 DEF ReadItems
<1>7. ASSUME NEW s \in Sync, NEW i \in Item, GenerateTicket(s, i) PROVE LockInv'
  BY <1>7 DEF GenerateTicket
<1>8. ASSUME NEW s \in Sync, SendTickets(s) PROVE LockInv'
  BY <1>8 DEF SendTickets
<1>9. ASSUME NEW s \in Sync, InvoiceError(s) PROVE LockInv'
  BY <1>9 DEF InvoiceError
<1>10. ASSUME NEW s \in Sync, CommitStatus(s) PROVE LockInv'
  BY <1>10 DEF CommitStatus, Overtake
<1>11. ASSUME NEW s \in Sync, Expire(s) PROVE LockInv'
  BY <1>11 DEF Expire
<1>12. ASSUME NEW s \in Sync, SyncFails(s) PROVE LockInv'
  BY <1>12 DEF SyncFails
<1>13. ASSUME NEW p \in Pay, PayRead(p) PROVE LockInv'
  BY <1>13 DEF PayRead, ReadRow
<1>14. ASSUME NEW p \in Pay, ReuseIntent(p) PROVE LockInv'
  BY <1>14 DEF ReuseIntent
<1>15. ASSUME NEW p \in Pay, ReuseFails(p) PROVE LockInv'
  BY <1>15 DEF ReuseFails
<1>16. ASSUME NEW p \in Pay, SearchIntents(p) PROVE LockInv'
  BY <1>16 DEF SearchIntents
<1>17. ASSUME NEW p \in Pay, LinkIntent(p) PROVE LockInv'
  BY <1>17 DEF LinkIntent, Overtake
<1>18. ASSUME NEW p \in Pay, SearchFails(p) PROVE LockInv'
  BY <1>18 DEF SearchFails
<1>19. ASSUME NEW p \in Pay, ResetStatus(p) PROVE LockInv'
  BY <1>19 DEF ResetStatus, Overtake
<1>20. ASSUME NEW p \in Pay, CreateIntent(p) PROVE LockInv'
  BY <1>20 DEF CreateIntent
<1>21. ASSUME NEW p \in Pay, NameIntent(p) PROVE LockInv'
  BY <1>21 DEF NameIntent, Overtake
<1>22. ASSUME NEW p \in Pay, PayFails(p) PROVE LockInv'
  BY <1>22 DEF PayFails
<1>23. ASSUME NEW i \in Pay, ConfirmPayment(i) PROVE LockInv'
  BY <1>23 DEF ConfirmPayment, Become
<1>24. ASSUME NEW i \in Pay, PaymentSucceeds(i) PROVE LockInv'
  BY <1>24 DEF PaymentSucceeds, Become
<1>25. ASSUME NEW i \in Pay, PaymentDeclined(i) PROVE LockInv'
  BY <1>25 DEF PaymentDeclined, Become
<1>26. ASSUME NEW i \in Pay, CancelIntent(i) PROVE LockInv'
  BY <1>26 DEF CancelIntent, Become
<1>27. ASSUME NEW i \in Pay, RefundPayment(i) PROVE LockInv'
  BY <1>27 DEF RefundPayment
<1>28. CASE UNCHANGED vars
  BY <1>28 DEF vars
<1> QED
  BY <1>1, <1>2, <1>3, <1>4, <1>5, <1>6, <1>7, <1>8, <1>9, <1>10, <1>11, <1>12,
        <1>13, <1>14, <1>15, <1>16, <1>17, <1>18, <1>19, <1>20, <1>21, <1>22, <1>23,
        <1>24, <1>25, <1>26, <1>27, <1>28 DEF Next, SyncNext, PayNext, StripeNext

\* What a getOrder call has read and computed is what its stage supposes.
LEMMA SyncStep ==
    ASSUME TypeOK, SyncInv, [Next]_vars
    PROVE  SyncInv'
<1> USE CallAssumption DEF Call, row, stripe, effects, syncLocal, history, Goto,
      TypeOK, SyncInv, SyncStage, TransactionStage, Snapshot, PaymentStatus
<1>1. ASSUME NEW s \in Sync, GetOrder(s) PROVE SyncInv'
  BY <1>1 DEF GetOrder, ReadRow
<1>2. ASSUME NEW s \in Sync, RetrieveIntent(s) PROVE SyncInv'
  BY <1>2 DEF RetrieveIntent, StatusOf, Open
<1>3. ASSUME NEW s \in Sync, UpdateStatus(s) PROVE SyncInv'
  BY <1>3 DEF UpdateStatus
<1>4. ASSUME NEW s \in Sync, CreateInvoice(s) PROVE SyncInv'
  BY <1>4 DEF CreateInvoice
<1>5. ASSUME NEW s \in Sync, RecordInvoice(s) PROVE SyncInv'
  BY <1>5 DEF RecordInvoice
<1>6. ASSUME NEW s \in Sync, ReadItems(s) PROVE SyncInv'
  BY <1>6 DEF ReadItems
<1>7. ASSUME NEW s \in Sync, NEW i \in Item, GenerateTicket(s, i) PROVE SyncInv'
  BY <1>7 DEF GenerateTicket
<1>8. ASSUME NEW s \in Sync, SendTickets(s) PROVE SyncInv'
  BY <1>8 DEF SendTickets
<1>9. ASSUME NEW s \in Sync, InvoiceError(s) PROVE SyncInv'
  BY <1>9 DEF InvoiceError
<1>10. ASSUME NEW s \in Sync, CommitStatus(s) PROVE SyncInv'
  BY <1>10 DEF CommitStatus, Overtake
<1>11. ASSUME NEW s \in Sync, Expire(s) PROVE SyncInv'
  BY <1>11 DEF Expire, InTransaction
<1>12. ASSUME NEW s \in Sync, SyncFails(s) PROVE SyncInv'
  BY <1>12 DEF SyncFails
<1>13. ASSUME NEW p \in Pay, PayRead(p) PROVE SyncInv'
  BY <1>13 DEF PayRead, ReadRow
<1>14. ASSUME NEW p \in Pay, ReuseIntent(p) PROVE SyncInv'
  BY <1>14 DEF ReuseIntent
<1>15. ASSUME NEW p \in Pay, ReuseFails(p) PROVE SyncInv'
  BY <1>15 DEF ReuseFails
<1>16. ASSUME NEW p \in Pay, SearchIntents(p) PROVE SyncInv'
  BY <1>16 DEF SearchIntents
<1>17. ASSUME NEW p \in Pay, LinkIntent(p) PROVE SyncInv'
  BY <1>17 DEF LinkIntent, Overtake
<1>18. ASSUME NEW p \in Pay, SearchFails(p) PROVE SyncInv'
  BY <1>18 DEF SearchFails
<1>19. ASSUME NEW p \in Pay, ResetStatus(p) PROVE SyncInv'
  BY <1>19 DEF ResetStatus, Overtake
<1>20. ASSUME NEW p \in Pay, CreateIntent(p) PROVE SyncInv'
  BY <1>20 DEF CreateIntent
<1>21. ASSUME NEW p \in Pay, NameIntent(p) PROVE SyncInv'
  BY <1>21 DEF NameIntent, Overtake
<1>22. ASSUME NEW p \in Pay, PayFails(p) PROVE SyncInv'
  BY <1>22 DEF PayFails
<1>23. ASSUME NEW i \in Pay, ConfirmPayment(i) PROVE SyncInv'
  BY <1>23 DEF ConfirmPayment, Become
<1>24. ASSUME NEW i \in Pay, PaymentSucceeds(i) PROVE SyncInv'
  BY <1>24 DEF PaymentSucceeds, Become
<1>25. ASSUME NEW i \in Pay, PaymentDeclined(i) PROVE SyncInv'
  BY <1>25 DEF PaymentDeclined, Become
<1>26. ASSUME NEW i \in Pay, CancelIntent(i) PROVE SyncInv'
  BY <1>26 DEF CancelIntent, Become
<1>27. ASSUME NEW i \in Pay, RefundPayment(i) PROVE SyncInv'
  BY <1>27 DEF RefundPayment
<1>28. CASE UNCHANGED vars
  BY <1>28 DEF vars
<1> QED
  BY <1>1, <1>2, <1>3, <1>4, <1>5, <1>6, <1>7, <1>8, <1>9, <1>10, <1>11, <1>12,
        <1>13, <1>14, <1>15, <1>16, <1>17, <1>18, <1>19, <1>20, <1>21, <1>22, <1>23,
        <1>24, <1>25, <1>26, <1>27, <1>28 DEF Next, SyncNext, PayNext, StripeNext

\* So is what a createPaymentIntent call has.
LEMMA PayStep ==
    ASSUME TypeOK, PayInv, [Next]_vars
    PROVE  PayInv'
<1> USE CallAssumption DEF Call, row, stripe, effects, syncLocal, history, Goto,
      TypeOK, PayInv, PayStage, Over, Snapshot
<1>1. ASSUME NEW s \in Sync, GetOrder(s) PROVE PayInv'
  BY <1>1 DEF GetOrder, ReadRow
<1>2. ASSUME NEW s \in Sync, RetrieveIntent(s) PROVE PayInv'
  BY <1>2 DEF RetrieveIntent
<1>3. ASSUME NEW s \in Sync, UpdateStatus(s) PROVE PayInv'
  BY <1>3 DEF UpdateStatus
<1>4. ASSUME NEW s \in Sync, CreateInvoice(s) PROVE PayInv'
  BY <1>4 DEF CreateInvoice
<1>5. ASSUME NEW s \in Sync, RecordInvoice(s) PROVE PayInv'
  BY <1>5 DEF RecordInvoice
<1>6. ASSUME NEW s \in Sync, ReadItems(s) PROVE PayInv'
  BY <1>6 DEF ReadItems
<1>7. ASSUME NEW s \in Sync, NEW i \in Item, GenerateTicket(s, i) PROVE PayInv'
  BY <1>7 DEF GenerateTicket
<1>8. ASSUME NEW s \in Sync, SendTickets(s) PROVE PayInv'
  BY <1>8 DEF SendTickets
<1>9. ASSUME NEW s \in Sync, InvoiceError(s) PROVE PayInv'
  BY <1>9 DEF InvoiceError
<1>10. ASSUME NEW s \in Sync, CommitStatus(s) PROVE PayInv'
  BY <1>10 DEF CommitStatus, Overtake
<1>11. ASSUME NEW s \in Sync, Expire(s) PROVE PayInv'
  BY <1>11 DEF Expire, InTransaction
<1>12. ASSUME NEW s \in Sync, SyncFails(s) PROVE PayInv'
  BY <1>12 DEF SyncFails
<1>13. ASSUME NEW p \in Pay, PayRead(p) PROVE PayInv'
  BY <1>13 DEF PayRead, ReadRow
<1>14. ASSUME NEW p \in Pay, ReuseIntent(p) PROVE PayInv'
  BY <1>14 DEF ReuseIntent
<1>15. ASSUME NEW p \in Pay, ReuseFails(p) PROVE PayInv'
  BY <1>15 DEF ReuseFails
<1>16. ASSUME NEW p \in Pay, SearchIntents(p) PROVE PayInv'
  BY <1>16 DEF SearchIntents, Created
<1>17. ASSUME NEW p \in Pay, LinkIntent(p) PROVE PayInv'
  BY <1>17 DEF LinkIntent, Overtake
<1>18. ASSUME NEW p \in Pay, SearchFails(p) PROVE PayInv'
  BY <1>18 DEF SearchFails
<1>19. ASSUME NEW p \in Pay, ResetStatus(p) PROVE PayInv'
  BY <1>19 DEF ResetStatus, Overtake
<1>20. ASSUME NEW p \in Pay, CreateIntent(p) PROVE PayInv'
  BY <1>20 DEF CreateIntent
<1>21. ASSUME NEW p \in Pay, NameIntent(p) PROVE PayInv'
  BY <1>21 DEF NameIntent, Overtake
<1>22. ASSUME NEW p \in Pay, PayFails(p) PROVE PayInv'
  BY <1>22 DEF PayFails
<1>23. ASSUME NEW i \in Pay, ConfirmPayment(i) PROVE PayInv'
  BY <1>23 DEF ConfirmPayment, Become
<1>24. ASSUME NEW i \in Pay, PaymentSucceeds(i) PROVE PayInv'
  BY <1>24 DEF PaymentSucceeds, Become
<1>25. ASSUME NEW i \in Pay, PaymentDeclined(i) PROVE PayInv'
  BY <1>25 DEF PaymentDeclined, Become
<1>26. ASSUME NEW i \in Pay, CancelIntent(i) PROVE PayInv'
  BY <1>26 DEF CancelIntent, Become
<1>27. ASSUME NEW i \in Pay, RefundPayment(i) PROVE PayInv'
  BY <1>27 DEF RefundPayment
<1>28. CASE UNCHANGED vars
  BY <1>28 DEF vars
<1> QED
  BY <1>1, <1>2, <1>3, <1>4, <1>5, <1>6, <1>7, <1>8, <1>9, <1>10, <1>11, <1>12,
        <1>13, <1>14, <1>15, <1>16, <1>17, <1>18, <1>19, <1>20, <1>21, <1>22, <1>23,
        <1>24, <1>25, <1>26, <1>27, <1>28 DEF Next, SyncNext, PayNext, StripeNext

\* Every action keeps the intents known: a secret is handed out by the step that names its intent
\* in the row, or by a call that has found it there.
LEMMA IntentStep ==
    ASSUME TypeOK, PayInv, IntentInv, [Next]_vars
    PROVE  IntentInv'
<1> USE CallAssumption DEF Call, row, stripe, effects, syncLocal, history, Goto,
      TypeOK, IntentInv, PayInv, PayStage, Over, Snapshot
<1>1. ASSUME NEW s \in Sync, GetOrder(s) PROVE IntentInv'
  BY <1>1 DEF GetOrder, ReadRow
<1>2. ASSUME NEW s \in Sync, RetrieveIntent(s) PROVE IntentInv'
  BY <1>2 DEF RetrieveIntent
<1>3. ASSUME NEW s \in Sync, UpdateStatus(s) PROVE IntentInv'
  BY <1>3 DEF UpdateStatus
<1>4. ASSUME NEW s \in Sync, CreateInvoice(s) PROVE IntentInv'
  BY <1>4 DEF CreateInvoice
<1>5. ASSUME NEW s \in Sync, RecordInvoice(s) PROVE IntentInv'
  BY <1>5 DEF RecordInvoice
<1>6. ASSUME NEW s \in Sync, ReadItems(s) PROVE IntentInv'
  BY <1>6 DEF ReadItems
<1>7. ASSUME NEW s \in Sync, NEW i \in Item, GenerateTicket(s, i) PROVE IntentInv'
  BY <1>7 DEF GenerateTicket
<1>8. ASSUME NEW s \in Sync, SendTickets(s) PROVE IntentInv'
  BY <1>8 DEF SendTickets
<1>9. ASSUME NEW s \in Sync, InvoiceError(s) PROVE IntentInv'
  BY <1>9 DEF InvoiceError
<1>10. ASSUME NEW s \in Sync, CommitStatus(s) PROVE IntentInv'
  BY <1>10 DEF CommitStatus, Overtake
<1>11. ASSUME NEW s \in Sync, Expire(s) PROVE IntentInv'
  BY <1>11 DEF Expire, InTransaction
<1>12. ASSUME NEW s \in Sync, SyncFails(s) PROVE IntentInv'
  BY <1>12 DEF SyncFails
<1>13. ASSUME NEW p \in Pay, PayRead(p) PROVE IntentInv'
  BY <1>13 DEF PayRead, ReadRow
<1>14. ASSUME NEW p \in Pay, ReuseIntent(p) PROVE IntentInv'
  BY <1>14 DEF ReuseIntent, Open
<1>15. ASSUME NEW p \in Pay, ReuseFails(p) PROVE IntentInv'
  BY <1>15 DEF ReuseFails
<1>16. ASSUME NEW p \in Pay, SearchIntents(p) PROVE IntentInv'
  BY <1>16 DEF SearchIntents, Created, Open
<1>17. ASSUME NEW p \in Pay, LinkIntent(p) PROVE IntentInv'
  BY <1>17 DEF LinkIntent, Overtake
<1>18. ASSUME NEW p \in Pay, SearchFails(p) PROVE IntentInv'
  BY <1>18 DEF SearchFails
<1>19. ASSUME NEW p \in Pay, ResetStatus(p) PROVE IntentInv'
  BY <1>19 DEF ResetStatus, Overtake
<1>20. ASSUME NEW p \in Pay, CreateIntent(p) PROVE IntentInv'
  BY <1>20 DEF CreateIntent
<1>21. ASSUME NEW p \in Pay, NameIntent(p) PROVE IntentInv'
  BY <1>21 DEF NameIntent, Overtake
<1>22. ASSUME NEW p \in Pay, PayFails(p) PROVE IntentInv'
  BY <1>22 DEF PayFails
<1>23. ASSUME NEW i \in Pay, ConfirmPayment(i) PROVE IntentInv'
  BY <1>23 DEF ConfirmPayment, Become
<1>24. ASSUME NEW i \in Pay, PaymentSucceeds(i) PROVE IntentInv'
  BY <1>24 DEF PaymentSucceeds, Become
<1>25. ASSUME NEW i \in Pay, PaymentDeclined(i) PROVE IntentInv'
  BY <1>25 DEF PaymentDeclined, Become
<1>26. ASSUME NEW i \in Pay, CancelIntent(i) PROVE IntentInv'
  BY <1>26 DEF CancelIntent, Become
<1>27. ASSUME NEW i \in Pay, RefundPayment(i) PROVE IntentInv'
  BY <1>27 DEF RefundPayment
<1>28. CASE UNCHANGED vars
  BY <1>28 DEF vars
<1> QED
  BY <1>1, <1>2, <1>3, <1>4, <1>5, <1>6, <1>7, <1>8, <1>9, <1>10, <1>11, <1>12,
        <1>13, <1>14, <1>15, <1>16, <1>17, <1>18, <1>19, <1>20, <1>21, <1>22, <1>23,
        <1>24, <1>25, <1>26, <1>27, <1>28 DEF Next, SyncNext, PayNext, StripeNext

\* No action of Stripe takes back the payment or the refund a call has found.
LEMMA AnswerStep ==
    ASSUME TypeOK, SyncInv, PayInv, AnswerInv, [Next]_vars
    PROVE  AnswerInv'
<1> USE CallAssumption DEF Call, row, stripe, effects, syncLocal, history, Goto,
      TypeOK, AnswerInv, SyncStage, TransactionStage
<1>1. ASSUME NEW s \in Sync, GetOrder(s) PROVE AnswerInv'
  BY <1>1 DEF GetOrder, ReadRow, SyncInv
<1>2. ASSUME NEW s \in Sync, RetrieveIntent(s) PROVE AnswerInv'
  BY <1>2 DEF RetrieveIntent, StatusOf, Open
<1>3. ASSUME NEW s \in Sync, UpdateStatus(s) PROVE AnswerInv'
  BY <1>3 DEF UpdateStatus
<1>4. ASSUME NEW s \in Sync, CreateInvoice(s) PROVE AnswerInv'
  BY <1>4 DEF CreateInvoice
<1>5. ASSUME NEW s \in Sync, RecordInvoice(s) PROVE AnswerInv'
  BY <1>5 DEF RecordInvoice
<1>6. ASSUME NEW s \in Sync, ReadItems(s) PROVE AnswerInv'
  BY <1>6 DEF ReadItems
<1>7. ASSUME NEW s \in Sync, NEW i \in Item, GenerateTicket(s, i) PROVE AnswerInv'
  BY <1>7 DEF GenerateTicket
<1>8. ASSUME NEW s \in Sync, SendTickets(s) PROVE AnswerInv'
  BY <1>8 DEF SendTickets
<1>9. ASSUME NEW s \in Sync, InvoiceError(s) PROVE AnswerInv'
  BY <1>9 DEF InvoiceError
<1>10. ASSUME NEW s \in Sync, CommitStatus(s) PROVE AnswerInv'
  BY <1>10 DEF CommitStatus, Overtake
<1>11. ASSUME NEW s \in Sync, Expire(s) PROVE AnswerInv'
  BY <1>11 DEF Expire, InTransaction
<1>12. ASSUME NEW s \in Sync, SyncFails(s) PROVE AnswerInv'
  BY <1>12 DEF SyncFails
<1>13. ASSUME NEW p \in Pay, PayRead(p) PROVE AnswerInv'
  BY <1>13 DEF PayRead, ReadRow
<1>14. ASSUME NEW p \in Pay, ReuseIntent(p) PROVE AnswerInv'
  BY <1>14 DEF ReuseIntent
<1>15. ASSUME NEW p \in Pay, ReuseFails(p) PROVE AnswerInv'
  BY <1>15 DEF ReuseFails
<1>16. ASSUME NEW p \in Pay, SearchIntents(p) PROVE AnswerInv'
  BY <1>16 DEF SearchIntents
<1>17. ASSUME NEW p \in Pay, LinkIntent(p) PROVE AnswerInv'
  BY <1>17 DEF LinkIntent, Overtake
<1>18. ASSUME NEW p \in Pay, SearchFails(p) PROVE AnswerInv'
  BY <1>18 DEF SearchFails
<1>19. ASSUME NEW p \in Pay, ResetStatus(p) PROVE AnswerInv'
  BY <1>19 DEF ResetStatus, Overtake
<1>20. ASSUME NEW p \in Pay, CreateIntent(p) PROVE AnswerInv'
  BY <1>20 DEF CreateIntent, PayInv, PayStage, SyncInv, Snapshot
<1>21. ASSUME NEW p \in Pay, NameIntent(p) PROVE AnswerInv'
  BY <1>21 DEF NameIntent, Overtake
<1>22. ASSUME NEW p \in Pay, PayFails(p) PROVE AnswerInv'
  BY <1>22 DEF PayFails
<1>23. ASSUME NEW i \in Pay, ConfirmPayment(i) PROVE AnswerInv'
  BY <1>23 DEF ConfirmPayment, Become
<1>24. ASSUME NEW i \in Pay, PaymentSucceeds(i) PROVE AnswerInv'
  BY <1>24 DEF PaymentSucceeds, Become
<1>25. ASSUME NEW i \in Pay, PaymentDeclined(i) PROVE AnswerInv'
  BY <1>25 DEF PaymentDeclined, Become
<1>26. ASSUME NEW i \in Pay, CancelIntent(i) PROVE AnswerInv'
  BY <1>26 DEF CancelIntent, Become
<1>27. ASSUME NEW i \in Pay, RefundPayment(i) PROVE AnswerInv'
  BY <1>27 DEF RefundPayment
<1>28. CASE UNCHANGED vars
  BY <1>28 DEF vars
<1> QED
  BY <1>1, <1>2, <1>3, <1>4, <1>5, <1>6, <1>7, <1>8, <1>9, <1>10, <1>11, <1>12,
        <1>13, <1>14, <1>15, <1>16, <1>17, <1>18, <1>19, <1>20, <1>21, <1>22, <1>23,
        <1>24, <1>25, <1>26, <1>27, <1>28 DEF Next, SyncNext, PayNext, StripeNext

\* Only CommitStatus writes PAID or REFUNDED, and it writes what Stripe answered.
LEMMA PaidStep ==
    ASSUME TypeOK, SyncInv, PayInv, AnswerInv, PaidForReal, [Next]_vars
    PROVE  PaidForReal'
<1> USE CallAssumption DEF Call, row, stripe, effects, syncLocal, history, Goto,
      TypeOK, PaidForReal
<1>1. ASSUME NEW s \in Sync, GetOrder(s) PROVE PaidForReal'
  BY <1>1 DEF GetOrder, ReadRow
<1>2. ASSUME NEW s \in Sync, RetrieveIntent(s) PROVE PaidForReal'
  BY <1>2 DEF RetrieveIntent
<1>3. ASSUME NEW s \in Sync, UpdateStatus(s) PROVE PaidForReal'
  BY <1>3 DEF UpdateStatus
<1>4. ASSUME NEW s \in Sync, CreateInvoice(s) PROVE PaidForReal'
  BY <1>4 DEF CreateInvoice
<1>5. ASSUME NEW s \in Sync, RecordInvoice(s) PROVE PaidForReal'
  BY <1>5 DEF RecordInvoice
<1>6. ASSUME NEW s \in Sync, ReadItems(s) PROVE PaidForReal'
  BY <1>6 DEF ReadItems
<1>7. ASSUME NEW s \in Sync, NEW i \in Item, GenerateTicket(s, i) PROVE PaidForReal'
  BY <1>7 DEF GenerateTicket
<1>8. ASSUME NEW s \in Sync, SendTickets(s) PROVE PaidForReal'
  BY <1>8 DEF SendTickets
<1>9. ASSUME NEW s \in Sync, InvoiceError(s) PROVE PaidForReal'
  BY <1>9 DEF InvoiceError
<1>10. ASSUME NEW s \in Sync, CommitStatus(s) PROVE PaidForReal'
  BY <1>10 DEF CommitStatus, Overtake, AnswerInv, SyncInv, SyncStage,
        TransactionStage, Snapshot
<1>11. ASSUME NEW s \in Sync, Expire(s) PROVE PaidForReal'
  BY <1>11 DEF Expire, InTransaction
<1>12. ASSUME NEW s \in Sync, SyncFails(s) PROVE PaidForReal'
  BY <1>12 DEF SyncFails
<1>13. ASSUME NEW p \in Pay, PayRead(p) PROVE PaidForReal'
  BY <1>13 DEF PayRead, ReadRow
<1>14. ASSUME NEW p \in Pay, ReuseIntent(p) PROVE PaidForReal'
  BY <1>14 DEF ReuseIntent
<1>15. ASSUME NEW p \in Pay, ReuseFails(p) PROVE PaidForReal'
  BY <1>15 DEF ReuseFails
<1>16. ASSUME NEW p \in Pay, SearchIntents(p) PROVE PaidForReal'
  BY <1>16 DEF SearchIntents
<1>17. ASSUME NEW p \in Pay, LinkIntent(p) PROVE PaidForReal'
  BY <1>17 DEF LinkIntent, Overtake
<1>18. ASSUME NEW p \in Pay, SearchFails(p) PROVE PaidForReal'
  BY <1>18 DEF SearchFails
<1>19. ASSUME NEW p \in Pay, ResetStatus(p) PROVE PaidForReal'
  BY <1>19 DEF ResetStatus, Overtake
<1>20. ASSUME NEW p \in Pay, CreateIntent(p) PROVE PaidForReal'
  BY <1>20 DEF CreateIntent, PayInv, PayStage
<1>21. ASSUME NEW p \in Pay, NameIntent(p) PROVE PaidForReal'
  BY <1>21 DEF NameIntent, Overtake
<1>22. ASSUME NEW p \in Pay, PayFails(p) PROVE PaidForReal'
  BY <1>22 DEF PayFails
<1>23. ASSUME NEW i \in Pay, ConfirmPayment(i) PROVE PaidForReal'
  BY <1>23 DEF ConfirmPayment, Become
<1>24. ASSUME NEW i \in Pay, PaymentSucceeds(i) PROVE PaidForReal'
  BY <1>24 DEF PaymentSucceeds, Become
<1>25. ASSUME NEW i \in Pay, PaymentDeclined(i) PROVE PaidForReal'
  BY <1>25 DEF PaymentDeclined, Become
<1>26. ASSUME NEW i \in Pay, CancelIntent(i) PROVE PaidForReal'
  BY <1>26 DEF CancelIntent, Become
<1>27. ASSUME NEW i \in Pay, RefundPayment(i) PROVE PaidForReal'
  BY <1>27 DEF RefundPayment
<1>28. CASE UNCHANGED vars
  BY <1>28 DEF vars
<1> QED
  BY <1>1, <1>2, <1>3, <1>4, <1>5, <1>6, <1>7, <1>8, <1>9, <1>10, <1>11, <1>12,
        <1>13, <1>14, <1>15, <1>16, <1>17, <1>18, <1>19, <1>20, <1>21, <1>22, <1>23,
        <1>24, <1>25, <1>26, <1>27, <1>28 DEF Next, SyncNext, PayNext, StripeNext

\* A call that reaches its commit without an invoiceError has left no item without
\* a key, and a key never becomes null again.
LEMMA KeyStep ==
    ASSUME TypeOK, SyncInv, KeyInv, PaidOrderHasTickets, [Next]_vars
    PROVE  (KeyInv /\ PaidOrderHasTickets)'
<1> USE CallAssumption DEF Call, row, stripe, effects, syncLocal, history, Goto,
      TypeOK, KeyInv, PaidOrderHasTickets
<1>1. ASSUME NEW s \in Sync, GetOrder(s) PROVE (KeyInv /\ PaidOrderHasTickets)'
  BY <1>1 DEF GetOrder, ReadRow
<1>2. ASSUME NEW s \in Sync, RetrieveIntent(s) PROVE (KeyInv /\ PaidOrderHasTickets)'
  BY <1>2 DEF RetrieveIntent
<1>3. ASSUME NEW s \in Sync, UpdateStatus(s) PROVE (KeyInv /\ PaidOrderHasTickets)'
  BY <1>3 DEF UpdateStatus, SyncInv
<1>4. ASSUME NEW s \in Sync, CreateInvoice(s) PROVE (KeyInv /\ PaidOrderHasTickets)'
  BY <1>4 DEF CreateInvoice
<1>5. ASSUME NEW s \in Sync, RecordInvoice(s) PROVE (KeyInv /\ PaidOrderHasTickets)'
  BY <1>5 DEF RecordInvoice
<1>6. ASSUME NEW s \in Sync, ReadItems(s) PROVE (KeyInv /\ PaidOrderHasTickets)'
  BY <1>6 DEF ReadItems
<1>7. ASSUME NEW s \in Sync, NEW i \in Item, GenerateTicket(s, i)
      PROVE  (KeyInv /\ PaidOrderHasTickets)'
  BY <1>7 DEF GenerateTicket
<1>8. ASSUME NEW s \in Sync, SendTickets(s) PROVE (KeyInv /\ PaidOrderHasTickets)'
  BY <1>8 DEF SendTickets, SyncInv
<1>9. ASSUME NEW s \in Sync, InvoiceError(s) PROVE (KeyInv /\ PaidOrderHasTickets)'
  BY <1>9 DEF InvoiceError
<1>10. ASSUME NEW s \in Sync, CommitStatus(s) PROVE (KeyInv /\ PaidOrderHasTickets)'
  BY <1>10 DEF CommitStatus, Overtake
<1>11. ASSUME NEW s \in Sync, Expire(s) PROVE (KeyInv /\ PaidOrderHasTickets)'
  BY <1>11 DEF Expire, InTransaction
<1>12. ASSUME NEW s \in Sync, SyncFails(s) PROVE (KeyInv /\ PaidOrderHasTickets)'
  BY <1>12 DEF SyncFails
<1>13. ASSUME NEW p \in Pay, PayRead(p) PROVE (KeyInv /\ PaidOrderHasTickets)'
  BY <1>13 DEF PayRead, ReadRow
<1>14. ASSUME NEW p \in Pay, ReuseIntent(p) PROVE (KeyInv /\ PaidOrderHasTickets)'
  BY <1>14 DEF ReuseIntent
<1>15. ASSUME NEW p \in Pay, ReuseFails(p) PROVE (KeyInv /\ PaidOrderHasTickets)'
  BY <1>15 DEF ReuseFails
<1>16. ASSUME NEW p \in Pay, SearchIntents(p) PROVE (KeyInv /\ PaidOrderHasTickets)'
  BY <1>16 DEF SearchIntents
<1>17. ASSUME NEW p \in Pay, LinkIntent(p) PROVE (KeyInv /\ PaidOrderHasTickets)'
  BY <1>17 DEF LinkIntent, Overtake
<1>18. ASSUME NEW p \in Pay, SearchFails(p) PROVE (KeyInv /\ PaidOrderHasTickets)'
  BY <1>18 DEF SearchFails
<1>19. ASSUME NEW p \in Pay, ResetStatus(p) PROVE (KeyInv /\ PaidOrderHasTickets)'
  BY <1>19 DEF ResetStatus, Overtake
<1>20. ASSUME NEW p \in Pay, CreateIntent(p) PROVE (KeyInv /\ PaidOrderHasTickets)'
  BY <1>20 DEF CreateIntent
<1>21. ASSUME NEW p \in Pay, NameIntent(p) PROVE (KeyInv /\ PaidOrderHasTickets)'
  BY <1>21 DEF NameIntent, Overtake
<1>22. ASSUME NEW p \in Pay, PayFails(p) PROVE (KeyInv /\ PaidOrderHasTickets)'
  BY <1>22 DEF PayFails
<1>23. ASSUME NEW i \in Pay, ConfirmPayment(i) PROVE (KeyInv /\ PaidOrderHasTickets)'
  BY <1>23 DEF ConfirmPayment, Become
<1>24. ASSUME NEW i \in Pay, PaymentSucceeds(i) PROVE (KeyInv /\ PaidOrderHasTickets)'
  BY <1>24 DEF PaymentSucceeds, Become
<1>25. ASSUME NEW i \in Pay, PaymentDeclined(i) PROVE (KeyInv /\ PaidOrderHasTickets)'
  BY <1>25 DEF PaymentDeclined, Become
<1>26. ASSUME NEW i \in Pay, CancelIntent(i) PROVE (KeyInv /\ PaidOrderHasTickets)'
  BY <1>26 DEF CancelIntent, Become
<1>27. ASSUME NEW i \in Pay, RefundPayment(i) PROVE (KeyInv /\ PaidOrderHasTickets)'
  BY <1>27 DEF RefundPayment
<1>28. CASE UNCHANGED vars
  BY <1>28 DEF vars
<1> QED
  BY <1>1, <1>2, <1>3, <1>4, <1>5, <1>6, <1>7, <1>8, <1>9, <1>10, <1>11, <1>12,
        <1>13, <1>14, <1>15, <1>16, <1>17, <1>18, <1>19, <1>20, <1>21, <1>22, <1>23,
        <1>24, <1>25, <1>26, <1>27, <1>28 DEF Next, SyncNext, PayNext, StripeNext

\* Keys are only issued under the lock of the order row.
LEMMA LinkStep ==
    ASSUME TypeOK, LockInv, SyncInv, LinkInv, MailedLinksWork, [Next]_vars
    PROVE  (LinkInv /\ MailedLinksWork)'
<1> USE CallAssumption DEF Call, row, stripe, effects, syncLocal, history, Goto,
      TypeOK, LinkInv, MailedLinksWork
<1>1. ASSUME NEW s \in Sync, GetOrder(s) PROVE (LinkInv /\ MailedLinksWork)'
  BY <1>1 DEF GetOrder, ReadRow
<1>2. ASSUME NEW s \in Sync, RetrieveIntent(s) PROVE (LinkInv /\ MailedLinksWork)'
  BY <1>2 DEF RetrieveIntent
<1>3. ASSUME NEW s \in Sync, UpdateStatus(s) PROVE (LinkInv /\ MailedLinksWork)'
  BY <1>3 DEF UpdateStatus
<1>4. ASSUME NEW s \in Sync, CreateInvoice(s) PROVE (LinkInv /\ MailedLinksWork)'
  BY <1>4 DEF CreateInvoice
<1>5. ASSUME NEW s \in Sync, RecordInvoice(s) PROVE (LinkInv /\ MailedLinksWork)'
  BY <1>5 DEF RecordInvoice
<1>6. ASSUME NEW s \in Sync, ReadItems(s) PROVE (LinkInv /\ MailedLinksWork)'
  BY <1>6 DEF ReadItems, SyncInv
<1>7. ASSUME NEW s \in Sync, NEW i \in Item, GenerateTicket(s, i)
      PROVE  (LinkInv /\ MailedLinksWork)'
  BY <1>7 DEF GenerateTicket, LockInv, InTransaction, TransactionStage
<1>8. ASSUME NEW s \in Sync, SendTickets(s) PROVE (LinkInv /\ MailedLinksWork)'
  BY <1>8 DEF SendTickets
<1>9. ASSUME NEW s \in Sync, InvoiceError(s) PROVE (LinkInv /\ MailedLinksWork)'
  BY <1>9 DEF InvoiceError
<1>10. ASSUME NEW s \in Sync, CommitStatus(s) PROVE (LinkInv /\ MailedLinksWork)'
  BY <1>10 DEF CommitStatus, Overtake
<1>11. ASSUME NEW s \in Sync, Expire(s) PROVE (LinkInv /\ MailedLinksWork)'
  BY <1>11 DEF Expire, InTransaction
<1>12. ASSUME NEW s \in Sync, SyncFails(s) PROVE (LinkInv /\ MailedLinksWork)'
  BY <1>12 DEF SyncFails
<1>13. ASSUME NEW p \in Pay, PayRead(p) PROVE (LinkInv /\ MailedLinksWork)'
  BY <1>13 DEF PayRead, ReadRow
<1>14. ASSUME NEW p \in Pay, ReuseIntent(p) PROVE (LinkInv /\ MailedLinksWork)'
  BY <1>14 DEF ReuseIntent
<1>15. ASSUME NEW p \in Pay, ReuseFails(p) PROVE (LinkInv /\ MailedLinksWork)'
  BY <1>15 DEF ReuseFails
<1>16. ASSUME NEW p \in Pay, SearchIntents(p) PROVE (LinkInv /\ MailedLinksWork)'
  BY <1>16 DEF SearchIntents
<1>17. ASSUME NEW p \in Pay, LinkIntent(p) PROVE (LinkInv /\ MailedLinksWork)'
  BY <1>17 DEF LinkIntent, Overtake
<1>18. ASSUME NEW p \in Pay, SearchFails(p) PROVE (LinkInv /\ MailedLinksWork)'
  BY <1>18 DEF SearchFails
<1>19. ASSUME NEW p \in Pay, ResetStatus(p) PROVE (LinkInv /\ MailedLinksWork)'
  BY <1>19 DEF ResetStatus, Overtake
<1>20. ASSUME NEW p \in Pay, CreateIntent(p) PROVE (LinkInv /\ MailedLinksWork)'
  BY <1>20 DEF CreateIntent
<1>21. ASSUME NEW p \in Pay, NameIntent(p) PROVE (LinkInv /\ MailedLinksWork)'
  BY <1>21 DEF NameIntent, Overtake
<1>22. ASSUME NEW p \in Pay, PayFails(p) PROVE (LinkInv /\ MailedLinksWork)'
  BY <1>22 DEF PayFails
<1>23. ASSUME NEW i \in Pay, ConfirmPayment(i) PROVE (LinkInv /\ MailedLinksWork)'
  BY <1>23 DEF ConfirmPayment, Become
<1>24. ASSUME NEW i \in Pay, PaymentSucceeds(i) PROVE (LinkInv /\ MailedLinksWork)'
  BY <1>24 DEF PaymentSucceeds, Become
<1>25. ASSUME NEW i \in Pay, PaymentDeclined(i) PROVE (LinkInv /\ MailedLinksWork)'
  BY <1>25 DEF PaymentDeclined, Become
<1>26. ASSUME NEW i \in Pay, CancelIntent(i) PROVE (LinkInv /\ MailedLinksWork)'
  BY <1>26 DEF CancelIntent, Become
<1>27. ASSUME NEW i \in Pay, RefundPayment(i) PROVE (LinkInv /\ MailedLinksWork)'
  BY <1>27 DEF RefundPayment
<1>28. CASE UNCHANGED vars
  BY <1>28 DEF vars
<1> QED
  BY <1>1, <1>2, <1>3, <1>4, <1>5, <1>6, <1>7, <1>8, <1>9, <1>10, <1>11, <1>12,
        <1>13, <1>14, <1>15, <1>16, <1>17, <1>18, <1>19, <1>20, <1>21, <1>22, <1>23,
        <1>24, <1>25, <1>26, <1>27, <1>28 DEF Next, SyncNext, PayNext, StripeNext

\* A write of the row makes every other call in progress an overtaken one.
LEMMA FreshStep ==
    ASSUME TypeOK, FreshInv, [Next]_vars
    PROVE  FreshInv'
<1> USE CallAssumption DEF Call, row, stripe, effects, syncLocal, history, Goto,
      TypeOK, FreshInv, SyncStage, TransactionStage, PayStage, Over
<1>1. ASSUME NEW s \in Sync, GetOrder(s) PROVE FreshInv'
  BY <1>1 DEF GetOrder, ReadRow
<1>2. ASSUME NEW s \in Sync, RetrieveIntent(s) PROVE FreshInv'
  BY <1>2 DEF RetrieveIntent
<1>3. ASSUME NEW s \in Sync, UpdateStatus(s) PROVE FreshInv'
  BY <1>3 DEF UpdateStatus
<1>4. ASSUME NEW s \in Sync, CreateInvoice(s) PROVE FreshInv'
  BY <1>4 DEF CreateInvoice
<1>5. ASSUME NEW s \in Sync, RecordInvoice(s) PROVE FreshInv'
  BY <1>5 DEF RecordInvoice
<1>6. ASSUME NEW s \in Sync, ReadItems(s) PROVE FreshInv'
  BY <1>6 DEF ReadItems
<1>7. ASSUME NEW s \in Sync, NEW i \in Item, GenerateTicket(s, i) PROVE FreshInv'
  BY <1>7 DEF GenerateTicket
<1>8. ASSUME NEW s \in Sync, SendTickets(s) PROVE FreshInv'
  BY <1>8 DEF SendTickets
<1>9. ASSUME NEW s \in Sync, InvoiceError(s) PROVE FreshInv'
  BY <1>9 DEF InvoiceError
<1>10. ASSUME NEW s \in Sync, CommitStatus(s) PROVE FreshInv'
  BY <1>10 DEF CommitStatus, Overtake
<1>11. ASSUME NEW s \in Sync, Expire(s) PROVE FreshInv'
  BY <1>11 DEF Expire, InTransaction
<1>12. ASSUME NEW s \in Sync, SyncFails(s) PROVE FreshInv'
  BY <1>12 DEF SyncFails
<1>13. ASSUME NEW p \in Pay, PayRead(p) PROVE FreshInv'
  BY <1>13 DEF PayRead, ReadRow
<1>14. ASSUME NEW p \in Pay, ReuseIntent(p) PROVE FreshInv'
  BY <1>14 DEF ReuseIntent
<1>15. ASSUME NEW p \in Pay, ReuseFails(p) PROVE FreshInv'
  BY <1>15 DEF ReuseFails
<1>16. ASSUME NEW p \in Pay, SearchIntents(p) PROVE FreshInv'
  BY <1>16 DEF SearchIntents
<1>17. ASSUME NEW p \in Pay, LinkIntent(p) PROVE FreshInv'
  BY <1>17 DEF LinkIntent, Overtake
<1>18. ASSUME NEW p \in Pay, SearchFails(p) PROVE FreshInv'
  BY <1>18 DEF SearchFails
<1>19. ASSUME NEW p \in Pay, ResetStatus(p) PROVE FreshInv'
  BY <1>19 DEF ResetStatus, Overtake
<1>20. ASSUME NEW p \in Pay, CreateIntent(p) PROVE FreshInv'
  BY <1>20 DEF CreateIntent
<1>21. ASSUME NEW p \in Pay, NameIntent(p) PROVE FreshInv'
  BY <1>21 DEF NameIntent, Overtake
<1>22. ASSUME NEW p \in Pay, PayFails(p) PROVE FreshInv'
  BY <1>22 DEF PayFails
<1>23. ASSUME NEW i \in Pay, ConfirmPayment(i) PROVE FreshInv'
  BY <1>23 DEF ConfirmPayment, Become
<1>24. ASSUME NEW i \in Pay, PaymentSucceeds(i) PROVE FreshInv'
  BY <1>24 DEF PaymentSucceeds, Become
<1>25. ASSUME NEW i \in Pay, PaymentDeclined(i) PROVE FreshInv'
  BY <1>25 DEF PaymentDeclined, Become
<1>26. ASSUME NEW i \in Pay, CancelIntent(i) PROVE FreshInv'
  BY <1>26 DEF CancelIntent, Become
<1>27. ASSUME NEW i \in Pay, RefundPayment(i) PROVE FreshInv'
  BY <1>27 DEF RefundPayment
<1>28. CASE UNCHANGED vars
  BY <1>28 DEF vars
<1> QED
  BY <1>1, <1>2, <1>3, <1>4, <1>5, <1>6, <1>7, <1>8, <1>9, <1>10, <1>11, <1>12,
        <1>13, <1>14, <1>15, <1>16, <1>17, <1>18, <1>19, <1>20, <1>21, <1>22, <1>23,
        <1>24, <1>25, <1>26, <1>27, <1>28 DEF Next, SyncNext, PayNext, StripeNext

\* While no update was lost, a call whose snapshot says PAID can only write REFUNDED.
LEMMA SettledStep ==
    ASSUME TypeOK, SyncInv, PayInv, AnswerInv, FreshInv, SettledInv, [Next]_vars
    PROVE  SettledInv'
<1> USE CallAssumption DEF Call, row, stripe, effects, syncLocal, history, Goto,
      TypeOK, SyncStage, TransactionStage
<1>1. ASSUME NEW s \in Sync, GetOrder(s) PROVE SettledInv'
  BY <1>1 DEF GetOrder, ReadRow, SettledInv
<1>2. ASSUME NEW s \in Sync, RetrieveIntent(s) PROVE SettledInv'
  BY <1>2 DEF RetrieveIntent, SettledInv, FreshInv, StatusOf, Open, PaymentStatus
<1>3. ASSUME NEW s \in Sync, UpdateStatus(s) PROVE SettledInv'
  BY <1>3 DEF UpdateStatus, SettledInv
<1>4. ASSUME NEW s \in Sync, CreateInvoice(s) PROVE SettledInv'
  BY <1>4 DEF CreateInvoice, SettledInv
<1>5. ASSUME NEW s \in Sync, RecordInvoice(s) PROVE SettledInv'
  BY <1>5 DEF RecordInvoice, SettledInv
<1>6. ASSUME NEW s \in Sync, ReadItems(s) PROVE SettledInv'
  BY <1>6 DEF ReadItems, SettledInv
<1>7. ASSUME NEW s \in Sync, NEW i \in Item, GenerateTicket(s, i) PROVE SettledInv'
  BY <1>7 DEF GenerateTicket, SettledInv
<1>8. ASSUME NEW s \in Sync, SendTickets(s) PROVE SettledInv'
  BY <1>8 DEF SendTickets, SettledInv
<1>9. ASSUME NEW s \in Sync, InvoiceError(s) PROVE SettledInv'
  BY <1>9 DEF InvoiceError, SettledInv
<1>10. ASSUME NEW s \in Sync, CommitStatus(s) PROVE SettledInv'
  <2> SUFFICES ASSUME ~lostUpdate' PROVE SettledInv'
    BY <1>10 DEF SettledInv
  <2>1. s \notin overtaken /\ ~lostUpdate
    BY <1>10 DEF CommitStatus, Overtake
  <2>2. pc[s] = "committing" /\ paymentIntentId = seen[s].paymentIntentId
    BY <1>10, <2>1 DEF CommitStatus, FreshInv
  <2>3. paymentStatus' = "PAID" =>
          paymentIntentId' # None /\ intent'[paymentIntentId'] = "succeeded"
    BY <1>10, <2>2 DEF CommitStatus, AnswerInv, SyncInv
  <2>4. \A t \in Sync \ overtaken' : pc'[t] \notin SyncStage
    BY <1>10 DEF CommitStatus, Overtake, Over
  <2> QED
    BY <2>3, <2>4 DEF SettledInv
<1>11. ASSUME NEW s \in Sync, Expire(s) PROVE SettledInv'
  BY <1>11 DEF Expire, InTransaction, SettledInv
<1>12. ASSUME NEW s \in Sync, SyncFails(s) PROVE SettledInv'
  BY <1>12 DEF SyncFails, SettledInv
<1>13. ASSUME NEW p \in Pay, PayRead(p) PROVE SettledInv'
  BY <1>13 DEF PayRead, ReadRow, SettledInv
<1>14. ASSUME NEW p \in Pay, ReuseIntent(p) PROVE SettledInv'
  BY <1>14 DEF ReuseIntent, SettledInv
<1>15. ASSUME NEW p \in Pay, ReuseFails(p) PROVE SettledInv'
  BY <1>15 DEF ReuseFails, SettledInv
<1>16. ASSUME NEW p \in Pay, SearchIntents(p) PROVE SettledInv'
  BY <1>16 DEF SearchIntents, SettledInv
<1>17. ASSUME NEW p \in Pay, LinkIntent(p) PROVE SettledInv'
  BY <1>17 DEF LinkIntent, Overtake, SettledInv, FreshInv, PayInv, PayStage
<1>18. ASSUME NEW p \in Pay, SearchFails(p) PROVE SettledInv'
  BY <1>18 DEF SearchFails, SettledInv
<1>19. ASSUME NEW p \in Pay, ResetStatus(p) PROVE SettledInv'
  BY <1>19 DEF ResetStatus, Overtake, SettledInv
<1>20. ASSUME NEW p \in Pay, CreateIntent(p) PROVE SettledInv'
  BY <1>20 DEF CreateIntent, SettledInv, PayInv, PayStage
<1>21. ASSUME NEW p \in Pay, NameIntent(p) PROVE SettledInv'
  BY <1>21 DEF NameIntent, Overtake, SettledInv, FreshInv, PayInv, PayStage
<1>22. ASSUME NEW p \in Pay, PayFails(p) PROVE SettledInv'
  BY <1>22 DEF PayFails, SettledInv
<1>23. ASSUME NEW i \in Pay, ConfirmPayment(i) PROVE SettledInv'
  BY <1>23 DEF ConfirmPayment, Become, SettledInv
<1>24. ASSUME NEW i \in Pay, PaymentSucceeds(i) PROVE SettledInv'
  BY <1>24 DEF PaymentSucceeds, Become, SettledInv
<1>25. ASSUME NEW i \in Pay, PaymentDeclined(i) PROVE SettledInv'
  BY <1>25 DEF PaymentDeclined, Become, SettledInv
<1>26. ASSUME NEW i \in Pay, CancelIntent(i) PROVE SettledInv'
  BY <1>26 DEF CancelIntent, Become, SettledInv
<1>27. ASSUME NEW i \in Pay, RefundPayment(i) PROVE SettledInv'
  BY <1>27 DEF RefundPayment, SettledInv
<1>28. CASE UNCHANGED vars
  BY <1>28 DEF vars, SettledInv
<1> QED
  BY <1>1, <1>2, <1>3, <1>4, <1>5, <1>6, <1>7, <1>8, <1>9, <1>10, <1>11, <1>12,
        <1>13, <1>14, <1>15, <1>16, <1>17, <1>18, <1>19, <1>20, <1>21, <1>22, <1>23,
        <1>24, <1>25, <1>26, <1>27, <1>28 DEF Next, SyncNext, PayNext, StripeNext

\* While no update was lost, the call that invoiced the order holds its row or has
\* left it PAID, and then no other call finds it otherwise.
LEMMA InvoiceStep ==
    ASSUME TypeOK, LockInv, SyncInv, PayInv, FreshInv, SettledInv, InvoiceInv, [Next]_vars
    PROVE  InvoiceInv'
<1> USE CallAssumption DEF Call, row, stripe, effects, syncLocal, history, Goto,
      TypeOK, SyncStage, TransactionStage
<1>1. ASSUME NEW s \in Sync, GetOrder(s) PROVE InvoiceInv'
  BY <1>1 DEF GetOrder, ReadRow, InvoiceInv, SoundInvoices, InTransaction, SyncInv
<1>2. ASSUME NEW s \in Sync, RetrieveIntent(s) PROVE InvoiceInv'
  BY <1>2 DEF RetrieveIntent, InvoiceInv, SoundInvoices, InTransaction, SyncInv
<1>3. ASSUME NEW s \in Sync, UpdateStatus(s) PROVE InvoiceInv'
  BY <1>3 DEF UpdateStatus, InvoiceInv, SoundInvoices, InTransaction, SyncInv
<1>4. ASSUME NEW s \in Sync, CreateInvoice(s) PROVE InvoiceInv'
  <2> SUFFICES ASSUME ~lostUpdate PROVE InvoiceInv'
    BY <1>4 DEF InvoiceInv, CreateInvoice
  <2>1. SoundInvoices' \subseteq SoundInvoices \cup {s}
    BY <1>4 DEF CreateInvoice, SoundInvoices
  <2>2. CASE s \in expired \cup invoiceFailed \cup overtaken
    <3>1. SoundInvoices' = SoundInvoices /\ s \notin SoundInvoices
      BY <1>4, <2>2 DEF CreateInvoice, SoundInvoices
    <3>2. \A t \in SoundInvoices : InTransaction(t) => InTransaction(t)'
      BY <1>4, <3>1 DEF CreateInvoice, InTransaction, SoundInvoices
    <3>3. \A t \in SoundInvoices : pc[t] = "done" => pc'[t] = "done"
      BY <1>4, <3>1 DEF CreateInvoice, SoundInvoices
    <3> QED
      BY <1>4, <3>1, <3>2, <3>3 DEF CreateInvoice, InvoiceInv
  <2>3. CASE s \notin expired \cup invoiceFailed \cup overtaken
    <3>1. paymentStatus = seen[s].paymentStatus /\ paymentStatus \notin {"PAID", "REFUNDED"}
      BY <1>4, <2>3 DEF CreateInvoice, FreshInv, SyncInv
    <3>2. \A t \in SoundInvoices : InTransaction(t)
      BY <3>1 DEF InvoiceInv
    <3>3. InTransaction(s) /\ InTransaction(s)'
      BY <1>4, <2>3 DEF CreateInvoice, InTransaction
    <3>4. SoundInvoices \subseteq {s}
      BY <3>2, <3>3 DEF LockInv, SoundInvoices
    <3> QED
      BY <2>1, <3>3, <3>4 DEF InvoiceInv
  <2> QED
    BY <2>2, <2>3
<1>5. ASSUME NEW s \in Sync, RecordInvoice(s) PROVE InvoiceInv'
  BY <1>5 DEF RecordInvoice, InvoiceInv, SoundInvoices, InTransaction
<1>6. ASSUME NEW s \in Sync, ReadItems(s) PROVE InvoiceInv'
  BY <1>6 DEF ReadItems, InvoiceInv, SoundInvoices, InTransaction
<1>7. ASSUME NEW s \in Sync, NEW i \in Item, GenerateTicket(s, i) PROVE InvoiceInv'
  BY <1>7 DEF GenerateTicket, InvoiceInv, SoundInvoices, InTransaction
<1>8. ASSUME NEW s \in Sync, SendTickets(s) PROVE InvoiceInv'
  BY <1>8 DEF SendTickets, InvoiceInv, SoundInvoices, InTransaction
<1>9. ASSUME NEW s \in Sync, InvoiceError(s) PROVE InvoiceInv'
  BY <1>9 DEF InvoiceError, InvoiceInv, SoundInvoices, InTransaction, SyncInv
<1>10. ASSUME NEW s \in Sync, CommitStatus(s) PROVE InvoiceInv'
  <2> SUFFICES ASSUME ~lostUpdate' PROVE InvoiceInv'
    BY <1>10 DEF InvoiceInv
  <2>1. s \notin overtaken /\ ~lostUpdate /\ overtaken \subseteq overtaken'
    BY <1>10 DEF CommitStatus, Overtake
  <2>2. SoundInvoices' \subseteq SoundInvoices
    BY <1>10, <2>1 DEF CommitStatus, SoundInvoices
  <2>3. ASSUME NEW t \in SoundInvoices'
        PROVE  pc'[t] = "done" /\ paymentStatus' \in {"PAID", "REFUNDED"}
    <3>1. t \in SoundInvoices /\ t \in Sync
      BY <2>2, <2>3 DEF SoundInvoices
    <3>2. CASE t = s
      BY <1>10, <3>1, <3>2 DEF CommitStatus, SyncInv, SoundInvoices
    <3>3. CASE t # s
      <4>1. InTransaction(s)
        BY <1>10 DEF CommitStatus, InTransaction
      <4>2. pc[t] = "done" /\ paymentStatus \in {"PAID", "REFUNDED"}
        BY <2>1, <3>1, <3>3, <4>1 DEF LockInv, InvoiceInv
      <4>3. seen[s].paymentStatus = "PAID"
        BY <1>10, <2>1, <4>2 DEF CommitStatus, FreshInv, SyncInv
      <4>4. newStatus[s] = "REFUNDED"
        BY <1>10, <2>1, <4>3 DEF CommitStatus, SettledInv
      <4> QED
        BY <1>10, <3>1, <3>3, <4>2, <4>4 DEF CommitStatus
    <3> QED
      BY <3>2, <3>3
  <2> QED
    BY <2>1, <2>2, <2>3 DEF InvoiceInv
<1>11. ASSUME NEW s \in Sync, Expire(s) PROVE InvoiceInv'
  BY <1>11 DEF Expire, InTransaction, InvoiceInv, SoundInvoices
<1>12. ASSUME NEW s \in Sync, SyncFails(s) PROVE InvoiceInv'
  BY <1>12 DEF SyncFails, InvoiceInv, SoundInvoices, InTransaction, SyncInv
<1>13. ASSUME NEW p \in Pay, PayRead(p) PROVE InvoiceInv'
  BY <1>13 DEF PayRead, ReadRow, InvoiceInv, SoundInvoices, InTransaction
<1>14. ASSUME NEW p \in Pay, ReuseIntent(p) PROVE InvoiceInv'
  BY <1>14 DEF ReuseIntent, InvoiceInv, SoundInvoices, InTransaction
<1>15. ASSUME NEW p \in Pay, ReuseFails(p) PROVE InvoiceInv'
  BY <1>15 DEF ReuseFails, InvoiceInv, SoundInvoices, InTransaction
<1>16. ASSUME NEW p \in Pay, SearchIntents(p) PROVE InvoiceInv'
  BY <1>16 DEF SearchIntents, InvoiceInv, SoundInvoices, InTransaction
<1>17. ASSUME NEW p \in Pay, LinkIntent(p) PROVE InvoiceInv'
  <2> SUFFICES ASSUME ~lostUpdate' PROVE InvoiceInv'
    BY <1>17 DEF InvoiceInv
  <2>1. p \notin overtaken /\ ~lostUpdate /\ overtaken \subseteq overtaken'
    BY <1>17 DEF LinkIntent, Overtake
  <2>2. paymentStatus \notin {"PAID", "REFUNDED"}
    BY <1>17, <2>1 DEF LinkIntent, FreshInv, PayInv, PayStage
  <2>3. SoundInvoices = {}
    BY <1>17, <2>1, <2>2 DEF LinkIntent, RowUnlocked, InvoiceInv, SoundInvoices
  <2>4. SoundInvoices' = {}
    BY <1>17, <2>1, <2>3 DEF LinkIntent, SoundInvoices
  <2> QED
    BY <2>4 DEF InvoiceInv
<1>18. ASSUME NEW p \in Pay, SearchFails(p) PROVE InvoiceInv'
  BY <1>18 DEF SearchFails, InvoiceInv, SoundInvoices, InTransaction
<1>19. ASSUME NEW p \in Pay, ResetStatus(p) PROVE InvoiceInv'
  <2> SUFFICES ASSUME ~lostUpdate' PROVE InvoiceInv'
    BY <1>19 DEF InvoiceInv
  <2>1. p \notin overtaken /\ ~lostUpdate /\ overtaken \subseteq overtaken'
    BY <1>19 DEF ResetStatus, Overtake
  <2>2. paymentStatus \notin {"PAID", "REFUNDED"}
    BY <1>19, <2>1 DEF ResetStatus, FreshInv, PayInv, PayStage
  <2>3. SoundInvoices = {}
    BY <1>19, <2>1, <2>2 DEF ResetStatus, RowUnlocked, InvoiceInv, SoundInvoices
  <2>4. SoundInvoices' = {}
    BY <1>19, <2>1, <2>3 DEF ResetStatus, SoundInvoices
  <2> QED
    BY <2>4 DEF InvoiceInv
<1>20. ASSUME NEW p \in Pay, CreateIntent(p) PROVE InvoiceInv'
  BY <1>20 DEF CreateIntent, InvoiceInv, SoundInvoices, InTransaction
<1>21. ASSUME NEW p \in Pay, NameIntent(p) PROVE InvoiceInv'
  BY <1>21 DEF NameIntent, Overtake, InvoiceInv, SoundInvoices, InTransaction,
        PayInv
<1>22. ASSUME NEW p \in Pay, PayFails(p) PROVE InvoiceInv'
  BY <1>22 DEF PayFails, InvoiceInv, SoundInvoices, InTransaction
<1>23. ASSUME NEW i \in Pay, ConfirmPayment(i) PROVE InvoiceInv'
  BY <1>23 DEF ConfirmPayment, Become, InvoiceInv, SoundInvoices, InTransaction
<1>24. ASSUME NEW i \in Pay, PaymentSucceeds(i) PROVE InvoiceInv'
  BY <1>24 DEF PaymentSucceeds, Become, InvoiceInv, SoundInvoices, InTransaction
<1>25. ASSUME NEW i \in Pay, PaymentDeclined(i) PROVE InvoiceInv'
  BY <1>25 DEF PaymentDeclined, Become, InvoiceInv, SoundInvoices, InTransaction
<1>26. ASSUME NEW i \in Pay, CancelIntent(i) PROVE InvoiceInv'
  BY <1>26 DEF CancelIntent, Become, InvoiceInv, SoundInvoices, InTransaction
<1>27. ASSUME NEW i \in Pay, RefundPayment(i) PROVE InvoiceInv'
  BY <1>27 DEF RefundPayment, InvoiceInv, SoundInvoices, InTransaction
<1>28. CASE UNCHANGED vars
  BY <1>28 DEF vars, InvoiceInv, SoundInvoices, InTransaction
<1> QED
  BY <1>1, <1>2, <1>3, <1>4, <1>5, <1>6, <1>7, <1>8, <1>9, <1>10, <1>11, <1>12,
        <1>13, <1>14, <1>15, <1>16, <1>17, <1>18, <1>19, <1>20, <1>21, <1>22, <1>23,
        <1>24, <1>25, <1>26, <1>27, <1>28 DEF Next, SyncNext, PayNext, StripeNext

-----------------------------------------------------------------------------
(* The inductive invariant *)

\* An order just created satisfies the invariant: no call has started.
LEMMA IInvInit == Init => IInv
<1> SUFFICES ASSUME Init PROVE IInv
  OBVIOUS
<1> USE CallAssumption DEF Init, Call
<1>1. TypeOK
  BY DEF TypeOK, PaymentStatus, IntentStatus
<1>2. \A c \in Call : pc[c] = "idle"
  OBVIOUS
<1>3. LockInv /\ FreshInv
  BY <1>2 DEF LockInv, InTransaction, TransactionStage, FreshInv, SyncStage, PayStage
<1>4. SyncInv /\ AnswerInv /\ KeyInv /\ LinkInv
  BY <1>2 DEF SyncInv, AnswerInv, KeyInv, LinkInv, SyncStage, TransactionStage
<1>5. PayInv /\ IntentInv
  BY <1>2 DEF PayInv, PayStage, IntentInv
<1>6. PaidForReal /\ PaidOrderHasTickets /\ MailedLinksWork
  BY DEF PaidForReal, PaidOrderHasTickets, MailedLinksWork
<1>7. SettledInv /\ InvoiceInv
  BY <1>2 DEF SettledInv, InvoiceInv, SoundInvoices, SyncStage, TransactionStage
<1> QED
  BY <1>1, <1>3, <1>4, <1>5, <1>6, <1>7 DEF IInv

\* Every step keeps all of it.
LEMMA IInvStep == IInv /\ [Next]_vars => IInv'
<1> SUFFICES ASSUME IInv, [Next]_vars PROVE IInv'
  OBVIOUS
<1> USE DEF IInv
<1>1. TypeOK' /\ LockInv' /\ SyncInv' /\ PayInv' /\ IntentInv'
  BY TypeStep, LockStep, SyncStep, PayStep, IntentStep
<1>2. AnswerInv' /\ PaidForReal'
  BY AnswerStep, PaidStep
<1>3. KeyInv' /\ PaidOrderHasTickets' /\ LinkInv' /\ MailedLinksWork'
  BY KeyStep, LinkStep
<1>4. FreshInv' /\ SettledInv' /\ InvoiceInv'
  BY FreshStep, SettledStep, InvoiceStep
<1> QED
  BY <1>1, <1>2, <1>3, <1>4

\* The inductive invariant holds in every reachable state of the payment of an order.
THEOREM Invariance == Spec => []IInv
<1>1. Init => IInv
  BY IInvInit
<1>2. IInv /\ [Next]_vars => IInv'
  BY IInvStep
<1> QED
  BY <1>1, <1>2, PTL DEF Spec

-----------------------------------------------------------------------------
(* The properties *)

\* The rows, what Stripe holds and what each call remembers keep their types.
THEOREM TypeCorrect == Spec => []TypeOK
<1>1. IInv => TypeOK
  BY DEF IInv
<1> QED
  BY Invariance, <1>1, PTL

\* updateOrderPaymentStatus never writes a payment or a refund that did not happen.
THEOREM PaymentsAreReal == Spec => []PaidForReal
<1>1. IInv => PaidForReal
  BY DEF IInv
<1> QED
  BY Invariance, <1>1, PTL

\* An order with one intent knows of every payment made with it: no secret leaves
\* createPaymentIntent before its intent is in the row, and none is forgotten.
THEOREM PaymentsOnRecord == Spec => []PaymentOnRecord
<1>1. ASSUME IInv PROVE PaymentOnRecord
  <2> SUFFICES ASSUME NEW i \in Pay, intent[i] \in {"processing", "succeeded"},
                      \A j \in Pay \ {i} : intent[j] = "absent"
               PROVE  paymentIntentId = i
    BY DEF PaymentOnRecord
  <2>1. paymentIntentId # None /\ intent[paymentIntentId] # "absent"
    BY <1>1 DEF IInv, IntentInv
  <2> QED
    BY <1>1, <2>1 DEF IInv, TypeOK
<1> QED
  BY Invariance, <1>1, PTL

\* Whatever the interleaving and the rollbacks, a PAID order has the ticket files of
\* all its items, unless generateAndSendTickets or the invoice failed.
THEOREM PaidOrdersHaveTickets == Spec => []PaidOrderHasTickets
<1>1. IInv => PaidOrderHasTickets
  BY DEF IInv
<1> QED
  BY Invariance, <1>1, PTL

\* The keys that a confirmation mail links to are the keys of the items, as long as
\* no transaction was rolled back under the call that mails them.
THEOREM MailedLinksStayValid == Spec => []MailedLinksWork
<1>1. IInv => MailedLinksWork
  BY DEF IInv
<1> QED
  BY Invariance, <1>1, PTL

\* Without a lost update, no two calls that ran undisturbed invoice the order.
THEOREM OneInvoicePerOrder == Spec => []InvoicedOnce
<1>1. ASSUME IInv PROVE InvoicedOnce
  <2>1. CASE lostUpdate
    BY <2>1 DEF InvoicedOnce
  <2>2. CASE ~lostUpdate
    <3>1. SoundInvoices = {} \/ \E s \in SoundInvoices : SoundInvoices = {s}
      BY <1>1, <2>2 DEF IInv, InvoiceInv
    <3>2. Cardinality(SoundInvoices) \in {0, 1}
      BY <3>1, FS_EmptySet, FS_Singleton
    <3> QED
      BY <3>2 DEF InvoicedOnce
  <2> QED
    BY <2>1, <2>2
<1> QED
  BY Invariance, <1>1, PTL

\* Without a lost update, PAID is only left for REFUNDED, and REFUNDED never: the
\* writers of paymentStatus are CommitStatus, LinkIntent and ResetStatus, and each
\* writes over the row it read.
LEMMA SettledStepwise ==
    ASSUME IInv, [Next]_vars, ~lostUpdate'
    PROVE  /\ paymentStatus = "PAID" => paymentStatus' \in {"PAID", "REFUNDED"}
           /\ paymentStatus = "REFUNDED" => paymentStatus' = "REFUNDED"
<1> DEFINE Kept == /\ paymentStatus = "PAID" => paymentStatus' \in {"PAID", "REFUNDED"}
                   /\ paymentStatus = "REFUNDED" => paymentStatus' = "REFUNDED"
<1> USE CallAssumption DEF Call, row, stripe
<1>1. ASSUME NEW s \in Sync, CommitStatus(s) PROVE Kept
  <2>1. s \notin overtaken /\ ~lostUpdate
    BY <1>1 DEF CommitStatus, Overtake
  <2>2. /\ paymentStatus = seen[s].paymentStatus
        /\ paymentStatus # "REFUNDED"
    BY <1>1, <2>1 DEF CommitStatus, IInv, FreshInv, SyncInv, SyncStage, TransactionStage
  <2>3. paymentStatus = "PAID" => newStatus[s] = "REFUNDED"
    BY <1>1, <2>1, <2>2 DEF CommitStatus, IInv, SettledInv, SyncStage, TransactionStage
  <2> QED
    BY <1>1, <2>2, <2>3 DEF CommitStatus
<1>2. ASSUME NEW p \in Pay, LinkIntent(p) \/ ResetStatus(p) PROVE Kept
  <2>1. p \notin overtaken /\ pc[p] \in {"linking", "resetting"}
    BY <1>2 DEF LinkIntent, ResetStatus, Overtake
  <2>2. paymentStatus = seen[p].paymentStatus /\ seen[p].paymentStatus \notin {"PAID", "REFUNDED"}
    BY <2>1 DEF IInv, FreshInv, PayInv, PayStage
  <2> QED
    BY <2>2
<1>3. ASSUME NEW s \in Sync, SyncNext(s), ~CommitStatus(s) PROVE UNCHANGED paymentStatus
  BY <1>3 DEF SyncNext, GetOrder, RetrieveIntent, UpdateStatus, CreateInvoice, RecordInvoice,
        ReadItems, GenerateTicket, SendTickets, InvoiceError, Expire, SyncFails
<1>4. ASSUME NEW p \in Pay, PayNext(p), ~LinkIntent(p), ~ResetStatus(p)
      PROVE  UNCHANGED paymentStatus
  BY <1>4 DEF PayNext, PayRead, ReuseIntent, ReuseFails, SearchIntents, SearchFails,
        CreateIntent, NameIntent, PayFails
<1>5. ASSUME NEW p \in Pay, StripeNext(p) PROVE UNCHANGED paymentStatus
  BY <1>5 DEF StripeNext, ConfirmPayment, PaymentSucceeds, PaymentDeclined, CancelIntent,
        RefundPayment, Become
<1>6. CASE UNCHANGED vars
  BY <1>6 DEF vars
<1> QED
  BY <1>1, <1>2, <1>3, <1>4, <1>5, <1>6 DEF Next

\* A paid order stays paid until it is refunded, a refunded one refunded.
THEOREM SettledOrdersStaySettled == Spec => SettledStaysSettled
<1>1. IInv /\ [Next]_vars =>
        [~lostUpdate' =>
            /\ paymentStatus = "PAID" => paymentStatus' \in {"PAID", "REFUNDED"}
            /\ paymentStatus = "REFUNDED" => paymentStatus' = "REFUNDED"]_vars
  BY SettledStepwise
<1> QED
  BY Invariance, <1>1, PTL DEF Spec, SettledStaysSettled
=============================================================================
