-------------------------- MODULE ProcessingProofs --------------------------
(***************************************************************************)
(* Proofs about Processing for any sets of orders and notes and any number *)
(* of crashes, failed passes, skipped updates and fee changes: the saved   *)
(* snapshot never holds an open swap, an LP note is in the curve at most   *)
(* once, the LP ledger counts exactly the marked notes, and the outcome of *)
(* a pending swap is never lost.                                           *)
(***************************************************************************)
EXTENDS Processing, SequenceTheorems, TLAPS

(***************************************************************************)
(* The inductive invariant.                                                *)
(***************************************************************************)

\* Where an order is determines what is known about it: announced outcomes
\* are final, and only claimed orders are being quoted.
Stages ==
  /\ quoting \cap quoted = {}
  /\ \A o \in quoting \cup quoted : status[o] = "processing_claimed"
  /\ \A b \in inFlight : \A o \in b : status[o] \in {"batched"} \cup Terminal
  /\ \A b \in rows : \A o \in b : status[o] \in Terminal
  /\ \A o \in telling : status[o] \in Terminal
  /\ \A i \in 1..Len(orderCh) : status[orderCh[i].order] \in Terminal

\* LP notes are visited only while no swap is pending, and the three records
\* of an applied note appear in the order marker, ledger, journal.
Phases ==
  /\ (due # {} \/ phase # "running") =>
       pending = {} /\ quoting = {} /\ quoted = {}
  /\ acked \subseteq marked
  /\ due \subseteq arrived
  /\ phase # "down" => ledger = marked

\* What a copy of the curve may contain, given the statuses st, the pending
\* swaps pe and the marked notes ma.
SoundIn(c, st, pe, ma) ==
  /\ \A o \in Orders : c[o] # 0 => st[o] \in Terminal \/ o \in pe
  /\ \A n \in Notes : c[n] \in {0, 1} /\ (c[n] = 1 => n \in ma)

CurvesSound ==
  /\ SoundIn(pool, status, pending, marked)
  /\ \A i \in 1..Len(poolCh) : SoundIn(poolCh[i], status, pending, marked)
  /\ SoundIn(snapshot, status, {}, marked)

IInv == TypeOK /\ Stages /\ Phases /\ CurvesSound

-----------------------------------------------------------------------------
\* Sending on a channel appends, receiving takes the first.
LEMMA Channel ==
  ASSUME NEW T, NEW s \in Seq(T)
  PROVE  /\ \A e \in T : /\ Append(s, e) \in Seq(T)
                         /\ Len(Append(s, e)) = Len(s) + 1
                         /\ \A i \in 1..Len(s) : Append(s, e)[i] = s[i]
                         /\ Append(s, e)[Len(s) + 1] = e
         /\ s # <<>> => /\ Head(s) \in T /\ Head(s) = s[1]
                        /\ Tail(s) \in Seq(T)
                        /\ Len(s) \in Nat \ {0}
                        /\ Len(Tail(s)) = Len(s) - 1
                        /\ \A i \in 1..Len(Tail(s)) : Tail(s)[i] = s[i + 1]
  <1>1. \A e \in T : /\ Append(s, e) \in Seq(T)
                     /\ Len(Append(s, e)) = Len(s) + 1
                     /\ \A i \in 1..Len(s) : Append(s, e)[i] = s[i]
                     /\ Append(s, e)[Len(s) + 1] = e
    BY AppendProperties
  <1>2. s # <<>> => /\ Head(s) \in T /\ Head(s) = s[1]
                    /\ Tail(s) \in Seq(T)
                    /\ Len(s) \in Nat \ {0}
                    /\ Len(Tail(s)) = Len(s) - 1
                    /\ \A i \in 1..Len(Tail(s)) : Tail(s)[i] = s[i + 1]
    BY HeadTailProperties, LenProperties, EmptySeq
  <1> QED
    BY <1>1, <1>2

\* Adding a delta to a curve, and the configured pools, are curves.
LEMMA CurveFacts ==
  /\ Configured \in Curves
  /\ \A c \in Curves, x \in Items, k \in Int : Plus(c, x, k) \in Curves
  BY DEF Configured, Curves, Plus

\* What a delta changes: the count of its own item.
LEMMA PlusApplied ==
  ASSUME NEW c \in Curves, NEW x \in Items, NEW k \in Int
  PROVE  \A y \in Items : Plus(c, x, k)[y] = IF y = x THEN c[x] + k ELSE c[y]
  BY DEF Curves, Plus

\* Every step keeps the type invariant.
LEMMA TypeStep ==
  ASSUME TypeOK, Stages, Phases, [Next]_vars
  PROVE  TypeOK'
  <1> USE DEF TypeOK, storeVars, lpVars, snapVars, memVars, passVars, chVars,
    obsVars
  <1>1. ASSUME NEW S \in SUBSET Orders, StartBatch(S) PROVE TypeOK'
    BY <1>1 DEF StartBatch, AtSelect, Statuses
  <1>2. ASSUME NEW o \in Orders, RejectOrder(o) PROVE TypeOK'
    BY <1>2, Channel DEF RejectOrder, Statuses, Terminal, Updates
  <1>3. ASSUME NEW o \in Orders, QuoteOrder(o) PROVE TypeOK'
    BY <1>3, CurveFacts DEF QuoteOrder, Items
  <1>4. CASE HandOff
    BY <1>4 DEF HandOff, Statuses
  <1>5. CASE PassFails
    BY <1>5 DEF PassFails
  <1>6. ASSUME NEW o \in Orders, Expire(o) PROVE TypeOK'
    BY <1>6, Channel DEF Expire, Statuses, Terminal, Updates
  <1>7. ASSUME NEW b \in SUBSET Orders, NEW C \in SUBSET Orders, Settle(b, C)
    PROVE TypeOK'
    BY <1>7 DEF Settle, Statuses
  <1>8. ASSUME NEW b \in SUBSET Orders, Announce(b) PROVE TypeOK'
    BY <1>8 DEF Announce
  <1>9. ASSUME NEW o \in Orders, Tell(o) PROVE TypeOK'
    <2>1. [kind |-> status[o], order |-> o] \in Updates
      BY <1>9 DEF Tell, Updates, Stages
    <2>2. orderCh' \in Seq(Updates)
      BY <1>9, <2>1, Channel DEF Tell
    <2>3. ammCh' \in Seq(AmmEvents)
      <3>1. <<"OrdersExecuted">> \in Seq(AmmEvents) /\ <<"BatchFailed",
        "OrdersExecuted">> \in Seq(AmmEvents)
        BY DEF AmmEvents
      <3>2. \A s \in Seq(AmmEvents) : ammCh \o s \in Seq(AmmEvents)
        BY ConcatProperties
      <3> QED
        BY <1>9, <3>1, <3>2 DEF Tell
    <2> QED
      BY <1>9, <2>2, <2>3 DEF Tell
  <1>10. CASE MarkDelivered
    BY <1>10 DEF MarkDelivered
  <1>11. CASE OnConfirmed
    <2> DEFINE o == Head(orderCh).order
    <2>1. Head(orderCh) \in Updates /\ orderCh' \in Seq(Updates)
      BY <1>11, Channel DEF OnConfirmed
    <2>2. pool' \in Curves
      BY <1>11, <2>1, CurveFacts DEF OnConfirmed, Restored, Items, Updates
    <2>3. Append(poolCh, pool') \in Seq(Curves)
      BY <2>2, Channel
    <2>4. poolCh' \in Seq(Curves) /\ snapshot' \in Curves /\ saved' \in BOOLEAN
      BY <1>11, <2>2, <2>3 DEF OnConfirmed, PersistFinalIfReady
    <2>5. pending' \subseteq Orders /\ due' \subseteq Notes /\ lpDue' \in
      BOOLEAN
      BY <1>11 DEF OnConfirmed, RetryLpRecovery
    <2> QED
      BY <1>11, <2>1, <2>2, <2>4, <2>5 DEF OnConfirmed
  <1>12. CASE OnFailed
    <2> DEFINE o == Head(orderCh).order
    <2>1. Head(orderCh) \in Updates /\ orderCh' \in Seq(Updates)
      BY <1>12, Channel DEF OnFailed
    <2>2. pool' \in Curves
      BY <1>12, <2>1, CurveFacts DEF OnFailed, RolledBack, Items, Updates
    <2>3. Append(poolCh, pool') \in Seq(Curves)
      BY <2>2, Channel
    <2>4. poolCh' \in Seq(Curves) /\ snapshot' \in Curves /\ saved' \in BOOLEAN
      BY <1>12, <2>2, <2>3 DEF OnFailed, PersistFinalIfReady
    <2>5. pending' \subseteq Orders /\ due' \subseteq Notes /\ lpDue' \in
      BOOLEAN
      BY <1>12 DEF OnFailed, RetryLpRecovery
    <2> QED
      BY <1>12, <2>1, <2>2, <2>4, <2>5 DEF OnFailed
  <1>13. CASE OnOtherUpdate
    BY <1>13 DEF OnOtherUpdate, AtSelect, PersistFinalIfReady, RetryLpRecovery
  <1>14. CASE OrdersLagged
    BY <1>14, Channel DEF OrdersLagged, AtSelect
  <1>15. CASE OnPoolState
    BY <1>15, CurveFacts, Channel DEF OnPoolState, AtSelect, RetryLpRecovery
  <1>16. CASE OnBatchFailed
    BY <1>16, CurveFacts, Channel DEF OnBatchFailed, Reloaded,
       AtSelect, RetryLpRecovery
  <1>17. CASE OnOrdersExecuted
    BY <1>17, Channel DEF OnOrdersExecuted, AtSelect, PersistFinalIfReady,
      RetryLpRecovery
  <1>18. CASE OnFeeState
    BY <1>18, Channel DEF OnFeeState, AtSelect, RetryLpRecovery
  <1>19. CASE OnLpChain
    BY <1>19 DEF OnLpChain, AtSelect, RetryLpRecovery
  <1>20. ASSUME NEW n \in Notes, LpNoteConfirmed(n) PROVE TypeOK'
    BY <1>20 DEF LpNoteConfirmed
  <1>21. ASSUME NEW n \in Notes, ApplyLpNote(n) PROVE TypeOK'
    <2>1. pool' \in Curves
      BY <1>21, CurveFacts DEF ApplyLpNote, Items
    <2>2. Append(poolCh, pool') \in Seq(Curves)
      BY <2>1, Channel
    <2>3. n \in arrived /\ ledger' \subseteq Notes
      BY <1>21 DEF ApplyLpNote, Visiting, Phases
    <2> QED
      BY <1>21, <2>1, <2>2, <2>3 DEF ApplyLpNote
  <1>22. ASSUME NEW n \in Notes, AckLpNote(n) PROVE TypeOK'
    BY <1>22 DEF AckLpNote, Visiting
  <1>23. ASSUME NEW n \in Notes, LpNoteRefused(n) PROVE TypeOK'
    BY <1>23, CurveFacts DEF LpNoteRefused, Visiting
  <1>24. CASE Crash
    BY <1>24, CurveFacts, EmptySeq DEF Crash
  <1>25. CASE Restart
    BY <1>25, CurveFacts DEF Restart
  <1>26. CASE Serve
    BY <1>26 DEF Serve
  <1>27. CASE UNCHANGED vars
    BY <1>27 DEF vars
  <1> QED
    BY <1>1, <1>2, <1>3, <1>4, <1>5, <1>6, <1>7, <1>8, <1>9, <1>10, <1>11,
      <1>12, <1>13, <1>14, <1>15, <1>16, <1>17, <1>18, <1>19, <1>20, <1>21,
      <1>22, <1>23, <1>24, <1>25, <1>26, <1>27
       DEF Next, PassStep, LpStep, ObserverStep

\* No step takes back a reported outcome.
Outcomes == \A o \in Orders : status[o] \in Terminal => status'[o] \in Terminal

\* The updates in the channel are about orders.
LEMMA UpdateOrders ==
  ASSUME TypeOK
  PROVE  \A i \in 1..Len(orderCh) : orderCh[i].order \in Orders
  <1>1. \A i \in 1..Len(orderCh) : orderCh[i] \in Updates
    BY ElementOfSeq DEF TypeOK
  <1> QED
    BY <1>1 DEF Updates

\* What is in a channel after a send: what was there, and the message.
LEMMA Sent ==
  ASSUME NEW T, NEW s \in Seq(T), NEW e \in T
  PROVE  \A i \in 1..Len(Append(s, e)) :
           Append(s, e)[i] = e \/ (i \in 1..Len(s) /\ Append(s, e)[i] = s[i])
  <1>1. Len(s) \in Nat
    BY LenProperties
  <1>2. /\ Len(Append(s, e)) = Len(s) + 1
        /\ \A i \in 1..Len(s) : Append(s, e)[i] = s[i]
        /\ Append(s, e)[Len(s) + 1] = e
    BY Channel
  <1> QED
    BY <1>1, <1>2

\* Every step keeps the stages and the outcomes.
LEMMA StagesStep ==
  ASSUME TypeOK, Stages, [Next]_vars
  PROVE  Stages' /\ Outcomes
  <1> USE DEF storeVars, lpVars, snapVars, memVars, passVars, chVars, obsVars
  <1>1. ASSUME NEW S \in SUBSET Orders, StartBatch(S) PROVE Stages' /\ Outcomes
    BY <1>1, UpdateOrders DEF StartBatch, AtSelect, Stages, Outcomes,
      Terminal, TypeOK, Updates
  <1>2. ASSUME NEW o \in Orders, RejectOrder(o) PROVE Stages' /\ Outcomes
    <2> DEFINE u == [kind |-> "failed", order |-> o]
    <2>1. u \in Updates /\ u.order = o /\ status'[o] \in Terminal
      BY <1>2 DEF RejectOrder, Updates, Terminal, TypeOK, Stages
    <2>2. orderCh' = Append(orderCh, u) /\ orderCh \in Seq(Updates)
      BY <1>2 DEF RejectOrder, TypeOK
    <2>3. \A i \in 1..Len(orderCh') : orderCh'[i] = u \/ (i \in
      1..Len(orderCh) /\ orderCh'[i] = orderCh[i])
      BY <2>1, <2>2, Sent
    <2>4. Outcomes
      BY <1>2 DEF RejectOrder, TypeOK, Terminal, Outcomes
    <2> HIDE DEF u
    <2>5. \A i \in 1..Len(orderCh') : status'[orderCh'[i].order] \in Terminal
      BY <2>1, <2>3, <2>4, UpdateOrders DEF Stages, Outcomes
    <2>6. \A p \in Orders : p # o => status'[p] = status[p]
      BY <1>2 DEF RejectOrder, TypeOK
    <2> QED
      BY <1>2, <2>1, <2>4, <2>5, <2>6 DEF RejectOrder, Stages, Outcomes, TypeOK
  <1>3. ASSUME NEW o \in Orders, QuoteOrder(o) PROVE Stages' /\ Outcomes
    BY <1>3 DEF QuoteOrder, Stages, Outcomes, Terminal, TypeOK, Updates
  <1>4. CASE HandOff
    BY <1>4, UpdateOrders DEF HandOff, Stages, Outcomes, Terminal, TypeOK,
      Updates
  <1>5. CASE PassFails
    BY <1>5 DEF PassFails, Stages, Outcomes
  <1>6. ASSUME NEW o \in Orders, Expire(o) PROVE Stages' /\ Outcomes
    <2> DEFINE u == [kind |-> "failed", order |-> o]
    <2>1. u \in Updates /\ u.order = o /\ status'[o] \in Terminal
      BY <1>6 DEF Expire, Updates, Terminal, TypeOK, Stages
    <2>2. orderCh' = Append(orderCh, u) /\ orderCh \in Seq(Updates)
      BY <1>6 DEF Expire, TypeOK
    <2>3. \A i \in 1..Len(orderCh') : orderCh'[i] = u \/ (i \in
      1..Len(orderCh) /\ orderCh'[i] = orderCh[i])
      BY <2>1, <2>2, Sent
    <2>4. Outcomes
      BY <1>6 DEF Expire, TypeOK, Terminal, Outcomes
    <2> HIDE DEF u
    <2>5. \A i \in 1..Len(orderCh') : status'[orderCh'[i].order] \in Terminal
      BY <2>1, <2>3, <2>4, UpdateOrders DEF Stages, Outcomes
    <2>6. \A p \in Orders : p # o => status'[p] = status[p]
      BY <1>6 DEF Expire, TypeOK
    <2> QED
      BY <1>6, <2>1, <2>4, <2>5, <2>6 DEF Expire, Stages, Outcomes, TypeOK
  <1>7. ASSUME NEW b \in SUBSET Orders, NEW C \in SUBSET Orders, Settle(b, C)
    PROVE Stages' /\ Outcomes
    BY <1>7, UpdateOrders DEF Settle, Stages, Outcomes, Terminal, TypeOK,
      Updates
  <1>8. ASSUME NEW b \in SUBSET Orders, Announce(b) PROVE Stages' /\ Outcomes
    BY <1>8 DEF Announce, Stages, Outcomes
  <1>9. ASSUME NEW o \in Orders, Tell(o) PROVE Stages' /\ Outcomes
    <2> DEFINE u == [kind |-> status[o], order |-> o]
    <2>1. u \in Updates /\ u.order = o /\ status'[o] \in Terminal
      BY <1>9 DEF Tell, Updates, Terminal, TypeOK, Stages
    <2>2. orderCh' = Append(orderCh, u) /\ orderCh \in Seq(Updates)
      BY <1>9 DEF Tell, TypeOK
    <2>3. \A i \in 1..Len(orderCh') : orderCh'[i] = u \/ (i \in
      1..Len(orderCh) /\ orderCh'[i] = orderCh[i])
      BY <2>1, <2>2, Sent
    <2>4. Outcomes
      BY <1>9 DEF Tell, TypeOK, Terminal, Outcomes
    <2> HIDE DEF u
    <2>5. \A i \in 1..Len(orderCh') : status'[orderCh'[i].order] \in Terminal
      BY <2>1, <2>3, <2>4, UpdateOrders DEF Stages, Outcomes
    <2>6. \A p \in Orders : p # o => status'[p] = status[p]
      BY <1>9 DEF Tell, TypeOK
    <2> QED
      BY <1>9, <2>1, <2>4, <2>5, <2>6 DEF Tell, Stages, Outcomes, TypeOK
  <1>10. CASE MarkDelivered
    BY <1>10 DEF MarkDelivered, Stages, Outcomes
  <1>11. CASE OnConfirmed
    <2>1. \A i \in 1..Len(orderCh') : i + 1 \in 1..Len(orderCh) /\
      orderCh'[i] = orderCh[i + 1]
      BY <1>11, Channel DEF OnConfirmed, TypeOK
    <2> QED
      BY <1>11, <2>1 DEF OnConfirmed, Stages, Outcomes
  <1>12. CASE OnFailed
    <2>1. \A i \in 1..Len(orderCh') : i + 1 \in 1..Len(orderCh) /\
      orderCh'[i] = orderCh[i + 1]
      BY <1>12, Channel DEF OnFailed, TypeOK
    <2> QED
      BY <1>12, <2>1 DEF OnFailed, Stages, Outcomes
  <1>13. CASE OnOtherUpdate
    BY <1>13 DEF OnOtherUpdate, AtSelect, PersistFinalIfReady,
      RetryLpRecovery, Stages, Outcomes
  <1>14. CASE OrdersLagged
    <2>1. \A i \in 1..Len(orderCh') : i + 1 \in 1..Len(orderCh) /\
      orderCh'[i] = orderCh[i + 1]
      BY <1>14, Channel DEF OrdersLagged, TypeOK
    <2> QED
      BY <1>14, <2>1 DEF OrdersLagged, Stages, Outcomes
  <1>15. CASE OnPoolState
    BY <1>15 DEF OnPoolState, AtSelect, RetryLpRecovery, Stages, Outcomes
  <1>16. CASE OnBatchFailed
    BY <1>16 DEF OnBatchFailed, AtSelect, RetryLpRecovery, Stages, Outcomes
  <1>17. CASE OnOrdersExecuted
    BY <1>17 DEF OnOrdersExecuted, AtSelect, PersistFinalIfReady,
      RetryLpRecovery, Stages, Outcomes
  <1>18. CASE OnFeeState
    BY <1>18 DEF OnFeeState, AtSelect, RetryLpRecovery, Stages, Outcomes
  <1>19. CASE OnLpChain
    BY <1>19 DEF OnLpChain, AtSelect, RetryLpRecovery, Stages, Outcomes
  <1>20. ASSUME NEW n \in Notes, LpNoteConfirmed(n) PROVE Stages' /\ Outcomes
    BY <1>20 DEF LpNoteConfirmed, Stages, Outcomes
  <1>21. ASSUME NEW n \in Notes, ApplyLpNote(n) PROVE Stages' /\ Outcomes
    BY <1>21 DEF ApplyLpNote, Visiting, Stages, Outcomes
  <1>22. ASSUME NEW n \in Notes, AckLpNote(n) PROVE Stages' /\ Outcomes
    BY <1>22 DEF AckLpNote, Visiting, Stages, Outcomes
  <1>23. ASSUME NEW n \in Notes, LpNoteRefused(n) PROVE Stages' /\ Outcomes
    BY <1>23 DEF LpNoteRefused, Visiting, Stages, Outcomes
  <1>24. CASE Crash
    BY <1>24, EmptySeq DEF Crash, Stages, Outcomes
  <1>25. CASE Restart
    BY <1>25 DEF Restart, Stages, Outcomes
  <1>26. CASE Serve
    BY <1>26 DEF Serve, Stages, Outcomes
  <1>27. CASE UNCHANGED vars
    BY <1>27 DEF vars, Stages, Outcomes
  <1> QED
    BY <1>1, <1>2, <1>3, <1>4, <1>5, <1>6, <1>7, <1>8, <1>9, <1>10, <1>11,
      <1>12, <1>13, <1>14, <1>15, <1>16, <1>17, <1>18, <1>19, <1>20, <1>21,
      <1>22, <1>23, <1>24, <1>25, <1>26, <1>27
       DEF Next, PassStep, LpStep, ObserverStep

\* Every step keeps the order of the LP records and
\* the separation of swaps and notes.
LEMMA PhasesStep ==
  ASSUME TypeOK, Phases, [Next]_vars
  PROVE  Phases'
  <1> USE DEF storeVars, lpVars, snapVars, memVars, passVars, chVars, obsVars
  <1>1. ASSUME NEW S \in SUBSET Orders, StartBatch(S) PROVE Phases'
    BY <1>1 DEF StartBatch, AtSelect, Phases
  <1>2. ASSUME NEW o \in Orders, RejectOrder(o) PROVE Phases'
    BY <1>2 DEF RejectOrder, Phases
  <1>3. ASSUME NEW o \in Orders, QuoteOrder(o) PROVE Phases'
    BY <1>3 DEF QuoteOrder, Phases
  <1>4. CASE HandOff
    BY <1>4 DEF HandOff, Phases
  <1>5. CASE PassFails
    BY <1>5 DEF PassFails, Phases
  <1>6. ASSUME NEW o \in Orders, Expire(o) PROVE Phases'
    BY <1>6 DEF Expire, Phases
  <1>7. ASSUME NEW b \in SUBSET Orders, NEW C \in SUBSET Orders, Settle(b, C)
    PROVE Phases'
    BY <1>7 DEF Settle, Phases
  <1>8. ASSUME NEW b \in SUBSET Orders, Announce(b) PROVE Phases'
    BY <1>8 DEF Announce, Phases
  <1>9. ASSUME NEW o \in Orders, Tell(o) PROVE Phases'
    BY <1>9 DEF Tell, Phases
  <1>10. CASE MarkDelivered
    BY <1>10 DEF MarkDelivered, Phases
  <1>11. CASE OnConfirmed
    BY <1>11 DEF OnConfirmed, AtSelect, PersistFinalIfReady,
      RetryLpRecovery, Phases, TypeOK
  <1>12. CASE OnFailed
    BY <1>12 DEF OnFailed, AtSelect, PersistFinalIfReady, RetryLpRecovery,
      Phases, TypeOK
  <1>13. CASE OnOtherUpdate
    BY <1>13 DEF OnOtherUpdate, AtSelect, PersistFinalIfReady,
      RetryLpRecovery, Phases, TypeOK
  <1>14. CASE OrdersLagged
    BY <1>14 DEF OrdersLagged, AtSelect, Phases
  <1>15. CASE OnPoolState
    BY <1>15 DEF OnPoolState, AtSelect, RetryLpRecovery, Phases, TypeOK
  <1>16. CASE OnBatchFailed
    BY <1>16 DEF OnBatchFailed, AtSelect, RetryLpRecovery, Phases, TypeOK
  <1>17. CASE OnOrdersExecuted
    BY <1>17 DEF OnOrdersExecuted, AtSelect, PersistFinalIfReady,
      RetryLpRecovery, Phases, TypeOK
  <1>18. CASE OnFeeState
    BY <1>18 DEF OnFeeState, AtSelect, RetryLpRecovery, Phases, TypeOK
  <1>19. CASE OnLpChain
    BY <1>19 DEF OnLpChain, AtSelect, RetryLpRecovery, Phases, TypeOK
  <1>20. ASSUME NEW n \in Notes, LpNoteConfirmed(n) PROVE Phases'
    BY <1>20 DEF LpNoteConfirmed, Phases
  <1>21. ASSUME NEW n \in Notes, ApplyLpNote(n) PROVE Phases'
    BY <1>21 DEF ApplyLpNote, Visiting, Phases
  <1>22. ASSUME NEW n \in Notes, AckLpNote(n) PROVE Phases'
    BY <1>22 DEF AckLpNote, Visiting, Phases
  <1>23. ASSUME NEW n \in Notes, LpNoteRefused(n) PROVE Phases'
    BY <1>23 DEF LpNoteRefused, Visiting, Phases
  <1>24. CASE Crash
    BY <1>24 DEF Crash, Phases
  <1>25. CASE Restart
    BY <1>25 DEF Restart, Phases, TypeOK
  <1>26. CASE Serve
    BY <1>26 DEF Serve, Phases
  <1>27. CASE UNCHANGED vars
    BY <1>27 DEF vars, Phases
  <1> QED
    BY <1>1, <1>2, <1>3, <1>4, <1>5, <1>6, <1>7, <1>8, <1>9, <1>10, <1>11,
      <1>12, <1>13, <1>14, <1>15, <1>16, <1>17, <1>18, <1>19, <1>20, <1>21,
      <1>22, <1>23, <1>24, <1>25, <1>26, <1>27
       DEF Next, PassStep, LpStep, ObserverStep

-----------------------------------------------------------------------------
\* A sound copy stays sound while outcomes are kept, swaps leave the pending
\* set only with their outcome, and markers are not removed.
LEMMA SoundKept ==
  ASSUME NEW c, NEW st, NEW pe, NEW ma, NEW st2, NEW pe2, NEW ma2,
         \A o \in Orders : st[o] \in Terminal => st2[o] \in Terminal,
         \A o \in pe : o \in pe2 \/ st2[o] \in Terminal,
         ma \subseteq ma2,
         SoundIn(c, st, pe, ma)
  PROVE  SoundIn(c, st2, pe2, ma2)
  BY DEF SoundIn

\* The configured pools contain nothing.
LEMMA ConfiguredSound ==
  \A st, pe, ma : SoundIn(Configured, st, pe, ma)
  BY DEF SoundIn, Configured, Items

\* Adding or removing the delta of a swap that is pending or settled.
LEMMA SwapSound ==
  ASSUME NEW c \in Curves, NEW st, NEW pe, NEW ma, NEW o \in Orders,
         NEW k \in Int, SoundIn(c, st, pe, ma), st[o] \in Terminal \/ o \in pe
  PROVE  SoundIn(Plus(c, o, k), st, pe, ma)
  <1>1. \A y \in Items : y # o => Plus(c, o, k)[y] = c[y]
    BY PlusApplied DEF Items
  <1> QED
    BY <1>1, OrdersAreNoNotes DEF SoundIn, Items

\* Adding the delta of a note that gets its marker.
LEMMA NoteSound ==
  ASSUME NEW c \in Curves, NEW st, NEW pe, NEW ma, NEW n \in Notes,
         SoundIn(c, st, pe, ma), n \notin ma
  PROVE  SoundIn(Plus(c, n, 1), st, pe, ma \cup {n})
  <1>1. c[n] = 0
    BY DEF SoundIn
  <1>2. \A y \in Items : y # n => Plus(c, n, 1)[y] = c[y]
    BY PlusApplied DEF Items
  <1>3. Plus(c, n, 1)[n] = 1
    BY <1>1, PlusApplied DEF Items
  <1> QED
    BY <1>2, <1>3, OrdersAreNoNotes DEF SoundIn, Items

\* Swaps leave the pending set only with their outcome, and markers stay.
Tracking ==
  /\ \A o \in pending : o \in pending' \/ status'[o] \in Terminal
  /\ marked \subseteq marked'

\* Apart from a crash, which empties the memory, no step loses track of a swap
\* that is in some copy of the curve.
LEMMA Tracked ==
  ASSUME TypeOK, Stages, Phases, [Next]_vars, ~Crash
  PROVE  Tracking
  <1> USE DEF storeVars, lpVars, snapVars, memVars, passVars, chVars, obsVars
  <1>1. ASSUME NEW S \in SUBSET Orders, StartBatch(S) PROVE Tracking
    BY <1>1 DEF Tracking, StartBatch, AtSelect
  <1>2. ASSUME NEW o \in Orders, RejectOrder(o) PROVE Tracking
    BY <1>2 DEF Tracking, RejectOrder
  <1>3. ASSUME NEW o \in Orders, QuoteOrder(o) PROVE Tracking
    BY <1>3 DEF Tracking, QuoteOrder
  <1>4. CASE HandOff
    BY <1>4 DEF Tracking, HandOff
  <1>5. CASE PassFails
    BY <1>5 DEF Tracking, PassFails
  <1>6. ASSUME NEW o \in Orders, Expire(o) PROVE Tracking
    BY <1>6 DEF Tracking, Expire
  <1>7. ASSUME NEW b \in SUBSET Orders, NEW C \in SUBSET Orders, Settle(b, C)
    PROVE Tracking
    BY <1>7 DEF Tracking, Settle
  <1>8. ASSUME NEW b \in SUBSET Orders, Announce(b) PROVE Tracking
    BY <1>8 DEF Tracking, Announce
  <1>9. ASSUME NEW o \in Orders, Tell(o) PROVE Tracking
    BY <1>9 DEF Tracking, Tell
  <1>10. CASE MarkDelivered
    BY <1>10 DEF Tracking, MarkDelivered
  <1>11. CASE OnConfirmed
    <2>1. Head(orderCh) = orderCh[1] /\ 1 \in 1..Len(orderCh)
      BY <1>11, Channel DEF OnConfirmed, TypeOK
    <2> QED
      BY <1>11, <2>1 DEF OnConfirmed, Stages, Tracking
  <1>12. CASE OnFailed
    <2>1. Head(orderCh) = orderCh[1] /\ 1 \in 1..Len(orderCh)
      BY <1>12, Channel DEF OnFailed, TypeOK
    <2> QED
      BY <1>12, <2>1 DEF OnFailed, Stages, Tracking
  <1>13. CASE OnOtherUpdate
    BY <1>13 DEF Tracking, OnOtherUpdate, AtSelect, PersistFinalIfReady, RetryLpRecovery
  <1>14. CASE OrdersLagged
    BY <1>14 DEF Tracking, OrdersLagged, AtSelect
  <1>15. CASE OnPoolState
    BY <1>15 DEF Tracking, OnPoolState, AtSelect, RetryLpRecovery
  <1>16. CASE OnBatchFailed
    BY <1>16 DEF Tracking, OnBatchFailed, AtSelect, RetryLpRecovery
  <1>17. CASE OnOrdersExecuted
    BY <1>17 DEF Tracking, OnOrdersExecuted, AtSelect, PersistFinalIfReady,
      RetryLpRecovery
  <1>18. CASE OnFeeState
    BY <1>18 DEF Tracking, OnFeeState, AtSelect, RetryLpRecovery
  <1>19. CASE OnLpChain
    BY <1>19 DEF Tracking, OnLpChain, AtSelect, RetryLpRecovery
  <1>20. ASSUME NEW n \in Notes, LpNoteConfirmed(n) PROVE Tracking
    BY <1>20 DEF Tracking, LpNoteConfirmed
  <1>21. ASSUME NEW n \in Notes, ApplyLpNote(n) PROVE Tracking
    BY <1>21 DEF Tracking, ApplyLpNote, Visiting
  <1>22. ASSUME NEW n \in Notes, AckLpNote(n) PROVE Tracking
    BY <1>22 DEF Tracking, AckLpNote, Visiting
  <1>23. ASSUME NEW n \in Notes, LpNoteRefused(n) PROVE Tracking
    BY <1>23 DEF Tracking, LpNoteRefused, Visiting
  <1>24. CASE Crash
    BY <1>24
  <1>25. CASE Restart
    BY <1>25 DEF Tracking, Restart
  <1>26. CASE Serve
    BY <1>26 DEF Tracking, Serve
  <1>27. CASE UNCHANGED vars
    BY <1>27 DEF vars, Tracking
  <1> QED
    BY <1>1, <1>2, <1>3, <1>4, <1>5, <1>6, <1>7, <1>8, <1>9, <1>10, <1>11,
      <1>12, <1>13, <1>14, <1>15, <1>16, <1>17, <1>18, <1>19, <1>20, <1>21,
      <1>22, <1>23, <1>24, <1>25, <1>26, <1>27
       DEF Next, PassStep, LpStep, ObserverStep

\* A crash leaves only the snapshot.
LEMMA CurvesCrash ==
  ASSUME CurvesSound, Crash
  PROVE  CurvesSound'
  <1>1. Len(poolCh') = 0
    BY EmptySeq DEF Crash
  <1>2. \A i \in 1..Len(poolCh') : SoundIn(poolCh'[i], status', pending', marked')
    BY <1>1
  <1>3. SoundIn(pool', status', pending', marked')
    BY ConfiguredSound DEF Crash
  <1>4. SoundIn(snapshot', status', {}, marked')
    BY DEF Crash, CurvesSound, storeVars, lpVars, snapVars
  <1> QED
    BY <1>2, <1>3, <1>4 DEF CurvesSound

\* Every other step keeps all copies of the curve sound.
LEMMA CurvesStep ==
  ASSUME TypeOK, Stages, Phases, CurvesSound, ~Crash, [Next]_vars
  PROVE  CurvesSound'
  <1> USE DEF storeVars, lpVars, snapVars, memVars, passVars, chVars, obsVars
  <1>t. TypeOK'
    BY TypeStep
  <1>o. Outcomes
    BY StagesStep
  <1>k. Tracking
    BY Tracked
  <1>c. \A c : SoundIn(c, status, pending, marked) => SoundIn(c, status',
    pending', marked')
    BY <1>o, <1>k, SoundKept DEF Outcomes, Tracking
  <1>s. \A c : SoundIn(c, status, {}, marked) => SoundIn(c, status', {},
    marked')
    BY <1>o, <1>k, SoundKept DEF Outcomes, Tracking
  <1>1. ASSUME NEW S \in SUBSET Orders, StartBatch(S) PROVE CurvesSound'
    BY <1>1, <1>c, <1>s DEF StartBatch, CurvesSound
  <1>2. ASSUME NEW o \in Orders, RejectOrder(o) PROVE CurvesSound'
    BY <1>2, <1>c, <1>s DEF RejectOrder, CurvesSound
  <1>3. ASSUME NEW o \in Orders, QuoteOrder(o) PROVE CurvesSound'
    <2>7. SoundIn(pool', status', pending', marked')
      <3>1. SoundIn(pool, status', pending', marked') /\ o \in pending'
        /\ pool \in Curves
        BY <1>3, <1>c DEF QuoteOrder, CurvesSound, TypeOK
      <3> QED
        BY <1>3, <3>1, SwapSound DEF QuoteOrder
    <2>8. \A i \in 1..Len(poolCh') : SoundIn(poolCh'[i], status', pending',
      marked')
      BY <1>3, <1>c DEF QuoteOrder, CurvesSound
    <2>9. SoundIn(snapshot', status', {}, marked')
      BY <1>3, <1>s DEF QuoteOrder, CurvesSound
    <2> QED
      BY <2>7, <2>8, <2>9 DEF CurvesSound
  <1>4. CASE HandOff
    BY <1>4, <1>c, <1>s DEF HandOff, CurvesSound
  <1>5. CASE PassFails
    BY <1>5, <1>c, <1>s DEF PassFails, CurvesSound
  <1>6. ASSUME NEW o \in Orders, Expire(o) PROVE CurvesSound'
    BY <1>6, <1>c, <1>s DEF Expire, CurvesSound
  <1>7. ASSUME NEW b \in SUBSET Orders, NEW C \in SUBSET Orders, Settle(b, C)
    PROVE CurvesSound'
    BY <1>7, <1>c, <1>s DEF Settle, CurvesSound
  <1>8. ASSUME NEW b \in SUBSET Orders, Announce(b) PROVE CurvesSound'
    BY <1>8, <1>c, <1>s DEF Announce, CurvesSound
  <1>9. ASSUME NEW o \in Orders, Tell(o) PROVE CurvesSound'
    BY <1>9, <1>c, <1>s DEF Tell, CurvesSound
  <1>10. CASE MarkDelivered
    BY <1>10, <1>c, <1>s DEF MarkDelivered, CurvesSound
  <1>11. CASE OnConfirmed
    <2>7. SoundIn(pool', status', pending', marked')
      <3> DEFINE o == Head(orderCh).order
      <3>1. o \in Orders /\ status'[o] \in Terminal
        <4>1. Head(orderCh) = orderCh[1] /\ 1 \in 1..Len(orderCh)
          BY <1>11, Channel DEF OnConfirmed, TypeOK
        <4> QED
          BY <1>11, <4>1, UpdateOrders DEF OnConfirmed, Stages
      <3>2. SoundIn(pool, status', pending', marked') /\ pool \in Curves
        BY <1>c DEF CurvesSound, TypeOK
      <3>3. pool' = pool \/ pool' = Plus(pool, o, 1)
        BY <1>11 DEF OnConfirmed, Restored
      <3> HIDE DEF o
      <3>4. SoundIn(Plus(pool, o, 1), status', pending', marked')
        BY <3>1, <3>2, SwapSound
      <3> QED
        BY <3>2, <3>3, <3>4
    <2>8. \A i \in 1..Len(poolCh') : SoundIn(poolCh'[i], status', pending',
      marked')
      <3>1. pool' \in Curves /\ poolCh \in Seq(Curves)
        BY <1>t DEF TypeOK
      <3>2. \A i \in 1..Len(Append(poolCh, pool')) : Append(poolCh,
        pool')[i] = pool' \/ (i \in 1..Len(poolCh) /\ Append(poolCh,
        pool')[i] = poolCh[i])
        BY <3>1, Sent
      <3>3. poolCh' = Append(poolCh, pool') \/ poolCh' = poolCh
        BY <1>11 DEF OnConfirmed
      <3> QED
        BY <2>7, <3>2, <3>3, <1>c DEF CurvesSound
    <2>9. SoundIn(snapshot', status', {}, marked')
      <3>1. snapshot' = snapshot \/ (snapshot' = pool' /\ pending' = {})
        BY <1>11 DEF OnConfirmed, PersistFinalIfReady
      <3> QED
        BY <3>1, <2>7, <1>s DEF CurvesSound
    <2> QED
      BY <2>7, <2>8, <2>9 DEF CurvesSound
  <1>12. CASE OnFailed
    <2>7. SoundIn(pool', status', pending', marked')
      <3> DEFINE o == Head(orderCh).order
      <3>1. o \in Orders /\ status'[o] \in Terminal
        <4>1. Head(orderCh) = orderCh[1] /\ 1 \in 1..Len(orderCh)
          BY <1>12, Channel DEF OnFailed, TypeOK
        <4> QED
          BY <1>12, <4>1, UpdateOrders DEF OnFailed, Stages
      <3>2. SoundIn(pool, status', pending', marked') /\ pool \in Curves
        BY <1>c DEF CurvesSound, TypeOK
      <3>3. pool' = pool \/ pool' = Plus(pool, o, -1)
        BY <1>12 DEF OnFailed, RolledBack
      <3> HIDE DEF o
      <3>4. SoundIn(Plus(pool, o, -1), status', pending', marked')
        BY <3>1, <3>2, SwapSound
      <3> QED
        BY <3>2, <3>3, <3>4
    <2>8. \A i \in 1..Len(poolCh') : SoundIn(poolCh'[i], status', pending',
      marked')
      <3>1. pool' \in Curves /\ poolCh \in Seq(Curves)
        BY <1>t DEF TypeOK
      <3>2. \A i \in 1..Len(Append(poolCh, pool')) : Append(poolCh,
        pool')[i] = pool' \/ (i \in 1..Len(poolCh) /\ Append(poolCh,
        pool')[i] = poolCh[i])
        BY <3>1, Sent
      <3>3. poolCh' = Append(poolCh, pool') \/ poolCh' = poolCh
        BY <1>12 DEF OnFailed
      <3> QED
        BY <2>7, <3>2, <3>3, <1>c DEF CurvesSound
    <2>9. SoundIn(snapshot', status', {}, marked')
      <3>1. snapshot' = snapshot \/ (snapshot' = pool' /\ pending' = {})
        BY <1>12 DEF OnFailed, PersistFinalIfReady
      <3> QED
        BY <3>1, <2>7, <1>s DEF CurvesSound
    <2> QED
      BY <2>7, <2>8, <2>9 DEF CurvesSound
  <1>13. CASE OnOtherUpdate
    <2>7. SoundIn(pool', status', pending', marked')
      BY <1>13, <1>c DEF OnOtherUpdate, CurvesSound
    <2>8. \A i \in 1..Len(poolCh') : SoundIn(poolCh'[i], status', pending',
      marked')
      BY <1>13, <1>c DEF OnOtherUpdate, CurvesSound
    <2>9. SoundIn(snapshot', status', {}, marked')
      <3>1. snapshot' = snapshot \/ (snapshot' = pool' /\ pending' = {})
        BY <1>13 DEF OnOtherUpdate, PersistFinalIfReady
      <3> QED
        BY <3>1, <2>7, <1>s DEF CurvesSound
    <2> QED
      BY <2>7, <2>8, <2>9 DEF CurvesSound
  <1>14. CASE OrdersLagged
    BY <1>14, <1>c, <1>s DEF OrdersLagged, CurvesSound
  <1>15. CASE OnPoolState
    <2>7. SoundIn(pool', status', pending', marked')
      <3>1. Head(poolCh) = poolCh[1] /\ 1 \in 1..Len(poolCh)
        BY <1>15, Channel DEF OnPoolState, TypeOK
      <3> QED
        BY <1>15, <3>1, <1>c DEF OnPoolState, CurvesSound
    <2>8. \A i \in 1..Len(poolCh') : SoundIn(poolCh'[i], status', pending',
      marked')
      <3>1. \A i \in 1..Len(poolCh') : i + 1 \in 1..Len(poolCh) /\
        poolCh'[i] = poolCh[i + 1]
        BY <1>15, Channel DEF OnPoolState, TypeOK
      <3> QED
        BY <3>1, <1>c DEF CurvesSound
    <2>9. SoundIn(snapshot', status', {}, marked')
      BY <1>15, <1>s DEF OnPoolState, CurvesSound
    <2> QED
      BY <2>7, <2>8, <2>9 DEF CurvesSound
  <1>16. CASE OnBatchFailed
    <2>7. SoundIn(pool', status', pending', marked')
      <3>1. SoundIn(snapshot, status', pending', marked')
        BY <1>s, SoundKept DEF CurvesSound
      <3> QED
        BY <1>16, <3>1, <1>c, ConfiguredSound DEF OnBatchFailed, Reloaded,
           CurvesSound
    <2>8. \A i \in 1..Len(poolCh') : SoundIn(poolCh'[i], status', pending',
      marked')
      <3>1. pool' \in Curves /\ poolCh \in Seq(Curves)
        BY <1>t DEF TypeOK
      <3>2. \A i \in 1..Len(Append(poolCh, pool')) : Append(poolCh,
        pool')[i] = pool' \/ (i \in 1..Len(poolCh) /\ Append(poolCh,
        pool')[i] = poolCh[i])
        BY <3>1, Sent
      <3>3. poolCh' = Append(poolCh, pool') \/ poolCh' = poolCh
        BY <1>16 DEF OnBatchFailed
      <3> QED
        BY <2>7, <3>2, <3>3, <1>c DEF CurvesSound
    <2>9. SoundIn(snapshot', status', {}, marked')
      BY <1>16, <1>s DEF OnBatchFailed, CurvesSound
    <2> QED
      BY <2>7, <2>8, <2>9 DEF CurvesSound
  <1>17. CASE OnOrdersExecuted
    <2>7. SoundIn(pool', status', pending', marked')
      BY <1>17, <1>c DEF OnOrdersExecuted, CurvesSound
    <2>8. \A i \in 1..Len(poolCh') : SoundIn(poolCh'[i], status', pending',
      marked')
      BY <1>17, <1>c DEF OnOrdersExecuted, CurvesSound
    <2>9. SoundIn(snapshot', status', {}, marked')
      <3>1. snapshot' = snapshot \/ (snapshot' = pool' /\ pending' = {})
        BY <1>17 DEF OnOrdersExecuted, PersistFinalIfReady
      <3> QED
        BY <3>1, <2>7, <1>s DEF CurvesSound
    <2> QED
      BY <2>7, <2>8, <2>9 DEF CurvesSound
  <1>18. CASE OnFeeState
    <2>7. SoundIn(pool', status', pending', marked')
      BY <1>18, <1>c DEF OnFeeState, CurvesSound
    <2>8. \A i \in 1..Len(poolCh') : SoundIn(poolCh'[i], status', pending',
      marked')
      <3>1. pool' \in Curves /\ poolCh \in Seq(Curves)
        BY <1>t DEF TypeOK
      <3>2. \A i \in 1..Len(Append(poolCh, pool')) : Append(poolCh,
        pool')[i] = pool' \/ (i \in 1..Len(poolCh) /\ Append(poolCh,
        pool')[i] = poolCh[i])
        BY <3>1, Sent
      <3>3. poolCh' = Append(poolCh, pool') \/ poolCh' = poolCh
        BY <1>18 DEF OnFeeState
      <3> QED
        BY <2>7, <3>2, <3>3, <1>c DEF CurvesSound
    <2>9. SoundIn(snapshot', status', {}, marked')
      BY <1>18, <1>s DEF OnFeeState, CurvesSound
    <2> QED
      BY <2>7, <2>8, <2>9 DEF CurvesSound
  <1>19. CASE OnLpChain
    BY <1>19, <1>c, <1>s DEF OnLpChain, CurvesSound
  <1>20. ASSUME NEW n \in Notes, LpNoteConfirmed(n) PROVE CurvesSound'
    BY <1>20, <1>c, <1>s DEF LpNoteConfirmed, CurvesSound
  <1>21. ASSUME NEW n \in Notes, ApplyLpNote(n) PROVE CurvesSound'
    <2>7. SoundIn(pool', status', pending', marked')
      <3>1. SoundIn(pool, status', pending', marked) /\ pool \in Curves
        /\ n \notin marked
        BY <1>21, <1>o, <1>k, SoundKept DEF ApplyLpNote, CurvesSound, TypeOK
      <3>2. SoundIn(Plus(pool, n, 1), status', pending', marked \cup {n})
        BY <3>1, NoteSound
      <3> QED
        BY <1>21, <3>2 DEF ApplyLpNote
    <2>8. \A i \in 1..Len(poolCh') : SoundIn(poolCh'[i], status', pending',
      marked')
      <3>1. pool' \in Curves /\ poolCh \in Seq(Curves)
        BY <1>t DEF TypeOK
      <3>2. \A i \in 1..Len(Append(poolCh, pool')) : Append(poolCh,
        pool')[i] = pool' \/ (i \in 1..Len(poolCh) /\ Append(poolCh,
        pool')[i] = poolCh[i])
        BY <3>1, Sent
      <3>3. poolCh' = Append(poolCh, pool') \/ poolCh' = poolCh
        BY <1>21 DEF ApplyLpNote
      <3> QED
        BY <2>7, <3>2, <3>3, <1>c DEF CurvesSound
    <2>9. SoundIn(snapshot', status', {}, marked')
      <3>1. pending' = {} /\ snapshot' = pool'
        BY <1>21 DEF ApplyLpNote, Visiting, Phases
      <3> QED
        BY <3>1, <2>7
    <2> QED
      BY <2>7, <2>8, <2>9 DEF CurvesSound
  <1>22. ASSUME NEW n \in Notes, AckLpNote(n) PROVE CurvesSound'
    BY <1>22, <1>c, <1>s DEF AckLpNote, CurvesSound
  <1>23. ASSUME NEW n \in Notes, LpNoteRefused(n) PROVE CurvesSound'
    <2>7. SoundIn(pool', status', pending', marked')
      BY <1>23, <1>c, ConfiguredSound DEF LpNoteRefused, CurvesSound
    <2>8. \A i \in 1..Len(poolCh') : SoundIn(poolCh'[i], status', pending',
      marked')
      BY <1>23, <1>c DEF LpNoteRefused, CurvesSound
    <2>9. SoundIn(snapshot', status', {}, marked')
      BY <1>23, <1>s DEF LpNoteRefused, CurvesSound
    <2> QED
      BY <2>7, <2>8, <2>9 DEF CurvesSound
  <1>24. CASE Crash
    BY <1>24
  <1>25. CASE Restart
    <2>7. SoundIn(pool', status', pending', marked')
      <3>1. SoundIn(snapshot, status', pending', marked')
        BY <1>s, SoundKept DEF CurvesSound
      <3> QED
        BY <1>25, <3>1, <1>c, ConfiguredSound DEF Restart, CurvesSound
    <2>8. \A i \in 1..Len(poolCh') : SoundIn(poolCh'[i], status', pending',
      marked')
      BY <1>25, <1>c DEF Restart, CurvesSound
    <2>9. SoundIn(snapshot', status', {}, marked')
      BY <1>25, <1>s DEF Restart, CurvesSound
    <2> QED
      BY <2>7, <2>8, <2>9 DEF CurvesSound
  <1>26. CASE Serve
    BY <1>26, <1>c, <1>s DEF Serve, CurvesSound
  <1>27. CASE UNCHANGED vars
    BY <1>27 DEF vars, CurvesSound
  <1> QED
    BY <1>1, <1>2, <1>3, <1>4, <1>5, <1>6, <1>7, <1>8, <1>9, <1>10, <1>11,
      <1>12, <1>13, <1>14, <1>15, <1>16, <1>17, <1>18, <1>19, <1>20, <1>21,
      <1>22, <1>23, <1>24, <1>25, <1>26, <1>27
       DEF Next, PassStep, LpStep, ObserverStep

-----------------------------------------------------------------------------
\* The configured start satisfies the invariant.
LEMMA InitIInv == Init => IInv
  <1> SUFFICES ASSUME Init PROVE IInv
    OBVIOUS
  <1>1. TypeOK
    BY CurveFacts, EmptySeq DEF Init, TypeOK, Statuses
  <1>2. Len(orderCh) = 0 /\ Len(poolCh) = 0
    BY EmptySeq DEF Init
  <1>3. Stages
    BY <1>2 DEF Init, Stages
  <1>4. Phases
    BY DEF Init, Phases
  <1>5. CurvesSound
    BY <1>2, ConfiguredSound DEF Init, CurvesSound
  <1> QED
    BY <1>1, <1>3, <1>4, <1>5 DEF IInv

\* Every behaviour satisfies the invariant.
THEOREM Invariance == Spec => []IInv
  <1>1. IInv /\ [Next]_vars => IInv'
    BY TypeStep, StagesStep, PhasesStep, CurvesStep, CurvesCrash DEF IInv
  <1> QED
    BY InitIInv, <1>1, PTL DEF Spec

\* The type invariant of the processing loop and its databases holds for any
\* number of orders, notes, crashes and failures.
THEOREM TypeCorrect == Spec => []TypeOK
  <1>1. IInv => TypeOK
    BY DEF IInv
  <1> QED
    BY Invariance, <1>1, PTL

\* The snapshot persist_final_pool_states_if_ready and save_lp_application
\* write never holds a swap whose outcome is open.
THEOREM SnapshotHoldsSettledSwaps == Spec => []SnapshotSettled
  <1>1. IInv => SnapshotSettled
    BY DEF IInv, CurvesSound, SoundIn, SnapshotSettled
  <1> QED
    BY Invariance, <1>1, PTL

\* apply_lp_chain_event puts a note into the curve at most once, across
\* restarts, repeated wakeups and adopted copies.
THEOREM NotesAppliedOnce == Spec => []NotesAtMostOnce
  <1>1. IInv => NotesAtMostOnce
    BY DEF IInv, CurvesSound, SoundIn, NotesAtMostOnce
  <1> QED
    BY Invariance, <1>1, PTL

\* The rebuilt and the running LP ledger count exactly the marked notes.
THEOREM LedgerExact == Spec => []LedgerCountsMarkers
  <1>1. IInv => LedgerCountsMarkers
    BY DEF IInv, Phases, LedgerCountsMarkers
  <1> QED
    BY Invariance, <1>1, PTL

-----------------------------------------------------------------------------
(***************************************************************************)
(* Pending swaps.  What PendingResolvable needs besides IInv: the orders   *)
(* of the batch being announced are settled, so a batch that settles       *)
(* meanwhile brings no pending order the observer has already passed.      *)
(***************************************************************************)
Told(o) == \E i \in 1..Len(orderCh) : orderCh[i].order = o

Resolvable(o) ==
  \/ status[o] \in {"processing_claimed", "batched"}
  \/ o \in UNION rows /\ (o \notin row \/ o \in telling)
  \/ Told(o)

RowSettled == \A o \in row : status[o] \in Terminal

PendingInv ==
  /\ lag \in Nat /\ RowSettled
  /\ lag = 0 => \A o \in pending : Resolvable(o)

\* Steps that leave the channel alone, or send one more update.
LEMMA ToldSent ==
  ASSUME TypeOK, NEW e \in Updates, orderCh' = Append(orderCh, e)
  PROVE  Told(e.order)' /\ \A o : Told(o) => Told(o)'
  <1>1. /\ orderCh \in Seq(Updates) /\ Len(orderCh) \in Nat
    BY LenProperties DEF TypeOK
  <1>2. /\ Len(orderCh') = Len(orderCh) + 1 /\ orderCh'[Len(orderCh) + 1] = e
        /\ \A i \in 1..Len(orderCh) : orderCh'[i] = orderCh[i]
    BY <1>1, Channel
  <1>3. Len(orderCh) + 1 \in 1..Len(orderCh')
    BY <1>1, <1>2
  <1>4. ASSUME NEW i \in 1..Len(orderCh) PROVE i \in 1..Len(orderCh') /\ orderCh'[i] = orderCh[i]
    BY <1>1, <1>2
  <1> QED
    BY <1>2, <1>3, <1>4 DEF Told

\* The first update is taken: only its own order may have none left.
LEMMA ToldTaken ==
  ASSUME TypeOK, orderCh # <<>>, orderCh' = Tail(orderCh)
  PROVE  \A o : Told(o) /\ o # Head(orderCh).order => Told(o)'
  <1>1. orderCh \in Seq(Updates)
    BY DEF TypeOK
  <1>2. /\ Head(orderCh) = orderCh[1] /\ Len(orderCh) \in Nat \ {0}
        /\ Len(orderCh') = Len(orderCh) - 1
        /\ \A i \in 1..Len(orderCh') : orderCh'[i] = orderCh[i + 1]
    BY <1>1, Channel
  <1>3. ASSUME NEW o, NEW i \in 1..Len(orderCh), orderCh[i].order = o, o # Head(orderCh).order
        PROVE  Told(o)'
    <2>1. i # 1
      BY <1>2, <1>3
    <2>2. i - 1 \in 1..Len(orderCh') /\ (i - 1) + 1 = i
      BY <1>2, <2>1
    <2>3. orderCh'[i - 1] = orderCh[i]
      BY <1>2, <2>2
    <2> QED
      BY <1>3, <2>2, <2>3 DEF Told
  <1> QED
    BY <1>3 DEF Told

\* Steps of the loop that read no update and open no swap.
LEMMA PendingKept ==
  ASSUME PendingInv, UNCHANGED <<status, rows, row, telling, orderCh, lag>>, pending' \subseteq pending
  PROVE  PendingInv'
  BY DEF PendingInv, RowSettled, Resolvable, Told

\* Every step keeps the invariant.
LEMMA PendingStep == IInv /\ PendingInv /\ [Next]_vars => PendingInv'
  <1> SUFFICES ASSUME IInv, PendingInv, [Next]_vars PROVE PendingInv'
    OBVIOUS
  <1> USE DEF storeVars, lpVars, snapVars, memVars, passVars, chVars, obsVars, boundVars
  <1>0. TypeOK /\ Stages /\ Phases
    BY DEF IInv
  <1>1. /\ status \in [Orders -> Statuses] /\ pending \subseteq Orders /\ row \subseteq Orders
        /\ quoting \subseteq Orders /\ quoted \subseteq Orders
    BY <1>0 DEF TypeOK
  <1>2. ASSUME NEW S \in SUBSET Orders, StartBatch(S) PROVE PendingInv'
    <2>1. /\ \A o \in Orders : status'[o] = IF o \in S THEN "processing_claimed" ELSE status[o]
          /\ \A o \in S : status[o] \notin Terminal
          /\ UNCHANGED <<rows, row, telling, orderCh, lag, pending>>
      BY <1>1, <1>2 DEF StartBatch, Terminal
    <2> QED
      BY <1>1, <2>1 DEF PendingInv, RowSettled, Resolvable, Told
  <1>3. ASSUME NEW o \in Orders, RejectOrder(o) PROVE PendingInv'
    <2> DEFINE e == [kind |-> "failed", order |-> o]
    <2>1. /\ orderCh' = Append(orderCh, e) /\ e \in Updates /\ e.order = o
          /\ status' = [status EXCEPT ![o] = "failed"]
          /\ UNCHANGED <<rows, row, telling, lag, pending>>
      BY <1>3 DEF RejectOrder, Updates, Terminal
    <2> HIDE DEF e
    <2>2. Told(o)' /\ \A p : Told(p) => Told(p)'
      BY <1>0, <2>1, ToldSent
    <2> QED
      BY <1>1, <2>1, <2>2 DEF PendingInv, RowSettled, Resolvable, Terminal
  <1>4. ASSUME NEW o \in Orders, QuoteOrder(o) PROVE PendingInv'
    <2>1. /\ pending' = pending \cup {o} /\ status[o] = "processing_claimed"
          /\ UNCHANGED <<status, rows, row, telling, orderCh, lag>>
      BY <1>0, <1>4 DEF QuoteOrder, Stages
    <2> QED
      BY <2>1 DEF PendingInv, RowSettled, Resolvable, Told
  <1>5. CASE HandOff
    <2>1. /\ \A o \in Orders : status'[o] = IF o \in quoted THEN "batched" ELSE status[o]
          /\ \A o \in quoted : status[o] \notin Terminal
          /\ UNCHANGED <<rows, row, telling, orderCh, lag, pending>>
      BY <1>0, <1>1, <1>5 DEF HandOff, Stages, Terminal
    <2> QED
      BY <1>1, <2>1 DEF PendingInv, RowSettled, Resolvable, Told
  <1>6. CASE PassFails
    BY <1>6, PendingKept DEF PassFails
  <1>7. ASSUME NEW o \in Orders, Expire(o) PROVE PendingInv'
    <2> DEFINE e == [kind |-> "failed", order |-> o]
    <2>1. /\ orderCh' = Append(orderCh, e) /\ e \in Updates /\ e.order = o
          /\ status' = [status EXCEPT ![o] = "failed"]
          /\ UNCHANGED <<rows, row, telling, lag, pending>>
      BY <1>7 DEF Expire, Updates, Terminal
    <2> HIDE DEF e
    <2>2. Told(o)' /\ \A p : Told(p) => Told(p)'
      BY <1>0, <2>1, ToldSent
    <2> QED
      BY <1>1, <2>1, <2>2 DEF PendingInv, RowSettled, Resolvable, Terminal
  <1>8. ASSUME NEW b \in SUBSET Orders, NEW C \in SUBSET Orders, Settle(b, C) PROVE PendingInv'
    <2>1. /\ b \in inFlight /\ C \subseteq b /\ rows' = rows \cup {b}
          /\ \A o \in Orders : status'[o] = IF o \in C THEN "confirmed"
                                            ELSE IF o \in b THEN "failed" ELSE status[o]
          /\ UNCHANGED <<row, telling, orderCh, lag, pending>>
      BY <1>1, <1>8 DEF Settle
    <2>2. \A o \in b : status[o] \in {"batched"} \cup Terminal
      BY <1>0, <2>1 DEF Stages
    <2>3. RowSettled'
      BY <1>1, <2>1 DEF PendingInv, RowSettled, Terminal
    <2>4. ASSUME lag = 0, NEW o \in pending PROVE Resolvable(o)'
      <3>1. Resolvable(o) /\ o \in Orders
        BY <1>1, <2>4 DEF PendingInv
      <3>2. CASE o \in b /\ status[o] = "batched"
        <4>1. o \notin row
          BY <3>2 DEF PendingInv, RowSettled, Terminal
        <4> QED
          BY <2>1, <3>2, <4>1 DEF Resolvable
      <3>3. CASE o \in b /\ status[o] # "batched"
        BY <2>1, <2>2, <3>1, <3>3 DEF Resolvable, Told, Terminal
      <3>4. CASE o \notin b
        BY <2>1, <3>1, <3>4 DEF Resolvable, Told
      <3> QED
        BY <3>2, <3>3, <3>4
    <2> QED
      BY <2>1, <2>3, <2>4 DEF PendingInv
  <1>9. ASSUME NEW b \in SUBSET Orders, Announce(b) PROVE PendingInv'
    <2>1. /\ row = {} /\ b \in rows /\ row' = b /\ telling' = b
          /\ UNCHANGED <<status, rows, orderCh, lag, pending>>
      BY <1>9 DEF Announce
    <2>2. \A o \in b : status[o] \in Terminal
      BY <1>0, <2>1 DEF Stages
    <2> QED
      BY <2>1, <2>2 DEF PendingInv, RowSettled, Resolvable, Told
  <1>10. ASSUME NEW o \in Orders, Tell(o) PROVE PendingInv'
    <2> DEFINE e == [kind |-> status[o], order |-> o]
    <2>1. /\ orderCh' = Append(orderCh, e) /\ e.order = o /\ telling' = telling \ {o}
          /\ UNCHANGED <<status, rows, row, lag, pending>>
      BY <1>10 DEF Tell
    <2>2. e \in Updates
      BY <1>0, <1>10 DEF Tell, Stages, Updates
    <2> HIDE DEF e
    <2>3. Told(o)' /\ \A p : Told(p) => Told(p)'
      BY <1>0, <2>1, <2>2, ToldSent
    <2> QED
      BY <2>1, <2>3 DEF PendingInv, RowSettled, Resolvable
  <1>11. CASE MarkDelivered
    <2>1. /\ rows' = rows \ {row} /\ row' = {} /\ telling = {}
          /\ UNCHANGED <<status, telling, orderCh, lag, pending>>
      BY <1>11 DEF MarkDelivered
    <2> QED
      BY <2>1 DEF PendingInv, RowSettled, Resolvable, Told
  <1>12. ASSUME OnConfirmed \/ OnFailed PROVE PendingInv'
    <2>1. /\ orderCh # <<>> /\ orderCh' = Tail(orderCh)
          /\ UNCHANGED <<status, rows, row, telling, lag>>
      BY <1>12 DEF OnConfirmed, OnFailed
    <2>2. pending' \subseteq pending /\ Head(orderCh).order \notin pending'
      BY <1>12 DEF OnConfirmed, OnFailed
    <2>3. \A o : Told(o) /\ o # Head(orderCh).order => Told(o)'
      BY <1>0, <2>1, ToldTaken
    <2> QED
      BY <2>1, <2>2, <2>3 DEF PendingInv, RowSettled, Resolvable
  <1>13. CASE OrdersLagged
    <2>1. lag' = lag + 1 /\ lag \in Nat /\ UNCHANGED <<status, row>>
      BY <1>13 DEF OrdersLagged, PendingInv
    <2>2. lag' \in Nat /\ lag' # 0
      BY <2>1
    <2> QED
      BY <2>1, <2>2 DEF PendingInv, RowSettled
  <1>14. ASSUME OnOtherUpdate \/ OnPoolState \/ OnBatchFailed \/ OnOrdersExecuted \/ OnFeeState
                \/ OnLpChain
         PROVE  PendingInv'
    BY <1>14, PendingKept DEF OnOtherUpdate, OnPoolState, OnBatchFailed, OnOrdersExecuted,
       OnFeeState, OnLpChain
  <1>15. ASSUME NEW n \in Notes,
                LpNoteConfirmed(n) \/ ApplyLpNote(n) \/ AckLpNote(n) \/ LpNoteRefused(n)
         PROVE  PendingInv'
    BY <1>15, PendingKept DEF LpNoteConfirmed, ApplyLpNote, AckLpNote, LpNoteRefused
  <1>16. CASE Crash
    BY <1>16 DEF Crash, PendingInv, RowSettled
  <1>17. ASSUME Restart \/ Serve PROVE PendingInv'
    BY <1>17, PendingKept DEF Restart, Serve
  <1>18. CASE UNCHANGED vars
    BY <1>18, PendingKept DEF vars
  <1> QED
    BY <1>2, <1>3, <1>4, <1>5, <1>6, <1>7, <1>8, <1>9, <1>10, <1>11, <1>12, <1>13, <1>14,
       <1>15, <1>16, <1>17, <1>18 DEF Next, PassStep, LpStep, ObserverStep

\* As long as no update was skipped, the outcome of every pending swap is still
\* to come, for any number of batches, failed passes and crashes.
THEOREM PendingSwapsResolve == Spec => []PendingResolvable
  <1>1. Init => PendingInv
    BY DEF Init, PendingInv, RowSettled
  <1>2. PendingInv => PendingResolvable
    BY DEF PendingInv, PendingResolvable, Resolvable, Told
  <1> QED
    BY Invariance, PendingStep, <1>1, <1>2, PTL DEF Spec
=============================================================================
