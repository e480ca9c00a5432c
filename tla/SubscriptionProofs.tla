------------------------- MODULE SubscriptionProofs -------------------------
(***************************************************************************)
(* For any number of requests and subscriptions, any amounts, failures and *)
(* interleavings of transactions that read and save without a lock: what   *)
(* never goes wrong all the same.                                          *)
(***************************************************************************)
EXTENDS Subscription, SumTheorems

(* Every copy that may be saved is within its total, and so is what the     *)
(* transaction that holds it is about to add.                               *)
Bounded ==
  /\ \A s \in Subs : InBounds(s, row[s])
  /\ \A r \in Requests, s \in Subs : InBounds(s, read[r][s])
  /\ \A s \in open : InBounds(s, tRead)
  /\ \A r \in Requests :
       /\ pc[r] = "pre_write"
            => Suffices(sub[r], MaybeReset(read[r][sub[r]], at[r]), amount[r])
       /\ pc[r] = "settle_write" => DeltaAllowed(sub[r], read[r][sub[r]], delta[r])

(* The commits of a refund and the marks that failed go in step. *)
Refunds ==
  \A r \in Requests :
    /\ pc[r] \notin {"mark", "refunded"} => given[r] = markFails[r]
    /\ pc[r] \in {"mark", "refunded"} => given[r] = markFails[r] + 1
    /\ pc[r] = "refunded" <=> record[r] = "refunded"

(* A subscription that has ended is in no copy that could revive it. *)
Dead(x) == x.status \in {"cancelled", "deleted"}
Buried ==
  \A s \in ended :
    /\ Dead(row[s])
    /\ s \in open => Dead(tRead)
    /\ \A r \in Requests :
         /\ pc[r] = "pre_write" => sub[r] # s /\ s \notin PassedOver(r)
         /\ pc[r] \in {"settle_write", "give_write"} /\ sub[r] = s => Dead(read[r][s])

IInv == TypeOK /\ Bounded /\ Refunds /\ Buried

USE DEF database, request, task, history, Goto, Forget, Fault

-----------------------------------------------------------------------------
(* Facts the steps share *)

(* What the constants are. *)
LEMMA Constants ==
  /\ \A a \in Amounts : a \in Nat
  /\ \A q \in Actuals : q \in Nat
  /\ \A s \in Subs : EndTime[s] \in Nat /\ AmountTotal[s] \in Nat
  /\ MaxAttempts \in Nat /\ MaxAttempts > 0 /\ MaxNow \in Nat /\ MaxFaults \in Nat
  /\ IsFiniteSet(Requests)
  BY SubscriptionAssumption DEF SubscriptionAssumption

(* No row is within every total. *)
LEMMA NoRowOK ==
  /\ NoRow \in Rows /\ Dead(NoRow) /\ NoRow.status # "active"
  /\ \A s \in Subs : InBounds(s, NoRow)
  BY Constants DEF NoRow, Rows, Statuses, Dead, InBounds

(* A reset changes what was used and the period alone. *)
LEMMA MaybeResetOK ==
  ASSUME NEW x \in Rows, NEW t \in Nat, NEW s \in Subs
  PROVE  /\ MaybeReset(x, t) \in Rows
         /\ MaybeReset(x, t).status = x.status /\ MaybeReset(x, t).end = x.end
         /\ InBounds(s, x) => InBounds(s, MaybeReset(x, t))
  <1>1. CASE ResetDue(x, t)
    <2> DEFINE p == IF t < x.end THEN t ELSE x.end
    <2>1. MaybeReset(x, t) = [x EXCEPT !.used = 0, !.period = p]
      BY <1>1 DEF MaybeReset
    <2>2. p \in Nat
      BY DEF Rows
    <2> HIDE DEF p
    <2>3. MaybeReset(x, t) = [used |-> 0, period |-> p, end |-> x.end, status |-> x.status]
      BY <2>1 DEF Rows
    <2>4. x.end \in Nat /\ x.status \in Statuses
      BY DEF Rows
    <2>5. /\ MaybeReset(x, t) \in Rows /\ MaybeReset(x, t).used = 0
          /\ MaybeReset(x, t).status = x.status /\ MaybeReset(x, t).end = x.end
      BY <2>2, <2>3, <2>4 DEF Rows
    <2> QED BY <2>5, Constants DEF InBounds
  <1>2. CASE ~ResetDue(x, t)
    BY <1>2 DEF MaybeReset
  <1> QED BY <1>1, <1>2

(* What a query returns is the row or nothing. *)
LEMMA RowsOfOK ==
  ASSUME TypeOK, NEW S \in SUBSET Subs
  PROVE  /\ RowsOf(S) \in [Subs -> Rows]
         /\ \A s \in Subs : RowsOf(S)[s] = IF s \in S THEN row[s] ELSE NoRow
  BY NoRowOK DEF TypeOK, RowsOf

(* The copies of a transaction that has ended are gone. *)
LEMMA ForgottenOK ==
  ASSUME TypeOK, NEW r \in Requests, Forget(r)
  PROVE  /\ read' \in [Requests -> [Subs -> Rows]] /\ at' \in [Requests -> Nat]
         /\ \A s \in Subs : read'[r][s] = NoRow
         /\ \A q \in Requests : q # r => read'[q] = read[q] /\ at'[q] = at[q]
  BY NoRowOK DEF TypeOK

(* A retry does no more than begin again or give up. *)
LEMMA RetryOK ==
  ASSUME TypeOK, NEW r \in Requests, Retry(r)
  PROVE  /\ tries' \in [Requests -> 0..MaxAttempts] /\ pc' \in [Requests -> Labels]
         /\ pc'[r] \in {"refund", "gave_up"}
         /\ \A q \in Requests : q # r => pc'[q] = pc[q]
  <1>1. /\ pc \in [Requests -> Labels] /\ tries \in [Requests -> 0..MaxAttempts]
        /\ "refund" \in Labels /\ "gave_up" \in Labels
    BY DEF TypeOK, Labels, Ended
  <1>2. CASE tries[r] < MaxAttempts /\ tries' = [tries EXCEPT ![r] = @ + 1] /\ Goto(r, "refund")
    <2>1. tries[r] + 1 \in 0..MaxAttempts
      BY <1>1, <1>2, Constants
    <2> QED BY <1>1, <1>2, <2>1
  <1>3. CASE Goto(r, "gave_up") /\ UNCHANGED tries
    BY <1>1, <1>3
  <1> QED BY <1>2, <1>3 DEF Retry

-----------------------------------------------------------------------------
(* What a step of one request leaves alone *)

(* Steps that change no row and no copy of the task, and keep the copies of *)
(* the other requests.                                                      *)
Others(r) ==
  \A q \in Requests : q # r =>
    /\ pc'[q] = pc[q] /\ read'[q] = read[q] /\ at'[q] = at[q] /\ sub'[q] = sub[q]
    /\ amount'[q] = amount[q] /\ delta'[q] = delta[q] /\ given'[q] = given[q]
    /\ markFails'[q] = markFails[q] /\ record'[q] = record[q]

(* The request that moves keeps its part of the bounds. *)
LEMMA BoundedStep ==
  ASSUME IInv, NEW r \in Requests, Others(r), UNCHANGED <<open, tRead>>,
         \A s \in Subs : InBounds(s, row'[s]),
         \A s \in Subs : InBounds(s, read'[r][s]),
         pc'[r] = "pre_write"
           => Suffices(sub'[r], MaybeReset(read'[r][sub'[r]], at'[r]), amount'[r]),
         pc'[r] = "settle_write" => DeltaAllowed(sub'[r], read'[r][sub'[r]], delta'[r])
  PROVE  Bounded'
  <1>1. \A q \in Requests, s \in Subs : InBounds(s, read'[q][s])
    BY DEF IInv, Bounded, Others
  <1>2. \A q \in Requests :
          /\ pc'[q] = "pre_write"
               => Suffices(sub'[q], MaybeReset(read'[q][sub'[q]], at'[q]), amount'[q])
          /\ pc'[q] = "settle_write" => DeltaAllowed(sub'[q], read'[q][sub'[q]], delta'[q])
    <2> TAKE q \in Requests
    <2>1. CASE q = r
      BY <2>1
    <2>2. CASE q # r
      BY <2>2 DEF IInv, Bounded, Others
    <2> QED BY <2>1, <2>2
  <1>3. \A s \in open' : InBounds(s, tRead')
    BY DEF IInv, Bounded
  <1> QED BY <1>1, <1>2, <1>3 DEF Bounded, InBounds

(* The request that moves keeps its refunds in step. *)
LEMMA RefundsStep ==
  ASSUME IInv, NEW r \in Requests, Others(r),
         /\ pc'[r] \notin {"mark", "refunded"} => given'[r] = markFails'[r]
         /\ pc'[r] \in {"mark", "refunded"} => given'[r] = markFails'[r] + 1
         /\ pc'[r] = "refunded" <=> record'[r] = "refunded"
  PROVE  Refunds'
  BY DEF IInv, Refunds, Others

(* The request that moves revives nothing. *)
LEMMA BuriedStep ==
  ASSUME IInv, NEW r \in Requests, Others(r), UNCHANGED <<open, tRead, ended>>,
         \A s \in ended :
           /\ Dead(row'[s])
           /\ pc'[r] = "pre_write" => sub'[r] # s /\ s \notin PassedOver(r)'
           /\ pc'[r] \in {"settle_write", "give_write"} /\ sub'[r] = s => Dead(read'[r][s])
  PROVE  Buried'
  <1> SUFFICES ASSUME NEW s \in ended
      PROVE  /\ Dead(row'[s])
             /\ s \in open' => Dead(tRead')
             /\ \A q \in Requests :
                  /\ pc'[q] = "pre_write" => sub'[q] # s /\ s \notin PassedOver(q)'
                  /\ pc'[q] \in {"settle_write", "give_write"} /\ sub'[q] = s
                       => Dead(read'[q][s])
    BY DEF Buried, Dead
  <1>1. Dead(row'[s]) /\ (s \in open' => Dead(tRead'))
    BY DEF IInv, Buried
  <1>2. ASSUME NEW q \in Requests
        PROVE  /\ pc'[q] = "pre_write" => sub'[q] # s /\ s \notin PassedOver(q)'
               /\ pc'[q] \in {"settle_write", "give_write"} /\ sub'[q] = s
                    => Dead(read'[q][s])
    <2>1. CASE q = r
      BY <2>1
    <2>2. CASE q # r
      <3>1. PassedOver(q)' = PassedOver(q)
        BY <2>2 DEF PassedOver, Candidates, ResetDue, Before, Others
      <3> QED BY <2>2, <3>1 DEF IInv, Buried, Others
    <2> QED BY <2>1, <2>2
  <1> QED BY <1>1, <1>2


-----------------------------------------------------------------------------
(* The steps of a request *)

(* The cost is known (SubscriptionFunding.Settle). *)
LEMMA SettleKeeps ==
  ASSUME IInv, NEW r \in Requests, Settle(r)
  PROVE  IInv'
  <1>i. TypeOK /\ Bounded /\ Refunds /\ Buried
    BY DEF IInv
  <1>o. Others(r) /\ UNCHANGED <<open, tRead, ended>>
    BY <1>i DEF TypeOK, Settle, Others
  <1>t. TypeOK'
    BY <1>i, Constants, SMT DEF TypeOK, Settle, Labels, Ended
  <1>b. Bounded'
    <2>1. pc'[r] \notin {"pre_write", "settle_write"} /\ row' = row /\ read'[r] = read[r]
      BY <1>i DEF TypeOK, Settle
    <2> QED BY <1>i, <1>o, <2>1, BoundedStep DEF Bounded
  <1>r. Refunds'
    <2>1. /\ pc'[r] \notin {"mark", "refunded"} => given'[r] = markFails'[r]
          /\ pc'[r] \in {"mark", "refunded"} => given'[r] = markFails'[r] + 1
          /\ pc'[r] = "refunded" <=> record'[r] = "refunded"
      BY <1>i DEF TypeOK, Refunds, Settle
    <2> QED BY <1>o, <2>1, RefundsStep
  <1>e. Buried'
    <2>1. pc'[r] \notin {"pre_write", "settle_write", "give_write"} /\ row' = row
      BY <1>i DEF TypeOK, Settle
    <2> QED BY <1>i, <1>o, <2>1, BuriedStep DEF Buried
  <1> QED BY <1>t, <1>b, <1>r, <1>e DEF IInv

(* The request has failed (SubscriptionFunding.Refund). *)
LEMMA RefundKeeps ==
  ASSUME IInv, NEW r \in Requests, Refund(r)
  PROVE  IInv'
  <1>i. TypeOK /\ Bounded /\ Refunds /\ Buried
    BY DEF IInv
  <1>o. Others(r) /\ UNCHANGED <<open, tRead, ended>>
    BY <1>i DEF TypeOK, Refund, Others
  <1>t. TypeOK'
    BY <1>i, Constants, SMT DEF TypeOK, Refund, Labels, Ended
  <1>b. Bounded'
    <2>1. pc'[r] \notin {"pre_write", "settle_write"} /\ row' = row /\ read'[r] = read[r]
      BY <1>i DEF TypeOK, Refund
    <2> QED BY <1>i, <1>o, <2>1, BoundedStep DEF Bounded
  <1>r. Refunds'
    <2>1. /\ pc'[r] \notin {"mark", "refunded"} => given'[r] = markFails'[r]
          /\ pc'[r] \in {"mark", "refunded"} => given'[r] = markFails'[r] + 1
          /\ pc'[r] = "refunded" <=> record'[r] = "refunded"
      BY <1>i DEF TypeOK, Refunds, Refund
    <2> QED BY <1>o, <2>1, RefundsStep
  <1>e. Buried'
    <2>1. pc'[r] \notin {"pre_write", "settle_write", "give_write"} /\ row' = row
      BY <1>i DEF TypeOK, Refund
    <2> QED BY <1>i, <1>o, <2>1, BuriedStep DEF Buried
  <1> QED BY <1>t, <1>b, <1>r, <1>e DEF IInv

(* The record is read (RefundSubscriptionPreConsume). *)
LEMMA RefundReadKeeps ==
  ASSUME IInv, NEW r \in Requests, RefundRead(r)
  PROVE  IInv'
  <1>i. TypeOK /\ Bounded /\ Refunds /\ Buried
    BY DEF IInv
  <1>o. Others(r) /\ UNCHANGED <<open, tRead, ended>>
    BY <1>i DEF TypeOK, RefundRead, Others
  <1>t. TypeOK'
    BY <1>i, Constants, SMT DEF TypeOK, RefundRead, Labels, Ended
  <1>b. Bounded'
    <2>1. pc'[r] \notin {"pre_write", "settle_write"} /\ row' = row /\ read'[r] = read[r]
      BY <1>i DEF TypeOK, RefundRead
    <2> QED BY <1>i, <1>o, <2>1, BoundedStep DEF Bounded
  <1>r. Refunds'
    <2>1. /\ pc'[r] \notin {"mark", "refunded"} => given'[r] = markFails'[r]
          /\ pc'[r] \in {"mark", "refunded"} => given'[r] = markFails'[r] + 1
          /\ pc'[r] = "refunded" <=> record'[r] = "refunded"
      BY <1>i DEF TypeOK, Refunds, RefundRead
    <2> QED BY <1>o, <2>1, RefundsStep
  <1>e. Buried'
    <2>1. pc'[r] \notin {"pre_write", "settle_write", "give_write"} /\ row' = row
      BY <1>i DEF TypeOK, RefundRead
    <2> QED BY <1>i, <1>o, <2>1, BuriedStep DEF Buried
  <1> QED BY <1>t, <1>b, <1>r, <1>e DEF IInv

(* The record is marked (RefundSubscriptionPreConsume). *)
LEMMA MarkKeeps ==
  ASSUME IInv, NEW r \in Requests, Mark(r)
  PROVE  IInv'
  <1>i. TypeOK /\ Bounded /\ Refunds /\ Buried
    BY DEF IInv
  <1>o. Others(r) /\ UNCHANGED <<open, tRead, ended>>
    BY <1>i DEF TypeOK, Mark, Others
  <1>t. TypeOK'
    BY <1>i, Constants, SMT DEF TypeOK, Mark, Labels, Ended
  <1>b. Bounded'
    <2>1. pc'[r] \notin {"pre_write", "settle_write"} /\ row' = row /\ read'[r] = read[r]
      BY <1>i DEF TypeOK, Mark
    <2> QED BY <1>i, <1>o, <2>1, BoundedStep DEF Bounded
  <1>r. Refunds'
    <2>1. /\ pc'[r] \notin {"mark", "refunded"} => given'[r] = markFails'[r]
          /\ pc'[r] \in {"mark", "refunded"} => given'[r] = markFails'[r] + 1
          /\ pc'[r] = "refunded" <=> record'[r] = "refunded"
      BY <1>i DEF TypeOK, Refunds, Mark
    <2> QED BY <1>o, <2>1, RefundsStep
  <1>e. Buried'
    <2>1. pc'[r] \notin {"pre_write", "settle_write", "give_write"} /\ row' = row
      BY <1>i DEF TypeOK, Mark
    <2> QED BY <1>i, <1>o, <2>1, BuriedStep DEF Buried
  <1> QED BY <1>t, <1>b, <1>r, <1>e DEF IInv

(* The transaction of a hold fails. *)
LEMMA PreFailsKeeps ==
  ASSUME IInv, NEW r \in Requests, PreFails(r)
  PROVE  IInv'
  <1>i. TypeOK /\ Bounded /\ Refunds /\ Buried
    BY DEF IInv
  <1>o. Others(r) /\ UNCHANGED <<open, tRead, ended>>
    BY <1>i, ForgottenOK DEF TypeOK, PreFails, Others
  <1>p. pc'[r] \in {"refused"} /\ row' = row /\ record' = record
    BY <1>i, ForgottenOK DEF TypeOK, PreFails
  <1>t. TypeOK'
    <2>1. read' \in [Requests -> [Subs -> Rows]] /\ at' \in [Requests -> Nat]
      BY <1>i, ForgottenOK, Zenon DEF TypeOK, PreFails
    <2>2. pc' \in [Requests -> Labels] /\ tries' \in [Requests -> 0..MaxAttempts]
      BY <1>i DEF TypeOK, PreFails, Labels, Ended
    <2>3. faults' \in Nat
      BY <1>i DEF TypeOK, PreFails
    <2> QED BY <1>i, <2>1, <2>2, <2>3 DEF TypeOK, PreFails
  <1>b. Bounded'
    <2>1. \A s \in Subs : InBounds(s, read'[r][s])
      BY <1>i, ForgottenOK, NoRowOK DEF PreFails
    <2> QED BY <1>i, <1>o, <1>p, <2>1, BoundedStep DEF Bounded
  <1>r. Refunds'
    <2>1. given'[r] = markFails'[r] /\ record'[r] # "refunded"
      BY <1>i, <1>p DEF TypeOK, Refunds, PreFails
    <2> QED BY <1>o, <1>p, <2>1, RefundsStep
  <1>e. Buried'
    BY <1>i, <1>o, <1>p, BuriedStep DEF Buried
  <1> QED BY <1>t, <1>b, <1>r, <1>e DEF IInv

(* The transaction of a settlement fails. *)
LEMMA SettleFailsKeeps ==
  ASSUME IInv, NEW r \in Requests, SettleFails(r)
  PROVE  IInv'
  <1>i. TypeOK /\ Bounded /\ Refunds /\ Buried
    BY DEF IInv
  <1>o. Others(r) /\ UNCHANGED <<open, tRead, ended>>
    BY <1>i, ForgottenOK DEF TypeOK, SettleFails, Others
  <1>p. pc'[r] \in {"unsettled"} /\ row' = row /\ record' = record
    BY <1>i, ForgottenOK DEF TypeOK, SettleFails
  <1>t. TypeOK'
    <2>1. read' \in [Requests -> [Subs -> Rows]] /\ at' \in [Requests -> Nat]
      BY <1>i, ForgottenOK, Zenon DEF TypeOK, SettleFails
    <2>2. pc' \in [Requests -> Labels] /\ tries' \in [Requests -> 0..MaxAttempts]
      BY <1>i DEF TypeOK, SettleFails, Labels, Ended
    <2>3. faults' \in Nat
      BY <1>i DEF TypeOK, SettleFails
    <2> QED BY <1>i, <2>1, <2>2, <2>3 DEF TypeOK, SettleFails
  <1>b. Bounded'
    <2>1. \A s \in Subs : InBounds(s, read'[r][s])
      BY <1>i, ForgottenOK, NoRowOK DEF SettleFails
    <2> QED BY <1>i, <1>o, <1>p, <2>1, BoundedStep DEF Bounded
  <1>r. Refunds'
    <2>1. given'[r] = markFails'[r] /\ record'[r] # "refunded"
      BY <1>i, <1>p DEF TypeOK, Refunds, SettleFails
    <2> QED BY <1>o, <1>p, <2>1, RefundsStep
  <1>e. Buried'
    BY <1>i, <1>o, <1>p, BuriedStep DEF Buried
  <1> QED BY <1>t, <1>b, <1>r, <1>e DEF IInv

(* The transaction of a refund fails. *)
LEMMA GiveFailsKeeps ==
  ASSUME IInv, NEW r \in Requests, GiveFails(r)
  PROVE  IInv'
  <1>i. TypeOK /\ Bounded /\ Refunds /\ Buried
    BY DEF IInv
  <1>o. Others(r) /\ UNCHANGED <<open, tRead, ended>>
    BY <1>i, ForgottenOK, RetryOK DEF TypeOK, GiveFails, Others
  <1>p. pc'[r] \in {"refund", "gave_up"} /\ row' = row /\ record' = record
    BY <1>i, ForgottenOK, RetryOK DEF TypeOK, GiveFails
  <1>t. TypeOK'
    <2>1. read' \in [Requests -> [Subs -> Rows]] /\ at' \in [Requests -> Nat]
      BY <1>i, ForgottenOK, Zenon DEF TypeOK, GiveFails
    <2>2. pc' \in [Requests -> Labels] /\ tries' \in [Requests -> 0..MaxAttempts]
      BY <1>i, RetryOK DEF TypeOK, GiveFails, Labels, Ended
    <2>3. faults' \in Nat
      BY <1>i DEF TypeOK, GiveFails
    <2> QED BY <1>i, <2>1, <2>2, <2>3 DEF TypeOK, GiveFails
  <1>b. Bounded'
    <2>1. \A s \in Subs : InBounds(s, read'[r][s])
      BY <1>i, ForgottenOK, NoRowOK DEF GiveFails
    <2> QED BY <1>i, <1>o, <1>p, <2>1, BoundedStep DEF Bounded
  <1>r. Refunds'
    <2>1. given'[r] = markFails'[r] /\ record'[r] # "refunded"
      BY <1>i, <1>p DEF TypeOK, Refunds, GiveFails
    <2> QED BY <1>o, <1>p, <2>1, RefundsStep
  <1>e. Buried'
    BY <1>i, <1>o, <1>p, BuriedStep DEF Buried
  <1> QED BY <1>t, <1>b, <1>r, <1>e DEF IInv

(* The record cannot be marked. *)
LEMMA MarkFailsKeeps ==
  ASSUME IInv, NEW r \in Requests, MarkFails(r)
  PROVE  IInv'
  <1>i. TypeOK /\ Bounded /\ Refunds /\ Buried
    BY DEF IInv
  <1>o. Others(r) /\ UNCHANGED <<open, tRead, ended>>
    BY <1>i, RetryOK DEF TypeOK, MarkFails, Others
  <1>p. pc'[r] \in {"refund", "gave_up"} /\ row' = row /\ record' = record
    BY <1>i, RetryOK DEF TypeOK, MarkFails
  <1>t. TypeOK'
    <2>1. read' \in [Requests -> [Subs -> Rows]] /\ at' \in [Requests -> Nat]
      BY <1>i DEF TypeOK, MarkFails
    <2>2. pc' \in [Requests -> Labels] /\ tries' \in [Requests -> 0..MaxAttempts]
      BY <1>i, RetryOK DEF TypeOK, MarkFails, Labels, Ended
    <2>3. faults' \in Nat
      BY <1>i DEF TypeOK, MarkFails
    <2>4. markFails' \in [Requests -> Nat]
      BY <1>i DEF TypeOK, MarkFails
    <2> QED BY <1>i, <2>1, <2>2, <2>3, <2>4 DEF TypeOK, MarkFails
  <1>b. Bounded'
    <2>1. \A s \in Subs : InBounds(s, read'[r][s])
      BY <1>i DEF MarkFails, Bounded
    <2> QED BY <1>i, <1>o, <1>p, <2>1, BoundedStep DEF Bounded
  <1>r. Refunds'
    <2>1. given'[r] = markFails'[r] /\ record'[r] # "refunded"
      BY <1>i, <1>p DEF TypeOK, Refunds, MarkFails
    <2> QED BY <1>o, <1>p, <2>1, RefundsStep
  <1>e. Buried'
    BY <1>i, <1>o, <1>p, BuriedStep DEF Buried
  <1> QED BY <1>t, <1>b, <1>r, <1>e DEF IInv

(* The rows are read and one is chosen (PreConsumeUserSubscription). *)
LEMMA PreReadKeeps ==
  ASSUME IInv, NEW r \in Requests, PreRead(r)
  PROVE  IInv'
  <1>i. TypeOK /\ Bounded /\ Refunds /\ Buried
    BY DEF IInv
  <1> DEFINE C == Candidates(row, now)
             fits(a) == {s \in C : Suffices(s, MaybeReset(row[s], now), a)}
  <1>u. UNCHANGED <<database, now, delta, tries, task, history, faults>> /\ pc[r] = "start"
    BY DEF PreRead
  <1>c. C \in SUBSET Subs
    BY DEF Candidates
  <1>1. ASSUME NEW a \in Amounts, NEW s \in fits(a),
               sub' = [sub EXCEPT ![r] = s], amount' = [amount EXCEPT ![r] = a],
               read' = [read EXCEPT ![r] = RowsOf(C)], at' = [at EXCEPT ![r] = now],
               Goto(r, "pre_write")
        PROVE  IInv'
    <2>1. s \in Subs /\ s \in C /\ Suffices(s, MaybeReset(row[s], now), a) /\ a \in Nat
      BY <1>c, Constants
    <2>2. /\ RowsOf(C) \in [Subs -> Rows]
          /\ \A x \in Subs : RowsOf(C)[x] = IF x \in C THEN row[x] ELSE NoRow
      BY <1>i, <1>c, RowsOfOK
    <2> HIDE DEF C
    <2>3. /\ pc'[r] = "pre_write" /\ sub'[r] = s /\ amount'[r] = a /\ at'[r] = now
          /\ read'[r] = RowsOf(C)
      BY <1>i, <1>1 DEF TypeOK
    <2>4. Others(r)
      BY <1>i, <1>u, <1>1 DEF TypeOK, Others
    <2>t. TypeOK'
      <3>1. /\ sub' \in [Requests -> Subs] /\ amount' \in [Requests -> Nat]
            /\ at' \in [Requests -> Nat] /\ read' \in [Requests -> [Subs -> Rows]]
        BY <1>i, <1>1, <2>1, <2>2 DEF TypeOK
      <3>2. pc' \in [Requests -> Labels]
        BY <1>i, <1>1 DEF TypeOK, Labels
      <3> QED BY <1>i, <1>u, <3>1, <3>2 DEF TypeOK
    <2>b. Bounded'
      <3>1. \A x \in Subs : InBounds(x, read'[r][x])
        BY <1>i, <2>2, <2>3, NoRowOK DEF Bounded
      <3>2. read'[r][s] = row[s]
        BY <2>1, <2>2, <2>3
      <3>3. Suffices(sub'[r], MaybeReset(read'[r][sub'[r]], at'[r]), amount'[r])
        BY <2>1, <2>3, <3>2
      <3>4. \A x \in Subs : InBounds(x, row'[x])
        BY <1>i, <1>u DEF Bounded
      <3> QED BY <1>u, <2>3, <2>4, <3>1, <3>3, <3>4, BoundedStep
    <2>r. Refunds'
      <3>1. given'[r] = markFails'[r] /\ record'[r] # "refunded"
        BY <1>i, <1>u DEF Refunds
      <3> QED BY <2>3, <2>4, <3>1, RefundsStep
    <2>e. Buried'
      <3>1. ASSUME NEW x \in ended
            PROVE  Dead(row'[x]) /\ sub'[r] # x /\ x \notin PassedOver(r)'
        <4>1. Dead(row[x]) /\ x \in Subs
          BY <1>i, <3>1 DEF Buried, TypeOK
        <4>2. x \notin C
          BY <4>1 DEF C, Candidates, Dead
        <4>3. read'[r][x].status # "active"
          BY <2>2, <2>3, <4>1, <4>2, NoRowOK
        <4>4. x \notin PassedOver(r)'
          BY <4>3 DEF PassedOver, Candidates
        <4> QED BY <1>u, <2>1, <2>3, <4>1, <4>2, <4>4
      <3> QED BY <1>u, <2>3, <2>4, <3>1, BuriedStep
    <2> QED BY <2>t, <2>b, <2>r, <2>e DEF IInv
  <1>2. CASE Goto(r, "refused") /\ UNCHANGED <<sub, amount, read, at>>
    <2>1. pc'[r] = "refused" /\ pc' \in [Requests -> Labels]
      BY <1>i, <1>2 DEF TypeOK, Labels, Ended
    <2>2. Others(r)
      BY <1>i, <1>u, <1>2 DEF TypeOK, Others
    <2>t. TypeOK'
      BY <1>i, <1>u, <1>2, <2>1 DEF TypeOK
    <2>b. Bounded'
      BY <1>i, <1>u, <1>2, <2>1, <2>2, BoundedStep DEF Bounded
    <2>r. Refunds'
      <3>1. given'[r] = markFails'[r] /\ record'[r] # "refunded"
        BY <1>i, <1>u DEF Refunds
      <3> QED BY <2>1, <2>2, <3>1, RefundsStep
    <2>e. Buried'
      BY <1>i, <1>u, <2>1, <2>2, BuriedStep DEF Buried
    <2> QED BY <2>t, <2>b, <2>r, <2>e DEF IInv
  <1> QED BY <1>1, <1>2 DEF PreRead

(* The row is read for the settlement (PostConsumeUserSubscriptionDelta). *)
LEMMA SettleReadKeeps ==
  ASSUME IInv, NEW r \in Requests, SettleRead(r)
  PROVE  IInv'
  <1>i. TypeOK /\ Bounded /\ Refunds /\ Buried
    BY DEF IInv
  <1>u. /\ UNCHANGED <<database, now, at, sub, amount, delta, task, history, faults>>
        /\ pc[r] = "settle_read" /\ sub[r] \in Subs
    BY <1>i DEF TypeOK, SettleRead
  <1>1. CASE /\ read' = [read EXCEPT ![r] = RowsOf({sub[r]})] /\ Goto(r, "settle_write")
             /\ UNCHANGED tries /\ DeltaAllowed(sub[r], row[sub[r]], delta[r])
    <2>1. /\ RowsOf({sub[r]}) \in [Subs -> Rows]
          /\ \A x \in Subs : RowsOf({sub[r]})[x] = IF x \in {sub[r]} THEN row[x] ELSE NoRow
      BY <1>i, <1>u, RowsOfOK
    <2>2. pc'[r] = "settle_write" /\ read'[r] = RowsOf({sub[r]}) /\ Others(r)
      BY <1>i, <1>u, <1>1 DEF TypeOK, Others
    <2>3. read'[r][sub[r]] = row[sub[r]]
      BY <1>u, <2>1, <2>2
    <2>t. TypeOK'
      <3>1. pc' \in [Requests -> Labels] /\ read' \in [Requests -> [Subs -> Rows]]
        BY <1>i, <1>1, <2>1 DEF TypeOK, Labels
      <3> QED BY <1>i, <1>u, <1>1, <3>1 DEF TypeOK
    <2>b. Bounded'
      <3>1. \A x \in Subs : InBounds(x, read'[r][x]) /\ InBounds(x, row'[x])
        BY <1>i, <1>u, <2>1, <2>2, NoRowOK DEF Bounded
      <3> QED BY <1>u, <1>1, <2>2, <2>3, <3>1, BoundedStep
    <2>r. Refunds'
      <3>1. given'[r] = markFails'[r] /\ record'[r] # "refunded"
        BY <1>i, <1>u DEF Refunds
      <3> QED BY <2>2, <3>1, RefundsStep
    <2>e. Buried'
      <3>1. \A x \in ended : Dead(row'[x]) /\ (sub'[r] = x => Dead(read'[r][x]))
        BY <1>i, <1>u, <2>3 DEF Buried
      <3> QED BY <1>u, <2>2, <3>1, BuriedStep
    <2> QED BY <2>t, <2>b, <2>r, <2>e DEF IInv
  <1>2. CASE Goto(r, "unsettled") /\ UNCHANGED <<read, tries>>
    <2>1. pc'[r] = "unsettled" /\ pc' \in [Requests -> Labels] /\ tries' \in [Requests -> 0..MaxAttempts]
      BY <1>i, <1>2 DEF TypeOK, Labels, Ended
    <2>2. Others(r)
      BY <1>i, <1>u, <1>2 DEF TypeOK, Others
    <2>t. TypeOK'
      BY <1>i, <1>u, <1>2, <2>1 DEF TypeOK
    <2>b. Bounded'
      BY <1>i, <1>u, <1>2, <2>1, <2>2, BoundedStep DEF Bounded
    <2>r. Refunds'
      <3>1. given'[r] = markFails'[r] /\ record'[r] # "refunded"
        BY <1>i, <1>u DEF Refunds
      <3> QED BY <2>1, <2>2, <3>1, RefundsStep
    <2>e. Buried'
      BY <1>i, <1>u, <2>1, <2>2, BuriedStep DEF Buried
    <2> QED BY <2>t, <2>b, <2>r, <2>e DEF IInv
  <1> QED BY <1>1, <1>2 DEF SettleRead

(* The row is read for the refund (PostConsumeUserSubscriptionDelta). *)
LEMMA GiveReadKeeps ==
  ASSUME IInv, NEW r \in Requests, GiveRead(r)
  PROVE  IInv'
  <1>i. TypeOK /\ Bounded /\ Refunds /\ Buried
    BY DEF IInv
  <1>u. /\ UNCHANGED <<database, now, at, sub, amount, delta, task, history, faults>>
        /\ pc[r] = "give_read" /\ sub[r] \in Subs
    BY <1>i DEF TypeOK, GiveRead
  <1>1. CASE /\ read' = [read EXCEPT ![r] = RowsOf({sub[r]})] /\ Goto(r, "give_write")
             /\ UNCHANGED tries
    <2>1. /\ RowsOf({sub[r]}) \in [Subs -> Rows]
          /\ \A x \in Subs : RowsOf({sub[r]})[x] = IF x \in {sub[r]} THEN row[x] ELSE NoRow
      BY <1>i, <1>u, RowsOfOK
    <2>2. pc'[r] = "give_write" /\ read'[r] = RowsOf({sub[r]}) /\ Others(r)
      BY <1>i, <1>u, <1>1 DEF TypeOK, Others
    <2>3. read'[r][sub[r]] = row[sub[r]]
      BY <1>u, <2>1, <2>2
    <2>t. TypeOK'
      <3>1. pc' \in [Requests -> Labels] /\ read' \in [Requests -> [Subs -> Rows]]
        BY <1>i, <1>1, <2>1 DEF TypeOK, Labels
      <3> QED BY <1>i, <1>u, <1>1, <3>1 DEF TypeOK
    <2>b. Bounded'
      <3>1. \A x \in Subs : InBounds(x, read'[r][x]) /\ InBounds(x, row'[x])
        BY <1>i, <1>u, <2>1, <2>2, NoRowOK DEF Bounded
      <3> QED BY <1>u, <1>1, <2>2, <2>3, <3>1, BoundedStep
    <2>r. Refunds'
      <3>1. given'[r] = markFails'[r] /\ record'[r] # "refunded"
        BY <1>i, <1>u DEF Refunds
      <3> QED BY <2>2, <3>1, RefundsStep
    <2>e. Buried'
      <3>1. \A x \in ended : Dead(row'[x]) /\ (sub'[r] = x => Dead(read'[r][x]))
        BY <1>i, <1>u, <2>3 DEF Buried
      <3> QED BY <1>u, <2>2, <3>1, BuriedStep
    <2> QED BY <2>t, <2>b, <2>r, <2>e DEF IInv
  <1>2. CASE Retry(r) /\ UNCHANGED read
    <2>1. pc'[r] \in {"refund", "gave_up"} /\ pc' \in [Requests -> Labels] /\ tries' \in [Requests -> 0..MaxAttempts]
      BY <1>i, <1>2, RetryOK DEF TypeOK, Labels, Ended
    <2>2. Others(r)
      BY <1>i, <1>u, <1>2, RetryOK DEF TypeOK, Others
    <2>t. TypeOK'
      BY <1>i, <1>u, <1>2, <2>1 DEF TypeOK
    <2>b. Bounded'
      BY <1>i, <1>u, <1>2, <2>1, <2>2, BoundedStep DEF Bounded
    <2>r. Refunds'
      <3>1. given'[r] = markFails'[r] /\ record'[r] # "refunded"
        BY <1>i, <1>u DEF Refunds
      <3> QED BY <2>1, <2>2, <3>1, RefundsStep
    <2>e. Buried'
      BY <1>i, <1>u, <2>1, <2>2, BuriedStep DEF Buried
    <2> QED BY <2>t, <2>b, <2>r, <2>e DEF IInv
  <1> QED BY <1>1, <1>2 DEF GiveRead

(* The hold is saved, with the resets of the rows passed over              *)
(* (PreConsumeUserSubscription).                                           *)
LEMMA PreWriteKeeps ==
  ASSUME IInv, NEW r \in Requests, PreWrite(r)
  PROVE  IInv'
  <1>i. TypeOK /\ Bounded /\ Refunds /\ Buried
    BY DEF IInv
  <1> DEFINE x == MaybeReset(read[r][sub[r]], at[r])
  <1>u. /\ pc[r] = "pre_write" /\ sub[r] \in Subs /\ amount[r] \in Nat /\ at[r] \in Nat
        /\ \A s \in Subs : read[r][s] \in Rows
        /\ UNCHANGED <<now, sub, amount, delta, tries, task, given, markFails, ended, faults>>
    BY <1>i DEF TypeOK, PreWrite
  <1>1. PassedOver(r) \in SUBSET Subs
    BY DEF PassedOver, Candidates
  <1>2. /\ x \in Rows /\ Suffices(sub[r], x, amount[r])
    BY <1>i, <1>u, MaybeResetOK DEF Bounded
  <1>3. Consumed(r) = [x EXCEPT !.used = x.used + amount[r]]
    BY DEF Consumed
  <1> HIDE DEF x
  <1>4. Consumed(r) \in Rows /\ InBounds(sub[r], Consumed(r)) /\ Consumed(r).period \in Nat
    <2>1. Consumed(r) \in Rows /\ Consumed(r).used = x.used + amount[r]
      BY <1>u, <1>2, <1>3 DEF Rows
    <2>2. x.used \in Nat /\ Consumed(r).period \in Nat
      BY <1>2, <2>1 DEF Rows
    <2> QED BY <1>u, <1>2, <2>1, <2>2, Constants DEF InBounds, Suffices
  <1>5. \A s \in Subs : /\ MaybeReset(read[r][s], at[r]) \in Rows
                        /\ InBounds(s, MaybeReset(read[r][s], at[r]))
    BY <1>i, <1>u, MaybeResetOK DEF Bounded
  <1>6. row' = [s \in Subs |-> IF s = sub[r] THEN Consumed(r)
                               ELSE IF s \in PassedOver(r) THEN MaybeReset(read[r][s], at[r])
                               ELSE row[s]]
    BY DEF PreWrite
  <1>7. row' \in [Subs -> Rows]
    BY <1>i, <1>4, <1>5, <1>6 DEF TypeOK
  <1>8. /\ pc'[r] = "held" /\ record'[r] = "consumed" /\ Others(r)
        /\ \A s \in Subs : read'[r][s] = NoRow
    BY <1>i, <1>u, ForgottenOK DEF TypeOK, PreWrite, Others
  <1>t. TypeOK'
    <2>1. read' \in [Requests -> [Subs -> Rows]] /\ at' \in [Requests -> Nat]
      BY <1>i, ForgottenOK, Zenon DEF PreWrite
    <2>2. /\ pc' \in [Requests -> Labels] /\ net' \in [Requests -> Int]
          /\ record' \in [Requests -> {"none", "consumed", "refunded"}]
      BY <1>i, <1>u DEF TypeOK, PreWrite, Labels
    <2>3. held' \in [Requests -> Nat]
      BY <1>i, <1>4 DEF TypeOK, PreWrite
    <2>4. disturbed' \subseteq Subs
      BY <1>i, <1>u, <1>1 DEF TypeOK, PreWrite
    <2> QED BY <1>i, <1>u, <1>7, <2>1, <2>2, <2>3, <2>4 DEF TypeOK
  <1>b. Bounded'
    <2>1. \A s \in Subs : InBounds(s, row'[s])
      BY <1>i, <1>4, <1>5, <1>6 DEF Bounded
    <2>2. \A s \in Subs : InBounds(s, read'[r][s])
      BY <1>8, NoRowOK
    <2> QED BY <1>u, <1>8, <2>1, <2>2, BoundedStep
  <1>r. Refunds'
    <2>1. given'[r] = markFails'[r]
      BY <1>i, <1>u DEF Refunds
    <2> QED BY <1>8, <2>1, RefundsStep
  <1>e. Buried'
    <2>1. \A s \in ended : row'[s] = row[s]
      BY <1>i, <1>u, <1>6 DEF Buried, TypeOK
    <2> QED BY <1>i, <1>u, <1>8, <2>1, BuriedStep DEF Buried
  <1> QED BY <1>t, <1>b, <1>r, <1>e DEF IInv

(* A row saved with a new amount_used keeps its status and, if what is      *)
(* added was allowed or negative, stays within its total.                   *)
LEMMA SaveUsedOK ==
  ASSUME IInv, NEW r \in Requests, NEW d \in Int, SaveUsed(r, d),
         d <= 0 \/ DeltaAllowed(sub[r], read[r][sub[r]], d),
         \A s \in ended : sub[r] = s => Dead(read[r][s])
  PROVE  /\ row' \in [Subs -> Rows] /\ net' \in [Requests -> Int]
         /\ disturbed' \subseteq Subs
         /\ \A s \in Subs : InBounds(s, row'[s])
         /\ \A s \in ended : Dead(row'[s])
  <1>i. TypeOK /\ Bounded /\ Buried
    BY DEF IInv
  <1> DEFINE x == read[r][sub[r]]
             y == [x EXCEPT !.used = NewUsed(x, d)]
  <1>1. x \in Rows /\ sub[r] \in Subs /\ InBounds(sub[r], x)
    BY <1>i DEF TypeOK, Bounded
  <1>2. x.used \in Nat
    BY <1>1 DEF Rows
  <1>3. NewUsed(x, d) \in Nat /\ (d <= 0 => NewUsed(x, d) <= x.used)
    BY <1>2 DEF NewUsed
  <1>4. y \in Rows /\ y.used = NewUsed(x, d) /\ y.status = x.status
    BY <1>1, <1>3 DEF Rows
  <1>5. InBounds(sub[r], y)
    BY <1>1, <1>2, <1>3, <1>4, Constants DEF InBounds, DeltaAllowed
  <1>6. row' = [row EXCEPT ![sub[r]] = y]
    BY DEF SaveUsed
  <1> HIDE DEF y
  <1>7. row' \in [Subs -> Rows] /\ \A s \in Subs : row'[s] = IF s = sub[r] THEN y ELSE row[s]
    BY <1>i, <1>4, <1>6 DEF TypeOK
  <1>8. net' \in [Requests -> Int] /\ disturbed' \subseteq Subs
    BY <1>i, <1>1 DEF TypeOK, SaveUsed
  <1>9. \A s \in Subs : InBounds(s, row'[s])
    BY <1>i, <1>5, <1>7 DEF Bounded
  <1>10. \A s \in ended : Dead(row'[s])
    BY <1>i, <1>4, <1>7 DEF Buried, Dead, TypeOK
  <1> QED BY <1>7, <1>8, <1>9, <1>10

(* The settlement is saved (PostConsumeUserSubscriptionDelta). *)
LEMMA SettleWriteKeeps ==
  ASSUME IInv, NEW r \in Requests, SettleWrite(r)
  PROVE  IInv'
  <1>i. TypeOK /\ Bounded /\ Refunds /\ Buried
    BY DEF IInv
  <1>u. /\ pc[r] = "settle_write" /\ SaveUsed(r, delta[r]) /\ delta[r] \in Int
        /\ UNCHANGED <<record, now, sub, amount, delta, tries, task, markFails,
                       held, ended, faults>>
    BY <1>i DEF TypeOK, SettleWrite
  <1>a. delta[r] <= 0 \/ DeltaAllowed(sub[r], read[r][sub[r]], delta[r])
    BY <1>i, <1>u DEF TypeOK, Bounded
  <1>d. \A s \in ended : sub[r] = s => Dead(read[r][s])
    BY <1>i, <1>u DEF Buried
  <1>1. /\ row' \in [Subs -> Rows] /\ net' \in [Requests -> Int]
        /\ disturbed' \subseteq Subs
        /\ \A s \in Subs : InBounds(s, row'[s])
        /\ \A s \in ended : Dead(row'[s])
    BY <1>u, <1>a, <1>d, SaveUsedOK
  <1>2. /\ pc'[r] = "settled" /\ Others(r)
        /\ \A s \in Subs : read'[r][s] = NoRow
        /\ given' = given
    BY <1>i, <1>u, ForgottenOK DEF TypeOK, SettleWrite, Others
  <1>t. TypeOK'
    <2>1. read' \in [Requests -> [Subs -> Rows]] /\ at' \in [Requests -> Nat]
      BY <1>i, ForgottenOK, Zenon DEF SettleWrite
    <2>2. pc' \in [Requests -> Labels] /\ given' \in [Requests -> Nat]
      BY <1>i, <1>u DEF TypeOK, SettleWrite, Labels, Ended
    <2> QED BY <1>i, <1>u, <1>1, <2>1, <2>2 DEF TypeOK
  <1>b. Bounded'
    <2>1. \A s \in Subs : InBounds(s, read'[r][s])
      BY <1>2, NoRowOK
    <2> QED BY <1>u, <1>1, <1>2, <2>1, BoundedStep
  <1>r. Refunds'
    <2>1. given[r] = markFails[r] /\ record[r] # "refunded"
      BY <1>i, <1>u DEF Refunds
    <2> QED BY <1>u, <1>2, <2>1, RefundsStep
  <1>e. Buried'
    BY <1>u, <1>1, <1>2, BuriedStep
  <1> QED BY <1>t, <1>b, <1>r, <1>e DEF IInv

(* The refund is saved (PostConsumeUserSubscriptionDelta). *)
LEMMA GiveWriteKeeps ==
  ASSUME IInv, NEW r \in Requests, GiveWrite(r)
  PROVE  IInv'
  <1>i. TypeOK /\ Bounded /\ Refunds /\ Buried
    BY DEF IInv
  <1>u. /\ pc[r] = "give_write" /\ SaveUsed(r, 0 - amount[r]) /\ 0 - amount[r] \in Int
        /\ UNCHANGED <<record, now, sub, amount, delta, tries, task, markFails,
                       held, ended, faults>>
    BY <1>i DEF TypeOK, GiveWrite
  <1>a. 0 - amount[r] <= 0 \/ DeltaAllowed(sub[r], read[r][sub[r]], 0 - amount[r])
    BY <1>i, <1>u DEF TypeOK, Bounded
  <1>d. \A s \in ended : sub[r] = s => Dead(read[r][s])
    BY <1>i, <1>u DEF Buried
  <1>1. /\ row' \in [Subs -> Rows] /\ net' \in [Requests -> Int]
        /\ disturbed' \subseteq Subs
        /\ \A s \in Subs : InBounds(s, row'[s])
        /\ \A s \in ended : Dead(row'[s])
    BY <1>u, <1>a, <1>d, SaveUsedOK
  <1>2. /\ pc'[r] = "mark" /\ Others(r)
        /\ \A s \in Subs : read'[r][s] = NoRow
        /\ given'[r] = given[r] + 1
    BY <1>i, <1>u, ForgottenOK DEF TypeOK, GiveWrite, Others
  <1>t. TypeOK'
    <2>1. read' \in [Requests -> [Subs -> Rows]] /\ at' \in [Requests -> Nat]
      BY <1>i, ForgottenOK, Zenon DEF GiveWrite
    <2>2. pc' \in [Requests -> Labels] /\ given' \in [Requests -> Nat]
      BY <1>i, <1>u DEF TypeOK, GiveWrite, Labels, Ended
    <2> QED BY <1>i, <1>u, <1>1, <2>1, <2>2 DEF TypeOK
  <1>b. Bounded'
    <2>1. \A s \in Subs : InBounds(s, read'[r][s])
      BY <1>2, NoRowOK
    <2> QED BY <1>u, <1>1, <1>2, <2>1, BoundedStep
  <1>r. Refunds'
    <2>1. given[r] = markFails[r] /\ record[r] # "refunded"
      BY <1>i, <1>u DEF Refunds
    <2> QED BY <1>u, <1>2, <2>1, RefundsStep
  <1>e. Buried'
    BY <1>u, <1>1, <1>2, BuriedStep
  <1> QED BY <1>t, <1>b, <1>r, <1>e DEF IInv

-----------------------------------------------------------------------------
(* The steps of the maintenance task, of administrators and of the clock *)

(* A step of another than a request: what it must keep. *)
LEMMA RequestsKept ==
  ASSUME IInv, UNCHANGED <<request, record, given, markFails>>,
         \A s \in Subs : InBounds(s, row'[s]),
         \A s \in open' : InBounds(s, tRead'),
         \A s \in ended' :
           /\ Dead(row'[s])
           /\ s \in open' => Dead(tRead')
           /\ s \notin ended
                => \A r \in Requests :
                     /\ pc[r] = "pre_write" => sub[r] # s /\ s \notin PassedOver(r)
                     /\ pc[r] \in {"settle_write", "give_write"} => sub[r] # s,
         TypeOK'
  PROVE  IInv'
  <1>i. TypeOK /\ Bounded /\ Refunds /\ Buried
    BY DEF IInv
  <1>b. Bounded'
    <2>1. \A r \in Requests :
            /\ pc'[r] = "pre_write"
                 => Suffices(sub'[r], MaybeReset(read'[r][sub'[r]], at'[r]), amount'[r])
            /\ pc'[r] = "settle_write" => DeltaAllowed(sub'[r], read'[r][sub'[r]], delta'[r])
      BY <1>i DEF Bounded
    <2>2. \A r \in Requests, s \in Subs : InBounds(s, read'[r][s])
      BY <1>i DEF Bounded
    <2> QED BY <2>1, <2>2 DEF Bounded, InBounds
  <1>r. Refunds'
    BY <1>i DEF Refunds
  <1>e. Buried'
    <2>1. \A r \in Requests : PassedOver(r)' = PassedOver(r)
      BY DEF PassedOver, Candidates, ResetDue, Before
    <2>2. ASSUME NEW s \in ended', NEW r \in Requests
          PROVE  /\ pc'[r] = "pre_write" => sub'[r] # s /\ s \notin PassedOver(r)'
                 /\ pc'[r] \in {"settle_write", "give_write"} /\ sub'[r] = s
                      => Dead(read'[r][s])
      <3>1. CASE s \in ended
        BY <1>i, <2>1, <3>1 DEF Buried
      <3>2. CASE s \notin ended
        BY <2>1, <3>2
      <3> QED BY <3>1, <3>2
    <2>3. \A s \in ended' : Dead(row'[s]) /\ (s \in open' => Dead(tRead'))
      OBVIOUS
    <2> QED BY <2>2, <2>3 DEF Buried, Dead
  <1> QED BY <1>b, <1>r, <1>e DEF IInv

(* The status of what has run out is written (ExpireDueSubscriptions). *)
LEMMA ExpireKeeps ==
  ASSUME IInv, ExpireDueSubscriptions
  PROVE  IInv'
  <1>i. TypeOK /\ Bounded /\ Buried
    BY DEF IInv
  <1>u. UNCHANGED <<record, now, request, task, history, faults>>
    BY DEF ExpireDueSubscriptions
  <1>1. row' = [s \in Subs |-> IF s \in Expirable THEN [row[s] EXCEPT !.status = "expired"]
                                                  ELSE row[s]]
    BY DEF ExpireDueSubscriptions
  <1>2. \A s \in Subs : /\ [row[s] EXCEPT !.status = "expired"] \in Rows
                        /\ [row[s] EXCEPT !.status = "expired"].used = row[s].used
    BY <1>i DEF TypeOK, Rows, Statuses
  <1>3. row' \in [Subs -> Rows]
    BY <1>i, <1>1, <1>2 DEF TypeOK
  <1>4. \A s \in Subs : InBounds(s, row'[s])
    BY <1>i, <1>1, <1>2 DEF Bounded, InBounds
  <1>5. \A s \in ended : row'[s] = row[s]
    BY <1>i, <1>1 DEF Buried, Dead, TypeOK, Expirable
  <1>6. TypeOK'
    BY <1>i, <1>u, <1>3 DEF TypeOK
  <1>7. /\ \A s \in open' : InBounds(s, tRead')
        /\ \A s \in ended' : /\ Dead(row'[s]) /\ s \in ended
                             /\ s \in open' => Dead(tRead')
    BY <1>i, <1>u, <1>5 DEF Bounded, Buried
  <1> QED BY <1>u, <1>4, <1>6, <1>7, RequestsKept

(* The task collects what is due (ResetDueSubscriptions). *)
LEMMA ResetDueKeeps ==
  ASSUME IInv, ResetDueSubscriptions
  PROVE  IInv'
  <1>i. TypeOK /\ Bounded /\ Buried
    BY DEF IInv
  <1>u. UNCHANGED <<database, now, request, open, tRead, history, faults>>
    BY DEF ResetDueSubscriptions
  <1>1. TypeOK'
    <2>1. due' \subseteq Subs /\ tAt' \in Nat
      BY <1>i DEF TypeOK, ResetDueSubscriptions
    <2> QED BY <1>i, <1>u, <2>1 DEF TypeOK
  <1>2. /\ \A s \in Subs : InBounds(s, row'[s])
        /\ \A s \in open' : InBounds(s, tRead')
        /\ \A s \in ended' : /\ Dead(row'[s]) /\ s \in ended
                             /\ s \in open' => Dead(tRead')
    BY <1>i, <1>u DEF Bounded, Buried
  <1> QED BY <1>u, <1>1, <1>2, RequestsKept

(* The task reads a row again, or finds it reset. *)
LEMMA ResetReadKeeps ==
  ASSUME IInv, NEW s \in Subs, ResetRead(s)
  PROVE  IInv'
  <1>i. TypeOK /\ Bounded /\ Buried
    BY DEF IInv
  <1>u. UNCHANGED <<database, now, request, tAt, history, faults>> /\ open = {}
    BY DEF ResetRead
  <1>1. /\ \/ open' = {s} /\ tRead' = row[s]
           \/ open' = open /\ tRead' = tRead
        /\ due' \subseteq due
    BY DEF ResetRead
  <1>2. TypeOK'
    <2>1. open' \subseteq Subs /\ tRead' \in Rows /\ due' \subseteq Subs
      BY <1>i, <1>1 DEF TypeOK
    <2> QED BY <1>i, <1>u, <2>1 DEF TypeOK
  <1>3. /\ \A x \in Subs : InBounds(x, row'[x])
        /\ \A x \in open' : InBounds(x, tRead')
        /\ \A x \in ended' : /\ Dead(row'[x]) /\ x \in ended
                             /\ x \in open' => Dead(tRead')
    BY <1>i, <1>u, <1>1 DEF Bounded, Buried
  <1> QED BY <1>u, <1>2, <1>3, RequestsKept

(* The task saves the row it has read. *)
LEMMA ResetWriteKeeps ==
  ASSUME IInv, NEW s \in Subs, ResetWrite(s)
  PROVE  IInv'
  <1>i. TypeOK /\ Bounded /\ Buried
    BY DEF IInv
  <1>u. UNCHANGED <<record, now, request, tAt, given, markFails, net, held, ended, faults>>
    BY DEF ResetWrite
  <1> DEFINE y == MaybeReset(tRead, tAt)
  <1>1. /\ s \in open /\ row' = [row EXCEPT ![s] = y] /\ open' = {} /\ tRead' = NoRow
        /\ due' \subseteq due /\ disturbed' \subseteq disturbed \cup {s}
    BY DEF ResetWrite
  <1>2. tRead \in Rows /\ tAt \in Nat /\ InBounds(s, tRead)
    BY <1>i, <1>1 DEF TypeOK, Bounded
  <1>3. y \in Rows /\ y.status = tRead.status /\ InBounds(s, y)
    BY <1>2, MaybeResetOK
  <1> HIDE DEF y
  <1>4. row' \in [Subs -> Rows] /\ \A x \in Subs : row'[x] = IF x = s THEN y ELSE row[x]
    BY <1>i, <1>1, <1>3 DEF TypeOK
  <1>5. TypeOK'
    <2>1. open' \subseteq Subs /\ tRead' \in Rows /\ due' \subseteq Subs /\ disturbed' \subseteq Subs
      BY <1>i, <1>1, NoRowOK DEF TypeOK
    <2> QED BY <1>i, <1>u, <1>4, <2>1 DEF TypeOK
  <1>6. \A x \in Subs : InBounds(x, row'[x])
    BY <1>i, <1>3, <1>4 DEF Bounded
  <1>7. \A x \in ended' : Dead(row'[x]) /\ x \in ended
    BY <1>i, <1>u, <1>1, <1>3, <1>4 DEF Buried, Dead, TypeOK
  <1>8. \A x \in open' : InBounds(x, tRead') /\ Dead(tRead')
    BY <1>1
  <1> QED BY <1>u, <1>5, <1>6, <1>7, <1>8, RequestsKept

(* The transaction of a reset fails. *)
LEMMA ResetFailsKeeps ==
  ASSUME IInv, NEW s \in Subs, ResetFails(s)
  PROVE  IInv'
  <1>i. TypeOK /\ Bounded /\ Buried
    BY DEF IInv
  <1>u. /\ UNCHANGED <<database, now, request, tAt, history>>
        /\ open' = {} /\ due' = {} /\ tRead' = NoRow /\ faults > 0 /\ faults' = faults - 1
    BY DEF ResetFails
  <1>1. TypeOK'
    <2>1. faults' \in Nat
      BY <1>i, <1>u DEF TypeOK
    <2> QED BY <1>i, <1>u, <2>1, NoRowOK DEF TypeOK
  <1>2. /\ \A x \in Subs : InBounds(x, row'[x])
        /\ \A x \in open' : InBounds(x, tRead') /\ Dead(tRead')
        /\ \A x \in ended' : Dead(row'[x]) /\ x \in ended
    BY <1>i, <1>u DEF Bounded, Buried
  <1> QED BY <1>u, <1>1, <1>2, RequestsKept

(* An administrator cancels or deletes a subscription; it counts as ended   *)
(* if nobody is about to save a copy of it.                                 *)
LEMMA EndsKeeps ==
  ASSUME IInv, NEW s \in Subs, NEW y \in Rows, Dead(y), InBounds(s, y),
         row' = [row EXCEPT ![s] = y], Ends(s),
         UNCHANGED <<record, now, request, task, given, markFails, net, held, disturbed, faults>>
  PROVE  IInv'
  <1>i. TypeOK /\ Bounded /\ Buried
    BY DEF IInv
  <1>1. row' \in [Subs -> Rows] /\ \A x \in Subs : row'[x] = IF x = s THEN y ELSE row[x]
    BY <1>i DEF TypeOK
  <1>2. ended' \subseteq ended \cup {s} /\ (s \in ended' /\ s \notin ended => ~Working(s))
    BY DEF Ends
  <1>3. TypeOK'
    BY <1>i, <1>1, <1>2 DEF TypeOK
  <1>4. \A x \in Subs : InBounds(x, row'[x])
    BY <1>i, <1>1 DEF Bounded
  <1>5. \A x \in open' : InBounds(x, tRead')
    BY <1>i DEF Bounded
  <1>6. ASSUME NEW x \in ended'
        PROVE  /\ Dead(row'[x])
               /\ x \in open' => Dead(tRead')
               /\ x \notin ended
                    => \A r \in Requests :
                         /\ pc[r] = "pre_write" => sub[r] # x /\ x \notin PassedOver(r)
                         /\ pc[r] \in {"settle_write", "give_write"} => sub[r] # x
    <2>1. CASE x \in ended
      BY <1>i, <1>1, <2>1 DEF Buried, TypeOK
    <2>2. CASE x \notin ended
      <3>1. x = s /\ ~Working(x)
        BY <1>2, <1>6, <2>2
      <3> QED BY <1>1, <3>1 DEF Working
    <2> QED BY <2>1, <2>2
  <1> QED BY <1>3, <1>4, <1>5, <1>6, RequestsKept

(* The two calls of an administrator. *)
LEMMA AdminKeeps ==
  ASSUME IInv, NEW s \in Subs, Admin(s)
  PROVE  IInv'
  <1>i. TypeOK /\ Bounded
    BY DEF IInv
  <1>1. CASE AdminInvalidateUserSubscription(s)
    <2> DEFINE y == [row[s] EXCEPT !.status = "cancelled", !.end = now]
    <2>1. y \in Rows /\ y.used = row[s].used /\ y.status = "cancelled"
      BY <1>i DEF TypeOK, Rows, Statuses
    <2>2. row' = [row EXCEPT ![s] = y]
      BY <1>i, <1>1 DEF AdminInvalidateUserSubscription, TypeOK
    <2>3. Dead(y) /\ InBounds(s, y)
      BY <1>i, <2>1 DEF Dead, Bounded, InBounds
    <2> HIDE DEF y
    <2> QED BY <1>1, <2>1, <2>2, <2>3, EndsKeeps DEF AdminInvalidateUserSubscription
  <1>2. CASE AdminDeleteUserSubscription(s)
    BY <1>2, NoRowOK, EndsKeeps DEF AdminDeleteUserSubscription
  <1> QED BY <1>1, <1>2 DEF Admin

(* Time passes, or nothing happens. *)
LEMMA ClockKeeps ==
  ASSUME IInv, UNCHANGED <<database, request, task, history, faults>>, now' \in Nat
  PROVE  IInv'
  <1>1. TypeOK'
    BY DEF IInv, TypeOK
  <1>2. /\ \A x \in Subs : InBounds(x, row'[x])
        /\ \A x \in open' : InBounds(x, tRead')
        /\ \A x \in ended' : /\ Dead(row'[x]) /\ x \in ended
                             /\ x \in open' => Dead(tRead')
    BY DEF IInv, Bounded, Buried
  <1> QED BY <1>1, <1>2, RequestsKept

-----------------------------------------------------------------------------
(* Every step keeps the invariant. *)
LEMMA NextKeeps ==
  ASSUME IInv, [Next]_vars
  PROVE  IInv'
  <1>1. ASSUME NEW r \in Requests, Work(r) \/ Outcome(r)
        PROVE  IInv'
    BY <1>1, PreReadKeeps, PreWriteKeeps, PreFailsKeeps, SettleReadKeeps, SettleWriteKeeps,
       SettleFailsKeeps, RefundReadKeeps, GiveReadKeeps, GiveWriteKeeps, GiveFailsKeeps,
       MarkKeeps, MarkFailsKeeps, SettleKeeps, RefundKeeps
    DEF Work, Outcome
  <1>2. CASE Maintain
    BY <1>2, ExpireKeeps, ResetDueKeeps, ResetReadKeeps, ResetWriteKeeps, ResetFailsKeeps
    DEF Maintain
  <1>3. CASE Tick
    <2>1. now' \in Nat
      BY <1>3 DEF Tick, IInv, TypeOK
    <2> QED BY <1>3, <2>1, ClockKeeps DEF Tick
  <1>4. CASE UNCHANGED vars
    <2>1. now' \in Nat
      BY <1>4 DEF vars, IInv, TypeOK
    <2> QED BY <1>4, <2>1, ClockKeeps DEF vars
  <1>5. CASE Done
    BY <1>4, <1>5 DEF Done
  <1> QED BY <1>1, <1>2, <1>3, <1>4, <1>5, AdminKeeps DEF Next

(* Nothing is used at the start. *)
LEMMA InitHolds ==
  ASSUME Init
  PROVE  IInv
  <1>0. (CHOOSE s \in Subs : TRUE) \in Subs
    BY SubscriptionAssumption DEF SubscriptionAssumption
  <1>1. \A s \in Subs :
          LET x == [used |-> 0, period |-> 0, end |-> EndTime[s], status |-> "active"]
          IN  x \in Rows /\ InBounds(s, x)
    BY Constants DEF Rows, Statuses, InBounds
  <1>2. row \in [Subs -> Rows] /\ \A s \in Subs : InBounds(s, row[s])
    BY <1>1 DEF Init
  <1>3. /\ read \in [Requests -> [Subs -> Rows]] /\ tRead \in Rows
        /\ \A r \in Requests, s \in Subs : InBounds(s, read[r][s])
    BY NoRowOK DEF Init
  <1>4. /\ pc = [r \in Requests |-> "start"] /\ open = {} /\ ended = {} /\ due = {}
        /\ record = [r \in Requests |-> "none"] /\ given = [r \in Requests |-> 0]
        /\ markFails = [r \in Requests |-> 0]
    BY DEF Init
  <1>5. TypeOK
    <2>1. sub \in [Requests -> Subs]
      BY <1>0 DEF Init
    <2>2. tries \in [Requests -> 0..MaxAttempts]
      BY Constants DEF Init
    <2>3. pc \in [Requests -> Labels]
      BY <1>4 DEF Labels
    <2>4. /\ now \in Nat /\ at \in [Requests -> Nat] /\ amount \in [Requests -> Nat]
          /\ delta \in [Requests -> Int] /\ net \in [Requests -> Int]
          /\ held \in [Requests -> Nat] /\ tAt \in Nat /\ faults \in Nat
          /\ disturbed = {}
      BY Constants DEF Init
    <2> QED BY <1>2, <1>3, <1>4, <2>1, <2>2, <2>3, <2>4 DEF TypeOK
  <1>6. Bounded /\ Refunds /\ Buried
    BY <1>2, <1>3, <1>4 DEF Bounded, Refunds, Buried
  <1> QED BY <1>5, <1>6 DEF IInv

(* The invariant holds in every state of every behaviour. *)
THEOREM Invariance == Spec => []IInv
  <1>1. Init => IInv
    BY InitHolds
  <1>2. IInv /\ [Next]_vars => IInv'
    BY NextKeeps
  <1> QED BY <1>1, <1>2, PTL DEF Spec

(* Types of the rows and of what transactions have read; in particular      *)
(* amount_used never becomes negative (PostConsumeUserSubscriptionDelta).   *)
THEOREM TypeCorrect == Spec => []TypeOK
  <1>1. IInv => TypeOK
    BY DEF IInv
  <1> QED BY <1>1, Invariance, PTL

(* amount_used does not exceed amount_total, although transactions overwrite *)
(* one another (PreConsumeUserSubscription,                                 *)
(* PostConsumeUserSubscriptionDelta, maybeResetUserSubscriptionWithPlanTx). *)
THEOREM UsageCorrect == Spec => []UsedWithinTotal
  <1>1. IInv => UsedWithinTotal
    BY DEF IInv, Bounded, UsedWithinTotal
  <1> QED BY <1>1, Invariance, PTL

(* A refund is committed once and once more for each mark that failed; one  *)
(* that reports success was committed (RefundSubscriptionPreConsume).       *)
THEOREM RefundCorrect == Spec => []RefundsAccounted
  <1>1. ASSUME IInv
        PROVE  RefundsAccounted
    <2> SUFFICES ASSUME NEW r \in Requests
                 PROVE  /\ given[r] <= 1 + markFails[r]
                        /\ pc[r] = "refunded" => record[r] = "refunded" /\ given[r] >= 1
      BY DEF RefundsAccounted
    <2>1. given[r] \in Nat /\ markFails[r] \in Nat
      BY <1>1 DEF IInv, TypeOK
    <2>2. given[r] = markFails[r] \/ given[r] = markFails[r] + 1
      BY <1>1 DEF IInv, Refunds
    <2>3. pc[r] = "refunded" => record[r] = "refunded" /\ given[r] = markFails[r] + 1
      BY <1>1 DEF IInv, Refunds
    <2> QED BY <2>1, <2>2, <2>3
  <1> QED BY <1>1, Invariance, PTL

(* A subscription that was cancelled or deleted while no transaction worked *)
(* on it is not revived by a save and serves no request                     *)
(* (AdminInvalidateUserSubscription, AdminDeleteUserSubscription).          *)
THEOREM EndCorrect == Spec => []EndedServesNobody
  <1>1. IInv => EndedServesNobody
    BY DEF IInv, Buried, Dead, EndedServesNobody
  <1> QED BY <1>1, Invariance, PTL

-----------------------------------------------------------------------------
(* What a subscription was used for *)

Unheld == {"start", "pre_write", "refused"}

(* What a request has added follows from how far it has come and how often  *)
(* it was refunded, and no copy it may save is of a deleted row.            *)
RequestOK(r) ==
  /\ record[r] = "none" <=> pc[r] \in Unheld
  /\ pc[r] \in Unheld \cup {"held", "settle_read", "settle_write", "settled", "unsettled"}
       => given[r] = 0
  /\ pc[r] \in {"settle_read", "settle_write"} => delta[r] >= 0 - amount[r]
  /\ pc[r] \notin Unheld \cup {"settled"} /\ given[r] = 0 => net[r] = amount[r]
  /\ given[r] = 1 => net[r] = 0
  /\ pc[r] = "settled" => net[r] >= 0
  /\ pc[r] \in {"pre_write", "settle_write", "give_write"} => read[r][sub[r]].status # "deleted"

TaskOK == \A s \in open : tRead.status # "deleted"

Alive(s) == s \notin disturbed /\ row[s].status # "deleted"

RefundedOnce(s) == \A r \in Requests : sub[r] = s => given[r] <= 1

(* No hold is of a later period than its row, so a reset leaves none of the *)
(* period it begins.                                                        *)
HeldBefore(s) == \A r \in Requests : record[r] # "none" /\ sub[r] = s => held[r] <= row[s].period

UsageOK(s) ==
  Alive(s) => /\ HeldBefore(s)
              /\ RefundedOnce(s) => row[s].used = SumFunctionOnSet(net, HeldOn(s))

UInv == /\ IInv
        /\ \A r \in Requests : RequestOK(r)
        /\ TaskOK
        /\ \A s \in Subs : UsageOK(s)

(* A reset leaves a row as it is, or empty and in a later period. *)
LEMMA ResetMoves ==
  ASSUME NEW x \in Rows, NEW t \in Nat
  PROVE  \/ MaybeReset(x, t) = x /\ ~ResetDue(x, t)
         \/ MaybeReset(x, t).used = 0 /\ MaybeReset(x, t).period > x.period
  <1>1. CASE ResetDue(x, t)
    <2> DEFINE p == IF t < x.end THEN t ELSE x.end
    <2>1. MaybeReset(x, t) = [x EXCEPT !.used = 0, !.period = p]
      BY <1>1 DEF MaybeReset
    <2>2. x.period \in Nat /\ x.end \in Nat /\ x.period < t /\ x.period < x.end
      BY <1>1 DEF Rows, ResetDue
    <2>3. p > x.period
      BY <2>2
    <2> HIDE DEF p
    <2> QED BY <2>1, <2>3 DEF Rows
  <1>2. CASE ~ResetDue(x, t)
    BY <1>2 DEF MaybeReset
  <1> QED BY <1>1, <1>2

(* A request refunded at most once has not given back more than it took. *)
LEMMA NetOK ==
  ASSUME TypeOK, NEW r \in Requests, RequestOK(r), record[r] # "none", given[r] <= 1
  PROVE  net[r] >= 0
  <1>1. given[r] \in Nat /\ amount[r] \in Nat
    BY DEF TypeOK
  <1>2. given[r] = 0 \/ given[r] = 1
    BY <1>1
  <1> QED BY <1>1, <1>2 DEF RequestOK

(* The requests held on a row are finitely many, and their costs numbers. *)
LEMMA HeldFinite ==
  ASSUME TypeOK, NEW s \in Subs
  PROVE  /\ HeldOn(s) \subseteq Requests /\ IsFiniteSet(HeldOn(s))
         /\ \A r \in HeldOn(s) : net[r] \in Int
         /\ SumFunctionOnSet(net, HeldOn(s)) \in Int
  <1>1. HeldOn(s) \subseteq Requests
    BY DEF HeldOn
  <1>2. IsFiniteSet(HeldOn(s))
    BY <1>1, Constants, FS_Subset
  <1>3. \A r \in HeldOn(s) : net[r] \in Int
    BY <1>1 DEF TypeOK
  <1> QED BY <1>1, <1>2, <1>3, SumTakeOut

(* The account of a row that a step does not save, and whose requests it    *)
(* leaves as they are.                                                      *)
LEMMA SameUsage ==
  ASSUME TypeOK, NEW s \in Subs, UsageOK(s),
         row'[s].used = row[s].used, row'[s].period = row[s].period,
         Alive(s)' => Alive(s),
         \A r \in Requests :
           /\ record'[r] # "none" /\ sub'[r] = s <=> record[r] # "none" /\ sub[r] = s
           /\ record[r] # "none" /\ sub[r] = s => held'[r] = held[r] /\ net'[r] = net[r]
           /\ sub[r] = s => given[r] = 0 \/ (sub'[r] = s /\ given'[r] = given[r])
  PROVE  UsageOK(s)'
  <1> SUFFICES ASSUME Alive(s)'
               PROVE  /\ HeldBefore(s)'
                      /\ RefundedOnce(s)' => row'[s].used = SumFunctionOnSet(net, HeldOn(s))'
    BY DEF UsageOK
  <1>1. HeldBefore(s)'
    BY DEF UsageOK, HeldBefore
  <1>2. RefundedOnce(s)' => RefundedOnce(s)
    BY DEF RefundedOnce
  <1>3. HeldOn(s)' = HeldOn(s) /\ \A r \in HeldOn(s) : net'[r] = net[r]
    BY DEF HeldOn
  <1>4. SumFunctionOnSet(net', HeldOn(s)) = SumFunctionOnSet(net, HeldOn(s))
    <2>1. IsFiniteSet(HeldOn(s)) /\ \A r \in HeldOn(s) : net[r] \in Int /\ net'[r] = net[r]
      BY <1>3, HeldFinite
    <2> QED BY ONLY <2>1, SumSame
  <1> QED BY <1>1, <1>2, <1>3, <1>4 DEF UsageOK

(* The account of a row whose reset is saved. *)
LEMMA ResetUsage ==
  ASSUME TypeOK, NEW s \in Subs, UsageOK(s), row'[s] \in Rows,
         row'[s].used = 0, row'[s].period > row[s].period,
         Alive(s)' => Alive(s),
         \A r \in Requests :
           record'[r] # "none" /\ sub'[r] = s => record[r] # "none" /\ sub[r] = s /\ held'[r] = held[r]
  PROVE  UsageOK(s)'
  <1> SUFFICES ASSUME Alive(s)'
               PROVE  /\ HeldBefore(s)'
                      /\ RefundedOnce(s)' => row'[s].used = SumFunctionOnSet(net, HeldOn(s))'
    BY DEF UsageOK
  <1>1. row[s].period \in Nat /\ row'[s].period \in Nat /\ \A r \in Requests : held[r] \in Nat
    BY DEF TypeOK, Rows
  <1>2. \A r \in Requests : record'[r] # "none" /\ sub'[r] = s =>
          held'[r] <= row[s].period /\ held'[r] \in Nat
    BY <1>1 DEF UsageOK, HeldBefore
  <1>3. HeldBefore(s)'
    BY <1>1, <1>2 DEF HeldBefore
  <1>4. HeldOn(s)' = {}
    BY <1>1, <1>2 DEF HeldOn
  <1>5. SumFunctionOnSet(net, HeldOn(s))' = 0
    BY <1>4, SumEmpty
  <1> QED BY <1>3, <1>5

(* The account of a row that a settlement or a refund is saved to: the row  *)
(* was not changed since it was read, nor reset since the hold, so the sum   *)
(* moves by as much and is not cut off at 0.                                 *)
LEMMA SavedUsage ==
  ASSUME UInv, IInv', NEW r \in Requests, NEW d \in Int, SaveUsed(r, d), record[r] # "none",
         NEW s \in Subs, s = sub[r],
         read[r][sub[r]].status # "deleted",
         UNCHANGED <<record, sub, held>>,
         \A q \in Requests : given'[q] = given[q] \/ (q = r /\ given'[q] = given[q] + 1),
         given'[r] <= 1 => net[r] + d >= 0
  PROVE  UsageOK(s)'
  <1> DEFINE x == read[r][s]
             C == HeldOn(s)
  <1>0. /\ TypeOK /\ TypeOK' /\ s \in Subs /\ x \in Rows /\ row[s] \in Rows
        /\ net \in [Requests -> Int] /\ net' \in [Requests -> Int] /\ UsageOK(s)
        /\ given \in [Requests -> Nat]
    BY DEF UInv, IInv, TypeOK
  <1> SUFFICES ASSUME Alive(s)'
               PROVE  /\ HeldBefore(s)'
                      /\ RefundedOnce(s)' => row'[s].used = SumFunctionOnSet(net, HeldOn(s))'
    BY DEF UsageOK
  <1>1. /\ s \notin disturbed /\ row[s] = x /\ x.period = held[r]
        /\ row' = [row EXCEPT ![s] = [x EXCEPT !.used = NewUsed(x, d)]]
        /\ net' = [net EXCEPT ![r] = net[r] + d]
    BY <1>0 DEF Alive, SaveUsed, Overwrites
  <1>2. /\ row'[s].used = NewUsed(x, d) /\ row'[s].period = row[s].period
        /\ x.used \in Nat
    BY <1>0, <1>1 DEF TypeOK, Rows
  <1>3. Alive(s) /\ HeldBefore(s)
    BY <1>0, <1>1 DEF Alive, UsageOK
  <1>4. HeldBefore(s)'
    BY <1>2, <1>3 DEF HeldBefore
  <1>5. HeldOn(s)' = C /\ r \in C /\ C \subseteq Requests
    BY <1>1, <1>2 DEF HeldOn
  <1>6. ASSUME RefundedOnce(s)'
        PROVE  row'[s].used = SumFunctionOnSet(net', C)
    <2>1. \A q \in Requests : sub[q] = s => given[q] <= 1 /\ given'[q] <= 1
      BY <1>0, <1>6 DEF RefundedOnce
    <2>2. x.used = SumFunctionOnSet(net, C)
      BY <1>0, <1>1, <1>3, <2>1 DEF UsageOK, RefundedOnce
    <2>3. IsFiniteSet(C) /\ \A q \in C : net[q] \in Int /\ net'[q] \in Int
      BY <1>0, <1>5, HeldFinite
    <2>4. \A q \in C \ {r} : net'[q] = net[q]
      BY <1>0, <1>1, <1>5
    <2>5. net'[r] = net[r] + d /\ net[r] \in Int /\ net'[r] >= 0
      BY <1>0, <1>1, <2>1
    <2>6. SumFunctionOnSet(net', C) = SumFunctionOnSet(net, C) + net'[r] - net[r]
      <3>1. r \in C
        BY <1>5
      <3>2. IsFiniteSet(C)
        BY <2>3
      <3>3. \A q \in C : net[q] \in Int /\ net'[q] \in Int
        BY <2>3
      <3> HIDE DEF C
      <3> QED BY ONLY <2>4, <3>1, <3>2, <3>3, SumChange
    <2>7. \A q \in C : net'[q] >= 0
      <3> SUFFICES ASSUME NEW q \in C, q # r PROVE net'[q] >= 0
        BY <2>5
      <3>1. q \in Requests /\ record[q] # "none" /\ given[q] <= 1 /\ RequestOK(q)
        BY <1>5, <2>1 DEF HeldOn, UInv
      <3> QED BY <1>0, <2>4, <3>1, NetOK
    <2>8. SumFunctionOnSet(net', C) >= 0
      <3>1. \A q \in C : net'[q] \in Int /\ net'[q] >= 0 - 0
        BY <2>3, <2>7
      <3>2. SumFunctionOnSet(net', C) >= 0 - Cardinality(C) * 0
        BY ONLY <2>3, <3>1, SumAtLeast
      <3>3. Cardinality(C) \in Nat /\ SumFunctionOnSet(net', C) \in Int
        BY ONLY <2>3, FS_CardinalityType, SumTakeOut
      <3> QED BY <3>2, <3>3
    <2>9. SumFunctionOnSet(net', C) = x.used + d
      BY <1>2, <2>2, <2>5, <2>6
    <2> QED BY <1>2, <2>8, <2>9 DEF NewUsed
  <1> QED BY <1>4, <1>5, <1>6

(* The account of the row a hold is saved to: the hold is the first of the  *)
(* period that a reset begins, or one more.                                 *)
LEMMA ConsumedUsage ==
  ASSUME UInv, IInv', NEW r \in Requests, PreWrite(r), NEW s \in Subs, s = sub[r]
  PROVE  UsageOK(s)'
  <1> DEFINE x == read[r][s]
             y == MaybeReset(x, at[r])
             C == HeldOn(s)
  <1>0. /\ TypeOK /\ TypeOK' /\ s \in Subs /\ x \in Rows /\ row[s] \in Rows /\ at[r] \in Nat
        /\ amount[r] \in Nat /\ net \in [Requests -> Int] /\ UsageOK(s)
        /\ RequestOK(r) /\ pc[r] = "pre_write"
    BY DEF UInv, IInv, TypeOK, PreWrite
  <1> SUFFICES ASSUME Alive(s)'
               PROVE  /\ HeldBefore(s)'
                      /\ RefundedOnce(s)' => row'[s].used = SumFunctionOnSet(net, HeldOn(s))'
    BY DEF UsageOK
  <1>1. /\ row'[s] = Consumed(r) /\ net' = [net EXCEPT ![r] = amount[r]]
        /\ record' = [record EXCEPT ![r] = "consumed"]
        /\ held' = [held EXCEPT ![r] = Consumed(r).period] /\ UNCHANGED <<sub, given>>
    BY <1>0 DEF PreWrite
  <1>2. s \notin disturbed /\ row[s] = x
    BY DEF Alive, PreWrite, Overwrites
  <1>3. record[r] = "none" /\ x.status # "deleted"
    BY <1>0 DEF RequestOK, Unheld
  <1>4. y \in Rows
    BY <1>0, MaybeResetOK
  <1>5. Consumed(r) = [y EXCEPT !.used = y.used + amount[r]]
    BY DEF Consumed
  <1>6. y = x \/ (y.used = 0 /\ y.period > x.period)
    BY <1>0, ResetMoves
  <1> HIDE DEF y
  <1>7. row'[s].used = y.used + amount[r] /\ row'[s].period = y.period /\ held'[r] = y.period
    BY <1>0, <1>1, <1>4, <1>5 DEF Rows, TypeOK
  <1>8. Alive(s) /\ HeldBefore(s)
    BY <1>0, <1>2, <1>3 DEF Alive, UsageOK
  <1>9. /\ x.period \in Nat /\ y.period \in Nat /\ y.used \in Nat /\ x.used \in Nat
        /\ \A q \in Requests : held[q] \in Nat /\ (q # r => held'[q] = held[q])
        /\ \A q \in Requests : q # r => record'[q] = record[q]
        /\ record'[r] # "none"
    BY <1>0, <1>1, <1>4 DEF TypeOK, Rows
  <1>10. \A q \in Requests \ {r} : record[q] # "none" /\ sub[q] = s => held[q] <= x.period
    BY <1>2, <1>8 DEF HeldBefore
  <1>11. HeldBefore(s)'
    BY <1>1, <1>6, <1>7, <1>9, <1>10 DEF HeldBefore
  <1>12. ASSUME RefundedOnce(s)'
         PROVE  row'[s].used = SumFunctionOnSet(net', HeldOn(s)')
    <2>1. net'[r] = amount[r] /\ net'[r] \in Int /\ \A q \in Requests \ {r} : net'[q] = net[q]
      BY <1>0, <1>1
    <2>2. CASE y = x
      <3>1. HeldOn(s)' = C \cup {r} /\ r \notin C
        BY <1>1, <1>2, <1>3, <1>7, <1>9, <2>2 DEF HeldOn
      <3>2. x.used = SumFunctionOnSet(net, C)
        BY <1>0, <1>1, <1>2, <1>8, <1>12 DEF UsageOK, RefundedOnce
      <3>3. IsFiniteSet(C) /\ \A q \in C : net[q] \in Int /\ net'[q] = net[q]
        BY <1>0, <2>1, <3>1, HeldFinite
      <3>4. r \notin C
        BY <3>1
      <3>5. SumFunctionOnSet(net', C \cup {r}) = SumFunctionOnSet(net, C) + net'[r]
        <4>1. IsFiniteSet(C)
          BY <3>3
        <4>2. \A q \in C : net[q] \in Int /\ net'[q] = net[q]
          BY <3>3
        <4>3. net'[r] \in Int
          BY <2>1
        <4> HIDE DEF C
        <4> QED BY ONLY <4>1, <4>2, <4>3, <3>4, SumJoin
      <3> QED BY <1>7, <2>1, <2>2, <3>1, <3>2, <3>5
    <2>3. CASE y.used = 0 /\ y.period > x.period
      <3>1. HeldOn(s)' = {} \cup {r}
        BY <1>1, <1>7, <1>9, <1>10, <2>3 DEF HeldOn
      <3>2. SumFunctionOnSet(net', {} \cup {r}) = SumFunctionOnSet(net, {}) + net'[r]
        <4>1. IsFiniteSet({}) /\ r \notin {} /\ \A q \in {} : net[q] \in Int /\ net'[q] = net[q]
          BY FS_EmptySet
        <4> QED BY ONLY <2>1, <4>1, SumJoin
      <3>3. SumFunctionOnSet(net, {}) = 0
        BY SumEmpty
      <3> QED BY <1>0, <1>7, <2>1, <2>3, <3>1, <3>2, <3>3
    <2> QED BY <1>6, <2>2, <2>3
  <1> QED BY <1>11, <1>12

(* The request that moves keeps its own account, the others theirs. *)
LEMMA RequestStep ==
  ASSUME UInv, NEW r \in Requests, Others(r), RequestOK(r)',
         \A q \in Requests : q # r => net'[q] = net[q]
  PROVE  \A q \in Requests : RequestOK(q)'
  <1> SUFFICES ASSUME NEW q \in Requests, q # r PROVE RequestOK(q)'
    OBVIOUS
  <1>1. RequestOK(q)
    BY DEF UInv
  <1> QED BY <1>1 DEF RequestOK, Others

(* The steps of a request that save no row. *)
LEMMA ReadingKeeps ==
  ASSUME UInv, IInv', NEW r \in Requests, Others(r), RequestOK(r)',
         UNCHANGED <<row, net, held, disturbed, given, open, tRead>>,
         record'[r] = "none" <=> record[r] = "none",
         sub'[r] = sub[r] \/ record[r] = "none"
  PROVE  UInv'
  <1>0. TypeOK /\ RequestOK(r)
    BY DEF UInv, IInv
  <1>1. record[r] = "none" => given[r] = 0
    BY <1>0 DEF RequestOK
  <1>2. ASSUME NEW s \in Subs PROVE UsageOK(s)'
    <2>1. UsageOK(s)
      BY DEF UInv
    <2>2. \A q \in Requests :
            /\ record'[q] # "none" /\ sub'[q] = s <=> record[q] # "none" /\ sub[q] = s
            /\ record[q] # "none" /\ sub[q] = s => held'[q] = held[q] /\ net'[q] = net[q]
            /\ sub[q] = s => given[q] = 0 \/ (sub'[q] = s /\ given'[q] = given[q])
      BY <1>1 DEF Others
    <2>3. Alive(s)' => Alive(s)
      BY DEF Alive
    <2> QED BY <1>0, <2>1, <2>2, <2>3, SameUsage
  <1>3. TaskOK'
    BY DEF UInv, TaskOK
  <1> QED BY <1>2, <1>3, RequestStep DEF UInv

(* A hold is looked for (PreConsumeUserSubscription). *)
LEMMA PreReadUsage ==
  ASSUME UInv, IInv', NEW r \in Requests, PreRead(r)
  PROVE  UInv'
  <1>0. TypeOK /\ RequestOK(r) /\ row \in [Subs -> Rows] /\ record[r] = "none" /\ given[r] = 0
    BY DEF UInv, IInv, TypeOK, PreRead, RequestOK, Unheld
  <1>1. Others(r) /\ UNCHANGED <<row, net, held, disturbed, given, open, tRead, record>>
    BY <1>0 DEF PreRead, Others, TypeOK
  <1>2. RequestOK(r)'
    <2>1. \/ pc'[r] = "refused"
          \/ pc'[r] = "pre_write" /\ read'[r][sub'[r]].status = "active"
      <3>1. PICK a \in Amounts :
              LET fits == {s \in Candidates(row, now) : Suffices(s, MaybeReset(row[s], now), a)}
              IN \/ \E s \in fits :
                      /\ sub' = [sub EXCEPT ![r] = s]
                      /\ read' = [read EXCEPT ![r] = RowsOf(Candidates(row, now))]
                      /\ Goto(r, "pre_write")
                 \/ Goto(r, "refused")
        BY DEF PreRead
      <3>2. CASE Goto(r, "refused")
        BY <1>0, <3>2 DEF TypeOK
      <3>3. ASSUME NEW s \in Candidates(row, now), sub' = [sub EXCEPT ![r] = s],
                   read' = [read EXCEPT ![r] = RowsOf(Candidates(row, now))],
                   Goto(r, "pre_write")
            PROVE  pc'[r] = "pre_write" /\ read'[r][sub'[r]].status = "active"
        <4>1. /\ pc'[r] = "pre_write" /\ sub'[r] = s
              /\ read'[r] = RowsOf(Candidates(row, now))
          BY <1>0, <3>3 DEF TypeOK
        <4>2. s \in Subs /\ row[s].status = "active" /\ Candidates(row, now) \in SUBSET Subs
          BY DEF Candidates
        <4>3. RowsOf(Candidates(row, now))[s] = row[s]
          BY <1>0, <4>2, RowsOfOK
        <4> QED BY <4>1, <4>2, <4>3
      <3> QED BY <3>1, <3>2, <3>3
    <2> QED BY <1>0, <1>1, <2>1 DEF RequestOK, Unheld
  <1> QED BY <1>0, <1>1, <1>2, ReadingKeeps

(* The steps of a settlement that save no row. *)
LEMMA SettlingUsage ==
  ASSUME UInv, IInv', NEW r \in Requests,
         PreFails(r) \/ Settle(r) \/ SettleRead(r) \/ SettleFails(r)
  PROVE  UInv'
  <1>0. TypeOK /\ RequestOK(r) /\ amount[r] \in Nat /\ sub[r] \in Subs
    BY DEF UInv, IInv, TypeOK
  <1>1. UNCHANGED <<row, net, held, disturbed, given, open, tRead, record, sub, amount>>
    BY DEF PreFails, Settle, SettleRead, SettleFails
  <1>2. CASE PreFails(r)
    <2>1. pc[r] = "pre_write" /\ pc'[r] = "refused" /\ Others(r)
      BY <1>0, <1>2, ForgottenOK DEF PreFails, Others, TypeOK
    <2>2. RequestOK(r)'
      BY <1>0, <1>1, <2>1 DEF RequestOK, Unheld
    <2> QED BY <1>1, <2>1, <2>2, ReadingKeeps
  <1>3. CASE Settle(r)
    <2>1. /\ pc[r] = "held" /\ pc'[r] \in {"settled", "settle_read"} /\ Others(r)
          /\ delta'[r] >= 0 - amount[r]
      <3>1. PICK q \in Actuals : /\ delta' = [delta EXCEPT ![r] = q - amount[r]]
                                 /\ Goto(r, IF q = amount[r] THEN "settled" ELSE "settle_read")
        BY <1>3 DEF Settle
      <3>2. q \in Nat
        BY Constants
      <3> QED BY <1>0, <1>3, <3>1, <3>2 DEF Settle, Others, TypeOK
    <2>2. RequestOK(r)'
      BY <1>0, <1>1, <2>1 DEF RequestOK, Unheld
    <2> QED BY <1>1, <2>1, <2>2, ReadingKeeps
  <1>4. CASE SettleRead(r)
    <2>1. /\ pc[r] = "settle_read" /\ Others(r) /\ delta' = delta
          /\ \/ pc'[r] = "unsettled"
             \/ /\ pc'[r] = "settle_write" /\ read'[r] = RowsOf({sub[r]})
                /\ row[sub[r]].status # "deleted"
      BY <1>0, <1>4 DEF SettleRead, Others, TypeOK
    <2>2. {sub[r]} \in SUBSET Subs
      BY <1>0
    <2>3. RowsOf({sub[r]})[sub[r]] = row[sub[r]]
      BY <1>0, <2>2, RowsOfOK
    <2>4. RequestOK(r)'
      BY <1>0, <1>1, <2>1, <2>3 DEF RequestOK, Unheld
    <2> QED BY <1>1, <2>1, <2>4, ReadingKeeps
  <1>5. CASE SettleFails(r)
    <2>1. pc[r] = "settle_write" /\ pc'[r] = "unsettled" /\ Others(r)
      BY <1>0, <1>5, ForgottenOK DEF SettleFails, Others, TypeOK
    <2>2. RequestOK(r)'
      BY <1>0, <1>1, <2>1 DEF RequestOK, Unheld
    <2> QED BY <1>1, <2>1, <2>2, ReadingKeeps
  <1> QED BY <1>2, <1>3, <1>4, <1>5

(* The steps of a refund that save no row. *)
LEMMA RefundingUsage ==
  ASSUME UInv, IInv', NEW r \in Requests,
         Refund(r) \/ RefundRead(r) \/ GiveRead(r) \/ GiveFails(r) \/ Mark(r) \/ MarkFails(r)
  PROVE  UInv'
  <1>0. TypeOK /\ RequestOK(r) /\ sub[r] \in Subs /\ given[r] \in Nat
    BY DEF UInv, IInv, TypeOK
  <1>1. UNCHANGED <<row, net, held, disturbed, given, open, tRead, sub, amount>>
    BY DEF Refund, RefundRead, GiveRead, GiveFails, Mark, MarkFails
  <1>2. /\ pc[r] \in {"held", "refund", "give_read", "give_write", "mark"}
        /\ pc'[r] \in {"refund", "give_read", "give_write", "mark", "refunded", "gave_up"}
        /\ Others(r)
        /\ record'[r] = record[r] \/ record'[r] = "refunded"
    <2>1. CASE Refund(r) \/ RefundRead(r) \/ Mark(r)
      BY <1>0, <2>1 DEF Refund, RefundRead, Mark, Others, TypeOK
    <2>2. CASE GiveRead(r)
      BY <1>0, <2>2, RetryOK DEF GiveRead, Others, TypeOK
    <2>3. CASE GiveFails(r)
      BY <1>0, <2>3, RetryOK, ForgottenOK DEF GiveFails, Others, TypeOK
    <2>4. CASE MarkFails(r)
      BY <1>0, <2>4, RetryOK DEF MarkFails, Others, TypeOK
    <2> QED BY <2>1, <2>2, <2>3, <2>4
  <1>3. record[r] # "none" /\ record'[r] # "none"
    BY <1>0, <1>2 DEF RequestOK, Unheld
  <1>4. pc'[r] = "give_write" => read'[r][sub[r]].status # "deleted"
    <2>1. ASSUME pc'[r] = "give_write" PROVE read'[r] = RowsOf({sub[r]}) /\ row[sub[r]].status # "deleted"
      <3>1. GiveRead(r)
        BY <1>0, <2>1, RetryOK DEF Refund, RefundRead, GiveRead, GiveFails, Mark, MarkFails, TypeOK
      <3>2. ~Retry(r)
        BY <1>0, <2>1, RetryOK
      <3> QED BY <1>0, <3>1, <3>2 DEF GiveRead, TypeOK
    <2>2. {sub[r]} \in SUBSET Subs
      BY <1>0
    <2>3. RowsOf({sub[r]})[sub[r]] = row[sub[r]]
      BY <1>0, <2>2, RowsOfOK
    <2> QED BY <2>1, <2>3
  <1>5. RequestOK(r)'
    BY <1>0, <1>1, <1>2, <1>3, <1>4 DEF RequestOK, Unheld
  <1> QED BY <1>1, <1>2, <1>3, <1>5, ReadingKeeps

(* The hold is saved, and with it the resets of the rows passed over. *)
LEMMA PreWriteUsage ==
  ASSUME UInv, IInv', NEW r \in Requests, PreWrite(r)
  PROVE  UInv'
  <1>0. /\ TypeOK /\ TypeOK' /\ RequestOK(r) /\ pc[r] = "pre_write" /\ at[r] \in Nat
        /\ amount[r] \in Nat /\ \A s \in Subs : read[r][s] \in Rows
    BY DEF UInv, IInv, TypeOK, PreWrite
  <1>1. /\ UNCHANGED <<sub, amount, delta, given, open, tRead>> /\ Others(r)
        /\ pc'[r] = "held" /\ record'[r] = "consumed" /\ net'[r] = amount[r]
        /\ \A q \in Requests : q # r => net'[q] = net[q] /\ held'[q] = held[q]
    BY <1>0, ForgottenOK DEF PreWrite, Others, TypeOK
  <1>2. RequestOK(r)'
    BY <1>0, <1>1 DEF RequestOK, Unheld
  <1>3. ASSUME NEW s \in Subs PROVE UsageOK(s)'
    <2>1. UsageOK(s) /\ row'[s] \in Rows
      BY <1>0 DEF UInv, TypeOK
    <2>2. CASE s = sub[r]
      BY <2>2, ConsumedUsage
    <2>3. CASE s # sub[r]
      <3>1. \A q \in Requests :
              /\ record'[q] # "none" /\ sub'[q] = s <=> record[q] # "none" /\ sub[q] = s
              /\ record[q] # "none" /\ sub[q] = s => held'[q] = held[q] /\ net'[q] = net[q]
              /\ sub[q] = s => given[q] = 0 \/ (sub'[q] = s /\ given'[q] = given[q])
        BY <1>1, <2>3 DEF Others
      <3>2. CASE s \in PassedOver(r)
        <4>1. row'[s] = MaybeReset(read[r][s], at[r]) /\ ResetDue(read[r][s], at[r])
              /\ read[r][s].status = "active"
          BY <2>3, <3>2 DEF PreWrite, PassedOver, Candidates
        <4>2. CASE Alive(s)'
          <5>1. s \notin disturbed /\ row[s] = read[r][s]
            BY <3>2, <4>2 DEF Alive, PreWrite, Overwrites
          <5>2. row'[s].used = 0 /\ row'[s].period > row[s].period
            BY <1>0, <4>1, <5>1, ResetMoves
          <5>3. Alive(s)
            BY <4>1, <5>1 DEF Alive
          <5> QED BY <1>0, <2>1, <3>1, <5>2, <5>3, ResetUsage
        <4>3. CASE ~Alive(s)'
          BY <4>3 DEF UsageOK
        <4> QED BY <4>2, <4>3
      <3>3. CASE s \notin PassedOver(r)
        <4>1. row'[s] = row[s] /\ (Alive(s)' => Alive(s))
          BY <2>3, <3>3 DEF PreWrite, Alive
        <4> QED BY <1>0, <2>1, <3>1, <4>1, SameUsage
      <3> QED BY <3>2, <3>3
    <2> QED BY <2>2, <2>3
  <1>4. TaskOK'
    BY <1>1 DEF UInv, TaskOK
  <1> QED BY <1>1, <1>2, <1>3, <1>4, RequestStep DEF UInv

(* A settlement or a refund is saved. *)
LEMMA SaveUsage ==
  ASSUME UInv, IInv', NEW r \in Requests, SettleWrite(r) \/ GiveWrite(r)
  PROVE  UInv'
  <1>0. /\ TypeOK /\ RequestOK(r) /\ sub[r] \in Subs /\ amount[r] \in Nat /\ delta[r] \in Int
        /\ given[r] \in Nat /\ net[r] \in Int /\ record[r] # "none"
        /\ read[r][sub[r]].status # "deleted"
    BY DEF UInv, IInv, TypeOK, SettleWrite, GiveWrite, RequestOK, Unheld
  <1> DEFINE d == IF pc[r] = "settle_write" THEN delta[r] ELSE 0 - amount[r]
  <1>1. /\ SaveUsed(r, d) /\ d \in Int
        /\ UNCHANGED <<record, sub, held, amount, delta, open, tRead>> /\ Others(r)
        /\ \/ pc[r] = "settle_write" /\ pc'[r] = "settled" /\ given' = given
           \/ pc[r] = "give_write" /\ pc'[r] = "mark" /\ given' = [given EXCEPT ![r] = @ + 1]
    BY <1>0, ForgottenOK DEF SettleWrite, GiveWrite, Others, TypeOK
  <1>2. net'[r] = net[r] + d /\ \A q \in Requests : q # r => net'[q] = net[q]
    BY <1>0, <1>1 DEF SaveUsed, TypeOK
  <1>3. \A q \in Requests : given'[q] = given[q] \/ (q = r /\ given'[q] = given[q] + 1)
    BY <1>0, <1>1 DEF TypeOK
  <1>4. given'[r] <= 1 => net[r] + d >= 0 /\ (pc[r] = "give_write" => net[r] + d = 0)
    <2>1. CASE pc[r] = "settle_write"
      BY <1>0, <2>1 DEF RequestOK, Unheld
    <2>2. CASE pc[r] = "give_write"
      <3>1. given'[r] = given[r] + 1
        BY <1>0, <1>1, <2>2 DEF TypeOK
      <3>2. given'[r] <= 1 => given[r] = 0
        BY <1>0, <3>1
      <3>3. given[r] = 0 => net[r] = amount[r]
        BY <1>0, <2>2 DEF RequestOK, Unheld
      <3> QED BY <1>0, <2>2, <3>2, <3>3
    <2> QED BY <1>1, <2>1, <2>2
  <1> HIDE DEF d
  <1>5. RequestOK(r)'
    <2>1. CASE pc[r] = "settle_write"
      <3>1. given[r] = 0 /\ net'[r] >= 0 /\ pc'[r] = "settled" /\ given'[r] = given[r]
        BY <1>0, <1>1, <1>2, <1>4, <2>1 DEF RequestOK
      <3> QED BY <1>0, <1>1, <3>1 DEF RequestOK, Unheld
    <2>2. CASE pc[r] = "give_write"
      <3>1. pc'[r] = "mark" /\ given'[r] = given[r] + 1 /\ (given'[r] = 1 => net'[r] = 0)
        BY <1>0, <1>1, <1>2, <1>4, <2>2 DEF TypeOK
      <3>2. given'[r] # 0
        BY <1>0, <3>1
      <3> QED BY <1>0, <1>1, <3>1, <3>2 DEF RequestOK, Unheld
    <2> QED BY <1>1, <2>1, <2>2
  <1>6. ASSUME NEW s \in Subs PROVE UsageOK(s)'
    <2>1. CASE s = sub[r]
      BY <1>0, <1>1, <1>3, <1>4, <2>1, SavedUsage
    <2>2. CASE s # sub[r]
      <3>1. \A q \in Requests :
              /\ record'[q] # "none" /\ sub'[q] = s <=> record[q] # "none" /\ sub[q] = s
              /\ record[q] # "none" /\ sub[q] = s => held'[q] = held[q] /\ net'[q] = net[q]
              /\ sub[q] = s => given[q] = 0 \/ (sub'[q] = s /\ given'[q] = given[q])
        BY <1>1, <1>2, <1>3, <2>2
      <3>2. row'[s] = row[s] /\ (Alive(s)' => Alive(s))
        BY <1>0, <1>1, <2>2 DEF SaveUsed, Alive, TypeOK
      <3>3. UsageOK(s)
        BY DEF UInv
      <3> QED BY <1>0, <3>1, <3>2, <3>3, SameUsage
    <2> QED BY <2>1, <2>2
  <1>7. TaskOK'
    BY <1>1 DEF UInv, TaskOK
  <1> QED BY <1>1, <1>2, <1>5, <1>6, <1>7, RequestStep DEF UInv

(* The steps of the maintenance task, of administrators and of the clock. *)
LEMMA WorldUsage ==
  ASSUME UInv, IInv', UNCHANGED <<request, record, given, net, held>>, TaskOK',
         \A s \in Subs :
           \/ row'[s].used = row[s].used /\ row'[s].period = row[s].period
           \/ row'[s].used = 0 /\ row'[s].period > row[s].period
           \/ ~Alive(s)',
         \A s \in Subs : Alive(s)' => Alive(s)
  PROVE  UInv'
  <1>0. TypeOK /\ TypeOK'
    BY DEF UInv, IInv
  <1>1. \A r \in Requests : RequestOK(r)'
    BY DEF UInv, RequestOK
  <1>2. ASSUME NEW s \in Subs PROVE UsageOK(s)'
    <2>1. UsageOK(s) /\ row'[s] \in Rows
      BY <1>0 DEF UInv, TypeOK
    <2>2. CASE row'[s].used = row[s].used /\ row'[s].period = row[s].period
      BY <1>0, <2>1, <2>2, SameUsage
    <2>3. CASE row'[s].used = 0 /\ row'[s].period > row[s].period
      BY <1>0, <2>1, <2>3, ResetUsage
    <2>4. CASE ~Alive(s)'
      BY <2>4 DEF UsageOK
    <2> QED BY <2>2, <2>3, <2>4
  <1> QED BY <1>1, <1>2 DEF UInv

(* The maintenance task (runSubscriptionQuotaResetOnce). *)
LEMMA MaintainUsage ==
  ASSUME UInv, IInv', Maintain
  PROVE  UInv'
  <1>0. TypeOK /\ TaskOK /\ tRead \in Rows /\ tAt \in Nat /\ row \in [Subs -> Rows]
    BY DEF UInv, IInv, TypeOK
  <1>1. CASE ExpireDueSubscriptions
    <2>1. \A s \in Subs : /\ row'[s].used = row[s].used /\ row'[s].period = row[s].period
                          /\ row'[s].status # "deleted" => row[s].status # "deleted"
      BY <1>0, <1>1 DEF ExpireDueSubscriptions, Expirable, Rows
    <2>2. UNCHANGED <<request, record, given, net, held, open, tRead, disturbed>>
      BY <1>1 DEF ExpireDueSubscriptions
    <2>3. TaskOK' /\ \A s \in Subs : Alive(s)' => Alive(s)
      BY <1>0, <2>1, <2>2 DEF TaskOK, Alive
    <2> QED BY <2>1, <2>2, <2>3, WorldUsage
  <1>2. CASE \/ ResetDueSubscriptions
             \/ \E s \in Subs : ResetRead(s) \/ ResetFails(s)
    <2>1. /\ UNCHANGED <<request, record, given, net, held, disturbed, row>>
          /\ \/ open' = {}
             \/ open' = open /\ tRead' = tRead
             \/ tRead'.status # "deleted"
      BY <1>0, <1>2 DEF ResetDueSubscriptions, ResetRead, ResetFails
    <2>2. TaskOK' /\ \A s \in Subs : Alive(s)' => Alive(s)
      BY <1>0, <2>1 DEF TaskOK, Alive
    <2> QED BY <2>1, <2>2, WorldUsage
  <1>3. ASSUME NEW s \in Subs, ResetWrite(s) PROVE UInv'
    <2>1. /\ UNCHANGED <<request, record, given, net, held>> /\ open' = {} /\ s \in open
          /\ row' = [row EXCEPT ![s] = MaybeReset(tRead, tAt)]
          /\ disturbed' = IF Overwrites(s, tRead) THEN disturbed \cup {s} ELSE disturbed
      BY <1>3 DEF ResetWrite
    <2>2. tRead.status # "deleted" /\ TaskOK'
      BY <1>0, <2>1 DEF TaskOK
    <2>3. \A u \in Subs : u # s => row'[u] = row[u] /\ (Alive(u)' => Alive(u))
      BY <1>0, <2>1 DEF Alive
    <2>4. row'[s] = MaybeReset(tRead, tAt)
      BY <1>0, <2>1
    <2>5. Alive(s)' => Alive(s) /\ row[s] = tRead
      BY <2>1, <2>2 DEF Alive, Overwrites
    <2>6. Alive(s)' => \/ row'[s].used = row[s].used /\ row'[s].period = row[s].period
                       \/ row'[s].used = 0 /\ row'[s].period > row[s].period
      BY <1>0, <2>4, <2>5, ResetMoves
    <2> QED BY <2>1, <2>2, <2>3, <2>5, <2>6, WorldUsage
  <1> QED BY <1>1, <1>2, <1>3 DEF Maintain

(* Administrators: a deleted row is no longer accounted for. *)
LEMMA AdminUsage ==
  ASSUME UInv, IInv', NEW s \in Subs, Admin(s)
  PROVE  UInv'
  <1>0. TypeOK /\ TaskOK /\ row \in [Subs -> Rows]
    BY DEF UInv, IInv, TypeOK
  <1>1. UNCHANGED <<request, record, given, net, held, open, tRead, disturbed>>
    BY DEF Admin, AdminInvalidateUserSubscription, AdminDeleteUserSubscription
  <1>2. \A u \in Subs : u # s => row'[u] = row[u]
    BY <1>0 DEF Admin, AdminInvalidateUserSubscription, AdminDeleteUserSubscription
  <1>3. /\ row[s].status # "deleted"
        /\ \/ row'[s].used = row[s].used /\ row'[s].period = row[s].period
           \/ row'[s].status = "deleted"
    BY <1>0, NoRowOK DEF Admin, AdminInvalidateUserSubscription, AdminDeleteUserSubscription, Rows, NoRow
  <1>4. TaskOK' /\ \A u \in Subs : Alive(u)' => Alive(u)
    BY <1>0, <1>1, <1>2, <1>3 DEF TaskOK, Alive
  <1>5. \A u \in Subs : \/ row'[u].used = row[u].used /\ row'[u].period = row[u].period
                        \/ ~Alive(u)'
    BY <1>2, <1>3 DEF Alive
  <1> QED BY <1>1, <1>4, <1>5, WorldUsage

(* Every step keeps the accounts. *)
LEMMA NextUInv == UInv /\ [Next]_vars => UInv'
  <1> SUFFICES ASSUME UInv, [Next]_vars PROVE UInv'
    OBVIOUS
  <1>1. IInv'
    BY NextKeeps DEF UInv
  <1>2. ASSUME NEW r \in Requests, Work(r) \/ Outcome(r) PROVE UInv'
    BY <1>1, <1>2, PreReadUsage, PreWriteUsage, SettlingUsage, RefundingUsage, SaveUsage
    DEF Work, Outcome
  <1>3. CASE Tick \/ Done \/ UNCHANGED vars
    <2>1. UNCHANGED <<request, record, given, net, held, open, tRead, disturbed, row>>
      BY <1>3 DEF Tick, Done, vars
    <2>2. TaskOK' /\ \A s \in Subs : Alive(s)' => Alive(s)
      BY <2>1 DEF UInv, TaskOK, Alive
    <2> QED BY <1>1, <2>1, <2>2, WorldUsage
  <1> QED BY <1>1, <1>2, <1>3, MaintainUsage, AdminUsage DEF Next

(* Nothing is held at the start. *)
LEMMA InitUInv == Init => UInv
  <1> SUFFICES ASSUME Init PROVE UInv
    OBVIOUS
  <1>1. \A r \in Requests : RequestOK(r)
    BY DEF Init, RequestOK, Unheld
  <1>2. TaskOK
    BY DEF Init, TaskOK
  <1>3. ASSUME NEW s \in Subs PROVE UsageOK(s)
    <2>1. HeldOn(s) = {} /\ HeldBefore(s) /\ row[s].used = 0
      BY DEF Init, HeldOn, HeldBefore
    <2> QED BY <2>1, SumEmpty DEF UsageOK
  <1> QED BY <1>1, <1>2, <1>3, InitHolds DEF UInv

(* For any number of requests: a row that was never saved over another's    *)
(* commit, nor adjusted after a reset for a hold made before it, has used   *)
(* what the requests of its period cost, to the last unit (PreConsumeUser-  *)
(* Subscription, PostConsumeUserSubscriptionDelta, the resets).             *)
THEOREM SerialUsageCorrect == Spec => []SerialUsageIsExact
  <1>1. UInv => SerialUsageIsExact
    BY DEF UInv, UsageOK, Alive, RefundedOnce, SerialUsageIsExact
  <1> QED BY <1>1, InitUInv, NextUInv, PTL DEF Spec

=============================================================================
