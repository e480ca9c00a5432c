---------------------------- MODULE Subscription ----------------------------
(***************************************************************************)
(* Subscriptions as rows of a database: model/subscription.go under the    *)
(* calls of service/funding_source.go and the maintenance task of          *)
(* service/subscription_reset_task.go.                                     *)
(*                                                                         *)
(* Every transaction reads a row, computes and saves the WHOLE row.  The   *)
(* code asks for a row lock with tx.Set("gorm:query_option", "FOR UPDATE"),*)
(* an option of GORM v1 that the version in use ignores, so the read and   *)
(* the save are steps of their own and other transactions may commit in    *)
(* between.  A save after such a commit overwrites it, columns the         *)
(* transaction did not mean to touch included.                             *)
(*                                                                         *)
(* The clock counts the periods after which a plan resets its quota.       *)
(***************************************************************************)
EXTENDS Integers, FiniteSets, Functions

CONSTANTS
  Requests,     \* requests paid from the subscriptions of one user
  Subs,         \* ids of the user's subscriptions
  EndTime,      \* EndTime[s]: the period at which s ends
  AmountTotal,  \* AmountTotal[s]: its amount_total, 0 for unlimited
  Amounts,      \* what a request may pre-consume
  Actuals,      \* what it may turn out to cost
  MaxAttempts,  \* maxAttempts of refundWithRetry
  MaxNow,       \* bound: the last period
  MaxFaults     \* bound: transactions that fail to commit

ASSUME SubscriptionAssumption ==
  /\ IsFiniteSet(Requests)
  /\ Subs \subseteq Nat /\ Subs # {}
  /\ EndTime \in [Subs -> Nat]
  /\ AmountTotal \in [Subs -> Nat]
  /\ Amounts \subseteq Nat \ {0}
  /\ Actuals \subseteq Nat
  /\ MaxAttempts \in Nat \ {0}
  /\ MaxNow \in Nat
  /\ MaxFaults \in Nat

VARIABLES
  row,        \* row[s]: the row of user_subscriptions
  now,        \* GetDBTimestamp, in periods
  record,     \* status of the SubscriptionPreConsumeRecord of a request
  pc,         \* the next step of a request
  read, at,   \* read[r]: the rows its transaction has read, at[r]: and when
  sub,        \* subscriptionId of its SubscriptionFunding
  amount,     \* its pre_consumed
  delta,      \* what is still to be added to amount_used
  tries,      \* attempts of refundWithRetry
  due,        \* rows the maintenance task has still to reset
  open,       \* the one of them whose transaction is open, if any
  tRead, tAt, \* the row that transaction has read; the time the task began
  given,      \* how often the refund of a request was committed (history)
  markFails,  \* how often its record could not be marked then (history)
  net,        \* what a request has added to amount_used (history)
  held,       \* the period of the row in which it was held (history)
  disturbed,  \* rows saved over a commit or adjusted in a later period (history)
  ended,      \* rows cancelled or deleted while no transaction had read them (history)
  faults      \* commits that may still fail

database == <<row, record>>
request == <<pc, read, at, sub, amount, delta, tries>>
task == <<due, open, tRead, tAt>>
history == <<given, markFails, net, held, disturbed, ended>>
vars == <<database, now, request, task, history, faults>>

Statuses == {"active", "expired", "cancelled", "deleted"}
Rows == [used : Nat, period : Nat, end : Nat, status : Statuses]
NoRow == [used |-> 0, period |-> 0, end |-> 0, status |-> "deleted"]

Init ==
  /\ row = [s \in Subs |->
              [used |-> 0, period |-> 0, end |-> EndTime[s], status |-> "active"]]
  /\ now = 0
  /\ record = [r \in Requests |-> "none"]
  /\ pc = [r \in Requests |-> "start"]
  /\ read = [r \in Requests |-> [s \in Subs |-> NoRow]]
  /\ at = [r \in Requests |-> 0]
  /\ sub = [r \in Requests |-> CHOOSE s \in Subs : TRUE]     \* set before it is used
  /\ amount = [r \in Requests |-> 0]
  /\ delta = [r \in Requests |-> 0]
  /\ tries = [r \in Requests |-> 0]
  /\ due = {}
  /\ open = {}
  /\ tRead = NoRow
  /\ tAt = 0
  /\ given = [r \in Requests |-> 0]
  /\ markFails = [r \in Requests |-> 0]
  /\ net = [r \in Requests |-> 0]
  /\ held = [r \in Requests |-> 0]
  /\ disturbed = {}
  /\ ended = {}
  /\ faults = MaxFaults

Goto(r, label) == pc' = [pc EXCEPT ![r] = label]

(* A transaction ends: what it had read is of no more use. *)
Forget(r) == /\ read' = [read EXCEPT ![r] = [s \in Subs |-> NoRow]]
             /\ at' = [at EXCEPT ![r] = 0]

(* The rows a query returns. *)
RowsOf(S) == [s \in Subs |-> IF s \in S THEN row[s] ELSE NoRow]

Fault == faults > 0 /\ faults' = faults - 1

-----------------------------------------------------------------------------
(* What a transaction computes from the row it has read *)

(* maybeResetUserSubscriptionWithPlanTx at time t: next_reset_time is the   *)
(* next period and never after the end of the subscription.                 *)
ResetDue(x, t) == x.period < t /\ x.period < x.end
MaybeReset_Mutant(x, t) ==
  IF ResetDue(x, t) THEN [x EXCEPT !.period = IF t < x.end THEN t ELSE x.end] ELSE x
MaybeReset(x, t) ==
  IF ResetDue(x, t)
    THEN [x EXCEPT !.used = 0, !.period = IF t < x.end THEN t ELSE x.end]
    ELSE x

(* The rows the query of PreConsumeUserSubscription returns. *)
Candidates_Mutant(rows, t) == {s \in Subs : rows[s].status # "deleted"}
Candidates(rows, t) == {s \in Subs : rows[s].status = "active" /\ rows[s].end > t}

(* "end_time asc, id asc" *)
Before(rows, s, t) == \/ rows[s].end < rows[t].end
                      \/ rows[s].end = rows[t].end /\ s < t

Suffices_Mutant(s, x, a) == AmountTotal[s] > 0 => AmountTotal[s] > x.used
Suffices(s, x, a) == AmountTotal[s] > 0 => AmountTotal[s] - x.used >= a

(* PostConsumeUserSubscriptionDelta *)
NewUsed(x, d) == IF x.used + d < 0 THEN 0 ELSE x.used + d
DeltaAllowed(s, x, d) == AmountTotal[s] > 0 => NewUsed(x, d) <= AmountTotal[s]

(* tx.Save(&sub): all columns, whatever the row has become since. *)
Overwrites(s, x) == row[s] # x

-----------------------------------------------------------------------------
(* PreConsumeUserSubscription: the first subscription whose quota, reset if *)
(* that is due, suffices.  Those before it are saved too if they were reset.*)

PreRead(r) ==
  /\ pc[r] = "start"
  /\ \E a \in Amounts :
       LET fits == {s \in Candidates(row, now) : Suffices(s, MaybeReset(row[s], now), a)}
       IN \/ \E s \in fits :
               /\ \A t \in fits \ {s} : Before(row, s, t)
               /\ sub' = [sub EXCEPT ![r] = s]
               /\ amount' = [amount EXCEPT ![r] = a]
               /\ read' = [read EXCEPT ![r] = RowsOf(Candidates(row, now))]
               /\ at' = [at EXCEPT ![r] = now]
               /\ Goto(r, "pre_write")
          \/ /\ fits = {}
             /\ Goto(r, "refused")
             /\ UNCHANGED <<sub, amount, read, at>>
  /\ UNCHANGED <<database, now, delta, tries, task, history, faults>>

(* The candidates passed over before the one that was chosen. *)
PassedOver(r) ==
  {s \in Candidates(read[r], at[r]) :
     ResetDue(read[r][s], at[r]) /\ Before(read[r], s, sub[r])}

Consumed(r) == LET x == MaybeReset(read[r][sub[r]], at[r])
               IN [x EXCEPT !.used = x.used + amount[r]]

PreWrite(r) ==
  /\ pc[r] = "pre_write"
  /\ row' = [s \in Subs |-> IF s = sub[r] THEN Consumed(r)
                            ELSE IF s \in PassedOver(r) THEN MaybeReset(read[r][s], at[r])
                            ELSE row[s]]
  /\ record' = [record EXCEPT ![r] = "consumed"]
  /\ Goto(r, "held")
  /\ net' = [net EXCEPT ![r] = amount[r]]
  /\ held' = [held EXCEPT ![r] = Consumed(r).period]
  /\ disturbed' = disturbed \cup
       {s \in {sub[r]} \cup PassedOver(r) : Overwrites(s, read[r][s])}
  /\ Forget(r)
  /\ UNCHANGED <<now, sub, amount, delta, tries, task, given, markFails,
                 ended, faults>>

PreFails(r) ==
  /\ pc[r] = "pre_write"
  /\ Fault
  /\ Goto(r, "refused")
  /\ Forget(r)
  /\ UNCHANGED <<database, now, sub, amount, delta, tries, task, history>>

-----------------------------------------------------------------------------
(* SubscriptionFunding.Settle *)

Settle(r) ==
  /\ pc[r] = "held"
  /\ \E q \in Actuals :
       /\ delta' = [delta EXCEPT ![r] = q - amount[r]]
       /\ Goto(r, IF q = amount[r] THEN "settled" ELSE "settle_read")
  /\ UNCHANGED <<database, now, read, at, sub, amount, tries, task, history, faults>>

SettleRead(r) ==
  /\ pc[r] = "settle_read"
  /\ \/ /\ row[sub[r]].status # "deleted"
        /\ DeltaAllowed(sub[r], row[sub[r]], delta[r])
        /\ read' = [read EXCEPT ![r] = RowsOf({sub[r]})]
        /\ Goto(r, "settle_write")
     \/ /\ row[sub[r]].status = "deleted" \/ ~DeltaAllowed(sub[r], row[sub[r]], delta[r])
        /\ Goto(r, "unsettled")
        /\ UNCHANGED read
  /\ UNCHANGED <<database, now, at, sub, amount, delta, tries, task, history, faults>>

(* The save of a row with a new amount_used, by Settle or by a refund. *)
SaveUsed(r, d) ==
  LET x == read[r][sub[r]]
  IN /\ row' = [row EXCEPT ![sub[r]] = [x EXCEPT !.used = NewUsed(x, d)]]
     /\ net' = [net EXCEPT ![r] = net[r] + d]
     /\ disturbed' = IF Overwrites(sub[r], x) \/ x.period # held[r]
                       THEN disturbed \cup {sub[r]} ELSE disturbed

SettleWrite(r) ==
  /\ pc[r] = "settle_write"
  /\ SaveUsed(r, delta[r])
  /\ Goto(r, "settled")
  /\ Forget(r)
  /\ UNCHANGED <<record, now, sub, amount, delta, tries, task, given,
                 markFails, held, ended, faults>>

SettleFails(r) ==
  /\ pc[r] = "settle_write"
  /\ Fault
  /\ Goto(r, "unsettled")
  /\ Forget(r)
  /\ UNCHANGED <<database, now, sub, amount, delta, tries, task, history>>

-----------------------------------------------------------------------------
(* SubscriptionFunding.Refund: refundWithRetry of                           *)
(* RefundSubscriptionPreConsume, whose amount is given back in a            *)
(* transaction of its own before the record is marked in the outer one.     *)

Refund(r) ==
  /\ pc[r] = "held"
  /\ tries' = [tries EXCEPT ![r] = 1]
  /\ Goto(r, "refund")
  /\ UNCHANGED <<database, now, read, at, sub, amount, delta, task, history, faults>>

RefundRead(r) ==
  /\ pc[r] = "refund"
  /\ Goto(r, IF record[r] = "refunded" THEN "refunded" ELSE "give_read")
  /\ UNCHANGED <<database, now, read, at, sub, amount, delta, tries, task, history,
                 faults>>

Retry(r) ==
  \/ tries[r] < MaxAttempts /\ tries' = [tries EXCEPT ![r] = @ + 1] /\ Goto(r, "refund")
  \/ tries[r] >= MaxAttempts /\ Goto(r, "gave_up") /\ UNCHANGED tries

GiveRead(r) ==
  /\ pc[r] = "give_read"
  /\ \/ /\ row[sub[r]].status # "deleted"
        /\ read' = [read EXCEPT ![r] = RowsOf({sub[r]})]
        /\ Goto(r, "give_write")
        /\ UNCHANGED tries
     \/ /\ row[sub[r]].status = "deleted"
        /\ Retry(r)
        /\ UNCHANGED read
  /\ UNCHANGED <<database, now, at, sub, amount, delta, task, history, faults>>

GiveWrite(r) ==
  /\ pc[r] = "give_write"
  /\ SaveUsed(r, 0 - amount[r])
  /\ given' = [given EXCEPT ![r] = @ + 1]
  /\ Goto(r, "mark")
  /\ Forget(r)
  /\ UNCHANGED <<record, now, sub, amount, delta, tries, task, markFails,
                 held, ended, faults>>

GiveFails(r) ==
  /\ pc[r] = "give_write"
  /\ Fault
  /\ Retry(r)
  /\ Forget(r)
  /\ UNCHANGED <<database, now, sub, amount, delta, task, history>>

(* The commit reported as an error although it went through. *)
Mark_Mutant(r) ==
  /\ pc[r] = "mark"
  /\ Retry(r)
  /\ UNCHANGED <<row, record, now, read, at, sub, amount, delta, task, history, faults>>

Mark(r) ==
  /\ pc[r] = "mark"
  /\ record' = [record EXCEPT ![r] = "refunded"]
  /\ Goto(r, "refunded")
  /\ UNCHANGED <<row, now, read, at, sub, amount, delta, tries, task, history, faults>>

(* The outer transaction is rolled back; the inner one was committed. *)
MarkFails(r) ==
  /\ pc[r] = "mark"
  /\ Fault
  /\ markFails' = [markFails EXCEPT ![r] = @ + 1]
  /\ Retry(r)
  /\ UNCHANGED <<database, now, read, at, sub, amount, delta, task, given, net, held,
                 disturbed, ended>>

-----------------------------------------------------------------------------
(* runSubscriptionQuotaResetOnce *)

Expirable == {s \in Subs : row[s].status = "active" /\ row[s].end <= now}

(* ExpireDueSubscriptions writes the status column alone. *)
ExpireDueSubscriptions ==
  /\ due = {}
  /\ Expirable # {}
  /\ row' = [s \in Subs |-> IF s \in Expirable THEN [row[s] EXCEPT !.status = "expired"]
                                               ELSE row[s]]
  /\ UNCHANGED <<record, now, request, task, history, faults>>

ResetDueSubscriptions ==
  /\ due = {}
  /\ due' = {s \in Subs : row[s].status = "active" /\ ResetDue(row[s], now)}
  /\ due' # {}
  /\ tAt' = now
  /\ UNCHANGED <<database, now, request, open, tRead, history, faults>>

(* The row is read again inside the transaction, and skipped if a request   *)
(* has reset it meanwhile.                                                  *)
ResetRead(s) ==
  /\ s \in due
  /\ open = {}
  /\ \/ /\ row[s].status # "deleted" /\ ResetDue(row[s], tAt)
        /\ open' = {s}
        /\ tRead' = row[s]
        /\ UNCHANGED due
     \/ /\ row[s].status = "deleted" \/ ~ResetDue(row[s], tAt)
        /\ due' = due \ {s}
        /\ UNCHANGED <<open, tRead>>
  /\ UNCHANGED <<database, now, request, tAt, history, faults>>

ResetWrite(s) ==
  /\ s \in open
  /\ row' = [row EXCEPT ![s] = MaybeReset(tRead, tAt)]
  /\ due' = due \ {s}
  /\ open' = {}
  /\ tRead' = NoRow
  /\ disturbed' = IF Overwrites(s, tRead) THEN disturbed \cup {s} ELSE disturbed
  /\ UNCHANGED <<record, now, request, tAt, given, markFails, net, held,
                 ended, faults>>

(* An error ends the round; the rows left are seen again by the next. *)
ResetFails(s) ==
  /\ s \in open
  /\ Fault
  /\ due' = {}
  /\ open' = {}
  /\ tRead' = NoRow
  /\ UNCHANGED <<database, now, request, tAt, history>>

-----------------------------------------------------------------------------
(* Administrators and time *)

(* A transaction is about to save a row of s it has read before. *)
Working(s) ==
  \/ s \in open
  \/ \E r \in Requests :
       \/ pc[r] = "pre_write" /\ s \in {sub[r]} \cup PassedOver(r)
       \/ pc[r] \in {"settle_write", "give_write"} /\ s = sub[r]

Ends(s) == ended' = IF Working(s) THEN ended ELSE ended \cup {s}

AdminInvalidateUserSubscription(s) ==
  /\ row[s].status # "deleted"
  /\ row' = [row EXCEPT ![s].status = "cancelled", ![s].end = now]
  /\ Ends(s)
  /\ UNCHANGED <<record, now, request, task, given, markFails, net, held,
                 disturbed, faults>>

AdminDeleteUserSubscription(s) ==
  /\ row[s].status # "deleted"
  /\ row' = [row EXCEPT ![s] = NoRow]
  /\ Ends(s)
  /\ UNCHANGED <<record, now, request, task, given, markFails, net, held,
                 disturbed, faults>>

Tick ==
  /\ now < MaxNow
  /\ now' = now + 1
  /\ UNCHANGED <<database, request, task, history, faults>>

-----------------------------------------------------------------------------
Work(r) == \/ PreRead(r) \/ PreWrite(r) \/ PreFails(r)
           \/ SettleRead(r) \/ SettleWrite(r) \/ SettleFails(r)
           \/ RefundRead(r) \/ GiveRead(r) \/ GiveWrite(r) \/ GiveFails(r)
           \/ Mark(r) \/ MarkFails(r)

Outcome(r) == Settle(r) \/ Refund(r)

Maintain == \/ ExpireDueSubscriptions \/ ResetDueSubscriptions
            \/ \E s \in Subs : ResetRead(s) \/ ResetWrite(s) \/ ResetFails(s)

Admin(s) == AdminInvalidateUserSubscription(s) \/ AdminDeleteUserSubscription(s)

(* All requests have ended and the clock has run out. *)
Ended == {"refused", "settled", "unsettled", "refunded", "gave_up"}
Finished == now = MaxNow /\ \A r \in Requests : pc[r] \in Ended
Done == Finished /\ UNCHANGED vars

Next == \/ \E r \in Requests : Work(r) \/ Outcome(r)
        \/ Maintain
        \/ \E s \in Subs : Admin(s)
        \/ Tick
        \/ Done

Spec == Init /\ [][Next]_vars

-----------------------------------------------------------------------------
(* Properties *)

Labels == Ended \cup {"start", "pre_write", "held", "settle_read", "settle_write",
                      "refund", "give_read", "give_write", "mark"}

TypeOK ==
  /\ row \in [Subs -> Rows]
  /\ now \in Nat
  /\ record \in [Requests -> {"none", "consumed", "refunded"}]
  /\ pc \in [Requests -> Labels]
  /\ read \in [Requests -> [Subs -> Rows]]
  /\ at \in [Requests -> Nat]
  /\ sub \in [Requests -> Subs]
  /\ amount \in [Requests -> Nat]
  /\ delta \in [Requests -> Int]
  /\ tries \in [Requests -> 0..MaxAttempts]
  /\ due \subseteq Subs
  /\ open \subseteq Subs
  /\ tRead \in Rows
  /\ tAt \in Nat
  /\ given \in [Requests -> Nat]
  /\ markFails \in [Requests -> Nat]
  /\ net \in [Requests -> Int]
  /\ held \in [Requests -> Nat]
  /\ disturbed \subseteq Subs
  /\ ended \subseteq Subs
  /\ faults \in Nat

(* Lost updates, resets and retried refunds notwithstanding, amount_used of *)
(* a row does not exceed amount_total (the checks of                        *)
(* PreConsumeUserSubscription and PostConsumeUserSubscriptionDelta are made *)
(* on the row that is saved).                                               *)
InBounds(s, x) == AmountTotal[s] > 0 => x.used <= AmountTotal[s]
UsedWithinTotal == \A s \in Subs : InBounds(s, row[s])

(* The requests held on s in the period its row is in. *)
HeldOn(s) ==
  {r \in Requests : record[r] # "none" /\ sub[r] = s /\ held[r] = row[s].period}

(* A row that no transaction has saved over another's commit, whose holds   *)
(* were settled or refunded before the next reset, and refunded once, has   *)
(* used exactly what the requests held in its period have cost: a reset     *)
(* forgets the earlier ones, a refund what it had taken, and nothing else.  *)
SerialUsageIsExact ==
  \A s \in Subs :
    /\ s \notin disturbed
    /\ row[s].status # "deleted"
    /\ \A r \in Requests : sub[r] = s => given[r] <= 1
    =>
      row[s].used = SumFunctionOnSet(net, HeldOn(s))

(* A refund is committed more than once only for each time that its record  *)
(* could not be marked after it (RefundSubscriptionPreConsume); one that    *)
(* reports success has been committed.                                      *)
RefundsAccounted ==
  \A r \in Requests :
    /\ given[r] <= 1 + markFails[r]
    /\ pc[r] = "refunded" => record[r] = "refunded" /\ given[r] >= 1

(* Once a subscription is cancelled or deleted while no transaction is      *)
(* working on it, it stays so and serves no request any more                *)
(* (AdminInvalidateUserSubscription, AdminDeleteUserSubscription).          *)
EndedServesNobody ==
  \A s \in ended :
    /\ row[s].status \in {"cancelled", "deleted"}
    /\ \A r \in Requests : pc[r] = "pre_write" => sub[r] # s

(* What is said of RefundSubscriptionPreConsume: it is idempotent, so its   *)
(* retries give the amount back once.                                       *)
RefundIdempotent == \A r \in Requests : given[r] <= 1

=============================================================================
