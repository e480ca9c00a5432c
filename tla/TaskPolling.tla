---------------------------- MODULE TaskPolling ----------------------------
(***************************************************************************)
(* Asynchronous tasks after their submission: service/task_polling.go (the *)
(* loop of every master process: sweep the timed out tasks, then poll the  *)
(* unfinished ones), the billing of service/task_billing.go, the rows of   *)
(* model/task.go and the realtime fetch of relay/relay_task.go.            *)
(*                                                                         *)
(* Several processes work on one table; each works on a batch of rows it   *)
(* read some time ago, asks the upstream, and writes a row back guarded by *)
(* the status it had read (or, for some tasks, unguarded).  Only then is   *)
(* the task billed, in steps of their own, so a process may die or another *)
(* may act in between.  Every task is on a channel of its own.             *)
(***************************************************************************)
EXTENDS Integers, FiniteSets

CONSTANTS
  Tasks,          \* the primary keys of the task rows
  SunoTasks,      \* the ones of the Suno platform, saved without a guard
  RealtimeTasks,  \* the ones of Gemini and Vertex, which a client's fetch updates
  Deletable,      \* the ones whose channel an administrator may delete
  SubmitTime,     \* SubmitTime[t] in Unix seconds
  Quota,          \* task.Quota: what the submission is to be charged
  Holds,          \* what it may have held until it was settled
  ActualQuotas,   \* what a completed task may turn out to cost, 0 for "as charged"
  Nodes,          \* the master processes
  QueryLimit,     \* constant.TaskQueryLimit
  SweepLimit,     \* the limit of GetTimedOutUnfinishedTasks
  RelayTimeout,   \* RELAY_TIMEOUT in seconds, 0 (the default) for none
  MaxFaults,      \* bound: failed reads and writes of rows, and crashes
  MaxFetches      \* bound: realtime fetches by clients

ASSUME TaskAssumption ==
  /\ Tasks \subseteq Nat
  /\ SunoTasks \subseteq Tasks
  /\ RealtimeTasks \subseteq Tasks \ SunoTasks
  /\ Deletable \subseteq Tasks
  /\ SubmitTime \in [Tasks -> Nat]
  /\ Quota \in Nat
  /\ Holds \subseteq Nat
  /\ ActualQuotas \subseteq Nat
  /\ IsFiniteSet(Nodes)
  /\ QueryLimit \in Nat
  /\ SweepLimit \in Nat
  /\ RelayTimeout \in Nat
  /\ MaxFaults \in Nat
  /\ MaxFetches \in Nat

VARIABLES
  status,       \* tasks.status; "NONE" before and "UNRECORDED" without a row
  complete,     \* tasks.progress is "100%"
  upstream,     \* what has become of the task upstream
  timedOut,     \* submit_time is before the cutoff of the sweep
  gone,         \* the tasks whose channel has been deleted
  pc,           \* pc[n]: the next step of the polling loop of process n
  batch,        \* the rows of the current batch that are still to be handled
  snap,         \* snap[n][t]: the status t had when n read its batch
  cur,          \* the task n is working on
  ans,          \* the status the upstream answered for it
  delta,        \* the quota still to be moved for it
  after,        \* where the loop goes on once it is billed
  cSnap, cAns,  \* the status a client's fetch has read, and the answer it got
  charge,       \* what the user has paid for the task (history)
  tokenCharge,  \* what the token has paid for it (history)
  short,        \* by how much the submission paid less than Quota (history)
  tokenShort,   \* the same for the token (history)
  lost,         \* tasks whose funding was not adjusted: error or crash (history)
  tokenLost,    \* tasks whose token was not adjusted (history)
  faults,       \* row accesses that may still fail, and crashes
  fetches       \* realtime fetches still to come

row == <<status, complete>>
world == <<upstream, timedOut, gone>>
node == <<pc, batch, snap, cur, ans, delta, after>>
client == <<cSnap, cAns, fetches>>
settled == <<short, tokenShort>>
bill == <<charge, tokenCharge, settled, lost, tokenLost>>
vars == <<row, world, node, client, bill, faults>>

Terminal == {"SUCCESS", "FAILURE"}
Open == {"NOT_START", "IN_PROGRESS"}   \* SUBMITTED and QUEUED are as IN_PROGRESS
Recorded == Open \cup Terminal
Answers == {"IN_PROGRESS", "SUCCESS", "FAILURE"}

Init ==
  /\ status = [t \in Tasks |-> "NONE"]
  /\ complete = [t \in Tasks |-> FALSE]
  /\ upstream = [t \in Tasks |-> "IN_PROGRESS"]
  /\ timedOut = [t \in Tasks |-> FALSE]
  /\ gone = {}
  /\ pc = [n \in Nodes |-> "poll"]
  /\ batch = [n \in Nodes |-> {}]
  /\ snap = [n \in Nodes |-> [t \in Tasks |-> "none"]]
  /\ cur \in [Nodes -> Tasks]   \* any: it is set before it is used
  /\ ans = [n \in Nodes |-> "none"]
  /\ delta = [n \in Nodes |-> 0]
  /\ after = [n \in Nodes |-> "poll"]
  /\ cSnap = [t \in Tasks |-> "none"]
  /\ cAns = [t \in Tasks |-> "none"]
  /\ charge = [t \in Tasks |-> 0]
  /\ tokenCharge = [t \in Tasks |-> 0]
  /\ short = [t \in Tasks |-> 0]
  /\ tokenShort = [t \in Tasks |-> 0]
  /\ lost = {}
  /\ tokenLost = {}
  /\ faults = MaxFaults
  /\ fetches = MaxFetches

Fault == faults > 0 /\ faults' = faults - 1

Goto(n, label) == pc' = [pc EXCEPT ![n] = label]

WriteRow(t, s, done) == /\ status' = [status EXCEPT ![t] = s]
                        /\ complete' = [complete EXCEPT ![t] = done]

-----------------------------------------------------------------------------
(* The world around the pollers *)

(* RelayTask settles the submission, the funding source c before the token  *)
(* k, and inserts the row with the quota that was to be settled.  Errors of *)
(* either are only logged: the hold stays what was paid, or there is no row.*)
Submit(t) ==
  /\ status[t] = "NONE"
  /\ \E s \in {"NOT_START", "UNRECORDED"}, c, k \in Holds \cup {Quota} :
       /\ \/ s = "NOT_START" /\ c = Quota /\ k = Quota /\ UNCHANGED faults
          \/ (c = Quota \/ k \in Holds) /\ Fault
       /\ status' = [status EXCEPT ![t] = s]
       /\ charge' = [charge EXCEPT ![t] = c]
       /\ tokenCharge' = [tokenCharge EXCEPT ![t] = k]
       /\ short' = [short EXCEPT ![t] = Quota - c]
       /\ tokenShort' = [tokenShort EXCEPT ![t] = Quota - k]
  /\ UNCHANGED <<complete, world, node, client, lost, tokenLost>>

UpstreamEnds(t) ==
  /\ status[t] # "NONE"
  /\ upstream[t] = "IN_PROGRESS"
  /\ \E s \in Terminal : upstream' = [upstream EXCEPT ![t] = s]
  /\ UNCHANGED <<row, timedOut, gone, node, client, bill, faults>>

(* TaskTimeoutMinutes have passed since the submission. *)
Expire(t) ==
  /\ status[t] \in Recorded
  /\ ~timedOut[t]
  /\ timedOut' = [timedOut EXCEPT ![t] = TRUE]
  /\ UNCHANGED <<row, upstream, gone, node, client, bill, faults>>

DeleteChannel(t) ==
  /\ t \in Deletable \ gone
  /\ gone' = gone \cup {t}
  /\ UNCHANGED <<row, upstream, timedOut, node, client, bill, faults>>

(* What the upstream may answer: its state, or an error body, which is     *)
(* taken for a failure of a video task; for Suno a fail_reason without a    *)
(* status ("REASON").                                                       *)
UpstreamAnswers(t) == {upstream[t], IF t \in SunoTasks THEN "REASON" ELSE "FAILURE"}

-----------------------------------------------------------------------------
(* Batches *)

(* ORDER BY id LIMIT k *)
Oldest(S, k) == {t \in S : Cardinality({u \in S : u < t}) < k}

(* ORDER BY submit_time LIMIT k: equal times come in any order. *)
Earliest(S, k) ==
  {B \in SUBSET S : /\ Cardinality(B) <= k /\ (B = S \/ Cardinality(B) = k)
                    /\ \A t \in B, u \in S \ B : SubmitTime[t] <= SubmitTime[u]}

Unfinished_Mutant == {t \in Tasks : status[t] \in Recorded}

Unfinished == {t \in Tasks : status[t] \in Open /\ ~complete[t]}

(* The query, or a failed one, which yields no row. *)
ReadBatch(n, S) ==
  /\ \/ batch' = [batch EXCEPT ![n] = S] /\ UNCHANGED faults
     \/ batch' = [batch EXCEPT ![n] = {}] /\ Fault
  /\ snap' = [snap EXCEPT ![n] = [t \in Tasks |-> IF t \in S THEN status[t] ELSE "none"]]

(* sweepTimedOutTasks, after the 15 seconds of sleep that end a round. *)
SweepRead(n) ==
  /\ pc[n] = "poll" /\ batch[n] = {}
  /\ \E B \in Earliest({t \in Unfinished : timedOut[t]}, SweepLimit) : ReadBatch(n, B)
  /\ Goto(n, "sweep")
  /\ UNCHANGED <<row, world, cur, ans, delta, after, client, bill>>

PollRead(n) ==
  /\ pc[n] = "sweep" /\ batch[n] = {}
  /\ ReadBatch(n, Oldest(Unfinished, QueryLimit))
  /\ Goto(n, "poll")
  /\ UNCHANGED <<row, world, cur, ans, delta, after, client, bill>>

(* t leaves the batch of n and is the task n works on from here. *)
Take(n, t) == /\ t \in batch[n]
              /\ batch' = [batch EXCEPT ![n] = @ \ {t}]
              /\ cur' = [cur EXCEPT ![n] = t]

(* The task n works on is to be billed d (refunded, if negative) before the *)
(* loop goes on at label; there is nothing to do for d = 0.                 *)
Bill(n, d, label) ==
  /\ Goto(n, IF d = 0 THEN label ELSE "fund")
  /\ delta' = [delta EXCEPT ![n] = d]
  /\ after' = [after EXCEPT ![n] = label]

Won_Mutant(n, t) == TRUE

(* UpdateWithStatus(snap.Status) finds the row still in that status. *)
Won(n, t) == status[t] = snap[n][t]

-----------------------------------------------------------------------------
(* sweepTimedOutTasks *)

legacyTaskCutoff == 1740182400

isLegacy(t) == SubmitTime[t] > 0 /\ SubmitTime[t] < legacyTaskCutoff


(* The guarded write of a failure, and the refund owed to the winner. *)
SweepTask(n, t) ==
  /\ pc[n] = "sweep"
  /\ Take(n, t)
  /\ \/ /\ Won(n, t)
        /\ WriteRow(t, "FAILURE", TRUE)
        /\ Bill(n, IF isLegacy(t) THEN 0 ELSE -Quota, "sweep")
        /\ UNCHANGED faults
     \/ /\ \/ ~Won(n, t) /\ UNCHANGED faults
           \/ Fault
        /\ UNCHANGED <<row, pc, delta, after>>
  /\ UNCHANGED <<world, snap, ans, client, bill>>

-----------------------------------------------------------------------------
(* The poll: one upstream request, then the update of the row *)

(* CacheGetChannel fails: a bulk update of the row, without any guard and  *)
(* without a refund.                                                        *)
BulkFail(n, t) ==
  /\ pc[n] = "poll"
  /\ t \in gone
  /\ Take(n, t)
  /\ \/ WriteRow(t, "FAILURE", TRUE) /\ UNCHANGED faults
     \/ UNCHANGED row /\ Fault
  /\ UNCHANGED <<world, pc, snap, ans, delta, after, client, bill>>

(* FetchTask and ParseTaskResult.  "none" stands for an answer that leaves  *)
(* the task for the next round: an error of the transport or of the parser, *)
(* a 429, an unknown status.                                                *)
Fetch(n, t) ==
  /\ pc[n] = "poll"
  /\ t \notin gone
  /\ Take(n, t)
  /\ \E a \in UpstreamAnswers(t) \cup {"none"} :
       /\ ans' = [ans EXCEPT ![n] = a]
       /\ Goto(n, IF a = "none" THEN "poll" ELSE "update")
  /\ UNCHANGED <<row, world, snap, delta, after, client, bill, faults>>

(* settleTaskBillingOnComplete and RecalculateTaskQuota: the difference to *)
(* the real cost, none when it is not known or billing is per call.         *)
Difference(actualQuota) == IF actualQuota > 0 THEN actualQuota - Quota ELSE 0

UpdateVideo_Mutant(n) ==
  LET t == cur[n]
  IN /\ pc[n] = "update" /\ t \notin SunoTasks
     /\ \/ /\ Won(n, t)
           /\ WriteRow(t, ans[n], ans[n] \in Terminal)
           /\ \/ ans[n] = "IN_PROGRESS" /\ Bill(n, 0, "poll")
              \/ ans[n] = "FAILURE" /\ Bill(n, 0, "poll")
              \/ /\ ans[n] = "SUCCESS"
                 /\ \E a \in ActualQuotas : Bill(n, Difference(a), "poll")
           /\ UNCHANGED faults
        \/ /\ \/ ~Won(n, t) /\ UNCHANGED faults
              \/ Fault
           /\ Goto(n, "poll")
           /\ UNCHANGED <<row, delta, after>>
     /\ UNCHANGED <<world, batch, snap, cur, ans, client, bill>>

(* updateVideoSingleTask after the fetch: the guarded write, then billing  *)
(* for the one that has moved the task to its end.                          *)
UpdateVideo(n) ==
  LET t == cur[n]
  IN /\ pc[n] = "update" /\ t \notin SunoTasks
     /\ \/ /\ Won(n, t)
           /\ WriteRow(t, ans[n], ans[n] \in Terminal)
           /\ \/ ans[n] = "IN_PROGRESS" /\ Bill(n, 0, "poll")
              \/ ans[n] = "FAILURE" /\ Bill(n, -Quota, "poll")
              \/ /\ ans[n] = "SUCCESS"
                 /\ \E a \in ActualQuotas : Bill(n, Difference(a), "poll")
           /\ UNCHANGED faults
        \/ /\ \/ ~Won(n, t) /\ UNCHANGED faults
              \/ Fault
           /\ Goto(n, "poll")
           /\ UNCHANGED <<row, delta, after>>
     /\ UNCHANGED <<world, batch, snap, cur, ans, client, bill>>

SunoFails(n) == ans[n] \in {"FAILURE", "REASON"}

(* updateSunoTasks: the refund comes before the row is saved.  A row that  *)
(* taskNeedsUpdate finds unchanged is skipped.                              *)
UpdateSuno(n) ==
  /\ pc[n] = "update" /\ cur[n] \in SunoTasks
  /\ \/ Bill(n, IF SunoFails(n) THEN -Quota ELSE 0, "save")
     \/ ans[n] = snap[n][cur[n]] /\ Goto(n, "poll") /\ UNCHANGED <<delta, after>>
  /\ UNCHANGED <<row, world, batch, snap, cur, ans, client, bill, faults>>

(* task.Update(): the whole row as it was read, with the answer's status. *)
SaveSuno(n) ==
  /\ pc[n] = "save"
  /\ \/ /\ WriteRow(cur[n], IF ans[n] = "REASON" THEN snap[n][cur[n]] ELSE ans[n],
                    SunoFails(n) \/ ans[n] = "SUCCESS")
        /\ UNCHANGED faults
     \/ UNCHANGED row /\ Fault
  /\ Goto(n, "poll")
  /\ UNCHANGED <<world, batch, snap, cur, ans, delta, after, client, bill>>

-----------------------------------------------------------------------------
(* RefundTaskQuota and RecalculateTaskQuota: the funding source, then the  *)
(* token; an error of the first skips the second                            *)

AdjustFunding(n) ==
  /\ pc[n] = "fund"
  /\ \/ /\ charge' = [charge EXCEPT ![cur[n]] = @ + delta[n]]
        /\ Goto(n, "token")
        /\ UNCHANGED <<lost, tokenLost>>
     \/ /\ lost' = lost \cup {cur[n]}
        /\ tokenLost' = tokenLost \cup {cur[n]}
        /\ Goto(n, after[n])
        /\ UNCHANGED charge
  /\ UNCHANGED <<row, world, batch, snap, cur, ans, delta, after, client,
                 tokenCharge, settled, faults>>

AdjustToken_Mutant(n) ==
  /\ pc[n] = "token"
  /\ \/ /\ tokenCharge' = [tokenCharge EXCEPT ![cur[n]] = @ - delta[n]]
        /\ UNCHANGED tokenLost
     \/ /\ tokenLost' = tokenLost \cup {cur[n]}
        /\ UNCHANGED tokenCharge
  /\ Goto(n, after[n])
  /\ UNCHANGED <<row, world, batch, snap, cur, ans, delta, after, client,
                 charge, settled, lost, faults>>

AdjustToken(n) ==
  /\ pc[n] = "token"
  /\ \/ /\ tokenCharge' = [tokenCharge EXCEPT ![cur[n]] = @ + delta[n]]
        /\ UNCHANGED tokenLost
     \/ /\ tokenLost' = tokenLost \cup {cur[n]}
        /\ UNCHANGED tokenCharge
  /\ Goto(n, after[n])
  /\ UNCHANGED <<row, world, batch, snap, cur, ans, delta, after, client,
                 charge, settled, lost, faults>>

(* The process dies and is started again: its batch and the billing it    *)
(* still owed are forgotten.                                                *)
Crash(n) ==
  /\ Fault
  /\ Goto(n, "poll")
  /\ batch' = [batch EXCEPT ![n] = {}]
  /\ lost' = IF pc[n] = "fund" THEN lost \cup {cur[n]} ELSE lost
  /\ tokenLost' = IF pc[n] \in {"fund", "token"} THEN tokenLost \cup {cur[n]}
                  ELSE tokenLost
  /\ UNCHANGED <<row, world, snap, cur, ans, delta, after, client, charge, tokenCharge,
                 settled>>

-----------------------------------------------------------------------------
(* tryRealtimeFetch: a client asks for a Gemini or Vertex task, and the    *)
(* answer is written to the row, guarded by the status read, never billed.  *)

ClientRead(t) ==
  /\ t \in RealtimeTasks \ gone
  /\ status[t] \in Recorded
  /\ cSnap[t] = "none"
  /\ fetches > 0
  /\ cSnap' = [cSnap EXCEPT ![t] = status[t]]
  /\ fetches' = fetches - 1
  /\ UNCHANGED <<row, world, node, cAns, bill, faults>>

ClientFetch(t) ==
  /\ cSnap[t] # "none" /\ cAns[t] = "none"
  /\ \/ /\ \E a \in UpstreamAnswers(t) : cAns' = [cAns EXCEPT ![t] = a]
        /\ UNCHANGED cSnap
     \/ /\ cSnap' = [cSnap EXCEPT ![t] = "none"]   \* an error: nothing is written
        /\ UNCHANGED cAns
  /\ UNCHANGED <<row, world, node, fetches, bill, faults>>

ClientWrite(t) ==
  /\ cAns[t] # "none"
  /\ \/ /\ status[t] = cSnap[t]
        /\ WriteRow(t, cAns[t], cAns[t] \in Terminal)
        /\ UNCHANGED faults
     \/ /\ \/ status[t] # cSnap[t] /\ UNCHANGED faults
           \/ Fault
        /\ UNCHANGED row
  /\ cSnap' = [cSnap EXCEPT ![t] = "none"]
  /\ cAns' = [cAns EXCEPT ![t] = "none"]
  /\ UNCHANGED <<world, node, fetches, bill>>

-----------------------------------------------------------------------------
Asks(n) == \E t \in Tasks : Fetch(n, t)

Loop(n) == \/ SweepRead(n) \/ PollRead(n) \/ UpdateVideo(n) \/ UpdateSuno(n)
           \/ SaveSuno(n) \/ AdjustFunding(n) \/ AdjustToken(n)
           \/ \E t \in Tasks : SweepTask(n, t) \/ BulkFail(n, t)

Work(n) == Loop(n) \/ Asks(n)

Client(t) == ClientRead(t) \/ ClientFetch(t) \/ ClientWrite(t)

Environment(t) == Submit(t) \/ UpstreamEnds(t) \/ Expire(t) \/ DeleteChannel(t)

Next == \/ \E n \in Nodes : Work(n) \/ Crash(n)
        \/ \E t \in Tasks : Client(t) \/ Environment(t)

(* The polling loop never ends and its database calls return.  A request to *)
(* the upstream is sure to return, with an error at the latest, only when   *)
(* RELAY_TIMEOUT is set.  Nothing is assumed of what the upstream answers,  *)
(* of the clients or of the administrator.                                  *)
Assured(n) == Loop(n) \/ (RelayTimeout > 0 /\ Asks(n))

Fairness == \A n \in Nodes : WF_vars(Assured(n))

Spec == Init /\ [][Next]_vars

FairSpec == Spec /\ Fairness

-----------------------------------------------------------------------------
(* Properties *)

Plain == Tasks \ (SunoTasks \cup RealtimeTasks \cup Deletable)

PcStates == {"sweep", "poll", "update", "fund", "token", "save"}

(* Every variable keeps its type. *)
TypeOK ==
  /\ status \in [Tasks -> Recorded \cup {"NONE", "UNRECORDED"}]
  /\ complete \in [Tasks -> BOOLEAN]
  /\ upstream \in [Tasks -> Answers]
  /\ timedOut \in [Tasks -> BOOLEAN]
  /\ gone \subseteq Deletable
  /\ pc \in [Nodes -> PcStates]
  /\ batch \in [Nodes -> SUBSET Tasks]
  /\ snap \in [Nodes -> [Tasks -> Open \cup {"none"}]]
  /\ cur \in [Nodes -> Tasks]
  /\ ans \in [Nodes -> Answers \cup {"none", "REASON"}]
  /\ delta \in [Nodes -> Int]
  /\ after \in [Nodes -> {"sweep", "poll", "save"}]
  /\ cSnap \in [Tasks -> Recorded \cup {"none"}]
  /\ cAns \in [Tasks -> Answers \cup {"none"}]
  /\ charge \in [Tasks -> Int]
  /\ tokenCharge \in [Tasks -> Int]
  /\ short \in [Tasks -> Int]
  /\ tokenShort \in [Tasks -> Int]
  /\ lost \subseteq Tasks
  /\ tokenLost \subseteq Tasks
  /\ faults \in 0 .. MaxFaults
  /\ fetches \in 0 .. MaxFetches

(* Process n still has to adjust the funding source (or the token) for t. *)
Owes(n, t) == pc[n] = "fund" /\ cur[n] = t
OwesToken(n, t) == pc[n] \in {"fund", "token"} /\ cur[n] = t

Owed(t) == \E n \in Nodes : Owes(n, t)
OwedToken(t) == \E n \in Nodes : OwesToken(n, t)

(* The account of a task as its row sees it, which starts at task.Quota:    *)
(* what was paid, and what the submission's failed settlement did not take  *)
(* (or took too much).  Nothing makes up for the latter afterwards, and a   *)
(* refund gives task.Quota back whatever was paid.                          *)
Account(t) == charge[t] + short[t]
TokenAccount(t) == tokenCharge[t] + tokenShort[t]

Refunded(t) == status[t] = "FAILURE" /\ ~isLegacy(t) /\ ~Owed(t) /\ t \notin lost
                 => Account(t) = 0

(* A failed task is refunded its quota, whoever found out (a poll or the    *)
(* sweep) and however many processes did, unless the refund itself failed   *)
(* and was logged or its process died (RefundTaskQuota): whoever paid what  *)
(* he should have paid at the submission has then paid nothing.             *)
PlainFailureRefunded == \A t \in Plain : Refunded(t)

(* The same for every task: "当异步任务失败时，将预扣的 quota 退还给用户"         *)
(* (service/task_billing.go, RefundTaskQuota).                              *)
FailedTaskRefunded == \A t \in Tasks : Refunded(t)

Costs == {Quota} \cup (ActualQuotas \ {0})

(* A task that has not failed costs its quota or the cost it was settled    *)
(* at, once: two processes that both see it end do not both bill it, and a  *)
(* refund is never followed by a settlement (the guard of UpdateWithStatus).*)
(* What the submission's own settlement left unpaid stays unpaid.           *)
PlainBilledOnce ==
  \A t \in Plain :
    /\ status[t] \in Open => Account(t) = Quota /\ ~OwedToken(t)
    /\ status[t] = "SUCCESS" => Account(t) \in Costs
    /\ status[t] = "FAILURE" => Account(t) \in {0, Quota}

(* With a single process and no failed write, even a Suno task, refunded    *)
(* before its row is saved, is refunded at most once (updateSunoTasks).     *)
SunoRefundedOnceAlone ==
  Cardinality(Nodes) = 1 /\ faults = MaxFaults =>
    \A t \in SunoTasks : charge[t] >= 0

(* Without a client's fetch a Gemini or Vertex task is billed as any other, *)
(* and each fetch can lead to at most one more refund (tryRealtimeFetch).   *)
RealtimeRefundsBounded ==
  \A t \in RealtimeTasks : Account(t) >= 0 - (MaxFetches - fetches) * Quota

(* The token moves with the funding source once a task is billed. *)
PlainTokenAgrees ==
  \A t \in Plain : ~OwedToken(t) /\ t \notin tokenLost => TokenAccount(t) = Account(t)

(* A task that has ended stays as it ended: no stale batch of another       *)
(* process moves it back or to the other end.                               *)
PlainEndIsFinal ==
  [][\A t \in Plain : status[t] \in Terminal => status'[t] = status[t]]_vars


-----------------------------------------------------------------------------
(* The inductive invariant *)

(* What an ended task may still have to be billed, and what it may cost. *)
Adjustments(t) == IF status[t] = "FAILURE" THEN {0 - Quota} ELSE {c - Quota : c \in Costs}

EndCharges(t) == IF status[t] = "SUCCESS" THEN Costs
                 ELSE IF isLegacy(t) THEN {0, Quota} ELSE {0}

Saving(n) == pc[n] = "save" \/ (pc[n] \in {"fund", "token"} /\ after[n] = "save")

(* The memory of a process: a batch holds rows that were open when read,    *)
(* and only Suno tasks are on the way to an unguarded save.                 *)
NodeMemory(n) ==
  /\ \A t \in batch[n] : snap[n][t] \in Open
  /\ pc[n] = "update" \/ Saving(n) => ans[n] # "none" /\ snap[n][cur[n]] \in Open
  /\ Saving(n) => cur[n] \in SunoTasks

ClientMemory(t) == /\ cSnap[t] # "none" => t \in RealtimeTasks
                   /\ cAns[t] # "none" => cSnap[t] # "none"

PlainAccount(t) ==
  /\ status[t] = "NONE" => Account(t) = 0
  /\ status[t] \in Open \cup {"UNRECORDED"} => Account(t) = Quota
  /\ status[t] \notin Terminal =>
       t \notin lost \cup tokenLost /\ TokenAccount(t) = Account(t) /\ ~OwedToken(t)
  /\ t \in lost => Account(t) = Quota
  /\ \A n \in Nodes : OwesToken(n, t) =>
       /\ delta[n] \in Adjustments(t)
       /\ TokenAccount(t) = Quota /\ t \notin lost \cup tokenLost
       /\ Account(t) = IF pc[n] = "fund" THEN Quota ELSE Quota + delta[n]
  /\ \A n, m \in Nodes : OwesToken(n, t) /\ OwesToken(m, t) => n = m
  /\ status[t] \in Terminal /\ ~Owed(t) /\ t \notin lost => Account(t) \in EndCharges(t)
  /\ ~OwedToken(t) /\ t \notin tokenLost => TokenAccount(t) = Account(t)

(* Whatever process a task's end was noticed by, at most one process owes   *)
(* it its adjustment, the adjustment is the one its status calls for, and   *)
(* what has been paid so far follows from how far that process has come.    *)
PlainAccounting == /\ \A n \in Nodes : NodeMemory(n)
                   /\ \A t \in Tasks : ClientMemory(t)
                   /\ \A t \in Plain : PlainAccount(t)

-----------------------------------------------------------------------------
(* The abstract specification plain tasks implement *)

TaskPhase(t) ==
  IF status[t] = "NONE" THEN "idle"
  ELSE IF status[t] \notin Terminal \/ Owed(t) THEN "held"
  ELSE IF t \in lost THEN "kept"
  ELSE IF status[t] = "SUCCESS" THEN "charged"
  ELSE IF Account(t) = 0 THEN "released" ELSE "kept"

TaskHold == INSTANCE QuotaHold WITH
              Requests <- Plain,
              phase <- [t \in Plain |-> TaskPhase(t)],
              taken <- [t \in Plain |-> Account(t)]

(* The quota a row was inserted with is a hold that has exactly one outcome,*)
(* though several processes may notice the end of the task (settlement,     *)
(* refund, or a hold that is kept: error, crash, legacy task).              *)
PlainTasksImplementHold == TaskHold!Spec

=============================================================================
