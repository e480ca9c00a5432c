------------------------- MODULE TaskPollingProofs -------------------------
(***************************************************************************)
(* For any number of processes and tasks, any limits of the queries, any   *)
(* crashes and failed writes: a task whose row is only written under the   *)
(* guard of UpdateWithStatus is billed at most once, by the process whose  *)
(* write ended it, and its end is final.                                   *)
(***************************************************************************)
EXTENDS TaskPolling, SumTheorems

IInv == TypeOK /\ PlainAccounting

USE DEF row, world, node, client, bill, settled, Account, TokenAccount, Goto, Recorded, Open,
        Terminal, Answers

-----------------------------------------------------------------------------
(* Facts the steps share *)

LEMMA Constants ==
  /\ SunoTasks \subseteq Tasks /\ RealtimeTasks \subseteq Tasks \ SunoTasks
  /\ Quota \in Nat /\ MaxFaults \in Nat /\ MaxFetches \in Nat
  /\ IsFiniteSet(Nodes)
  /\ \A a \in ActualQuotas : a \in Nat
  BY TaskAssumption DEF TaskAssumption

LEMMA CostsAreNat == \A c \in Costs : c \in Nat
  BY Constants DEF Costs

(* A row that is written keeps its type. *)
LEMMA RowTyped ==
  ASSUME TypeOK, NEW t \in Tasks, NEW s \in Recorded, NEW d \in BOOLEAN, WriteRow(t, s, d)
  PROVE  /\ status' \in [Tasks -> Recorded \cup {"NONE", "UNRECORDED"}]
         /\ complete' \in [Tasks -> BOOLEAN]
  <1>1. status' \in [Tasks -> Recorded \cup {"NONE", "UNRECORDED"}]
    BY DEF TypeOK, WriteRow
  <1>2. complete' \in [Tasks -> BOOLEAN]
    BY DEF TypeOK, WriteRow
  <1> QED BY <1>1, <1>2

(* The guard of UpdateWithStatus only matches a row that is still open. *)
LEMMA WonIsOpen ==
  ASSUME TypeOK, NEW n \in Nodes, NEW t \in Tasks, Won(n, t)
  PROVE  status[t] \in Open
  <1>1. snap[n] \in [Tasks -> Open \cup {"none"}]
    BY DEF TypeOK
  <1>2. snap[n][t] \in Open \cup {"none"}
    BY <1>1
  <1>3. status[t] # "none"
    BY DEF TypeOK
  <1> QED BY <1>2, <1>3 DEF Won

(* A task whose own state a step leaves alone keeps its account. *)
LEMMA Undisturbed ==
  ASSUME NEW t \in Plain, PlainAccount(t),
         status'[t] = status[t], Account(t)' = Account(t),
         TokenAccount(t)' = TokenAccount(t),
         t \in lost' <=> t \in lost,
         t \in tokenLost' <=> t \in tokenLost,
         \A n \in Nodes : /\ OwesToken(n, t)' <=> OwesToken(n, t)
                          /\ OwesToken(n, t) => delta'[n] = delta[n] /\ pc'[n] = pc[n]
  PROVE  PlainAccount(t)'
  <1>1. /\ Adjustments(t)' = Adjustments(t)
        /\ EndCharges(t)' = EndCharges(t)
    BY DEF Adjustments, EndCharges, Costs, isLegacy, legacyTaskCutoff
  <1>2. /\ OwedToken(t)' <=> OwedToken(t)
        /\ Owed(t)' <=> Owed(t)
    BY DEF OwedToken, Owed, OwesToken, Owes
  <1> QED BY <1>1, <1>2 DEF PlainAccount

(* The steps of the upstream, the clock and the administrator. *)
LEMMA WorldKeeps ==
  ASSUME IInv, NEW u \in Tasks, UpstreamEnds(u) \/ Expire(u) \/ DeleteChannel(u)
  PROVE  IInv'
  <1>1. UNCHANGED <<row, node, client, bill, faults>>
    BY DEF UpstreamEnds, Expire, DeleteChannel
  <1>2. TypeOK'
    <2>1. CASE UpstreamEnds(u)
      BY <2>1 DEF IInv, TypeOK, UpstreamEnds
    <2>2. CASE Expire(u)
      BY <2>2 DEF IInv, TypeOK, Expire
    <2>3. CASE DeleteChannel(u)
      BY <2>3 DEF IInv, TypeOK, DeleteChannel
    <2> QED BY <2>1, <2>2, <2>3
  <1>3. PlainAccounting'
    <2>1. \A n \in Nodes : NodeMemory(n)'
      BY <1>1 DEF IInv, PlainAccounting, NodeMemory, Saving
    <2>2. \A t \in Tasks : ClientMemory(t)'
      BY <1>1 DEF IInv, PlainAccounting, ClientMemory
    <2>3. ASSUME NEW t \in Plain PROVE PlainAccount(t)'
      BY <1>1, Undisturbed DEF IInv, PlainAccounting, OwesToken
    <2> QED BY <2>1, <2>2, <2>3 DEF PlainAccounting, Plain
  <1> QED BY <1>2, <1>3 DEF IInv

(* However the submission's settlement ends, the account of the row starts  *)
(* at its quota, for the funding source and for the token (RelayTask).      *)
LEMMA SubmitMoves ==
  ASSUME TypeOK, NEW u \in Tasks, Submit(u)
  PROVE  /\ charge' \in [Tasks -> Int] /\ tokenCharge' \in [Tasks -> Int]
         /\ short' \in [Tasks -> Int] /\ tokenShort' \in [Tasks -> Int]
         /\ status[u] = "NONE" /\ status'[u] \in {"NOT_START", "UNRECORDED"}
         /\ Account(u)' = Quota /\ TokenAccount(u)' = Quota
         /\ \A t \in Tasks \ {u} : /\ status'[t] = status[t] /\ Account(t)' = Account(t)
                                   /\ TokenAccount(t)' = TokenAccount(t)
  <1>1. PICK s \in {"NOT_START", "UNRECORDED"}, c \in Holds \cup {Quota},
             k \in Holds \cup {Quota} :
          /\ status' = [status EXCEPT ![u] = s]
          /\ charge' = [charge EXCEPT ![u] = c]
          /\ tokenCharge' = [tokenCharge EXCEPT ![u] = k]
          /\ short' = [short EXCEPT ![u] = Quota - c]
          /\ tokenShort' = [tokenShort EXCEPT ![u] = Quota - k]
    BY DEF Submit
  <1>2. Quota \in Int /\ c \in Int /\ k \in Int
    BY TaskAssumption DEF TaskAssumption
  <1>3. Quota - c \in Int /\ Quota - k \in Int /\ c + (Quota - c) = Quota
        /\ k + (Quota - k) = Quota
    BY <1>2
  <1>4. /\ charge' \in [Tasks -> Int] /\ tokenCharge' \in [Tasks -> Int]
        /\ short' \in [Tasks -> Int] /\ tokenShort' \in [Tasks -> Int]
    BY <1>1, <1>2, <1>3 DEF TypeOK
  <1>5. /\ charge'[u] = c /\ tokenCharge'[u] = k /\ status'[u] = s
        /\ short'[u] = Quota - c /\ tokenShort'[u] = Quota - k
    BY <1>1 DEF TypeOK
  <1>6. \A t \in Tasks \ {u} : /\ status'[t] = status[t] /\ charge'[t] = charge[t]
                               /\ tokenCharge'[t] = tokenCharge[t] /\ short'[t] = short[t]
                               /\ tokenShort'[t] = tokenShort[t]
    BY <1>1 DEF TypeOK
  <1>7. Account(u)' = Quota /\ TokenAccount(u)' = Quota
    BY <1>3, <1>5
  <1>8. status[u] = "NONE"
    BY DEF Submit
  <1> QED BY <1>4, <1>5, <1>6, <1>7, <1>8

LEMMA SubmitKeeps ==
  ASSUME IInv, NEW u \in Tasks, Submit(u)
  PROVE  IInv'
  <1>1. TypeOK'
    <2>1. status' \in [Tasks -> Recorded \cup {"NONE", "UNRECORDED"}]
      BY DEF IInv, TypeOK, Submit
    <2>3. faults' \in 0 .. MaxFaults
      BY Constants DEF IInv, TypeOK, Submit, Fault
    <2>2. /\ charge' \in [Tasks -> Int] /\ tokenCharge' \in [Tasks -> Int]
          /\ short' \in [Tasks -> Int] /\ tokenShort' \in [Tasks -> Int]
      BY SubmitMoves DEF IInv
    <2> QED BY <2>1, <2>2, <2>3 DEF IInv, TypeOK, Submit
  <1>2. \A n \in Nodes : NodeMemory(n)'
    BY DEF IInv, PlainAccounting, NodeMemory, Saving, Submit
  <1>3. \A t \in Tasks : ClientMemory(t)'
    BY DEF IInv, PlainAccounting, ClientMemory, Submit
  <1>4. ASSUME NEW t \in Plain PROVE PlainAccount(t)'
    <2>1. CASE t # u
      <3>1. /\ status'[t] = status[t] /\ Account(t)' = Account(t)
            /\ TokenAccount(t)' = TokenAccount(t)
        BY <2>1, SubmitMoves DEF IInv, Plain
      <3>2. UNCHANGED <<node, lost, tokenLost>>
        BY DEF Submit
      <3> QED BY <3>1, <3>2, Undisturbed DEF IInv, PlainAccounting, OwesToken
    <2>2. CASE t = u
      <3>1. PlainAccount(t) /\ t \in Tasks
        BY DEF IInv, PlainAccounting, Plain
      <3>2. ~OwedToken(t)' /\ t \notin lost' \cup tokenLost'
        BY <3>1, <2>2 DEF PlainAccount, Submit, OwedToken, OwesToken
      <3>3. /\ status'[t] \in {"NOT_START", "UNRECORDED"}
            /\ Account(t)' = Quota /\ TokenAccount(t)' = Quota
        BY <2>2, SubmitMoves DEF IInv
      <3> QED BY <3>2, <3>3 DEF PlainAccount, OwedToken
    <2> QED BY <2>1, <2>2
  <1> QED BY <1>1, <1>2, <1>3, <1>4 DEF IInv, PlainAccounting, Plain

(* A client's fetch writes the rows of realtime tasks only. *)
LEMMA ClientKeeps ==
  ASSUME IInv, NEW u \in Tasks, Client(u)
  PROVE  IInv'
  <1>1. TypeOK'
    <2>1. CASE ClientRead(u)
      BY <2>1, Constants DEF IInv, TypeOK, ClientRead
    <2>2. CASE ClientFetch(u)
      <3>1. u \notin SunoTasks
        BY <2>2, Constants DEF IInv, PlainAccounting, ClientMemory, ClientFetch
      <3>2. cAns' \in [Tasks -> Answers \cup {"none"}]
        BY <2>2, <3>1 DEF IInv, TypeOK, ClientFetch, UpstreamAnswers
      <3>3. cSnap' \in [Tasks -> Recorded \cup {"none"}]
        BY <2>2 DEF IInv, TypeOK, ClientFetch
      <3> QED BY <2>2, <3>2, <3>3 DEF IInv, TypeOK, ClientFetch
    <2>3. CASE ClientWrite(u)
      <3>0. cAns[u] \in Answers
        BY <2>3 DEF IInv, TypeOK, ClientWrite
      <3>1. /\ status' \in [Tasks -> Recorded \cup {"NONE", "UNRECORDED"}]
            /\ complete' \in [Tasks -> BOOLEAN]
        <4>1. CASE WriteRow(u, cAns[u], cAns[u] \in Terminal)
          <5>1. (cAns[u] \in Terminal) \in BOOLEAN
            OBVIOUS
          <5>2. TypeOK /\ cAns[u] \in Recorded
            BY <3>0 DEF IInv
          <5> QED BY <4>1, <5>1, <5>2, RowTyped
        <4>2. CASE UNCHANGED row
          BY <4>2 DEF IInv, TypeOK
        <4> QED BY <2>3, <4>1, <4>2 DEF ClientWrite
      <3>2. /\ cSnap' \in [Tasks -> Recorded \cup {"none"}]
            /\ cAns' \in [Tasks -> Answers \cup {"none"}]
        BY <2>3 DEF IInv, TypeOK, ClientWrite
      <3>3. faults' \in 0 .. MaxFaults
        BY <2>3, Constants DEF IInv, TypeOK, ClientWrite, Fault
      <3> QED BY <2>3, <3>1, <3>2, <3>3 DEF IInv, TypeOK, ClientWrite
    <2> QED BY <2>1, <2>2, <2>3 DEF Client
  <1>2. \A n \in Nodes : NodeMemory(n)'
    BY DEF IInv, PlainAccounting, NodeMemory, Saving, Client, ClientRead, ClientFetch, ClientWrite
  <1>3. \A t \in Tasks : ClientMemory(t)'
    BY DEF IInv, TypeOK, PlainAccounting, ClientMemory, Client, ClientRead, ClientFetch, ClientWrite
  <1>4. ASSUME NEW t \in Plain PROVE PlainAccount(t)'
    <2>1. UNCHANGED <<node, bill>> /\ (u \in RealtimeTasks \/ UNCHANGED row)
      BY DEF IInv, PlainAccounting, ClientMemory, Client, ClientRead, ClientFetch, ClientWrite
    <2>2. status'[t] = status[t]
      BY <2>1 DEF IInv, TypeOK, Client, ClientRead, ClientFetch, ClientWrite, WriteRow, Plain
    <2> QED BY <2>1, <2>2, Undisturbed DEF IInv, PlainAccounting, OwesToken
  <1> QED BY <1>1, <1>2, <1>3, <1>4 DEF IInv, PlainAccounting, Plain

(* Reading a batch: the rows read are open. *)
LEMMA ReadKeeps ==
  ASSUME IInv, NEW n \in Nodes, SweepRead(n) \/ PollRead(n)
  PROVE  IInv'
  <1>1. PICK S \in SUBSET Unfinished :
          /\ ReadBatch(n, S) /\ pc[n] \in {"sweep", "poll"}
          /\ \E l \in {"sweep", "poll"} : pc' = [pc EXCEPT ![n] = l]
          /\ UNCHANGED <<row, world, cur, ans, delta, after, client, bill>>
    BY DEF SweepRead, PollRead, Oldest, Earliest
  <1>2. TypeOK'
    <2>1. faults' \in 0 .. MaxFaults
      BY <1>1, Constants DEF IInv, TypeOK, ReadBatch, Fault
    <2>2. batch' \in [Nodes -> SUBSET Tasks]
      <3>1. S \in SUBSET Tasks
        BY <1>1 DEF Unfinished
      <3> QED BY <1>1, <3>1 DEF IInv, TypeOK, ReadBatch
    <2>4. pc' \in [Nodes -> PcStates]
      BY <1>1 DEF IInv, TypeOK, PcStates
    <2>3. snap' \in [Nodes -> [Tasks -> Open \cup {"none"}]]
      BY <1>1 DEF IInv, TypeOK, ReadBatch, Unfinished
    <2> QED BY <1>1, <2>1, <2>2, <2>3, <2>4 DEF IInv, TypeOK
  <1>3. \A m \in Nodes : NodeMemory(m)'
    BY <1>1 DEF IInv, TypeOK, PlainAccounting, NodeMemory, Saving, ReadBatch, Unfinished
  <1>4. \A t \in Tasks : ClientMemory(t)'
    BY <1>1 DEF IInv, PlainAccounting, ClientMemory
  <1>5. ASSUME NEW t \in Plain PROVE PlainAccount(t)'
    <2>1. \A m \in Nodes : /\ OwesToken(m, t)' <=> OwesToken(m, t)
                           /\ OwesToken(m, t) => pc'[m] = pc[m]
      BY <1>1 DEF IInv, TypeOK, OwesToken
    <2> QED BY <1>1, <2>1, Undisturbed DEF IInv, PlainAccounting
  <1> QED BY <1>2, <1>3, <1>4, <1>5 DEF IInv, PlainAccounting, Plain

(* A task leaves the batch and nothing else happens. *)
LEMMA SkipKeeps ==
  ASSUME IInv, NEW n \in Nodes, NEW u \in Tasks, Take(n, u),
         pc[n] \in {"sweep", "poll"},
         UNCHANGED faults \/ Fault,
         UNCHANGED <<row, pc, delta, after, world, snap, ans, client, bill>>
  PROVE  IInv'
  <1>0. TypeOK /\ PlainAccounting
    BY DEF IInv
  <1>1. TypeOK'
    <2>1. faults' \in 0 .. MaxFaults
      BY <1>0, Constants DEF TypeOK, Fault
    <2>2. batch' \in [Nodes -> SUBSET Tasks] /\ cur' \in [Nodes -> Tasks]
      BY <1>0 DEF TypeOK, Take
    <2> QED BY <1>0, <2>1, <2>2 DEF TypeOK
  <1>2. \A m \in Nodes : NodeMemory(m)'
    BY <1>0 DEF TypeOK, PlainAccounting, NodeMemory, Saving, Take
  <1>3. \A t \in Tasks : ClientMemory(t)'
    BY <1>0 DEF PlainAccounting, ClientMemory
  <1>4. ASSUME NEW t \in Plain PROVE PlainAccount(t)'
    <2>1. \A m \in Nodes : OwesToken(m, t)' <=> OwesToken(m, t)
      BY <1>0 DEF TypeOK, Take, OwesToken
    <2> QED BY <1>0, <2>1, Undisturbed DEF PlainAccounting
  <1> QED BY <1>1, <1>2, <1>3, <1>4 DEF IInv, PlainAccounting, Plain

(* The answer is dropped: the process goes on with the next task. *)
LEMMA DropKeeps ==
  ASSUME IInv, NEW n \in Nodes, pc[n] \in {"update", "save"}, Goto(n, "poll"),
         UNCHANGED faults \/ Fault,
         UNCHANGED <<row, delta, after, world, batch, snap, cur, ans, client, bill>>
  PROVE  IInv'
  <1>0. TypeOK /\ PlainAccounting
    BY DEF IInv
  <1>1. TypeOK'
    <2>1. faults' \in 0 .. MaxFaults
      BY <1>0, Constants DEF TypeOK, Fault
    <2>2. pc' \in [Nodes -> PcStates]
      BY <1>0 DEF TypeOK, PcStates
    <2> QED BY <1>0, <2>1, <2>2 DEF TypeOK
  <1>2. \A m \in Nodes : NodeMemory(m)'
    BY <1>0 DEF TypeOK, PlainAccounting, NodeMemory, Saving
  <1>3. \A t \in Tasks : ClientMemory(t)'
    BY <1>0 DEF PlainAccounting, ClientMemory
  <1>4. ASSUME NEW t \in Plain PROVE PlainAccount(t)'
    <2>1. \A m \in Nodes : /\ OwesToken(m, t)' <=> OwesToken(m, t)
                           /\ OwesToken(m, t) => pc'[m] = pc[m]
      BY <1>0 DEF TypeOK, OwesToken
    <2> QED BY <1>0, <2>1, Undisturbed DEF PlainAccounting
  <1> QED BY <1>1, <1>2, <1>3, <1>4 DEF IInv, PlainAccounting, Plain

-----------------------------------------------------------------------------
(* The steps that end a task *)

(* A process that wins the guarded write of a plain task's end is the only  *)
(* one to owe it anything.                                                  *)
LEMMA EndsOnce ==
  ASSUME IInv, NEW n \in Nodes, NEW t \in Plain, pc[n] \notin {"fund", "token"},
         status[t] \in Open, status'[t] \in Terminal,
         cur'[n] = t, delta'[n] \in {0} \cup Adjustments(t)',
         delta'[n] = 0 => pc'[n] \notin {"fund", "token"} /\ Quota \in EndCharges(t)',
         delta'[n] # 0 => pc'[n] = "fund",
         \A m \in Nodes \ {n} : pc'[m] = pc[m] /\ cur'[m] = cur[m],
         UNCHANGED bill
  PROVE  PlainAccount(t)'
  <1>1. PlainAccount(t) /\ t \in Tasks
    BY DEF IInv, PlainAccounting, Plain
  <1>2. /\ t \notin lost' \cup tokenLost'
        /\ Account(t)' = Quota /\ TokenAccount(t)' = Quota
    BY <1>1 DEF PlainAccount
  <1>3. \A m \in Nodes : OwesToken(m, t)' => m = n /\ delta'[n] # 0 /\ pc'[n] = "fund"
    BY <1>1 DEF PlainAccount, OwedToken, OwesToken
  <1>4. \A m \in Nodes : OwesToken(m, t)' => delta'[m] \in Adjustments(t)'
    BY <1>3
  <1>5. ~Owed(t)' => Quota \in EndCharges(t)'
    BY DEF Owed, Owes
  <1> QED BY <1>2, <1>3, <1>4, <1>5 DEF PlainAccount, OwedToken

LEMMA SweepTaskKeeps ==
  ASSUME IInv, NEW n \in Nodes, NEW u \in Tasks, SweepTask(n, u)
  PROVE  IInv'
  <1>0. TypeOK /\ PlainAccounting /\ Quota \in Nat
    BY Constants DEF IInv
  <1>1. CASE /\ Won(n, u) /\ WriteRow(u, "FAILURE", TRUE)
             /\ Bill(n, IF isLegacy(u) THEN 0 ELSE -Quota, "sweep")
             /\ UNCHANGED faults
    <2>1. TypeOK'
      <3>1. /\ status' \in [Tasks -> Recorded \cup {"NONE", "UNRECORDED"}]
            /\ complete' \in [Tasks -> BOOLEAN]
        BY <1>0, <1>1, RowTyped
      <3>2. delta' \in [Nodes -> Int]
        BY <1>0, <1>1 DEF TypeOK, Bill
      <3>3. pc' \in [Nodes -> PcStates] /\ after' \in [Nodes -> {"sweep", "poll", "save"}]
        BY <1>0, <1>1 DEF TypeOK, Bill, PcStates
      <3>4. batch' \in [Nodes -> SUBSET Tasks] /\ cur' \in [Nodes -> Tasks]
        BY <1>0 DEF TypeOK, SweepTask, Take
      <3> QED BY <1>0, <1>1, <3>1, <3>2, <3>3, <3>4 DEF TypeOK, SweepTask
    <2>2. \A m \in Nodes : NodeMemory(m)'
      BY <1>0, <1>1 DEF TypeOK, PlainAccounting, NodeMemory, Saving, SweepTask, Take, Bill
    <2>3. \A t \in Tasks : ClientMemory(t)'
      BY <1>0 DEF PlainAccounting, ClientMemory, SweepTask
    <2>4. ASSUME NEW t \in Plain PROVE PlainAccount(t)'
      <3>1. CASE t # u
        <4>1. status'[t] = status[t]
          BY <1>0, <1>1, <3>1 DEF TypeOK, WriteRow, Plain
        <4>2. UNCHANGED bill
          BY DEF SweepTask
        <4>3. \A m \in Nodes : /\ OwesToken(m, t)' <=> OwesToken(m, t)
                               /\ OwesToken(m, t) => delta'[m] = delta[m] /\ pc'[m] = pc[m]
          BY <1>0, <1>1, <3>1 DEF TypeOK, SweepTask, Take, Bill, OwesToken
        <4> QED BY <1>0, <4>1, <4>2, <4>3, Undisturbed DEF PlainAccounting
      <3>2. CASE t = u
        <4>0. status[t] \in Open
          BY <1>0, <1>1, <3>2, WonIsOpen
        <4>1. status'[t] = "FAILURE" /\ cur'[n] = t
          BY <1>0, <1>1, <3>2 DEF TypeOK, SweepTask, Take, WriteRow
        <4>2. /\ delta'[n] = IF isLegacy(u) THEN 0 ELSE -Quota
              /\ pc'[n] = IF delta'[n] = 0 THEN "sweep" ELSE "fund"
          BY <1>0, <1>1 DEF TypeOK, Bill
        <4>3. /\ Adjustments(t)' = {0 - Quota}
              /\ EndCharges(t)' = IF isLegacy(u) THEN {0, Quota} ELSE {0}
          BY <4>1, <3>2 DEF Adjustments, EndCharges, isLegacy, legacyTaskCutoff
        <4>4. \A m \in Nodes \ {n} : pc'[m] = pc[m] /\ cur'[m] = cur[m]
          BY <1>0, <1>1 DEF TypeOK, SweepTask, Take, Bill
        <4>5. /\ delta'[n] \in {0} \cup Adjustments(t)'
              /\ delta'[n] = 0 => Quota \in EndCharges(t)'
          BY <1>0, <4>2, <4>3
        <4>6. UNCHANGED bill /\ pc[n] = "sweep"
          BY DEF SweepTask
        <4> QED BY <4>0, <4>1, <4>2, <4>4, <4>5, <4>6, EndsOnce
      <3> QED BY <3>1, <3>2
    <2> QED BY <2>1, <2>2, <2>3, <2>4 DEF IInv, PlainAccounting, Plain
  <1>2. CASE ((~Won(n, u) /\ UNCHANGED faults) \/ Fault) /\ UNCHANGED <<row, pc, delta, after>>
    BY <1>2, SkipKeeps DEF SweepTask
  <1> QED BY <1>1, <1>2 DEF SweepTask

(* The bulk update concerns tasks of deleted channels only. *)
LEMMA BulkFailKeeps ==
  ASSUME IInv, NEW n \in Nodes, NEW u \in Tasks, BulkFail(n, u)
  PROVE  IInv'
  <1>0. TypeOK /\ PlainAccounting
    BY DEF IInv
  <1>1. CASE UNCHANGED row /\ Fault
    BY <1>1, SkipKeeps DEF BulkFail
  <1>2. CASE WriteRow(u, "FAILURE", TRUE) /\ UNCHANGED faults
    <2>1. TypeOK'
      <3>1. /\ status' \in [Tasks -> Recorded \cup {"NONE", "UNRECORDED"}]
            /\ complete' \in [Tasks -> BOOLEAN]
        BY <1>0, <1>2, RowTyped
      <3>2. batch' \in [Nodes -> SUBSET Tasks] /\ cur' \in [Nodes -> Tasks]
        BY <1>0 DEF TypeOK, BulkFail, Take
      <3> QED BY <1>0, <1>2, <3>1, <3>2 DEF TypeOK, BulkFail
    <2>2. \A m \in Nodes : NodeMemory(m)'
      BY <1>0 DEF TypeOK, PlainAccounting, NodeMemory, Saving, BulkFail, Take
    <2>3. \A t \in Tasks : ClientMemory(t)'
      BY <1>0 DEF PlainAccounting, ClientMemory, BulkFail
    <2>4. ASSUME NEW t \in Plain PROVE PlainAccount(t)'
      <3>1. t # u
        BY <1>0 DEF TypeOK, BulkFail, Plain
      <3>2. status'[t] = status[t]
        BY <1>0, <1>2, <3>1 DEF TypeOK, WriteRow, Plain
      <3>3. \A m \in Nodes : OwesToken(m, t)' <=> OwesToken(m, t)
        BY <1>0, <3>1 DEF TypeOK, BulkFail, Take, OwesToken
      <3>4. UNCHANGED <<bill, delta, pc>>
        BY DEF BulkFail
      <3> QED BY <1>0, <3>2, <3>3, <3>4, Undisturbed DEF PlainAccounting
    <2> QED BY <2>1, <2>2, <2>3, <2>4 DEF IInv, PlainAccounting, Plain
  <1> QED BY <1>1, <1>2 DEF BulkFail

LEMMA FetchKeeps ==
  ASSUME IInv, NEW n \in Nodes, NEW u \in Tasks, Fetch(n, u)
  PROVE  IInv'
  <1>0. TypeOK /\ PlainAccounting
    BY DEF IInv
  <1>1. PICK a \in UpstreamAnswers(u) \cup {"none"} :
          /\ ans' = [ans EXCEPT ![n] = a]
          /\ Goto(n, IF a = "none" THEN "poll" ELSE "update")
    BY DEF Fetch
  <1>2. TypeOK'
    <2>1. a \in Answers \cup {"none", "REASON"}
      BY <1>0, <1>1 DEF TypeOK, UpstreamAnswers
    <2>2. /\ ans' \in [Nodes -> Answers \cup {"none", "REASON"}]
          /\ pc' \in [Nodes -> PcStates]
      BY <1>0, <1>1, <2>1 DEF TypeOK, PcStates
    <2>3. batch' \in [Nodes -> SUBSET Tasks] /\ cur' \in [Nodes -> Tasks]
      BY <1>0 DEF TypeOK, Fetch, Take
    <2> QED BY <1>0, <2>2, <2>3 DEF TypeOK, Fetch
  <1>3. \A m \in Nodes : NodeMemory(m)'
    BY <1>0, <1>1 DEF TypeOK, PlainAccounting, NodeMemory, Saving, Fetch, Take
  <1>4. \A t \in Tasks : ClientMemory(t)'
    BY <1>0 DEF PlainAccounting, ClientMemory, Fetch
  <1>5. ASSUME NEW t \in Plain PROVE PlainAccount(t)'
    <2>1. \A m \in Nodes : /\ OwesToken(m, t)' <=> OwesToken(m, t)
                           /\ OwesToken(m, t) => pc'[m] = pc[m]
      BY <1>0, <1>1 DEF TypeOK, Fetch, Take, OwesToken
    <2>2. UNCHANGED <<row, bill, delta>>
      BY DEF Fetch
    <2> QED BY <1>0, <2>1, <2>2, Undisturbed DEF PlainAccounting
  <1> QED BY <1>2, <1>3, <1>4, <1>5 DEF IInv, PlainAccounting, Plain

(* The row written to by a poll of a video task, and what it leads to. *)
LEMMA UpdateVideoKeeps ==
  ASSUME IInv, NEW n \in Nodes, UpdateVideo(n)
  PROVE  IInv'
  <1> DEFINE u == cur[n]
  <1>0. TypeOK /\ PlainAccounting /\ Quota \in Nat /\ u \in Tasks
    BY Constants DEF IInv, TypeOK
  <1>1. CASE Won(n, u) /\ UNCHANGED faults /\ WriteRow(u, ans[n], ans[n] \in Terminal)
    <2>1. PICK d \in Int :
            /\ Bill(n, d, "poll")
            /\ ans[n] \in Answers
            /\ ans[n] = "IN_PROGRESS" => d = 0
            /\ ans[n] = "FAILURE" => d = 0 - Quota
            /\ ans[n] = "SUCCESS" => d + Quota \in Costs
      <3>1. CASE ans[n] = "SUCCESS" /\ \E a \in ActualQuotas : Bill(n, Difference(a), "poll")
        <4>1. PICK a \in ActualQuotas : Bill(n, Difference(a), "poll")
          BY <3>1
        <4>2. Difference(a) \in Int /\ Difference(a) + Quota \in Costs
          BY <1>0, Constants DEF Difference, Costs
        <4> QED BY <3>1, <4>1, <4>2
      <3>2. CASE ans[n] = "FAILURE" /\ Bill(n, -Quota, "poll")
        BY <1>0, <3>2
      <3>3. CASE ans[n] = "IN_PROGRESS" /\ Bill(n, 0, "poll")
        BY <3>3
      <3>4. ~(~Won(n, u) /\ UNCHANGED faults)
        BY <1>1
      <3>5. ~Fault
        BY <1>1, <1>0 DEF Fault, TypeOK
      <3> QED BY <3>1, <3>2, <3>3, <3>4, <3>5 DEF UpdateVideo
    <2>2. TypeOK'
      <3>1. /\ status' \in [Tasks -> Recorded \cup {"NONE", "UNRECORDED"}]
            /\ complete' \in [Tasks -> BOOLEAN]
        <4>1. (ans[n] \in Terminal) \in BOOLEAN
          OBVIOUS
        <4> QED BY <1>0, <1>1, <2>1, <4>1, RowTyped
      <3>2. delta' \in [Nodes -> Int]
        BY <1>0, <2>1 DEF TypeOK, Bill
      <3>3. pc' \in [Nodes -> PcStates] /\ after' \in [Nodes -> {"sweep", "poll", "save"}]
        BY <1>0, <2>1 DEF TypeOK, Bill, PcStates
      <3> QED BY <1>0, <1>1, <3>1, <3>2, <3>3 DEF TypeOK, UpdateVideo
    <2>3. \A m \in Nodes : NodeMemory(m)'
      BY <1>0, <2>1 DEF TypeOK, PlainAccounting, NodeMemory, Saving, UpdateVideo, Bill
    <2>4. \A t \in Tasks : ClientMemory(t)'
      BY <1>0 DEF PlainAccounting, ClientMemory, UpdateVideo
    <2>5. ASSUME NEW t \in Plain PROVE PlainAccount(t)'
      <3>0. UNCHANGED <<bill, cur>> /\ pc[n] = "update"
        BY DEF UpdateVideo
      <3>1. CASE t # u
        <4>1. status'[t] = status[t]
          BY <1>0, <1>1, <3>1 DEF TypeOK, WriteRow, Plain
        <4>2. \A m \in Nodes : /\ OwesToken(m, t)' <=> OwesToken(m, t)
                               /\ OwesToken(m, t) => delta'[m] = delta[m] /\ pc'[m] = pc[m]
          BY <1>0, <2>1, <3>0, <3>1 DEF TypeOK, Bill, OwesToken
        <4> QED BY <1>0, <3>0, <4>1, <4>2, Undisturbed DEF PlainAccounting
      <3>2. CASE t = u /\ ans[n] = "IN_PROGRESS"
        <4>1. PlainAccount(t) /\ status[t] \in Open
          BY <1>0, <1>1, <3>2, WonIsOpen DEF PlainAccounting
        <4>2. status'[t] \in Open
          BY <1>0, <1>1, <3>2 DEF TypeOK, WriteRow
        <4>3. ~OwedToken(t)'
          BY <1>0, <2>1, <3>0, <3>2, <4>1 DEF TypeOK, Bill, PlainAccount, OwedToken, OwesToken
        <4> QED BY <3>0, <4>1, <4>2, <4>3 DEF PlainAccount, OwedToken
      <3>3. CASE t = u /\ ans[n] \in Terminal
        <4>0. status[t] \in Open
          BY <1>0, <1>1, <3>3, WonIsOpen
        <4>1. status'[t] = ans[n] /\ cur'[n] = t
          BY <1>0, <1>1, <3>0, <3>3 DEF TypeOK, WriteRow
        <4>2. delta'[n] = d /\ pc'[n] = IF d = 0 THEN "poll" ELSE "fund"
          BY <1>0, <2>1 DEF TypeOK, Bill
        <4>3. \A m \in Nodes \ {n} : pc'[m] = pc[m] /\ cur'[m] = cur[m]
          BY <1>0, <2>1, <3>0 DEF TypeOK, Bill
        <4>4. d \in Adjustments(t)' /\ (d = 0 => Quota \in EndCharges(t)')
          <5>1. CASE ans[n] = "FAILURE"
            BY <1>0, <2>1, <4>1, <5>1 DEF Adjustments, EndCharges
          <5>2. CASE ans[n] = "SUCCESS"
            <6>1. PICK c \in Costs : c = d + Quota
              BY <2>1, <5>2
            <6>2. c \in Nat /\ d = c - Quota
              BY <1>0, <2>1, <6>1, CostsAreNat
            <6>3. Quota \in Costs
              BY DEF Costs
            <6> QED BY <4>1, <5>2, <6>2, <6>3 DEF Adjustments, EndCharges
          <5> QED BY <3>3, <5>1, <5>2
        <4> QED BY <3>0, <3>3, <4>0, <4>1, <4>2, <4>3, <4>4, EndsOnce
      <3> QED BY <2>1, <3>1, <3>2, <3>3
    <2> QED BY <2>2, <2>3, <2>4, <2>5 DEF IInv, PlainAccounting, Plain
  <1>2. CASE /\ UNCHANGED faults \/ Fault
             /\ Goto(n, "poll") /\ UNCHANGED <<row, delta, after>>
    BY <1>2, DropKeeps DEF UpdateVideo
  <1> QED BY <1>1, <1>2 DEF UpdateVideo

-----------------------------------------------------------------------------
(* Suno tasks, and the billing steps *)

LEMMA UpdateSunoKeeps ==
  ASSUME IInv, NEW n \in Nodes, UpdateSuno(n)
  PROVE  IInv'
  <1>0. TypeOK /\ PlainAccounting /\ Quota \in Nat /\ cur[n] \notin Plain
    BY Constants DEF IInv, UpdateSuno, Plain
  <1>1. CASE Goto(n, "poll") /\ UNCHANGED <<delta, after>>
    BY <1>1, DropKeeps DEF UpdateSuno
  <1>2. CASE Bill(n, IF SunoFails(n) THEN -Quota ELSE 0, "save")
    <2>1. TypeOK'
      <3>1. delta' \in [Nodes -> Int]
        BY <1>0, <1>2 DEF TypeOK, Bill
      <3>2. pc' \in [Nodes -> PcStates] /\ after' \in [Nodes -> {"sweep", "poll", "save"}]
        BY <1>0, <1>2 DEF TypeOK, Bill, PcStates
      <3> QED BY <1>0, <3>1, <3>2 DEF TypeOK, UpdateSuno
    <2>2. \A m \in Nodes : NodeMemory(m)'
      BY <1>0, <1>2 DEF TypeOK, PlainAccounting, NodeMemory, Saving, UpdateSuno, Bill
    <2>3. \A t \in Tasks : ClientMemory(t)'
      BY <1>0 DEF PlainAccounting, ClientMemory, UpdateSuno
    <2>4. ASSUME NEW t \in Plain PROVE PlainAccount(t)'
      <3>1. \A m \in Nodes : /\ OwesToken(m, t)' <=> OwesToken(m, t)
                             /\ OwesToken(m, t) => delta'[m] = delta[m] /\ pc'[m] = pc[m]
        BY <1>0, <1>2 DEF TypeOK, UpdateSuno, Bill, OwesToken
      <3>2. UNCHANGED <<row, bill>>
        BY DEF UpdateSuno
      <3> QED BY <1>0, <3>1, <3>2, Undisturbed DEF PlainAccounting
    <2> QED BY <2>1, <2>2, <2>3, <2>4 DEF IInv, PlainAccounting, Plain
  <1> QED BY <1>1, <1>2 DEF UpdateSuno

LEMMA SaveSunoKeeps ==
  ASSUME IInv, NEW n \in Nodes, SaveSuno(n)
  PROVE  IInv'
  <1> DEFINE s == IF ans[n] = "REASON" THEN snap[n][cur[n]] ELSE ans[n]
             d == SunoFails(n) \/ ans[n] = "SUCCESS"
  <1>0. TypeOK /\ PlainAccounting
    BY DEF IInv
  <1>1. CASE UNCHANGED row /\ Fault
    BY <1>1, DropKeeps DEF SaveSuno
  <1>2. CASE WriteRow(cur[n], s, d) /\ UNCHANGED faults
    <2>0. NodeMemory(n) /\ Saving(n) /\ pc[n] = "save"
      BY <1>0 DEF PlainAccounting, SaveSuno, Saving
    <2>1. TypeOK'
      <3>1. ans[n] # "none" /\ snap[n][cur[n]] \in Open
        BY <2>0 DEF NodeMemory
      <3>2. ans[n] \in Answers \cup {"none", "REASON"} /\ cur[n] \in Tasks
        BY <1>0 DEF TypeOK
      <3>3. s \in Recorded /\ d \in BOOLEAN
        BY <3>1, <3>2 DEF SunoFails
      <3>4. /\ status' \in [Tasks -> Recorded \cup {"NONE", "UNRECORDED"}]
            /\ complete' \in [Tasks -> BOOLEAN]
        <4> HIDE DEF s, d
        <4> QED BY <1>0, <1>2, <3>2, <3>3, RowTyped
      <3>5. pc' \in [Nodes -> PcStates]
        BY <1>0 DEF TypeOK, PcStates, SaveSuno
      <3> QED BY <1>0, <1>2, <3>4, <3>5 DEF TypeOK, SaveSuno
    <2>2. \A m \in Nodes : NodeMemory(m)'
      BY <1>0 DEF TypeOK, PlainAccounting, NodeMemory, Saving, SaveSuno
    <2>3. \A t \in Tasks : ClientMemory(t)'
      BY <1>0 DEF PlainAccounting, ClientMemory, SaveSuno
    <2>4. ASSUME NEW t \in Plain PROVE PlainAccount(t)'
      <3>1. t # cur[n]
        BY <2>0 DEF NodeMemory, Plain
      <3>2. status'[t] = status[t]
        BY <1>0, <1>2, <3>1 DEF TypeOK, WriteRow, Plain
      <3>3. \A m \in Nodes : /\ OwesToken(m, t)' <=> OwesToken(m, t)
                             /\ OwesToken(m, t) => pc'[m] = pc[m]
        BY <1>0, <2>0 DEF TypeOK, SaveSuno, OwesToken
      <3>4. UNCHANGED <<bill, delta>>
        BY DEF SaveSuno
      <3> QED BY <1>0, <3>2, <3>3, <3>4, Undisturbed DEF PlainAccounting
    <2> QED BY <2>1, <2>2, <2>3, <2>4 DEF IInv, PlainAccounting, Plain
  <1> QED BY <1>1, <1>2 DEF SaveSuno

LEMMA AdjustFundingKeeps ==
  ASSUME IInv, NEW n \in Nodes, AdjustFunding(n)
  PROVE  IInv'
  <1>0. TypeOK /\ PlainAccounting /\ Quota \in Nat /\ cur[n] \in Tasks /\ pc[n] = "fund"
    BY Constants DEF IInv, TypeOK, AdjustFunding
  <1>1. TypeOK'
    <2>1. charge' \in [Tasks -> Int]
      BY <1>0 DEF TypeOK, AdjustFunding
    <2>2. pc' \in [Nodes -> PcStates]
      <3>1. after[n] \in PcStates /\ "token" \in PcStates
        BY <1>0 DEF TypeOK, PcStates
      <3>2. \E l \in PcStates : pc' = [pc EXCEPT ![n] = l]
        BY <3>1 DEF AdjustFunding
      <3> QED BY <1>0, <3>2 DEF TypeOK
    <2>3. lost' \subseteq Tasks /\ tokenLost' \subseteq Tasks
      BY <1>0 DEF TypeOK, AdjustFunding
    <2> QED BY <1>0, <2>1, <2>2, <2>3 DEF TypeOK, AdjustFunding
  <1>2. ASSUME NEW m \in Nodes PROVE NodeMemory(m)'
    <2>1. UNCHANGED <<batch, snap, cur, ans, after>>
      BY DEF AdjustFunding
    <2>2. CASE m # n
      <3>1. pc'[m] = pc[m]
        BY <1>0, <2>2 DEF TypeOK, AdjustFunding
      <3> QED BY <1>0, <2>1, <3>1 DEF PlainAccounting, NodeMemory, Saving
    <2>3. CASE m = n
      <3>1. pc'[n] \in {"token", after[n]} /\ after[n] # "update"
        BY <1>0 DEF TypeOK, AdjustFunding
      <3>2. Saving(n)' => Saving(n)
        BY <1>0, <2>1, <3>1 DEF Saving
      <3> QED BY <1>0, <2>1, <2>3, <3>1, <3>2 DEF PlainAccounting, NodeMemory
    <2> QED BY <2>2, <2>3
  <1>3. \A t \in Tasks : ClientMemory(t)'
    BY <1>0 DEF PlainAccounting, ClientMemory, AdjustFunding
  <1>4. ASSUME NEW t \in Plain PROVE PlainAccount(t)'
    <2>0. PlainAccount(t) /\ t \in Tasks
      BY <1>0 DEF PlainAccounting, Plain
    <2>1. CASE t # cur[n]
      <3>1. /\ Account(t)' = Account(t) /\ (t \in lost' <=> t \in lost)
            /\ t \in tokenLost' <=> t \in tokenLost
        BY <1>0, <2>0, <2>1 DEF TypeOK, AdjustFunding
      <3>2. \A m \in Nodes : /\ OwesToken(m, t)' <=> OwesToken(m, t)
                             /\ OwesToken(m, t) => pc'[m] = pc[m]
        BY <1>0, <2>1 DEF TypeOK, AdjustFunding, OwesToken
      <3>3. UNCHANGED <<row, delta, tokenCharge, settled>>
        BY DEF AdjustFunding
      <3> QED BY <2>0, <3>1, <3>2, <3>3, Undisturbed
    <2>2. CASE t = cur[n]
      <3>0. UNCHANGED <<row, cur, delta, tokenCharge, settled>>
        BY DEF AdjustFunding
      <3>1. /\ OwesToken(n, t) /\ Account(t) = Quota /\ TokenAccount(t) = Quota
            /\ delta[n] \in Adjustments(t) /\ t \notin lost \cup tokenLost
            /\ \A m \in Nodes \ {n} : ~OwesToken(m, t)
            /\ status[t] \in Terminal
        BY <1>0, <2>0, <2>2 DEF PlainAccount, OwedToken, OwesToken
      <3>2. \A m \in Nodes \ {n} : ~OwesToken(m, t)'
        BY <1>0, <3>0, <3>1 DEF TypeOK, AdjustFunding, OwesToken
      <3>3. Adjustments(t)' = Adjustments(t) /\ EndCharges(t)' = EndCharges(t)
        BY <3>0 DEF Adjustments, EndCharges, Costs, isLegacy, legacyTaskCutoff
      <3>4. Quota + delta[n] \in EndCharges(t)
        BY <1>0, <3>1, CostsAreNat DEF Adjustments, EndCharges, TypeOK
      <3>5. CASE charge' = [charge EXCEPT ![cur[n]] = @ + delta[n]] /\ Goto(n, "token")
                 /\ UNCHANGED <<lost, tokenLost>>
        <4>1. Account(t)' = Quota + delta[n] /\ pc'[n] = "token" /\ cur'[n] = t
          BY <1>0, <2>0, <2>2, <3>0, <3>1, <3>5 DEF TypeOK
        <4>2. OwedToken(t)' /\ OwesToken(n, t)'
          BY <4>1 DEF OwedToken, OwesToken
        <4> QED BY <3>0, <3>1, <3>2, <3>3, <3>4, <3>5, <4>1, <4>2 DEF PlainAccount
      <3>6. CASE /\ lost' = lost \cup {cur[n]} /\ tokenLost' = tokenLost \cup {cur[n]}
                 /\ Goto(n, after[n]) /\ UNCHANGED <<charge, settled>>
        <4>1. pc'[n] \notin {"fund", "token"}
          BY <1>0, <3>6 DEF TypeOK
        <4>2. \A m \in Nodes : ~OwesToken(m, t)'
          BY <3>2, <4>1 DEF OwesToken
        <4>3. t \in lost' /\ t \in tokenLost'
          BY <2>2, <3>6
        <4> QED BY <3>0, <3>1, <3>6, <4>2, <4>3 DEF PlainAccount, OwedToken
      <3> QED BY <3>5, <3>6 DEF AdjustFunding
    <2> QED BY <2>1, <2>2
  <1> QED BY <1>1, <1>2, <1>3, <1>4 DEF IInv, PlainAccounting, Plain

LEMMA AdjustTokenKeeps ==
  ASSUME IInv, NEW n \in Nodes, AdjustToken(n)
  PROVE  IInv'
  <1>0. TypeOK /\ PlainAccounting /\ Quota \in Nat /\ cur[n] \in Tasks /\ pc[n] = "token"
    BY Constants DEF IInv, TypeOK, AdjustToken
  <1>1. TypeOK'
    <2>1. tokenCharge' \in [Tasks -> Int]
      BY <1>0 DEF TypeOK, AdjustToken
    <2>2. pc' \in [Nodes -> PcStates] /\ tokenLost' \subseteq Tasks
      BY <1>0 DEF TypeOK, PcStates, AdjustToken
    <2> QED BY <1>0, <2>1, <2>2 DEF TypeOK, AdjustToken
  <1>2. ASSUME NEW m \in Nodes PROVE NodeMemory(m)'
    <2>1. UNCHANGED <<batch, snap, cur, ans, after>>
      BY DEF AdjustToken
    <2>2. CASE m # n
      <3>1. pc'[m] = pc[m]
        BY <1>0, <2>2 DEF TypeOK, AdjustToken
      <3> QED BY <1>0, <2>1, <3>1 DEF PlainAccounting, NodeMemory, Saving
    <2>3. CASE m = n
      <3>1. pc'[n] \in {"token", after[n]} /\ after[n] # "update"
        BY <1>0 DEF TypeOK, AdjustToken
      <3>2. Saving(n)' => Saving(n)
        BY <1>0, <2>1, <3>1 DEF Saving
      <3> QED BY <1>0, <2>1, <2>3, <3>1, <3>2 DEF PlainAccounting, NodeMemory
    <2> QED BY <2>2, <2>3
  <1>3. \A t \in Tasks : ClientMemory(t)'
    BY <1>0 DEF PlainAccounting, ClientMemory, AdjustToken
  <1>4. ASSUME NEW t \in Plain PROVE PlainAccount(t)'
    <2>0. PlainAccount(t) /\ t \in Tasks
      BY <1>0 DEF PlainAccounting, Plain
    <2>1. CASE t # cur[n]
      <3>1. TokenAccount(t)' = TokenAccount(t) /\ (t \in tokenLost' <=> t \in tokenLost)
        BY <1>0, <2>0, <2>1 DEF TypeOK, AdjustToken
      <3>2. \A m \in Nodes : /\ OwesToken(m, t)' <=> OwesToken(m, t)
                             /\ OwesToken(m, t) => pc'[m] = pc[m]
        BY <1>0, <2>1 DEF TypeOK, AdjustToken, OwesToken
      <3>3. UNCHANGED <<row, delta, charge, settled, lost>>
        BY DEF AdjustToken
      <3> QED BY <2>0, <3>1, <3>2, <3>3, Undisturbed
    <2>2. CASE t = cur[n]
      <3>0. UNCHANGED <<row, cur, delta, charge, settled, lost>>
        BY DEF AdjustToken
      <3>1. /\ OwesToken(n, t) /\ Account(t) = Quota + delta[n] /\ TokenAccount(t) = Quota
            /\ t \notin lost \cup tokenLost
            /\ \A m \in Nodes \ {n} : ~OwesToken(m, t)
            /\ status[t] \in Terminal
        BY <1>0, <2>0, <2>2 DEF PlainAccount, OwedToken, OwesToken
      <3>2. pc'[n] \notin {"fund", "token"}
        BY <1>0 DEF TypeOK, AdjustToken
      <3>3. \A m \in Nodes : ~OwesToken(m, t)'
        BY <1>0, <3>0, <3>1, <3>2 DEF TypeOK, AdjustToken, OwesToken
      <3>4. ~Owed(t)
        BY <1>0, <2>2, <3>1 DEF Owed, Owes, OwesToken
      <3>5. Account(t) \in EndCharges(t) /\ EndCharges(t)' = EndCharges(t)
        BY <2>0, <3>0, <3>1, <3>4 DEF PlainAccount, EndCharges, Costs, isLegacy, legacyTaskCutoff
      <3>6. t \in tokenLost' \/ TokenAccount(t)' = Account(t)
        BY <1>0, <2>0, <2>2, <3>1 DEF TypeOK, AdjustToken
      <3> QED BY <3>0, <3>1, <3>3, <3>5, <3>6 DEF PlainAccount, OwedToken
    <2> QED BY <2>1, <2>2
  <1> QED BY <1>1, <1>2, <1>3, <1>4 DEF IInv, PlainAccounting, Plain

LEMMA CrashKeeps ==
  ASSUME IInv, NEW n \in Nodes, Crash(n)
  PROVE  IInv'
  <1>0. TypeOK /\ PlainAccounting /\ cur[n] \in Tasks /\ UNCHANGED <<row, cur, delta>>
    BY DEF IInv, TypeOK, Crash
  <1>1. TypeOK'
    <2>1. faults' \in 0 .. MaxFaults
      BY <1>0, Constants DEF TypeOK, Crash, Fault
    <2>2. pc' \in [Nodes -> PcStates] /\ batch' \in [Nodes -> SUBSET Tasks]
      BY <1>0 DEF TypeOK, PcStates, Crash
    <2>3. lost' \subseteq Tasks /\ tokenLost' \subseteq Tasks
      BY <1>0 DEF TypeOK, Crash
    <2> QED BY <1>0, <2>1, <2>2, <2>3 DEF TypeOK, Crash
  <1>2. \A m \in Nodes : NodeMemory(m)'
    BY <1>0 DEF TypeOK, PlainAccounting, NodeMemory, Saving, Crash
  <1>3. \A t \in Tasks : ClientMemory(t)'
    BY <1>0 DEF PlainAccounting, ClientMemory, Crash
  <1>4. ASSUME NEW t \in Plain PROVE PlainAccount(t)'
    <2>0. PlainAccount(t) /\ UNCHANGED <<charge, tokenCharge, settled>>
      BY <1>0 DEF PlainAccounting, Crash
    <2>1. CASE ~OwesToken(n, t)
      <3>1. (t \in lost' <=> t \in lost) /\ (t \in tokenLost' <=> t \in tokenLost)
        BY <2>1 DEF Crash, OwesToken
      <3>2. \A m \in Nodes : /\ OwesToken(m, t)' <=> OwesToken(m, t)
                             /\ OwesToken(m, t) => pc'[m] = pc[m]
        BY <1>0, <2>1 DEF TypeOK, Crash, OwesToken
      <3> QED BY <1>0, <2>0, <3>1, <3>2, Undisturbed
    <2>2. CASE OwesToken(n, t)
      <3>1. /\ \A m \in Nodes \ {n} : ~OwesToken(m, t)
            /\ status[t] \in Terminal /\ t \notin lost
        BY <2>0, <2>2 DEF PlainAccount, OwedToken
      <3>2. \A m \in Nodes : ~OwesToken(m, t)'
        BY <1>0, <3>1 DEF TypeOK, Crash, OwesToken
      <3>3. t \in tokenLost' /\ (t \in lost' <=> pc[n] = "fund")
        BY <2>2, <3>1 DEF Crash, OwesToken
      <3>4. CASE pc[n] = "fund"
        <4>1. Account(t) = Quota
          BY <2>0, <2>2, <3>4 DEF PlainAccount
        <4> QED BY <1>0, <2>0, <3>1, <3>2, <3>3, <3>4, <4>1 DEF PlainAccount, OwedToken
      <3>5. CASE pc[n] # "fund"
        <4>1. ~Owed(t)
          BY <2>2, <3>1, <3>5 DEF Owed, Owes, OwesToken
        <4>2. Account(t) \in EndCharges(t) /\ EndCharges(t)' = EndCharges(t)
          BY <1>0, <2>0, <3>1, <4>1
             DEF PlainAccount, EndCharges, Costs, isLegacy, legacyTaskCutoff
        <4> QED BY <1>0, <2>0, <3>1, <3>2, <3>3, <3>5, <4>2 DEF PlainAccount, OwedToken
      <3> QED BY <3>4, <3>5
    <2> QED BY <2>1, <2>2
  <1> QED BY <1>1, <1>2, <1>3, <1>4 DEF IInv, PlainAccounting, Plain

-----------------------------------------------------------------------------
(* The invariant and what follows from it *)

LEMMA InitIInv == ASSUME Init PROVE IInv
  <1>1. TypeOK
    BY Constants DEF Init, TypeOK, PcStates
  <1>2. PlainAccounting
    <2>1. \A n \in Nodes : NodeMemory(n)
      BY DEF Init, NodeMemory, Saving
    <2>2. \A t \in Tasks : ClientMemory(t)
      BY DEF Init, ClientMemory
    <2>3. ASSUME NEW t \in Plain PROVE PlainAccount(t)
      <3>1. t \in Tasks
        BY DEF Plain
      <3>2. \A n \in Nodes : ~OwesToken(n, t)
        BY DEF Init, OwesToken
      <3> QED BY <3>1, <3>2 DEF Init, PlainAccount, OwedToken
    <2> QED BY <2>1, <2>2, <2>3 DEF PlainAccounting
  <1> QED BY <1>1, <1>2 DEF IInv

LEMMA NextIInv == ASSUME IInv, [Next]_vars PROVE IInv'
  <1>1. ASSUME NEW n \in Nodes, Work(n) PROVE IInv'
    BY <1>1, ReadKeeps, UpdateVideoKeeps, UpdateSunoKeeps, SaveSunoKeeps, AdjustFundingKeeps,
       AdjustTokenKeeps, SweepTaskKeeps, BulkFailKeeps, FetchKeeps DEF Work, Loop, Asks
  <1>2. ASSUME NEW n \in Nodes, Crash(n) PROVE IInv'
    BY <1>2, CrashKeeps
  <1>3. ASSUME NEW t \in Tasks, Client(t) PROVE IInv'
    BY <1>3, ClientKeeps
  <1>4. ASSUME NEW t \in Tasks, Environment(t) PROVE IInv'
    BY <1>4, SubmitKeeps, WorldKeeps DEF Environment
  <1>5. CASE UNCHANGED vars
    <2>1. UNCHANGED <<row, world, node, client, bill, faults>>
      BY <1>5 DEF vars
    <2>2. TypeOK'
      BY <2>1 DEF IInv, TypeOK
    <2>3. \A n \in Nodes : NodeMemory(n)'
      BY <2>1 DEF IInv, PlainAccounting, NodeMemory, Saving
    <2>4. \A t \in Tasks : ClientMemory(t)'
      BY <2>1 DEF IInv, PlainAccounting, ClientMemory
    <2>5. ASSUME NEW t \in Plain PROVE PlainAccount(t)'
      BY <2>1, Undisturbed DEF IInv, PlainAccounting, OwesToken
    <2> QED BY <2>2, <2>3, <2>4, <2>5 DEF IInv, PlainAccounting, Plain
  <1> QED BY <1>1, <1>2, <1>3, <1>4, <1>5 DEF Next

(* The state of every process and every row keeps its type. *)
THEOREM TasksTypeCorrect == Spec => []TypeOK
  <1>1. IInv => TypeOK
    BY DEF IInv
  <1> QED BY <1>1, InitIInv, NextIInv, PTL DEF Spec

(* The inductive invariant: at most one process owes a plain task its      *)
(* adjustment, and its account follows from how far that process has come,  *)
(* whatever the submission's own settlement took (RelayTask).               *)
THEOREM PlainAccountingHolds == Spec => []PlainAccounting
  <1>1. IInv => PlainAccounting
    BY DEF IInv
  <1> QED BY <1>1, InitIInv, NextIInv, PTL DEF Spec

(* A failed task has been refunded its quota once (RefundTaskQuota), for    *)
(* any number of processes that saw it fail: nothing more than what its     *)
(* submission failed to take, or took too much, is left between what was    *)
(* paid and nothing.                                                        *)
THEOREM PlainFailureRefundedTheorem == Spec => []PlainFailureRefunded
  <1>1. IInv => PlainFailureRefunded
    <2> SUFFICES ASSUME IInv, NEW t \in Plain PROVE Refunded(t)
      BY DEF PlainFailureRefunded
    <2> QED BY DEF IInv, PlainAccounting, PlainAccount, Refunded, EndCharges
  <1> QED BY <1>1, InitIInv, NextIInv, PTL DEF Spec

(* A task is settled or refunded once, never both (UpdateWithStatus), on    *)
(* top of what its submission took.                                         *)
THEOREM PlainBilledOnceTheorem == Spec => []PlainBilledOnce
  <1>1. IInv => PlainBilledOnce
    <2> SUFFICES ASSUME IInv, NEW t \in Plain
                 PROVE  /\ status[t] \in Open => Account(t) = Quota /\ ~OwedToken(t)
                        /\ status[t] = "SUCCESS" => Account(t) \in Costs
                        /\ status[t] = "FAILURE" => Account(t) \in {0, Quota}
      BY DEF PlainBilledOnce
    <2>1. PlainAccount(t)
      BY DEF IInv, PlainAccounting
    <2>2. status[t] \in Open => Account(t) = Quota /\ ~OwedToken(t)
      BY <2>1 DEF PlainAccount
    <2>3. Owed(t) \/ t \in lost => Account(t) = Quota
      BY <2>1 DEF PlainAccount, Owed, Owes, OwesToken
    <2>4. status[t] \in Terminal => Account(t) = Quota \/ Account(t) \in EndCharges(t)
      BY <2>1, <2>3 DEF PlainAccount
    <2>5. Quota \in Costs
      BY DEF Costs
    <2> QED BY <2>2, <2>4, <2>5 DEF EndCharges
  <1> QED BY <1>1, InitIInv, NextIInv, PTL DEF Spec

(* Token and funding source agree about a billed task, but for what their   *)
(* settlements at the submission took (AdjustToken after AdjustFunding).    *)
THEOREM PlainTokenAgreesTheorem == Spec => []PlainTokenAgrees
  <1>1. IInv => PlainTokenAgrees
    BY DEF IInv, PlainAccounting, PlainAccount, PlainTokenAgrees
  <1> QED BY <1>1, InitIInv, NextIInv, PTL DEF Spec

(* No stale batch moves a plain task that has ended. *)
LEMMA EndStays ==
  ASSUME IInv, [Next]_vars, NEW t \in Plain, status[t] \in Terminal
  PROVE  status'[t] = status[t]
  <1>0. TypeOK /\ PlainAccounting /\ t \in Tasks /\ t \notin SunoTasks
        /\ t \notin RealtimeTasks /\ t \notin gone
    BY DEF IInv, Plain, TypeOK
  <1>1. ASSUME NEW u \in Tasks, NEW s, NEW d, u # t, WriteRow(u, s, d)
        PROVE  status'[t] = status[t]
    BY <1>0, <1>1 DEF TypeOK, WriteRow
  <1>2. ASSUME NEW n \in Nodes, Work(n) PROVE status'[t] = status[t]
    <2>1. CASE \E u \in Tasks : SweepTask(n, u)
      BY <1>0, <1>1, <2>1, WonIsOpen DEF SweepTask
    <2>2. CASE \E u \in Tasks : BulkFail(n, u) \/ Fetch(n, u)
      BY <1>0, <1>1, <2>2 DEF BulkFail, Fetch
    <2>3. CASE UpdateVideo(n)
      BY <1>0, <1>1, <2>3, WonIsOpen DEF UpdateVideo, TypeOK
    <2>4. CASE SaveSuno(n)
      BY <1>0, <1>1, <2>4 DEF SaveSuno, TypeOK, PlainAccounting, NodeMemory, Saving
    <2>5. CASE \/ SweepRead(n) \/ PollRead(n) \/ UpdateSuno(n) \/ AdjustFunding(n)
               \/ AdjustToken(n)
      BY <2>5 DEF SweepRead, PollRead, UpdateSuno, AdjustFunding, AdjustToken
    <2> QED BY <1>2, <2>1, <2>2, <2>3, <2>4, <2>5 DEF Work, Loop, Asks
  <1>3. ASSUME NEW n \in Nodes, Crash(n) PROVE status'[t] = status[t]
    BY <1>3 DEF Crash
  <1>4. ASSUME NEW u \in Tasks, Client(u) PROVE status'[t] = status[t]
    BY <1>0, <1>1, <1>4 DEF Client, ClientRead, ClientFetch, ClientWrite, PlainAccounting,
                            ClientMemory
  <1>5. ASSUME NEW u \in Tasks, Environment(u) PROVE status'[t] = status[t]
    BY <1>0, <1>5 DEF Environment, Submit, UpstreamEnds, Expire, DeleteChannel, TypeOK
  <1>6. CASE UNCHANGED vars
    BY <1>6 DEF vars
  <1> QED BY <1>2, <1>3, <1>4, <1>5, <1>6 DEF Next

(* A task's end is final, whatever stale batches other processes hold. *)
THEOREM PlainEndIsFinalTheorem == Spec => PlainEndIsFinal
  <1>1. IInv /\ [Next]_vars =>
          [\A t \in Plain : status[t] \in Terminal => status'[t] = status[t]]_vars
    BY EndStays
  <1> QED BY <1>1, InitIInv, NextIInv, PTL DEF Spec, PlainEndIsFinal

-----------------------------------------------------------------------------
(* The refinement of QuotaHold *)

(* What the phase of a task depends on. *)
SameTask(t) == /\ status'[t] = status[t] /\ Account(t)' = Account(t)
               /\ t \in lost' <=> t \in lost
               /\ Owed(t)' <=> Owed(t)

(* A process whose step moves none of the money and none of the debts. *)
LEMMA SameDebts ==
  ASSUME NEW t \in Plain, UNCHANGED bill, status'[t] = status[t],
         \A m \in Nodes : Owes(m, t)' <=> Owes(m, t)
  PROVE  SameTask(t)
  BY DEF SameTask, Owed

(* A step of a process touches one plain task, and no task that has ended   *)
(* and been billed.                                                        *)
LEMMA WorkTouchesOne ==
  ASSUME IInv, NEW n \in Nodes, Work(n) \/ Crash(n)
  PROVE  \E u : \A t \in Plain : t # u \/ (status[t] \in Terminal /\ ~Owed(t)) => SameTask(t)
  <1>0. TypeOK /\ PlainAccounting /\ cur[n] \in Tasks
    BY DEF IInv, TypeOK
  <1>p. \A t \in Plain : t \in Tasks /\ t \notin SunoTasks /\ t \notin gone
    BY <1>0 DEF Plain, TypeOK
  <1>1. CASE SweepRead(n) \/ PollRead(n)
    <2>1. ASSUME NEW t \in Plain PROVE SameTask(t)
      <3>1. \A m \in Nodes : Owes(m, t)' <=> Owes(m, t)
        BY <1>0, <1>1 DEF SweepRead, PollRead, TypeOK, Owes
      <3> QED BY <1>1, <3>1, SameDebts DEF SweepRead, PollRead
    <2> QED BY <2>1
  <1>2. ASSUME NEW u \in Tasks, SweepTask(n, u)
        PROVE  \A t \in Plain : t # u \/ (status[t] \in Terminal /\ ~Owed(t)) => SameTask(t)
    <2> SUFFICES ASSUME NEW t \in Plain, t # u \/ status[t] \in Terminal PROVE SameTask(t)
      OBVIOUS
    <2>1. pc[n] = "sweep" /\ UNCHANGED bill
          /\ (pc'[n] # pc[n] \/ ~UNCHANGED status => Won(n, u))
          /\ \A m \in Nodes \ {n} : pc'[m] = pc[m] /\ cur'[m] = cur[m]
      BY <1>0, <1>2 DEF SweepTask, Take, Bill, TypeOK
    <2>2. cur'[n] = u
      BY <1>0, <1>2 DEF SweepTask, Take, TypeOK
    <2>3. CASE Won(n, u)
      <3>1. status[u] \in Open
        BY <1>0, <2>3, WonIsOpen
      <3>2. t # u
        BY <3>1
      <3>3. status'[t] = status[t]
        BY <1>0, <1>p, <1>2, <3>2 DEF SweepTask, WriteRow, TypeOK
      <3>4. \A m \in Nodes : Owes(m, t)' <=> Owes(m, t)
        BY <2>1, <2>2, <3>2 DEF Owes
      <3> QED BY <2>1, <3>3, <3>4, SameDebts
    <2>4. CASE ~Won(n, u)
      <3>1. \A m \in Nodes : Owes(m, t)' <=> Owes(m, t)
        BY <2>1, <2>4 DEF Owes
      <3> QED BY <2>1, <2>4, <3>1, SameDebts
    <2> QED BY <2>3, <2>4
  <1>3. ASSUME NEW u \in Tasks, BulkFail(n, u) \/ Fetch(n, u)
        PROVE  \A t \in Plain : SameTask(t)
    <2> SUFFICES ASSUME NEW t \in Plain PROVE SameTask(t)
      OBVIOUS
    <2>1. status'[t] = status[t]
      BY <1>0, <1>p, <1>3 DEF BulkFail, Fetch, WriteRow, TypeOK
    <2>2. /\ pc[n] # "fund" /\ pc'[n] # "fund"
          /\ \A m \in Nodes \ {n} : pc'[m] = pc[m] /\ cur'[m] = cur[m]
      <3>1. CASE BulkFail(n, u)
        BY <1>0, <3>1 DEF BulkFail, Take, TypeOK
      <3>2. CASE Fetch(n, u)
        BY <1>0, <3>2 DEF Fetch, Take, TypeOK
      <3> QED BY <1>3, <3>1, <3>2
    <2>3. \A m \in Nodes : Owes(m, t)' <=> Owes(m, t)
      BY <2>2 DEF Owes
    <2> QED BY <1>3, <2>1, <2>3, SameDebts DEF BulkFail, Fetch
  <1>4. CASE UpdateVideo(n)
    <2> DEFINE u == cur[n]
    <2> SUFFICES ASSUME NEW t \in Plain, t # u \/ status[t] \in Terminal PROVE SameTask(t)
      OBVIOUS
    <2>1. pc[n] = "update" /\ UNCHANGED <<bill, cur>>
          /\ (pc'[n] = "fund" \/ ~UNCHANGED status => Won(n, u))
          /\ \A m \in Nodes \ {n} : pc'[m] = pc[m]
      BY <1>0, <1>4 DEF UpdateVideo, Bill, TypeOK
    <2>3. CASE Won(n, u)
      <3>1. status[u] \in Open
        BY <1>0, <2>3, WonIsOpen
      <3>2. t # u
        BY <3>1
      <3>3. status'[t] = status[t]
        BY <1>0, <1>p, <1>4, <3>2 DEF UpdateVideo, WriteRow, TypeOK
      <3>4. \A m \in Nodes : Owes(m, t)' <=> Owes(m, t)
        BY <2>1, <3>2 DEF Owes
      <3> QED BY <2>1, <3>3, <3>4, SameDebts
    <2>4. CASE ~Won(n, u)
      <3>1. \A m \in Nodes : Owes(m, t)' <=> Owes(m, t)
        BY <2>1, <2>4 DEF Owes
      <3> QED BY <2>1, <2>4, <3>1, SameDebts
    <2> QED BY <2>3, <2>4
  <1>5. CASE UpdateSuno(n) \/ SaveSuno(n)
    <2>1. ASSUME NEW t \in Plain PROVE SameTask(t)
      <3>1. cur[n] \in SunoTasks
        BY <1>0, <1>5 DEF UpdateSuno, SaveSuno, PlainAccounting, NodeMemory, Saving
      <3>2. status'[t] = status[t]
        BY <1>0, <1>p, <1>5, <3>1 DEF UpdateSuno, SaveSuno, WriteRow, TypeOK
      <3>3. \A m \in Nodes : Owes(m, t)' <=> Owes(m, t)
        BY <1>0, <1>p, <1>5, <3>1 DEF UpdateSuno, SaveSuno, Bill, TypeOK, Owes
      <3> QED BY <1>5, <3>2, <3>3, SameDebts DEF UpdateSuno, SaveSuno
    <2> QED BY <2>1
  <1>6. CASE AdjustFunding(n) \/ AdjustToken(n) \/ Crash(n)
    <2> SUFFICES ASSUME NEW t \in Plain, t # cur[n] \/ ~Owed(t) PROVE SameTask(t)
      OBVIOUS
    <2>1. UNCHANGED <<status, cur>>
      BY <1>6 DEF AdjustFunding, AdjustToken, Crash
    <2>2. ~Owes(n, t)
      BY DEF Owed, Owes
    <2>3. Account(t)' = Account(t) /\ (t \in lost' <=> t \in lost)
      BY <1>0, <1>p, <1>6, <2>2 DEF AdjustFunding, AdjustToken, Crash, TypeOK, Owes
    <2>4. pc'[n] # "fund" /\ \A m \in Nodes \ {n} : pc'[m] = pc[m]
      <3>1. pc \in [Nodes -> PcStates] /\ after[n] # "fund"
        BY <1>0 DEF TypeOK
      <3>2. CASE AdjustFunding(n)
        BY <3>1, <3>2 DEF AdjustFunding
      <3>3. CASE AdjustToken(n)
        BY <3>1, <3>3 DEF AdjustToken
      <3>4. CASE Crash(n)
        BY <3>1, <3>4 DEF Crash
      <3> QED BY <1>6, <3>2, <3>3, <3>4
    <2>5. \A m \in Nodes : Owes(m, t)' <=> Owes(m, t)
      BY <2>1, <2>2, <2>4 DEF Owes
    <2> QED BY <2>1, <2>3, <2>5 DEF SameTask, Owed
  <1> QED BY <1>1, <1>2, <1>3, <1>4, <1>5, <1>6 DEF Work, Loop, Asks

(* So does every step. *)
LEMMA StepTouchesOne ==
  ASSUME IInv, [Next]_vars
  PROVE  \E u : \A t \in Plain : t # u \/ (status[t] \in Terminal /\ ~Owed(t)) => SameTask(t)
  <1>0. TypeOK /\ PlainAccounting
    BY DEF IInv
  <1>1. ASSUME NEW u \in Tasks, Client(u) PROVE \A t \in Plain : SameTask(t)
    <2> SUFFICES ASSUME NEW t \in Plain PROVE SameTask(t)
      OBVIOUS
    <2>1. UNCHANGED <<node, bill>> /\ (u \in RealtimeTasks \/ UNCHANGED row)
      BY <1>0, <1>1 DEF PlainAccounting, ClientMemory, Client, ClientRead, ClientFetch, ClientWrite
    <2>2. status'[t] = status[t]
      BY <1>0, <1>1, <2>1 DEF TypeOK, Client, ClientRead, ClientFetch, ClientWrite, WriteRow, Plain
    <2> QED BY <2>1, <2>2, SameDebts DEF Owes
  <1>2. ASSUME NEW u \in Tasks, Submit(u)
        PROVE  \A t \in Plain : t # u \/ status[t] \in Terminal => SameTask(t)
    BY <1>0, <1>2 DEF Submit, SameTask, Owed, Owes, TypeOK, Plain
  <1>3. ASSUME NEW u \in Tasks, UpstreamEnds(u) \/ Expire(u) \/ DeleteChannel(u)
        PROVE  \A t \in Plain : SameTask(t)
    BY <1>3 DEF UpstreamEnds, Expire, DeleteChannel, SameTask, Owed, Owes
  <1>4. ASSUME UNCHANGED vars PROVE \A t \in Plain : SameTask(t)
    BY <1>4 DEF vars, SameTask, Owed, Owes
  <1> QED BY <1>1, <1>2, <1>3, <1>4, WorkTouchesOne DEF Next, Environment

(* A task is submitted once, and a task that was submitted stays so. *)
LEMMA SubmittedOnce ==
  ASSUME IInv, [Next]_vars, NEW t \in Plain
  PROVE  /\ status[t] = "NONE" => status'[t] \in Open \cup {"NONE", "UNRECORDED"}
         /\ status[t] # "NONE" => status'[t] # "NONE"
  <1>0. TypeOK /\ PlainAccounting /\ t \in Tasks /\ t \notin SunoTasks
        /\ t \notin RealtimeTasks /\ t \notin gone
    BY DEF IInv, Plain, TypeOK
  <1>1. ASSUME NEW u \in Tasks, NEW s, NEW d, WriteRow(u, s, d),
               u = t => s \in Recorded /\ status[t] # "NONE"
        PROVE  /\ status[t] = "NONE" => status'[t] \in Open \cup {"NONE", "UNRECORDED"}
               /\ status[t] # "NONE" => status'[t] # "NONE"
    BY <1>0, <1>1 DEF TypeOK, WriteRow
  <1>2. ASSUME NEW n \in Nodes, Work(n) PROVE status'[t] = status[t] \/
               (status[t] # "NONE" /\ status'[t] # "NONE")
    <2>1. ASSUME NEW u \in Tasks, SweepTask(n, u)
          PROVE  status'[t] = status[t] \/ (status[t] # "NONE" /\ status'[t] # "NONE")
      <3>1. status[u] \in Open \/ UNCHANGED status
        BY <1>0, <2>1, WonIsOpen DEF SweepTask
      <3> QED BY <1>0, <2>1, <3>1 DEF SweepTask, WriteRow, TypeOK
    <2>2. CASE \E u \in Tasks : BulkFail(n, u) \/ Fetch(n, u)
      BY <1>0, <1>1, <2>2 DEF BulkFail, Fetch, WriteRow, TypeOK
    <2>3. CASE UpdateVideo(n)
      <3>1. status[cur[n]] \in Open \/ UNCHANGED status
        BY <1>0, <2>3, WonIsOpen DEF UpdateVideo, TypeOK
      <3> QED BY <1>0, <2>3, <3>1 DEF UpdateVideo, WriteRow, TypeOK
    <2>4. CASE SaveSuno(n)
      BY <1>0, <2>4 DEF SaveSuno, TypeOK, PlainAccounting, NodeMemory, Saving, WriteRow
    <2>5. CASE \/ SweepRead(n) \/ PollRead(n) \/ UpdateSuno(n) \/ AdjustFunding(n)
               \/ AdjustToken(n)
      BY <2>5 DEF SweepRead, PollRead, UpdateSuno, AdjustFunding, AdjustToken
    <2> QED BY <1>2, <2>1, <2>2, <2>3, <2>4, <2>5 DEF Work, Loop, Asks
  <1>3. ASSUME NEW n \in Nodes, Crash(n) PROVE status'[t] = status[t]
    BY <1>3 DEF Crash
  <1>4. ASSUME NEW u \in Tasks, Client(u) PROVE status'[t] = status[t]
    BY <1>0, <1>4 DEF Client, ClientRead, ClientFetch, ClientWrite, PlainAccounting,
                            ClientMemory, WriteRow, TypeOK
  <1>5. ASSUME NEW u \in Tasks, Environment(u)
        PROVE  /\ status[t] = "NONE" => status'[t] \in Open \cup {"NONE", "UNRECORDED"}
               /\ status[t] # "NONE" => status'[t] # "NONE"
    BY <1>0, <1>5 DEF Environment, Submit, UpstreamEnds, Expire, DeleteChannel, TypeOK
  <1>6. CASE UNCHANGED vars
    BY <1>6 DEF vars
  <1> QED BY <1>2, <1>3, <1>4, <1>5, <1>6 DEF Next

(* The phase says what has been taken. *)
PhaseTells(t) ==
  /\ TaskPhase(t) \in {"idle", "held", "charged", "released", "kept"}
  /\ TaskPhase(t) = "idle" <=> status[t] = "NONE"
  /\ TaskPhase(t) \in {"idle", "released"} => Account(t) = 0
  /\ TaskPhase(t) \in {"held", "kept"} => Account(t) = Quota
  /\ TaskPhase(t) = "charged" => Account(t) \in Nat
  /\ TaskPhase(t) \in {"charged", "released", "kept"} => status[t] \in Terminal /\ ~Owed(t)

(* It does so by the inductive invariant. *)
LEMMA PhasesTell == IInv => \A t \in Plain : PhaseTells(t)
  <1> SUFFICES ASSUME IInv, NEW t \in Plain PROVE PhaseTells(t)
    OBVIOUS
  <1>0. PlainAccount(t) /\ t \in Tasks /\ Quota \in Nat
        /\ status[t] \in Recorded \cup {"NONE", "UNRECORDED"}
    BY Constants DEF IInv, PlainAccounting, Plain, TypeOK
  <1>1. Owed(t) => OwedToken(t) /\ Account(t) = Quota
    BY <1>0 DEF PlainAccount, Owed, Owes, OwesToken, OwedToken
  <1> QED BY <1>0, <1>1, CostsAreNat DEF PhaseTells, TaskPhase, PlainAccount, EndCharges

(* Every step is a step of QuotaHold, or none. *)
LEMMA TaskStepRefines ==
  ASSUME IInv, [Next]_vars
  PROVE  [TaskHold!Next]_(TaskHold!vars)
  <1> DEFINE phase == [t \in Plain |-> TaskPhase(t)]
             taken == [t \in Plain |-> Account(t)]
  <1>0. IInv'
    BY NextIInv
  <1>1. PICK u : \A t \in Plain :
          t # u \/ (status[t] \in Terminal /\ ~Owed(t)) => SameTask(t)
    BY StepTouchesOne
  <1>2. \A t \in Plain : SameTask(t) => TaskPhase(t)' = TaskPhase(t) /\ Account(t)' = Account(t)
    BY DEF SameTask, TaskPhase
  <1>3. CASE \A t \in Plain : TaskPhase(t)' = TaskPhase(t) /\ Account(t)' = Account(t)
    <2>1. phase' = phase /\ taken' = taken
      BY <1>3
    <2> QED BY <2>1 DEF TaskHold!vars
  <1>4. CASE ~ \A t \in Plain : TaskPhase(t)' = TaskPhase(t) /\ Account(t)' = Account(t)
    <2>1. u \in Plain /\ ~(TaskPhase(u)' = TaskPhase(u) /\ Account(u)' = Account(u))
          /\ \A t \in Plain \ {u} : TaskPhase(t)' = TaskPhase(t) /\ Account(t)' = Account(t)
      BY <1>1, <1>2, <1>4
    <2>2. ~(status[u] \in Terminal /\ ~Owed(u))
      BY <1>1, <1>2, <2>1
    <2>3. /\ phase' = [phase EXCEPT ![u] = TaskPhase(u)'] /\ phase[u] = TaskPhase(u)
          /\ taken' = [taken EXCEPT ![u] = Account(u)']
          /\ taken'[u] = Account(u)' /\ taken[u] = Account(u)
      BY <2>1
    <2>4. PhaseTells(u) /\ PhaseTells(u)' /\ Quota \in Nat
      <3>1. (\A t \in Plain : PhaseTells(t))'
        BY <1>0, PhasesTell, PTL
      <3> QED BY <2>1, <3>1, PhasesTell, Constants DEF Plain
    <2>5. TaskPhase(u) \in {"idle", "held"}
      BY <2>2, <2>4 DEF PhaseTells
    <2>6. CASE TaskPhase(u) = "idle"
      <3>1. status[u] = "NONE" /\ Account(u) = 0
        BY <2>4, <2>6 DEF PhaseTells
      <3>2. TaskPhase(u)' = "held" /\ Account(u)' \in Nat
        BY <2>1, <2>4, <2>6, <3>1, SubmittedOnce DEF PhaseTells
      <3>3. TaskHold!Hold(u)
        BY <2>3, <2>6, <3>2 DEF TaskHold!Hold, TaskHold!MovesTo
      <3> QED BY <2>1, <3>3 DEF TaskHold!Next
    <2>7. CASE TaskPhase(u) = "held"
      <3>1. status[u] # "NONE" /\ Account(u) = Quota
        BY <2>4, <2>7 DEF PhaseTells
      <3>2. TaskPhase(u)' # "idle" /\ TaskPhase(u)' # "held"
        BY <2>1, <2>4, <2>7, <3>1, SubmittedOnce DEF PhaseTells
      <3>3. CASE TaskPhase(u)' = "charged"
        <4>1. TaskHold!Charge(u)
          BY <2>3, <2>4, <2>7, <3>3 DEF PhaseTells, TaskHold!Charge, TaskHold!MovesTo
        <4> QED BY <2>1, <4>1 DEF TaskHold!Next
      <3>4. CASE TaskPhase(u)' = "released"
        <4>1. TaskHold!Release(u)
          BY <2>3, <2>4, <2>7, <3>4 DEF PhaseTells, TaskHold!Release, TaskHold!MovesTo
        <4> QED BY <2>1, <4>1 DEF TaskHold!Next
      <3>5. CASE TaskPhase(u)' = "kept"
        <4>1. Account(u)' \in 0 .. Account(u)
          BY <2>4, <3>1, <3>5 DEF PhaseTells
        <4>2. TaskHold!Keep(u)
          BY <2>3, <2>7, <3>5, <4>1 DEF TaskHold!Keep, TaskHold!MovesTo
        <4> QED BY <2>1, <4>2 DEF TaskHold!Next
      <3> QED BY <2>4, <3>2, <3>3, <3>4, <3>5 DEF PhaseTells
    <2> QED BY <2>5, <2>6, <2>7
  <1> QED BY <1>3, <1>4

(* For any number of processes, tasks, crashes and failed writes, what a    *)
(* plain task's row was inserted with is a hold with exactly one outcome,   *)
(* and no money of it moves after the outcome (task_billing.go).            *)
THEOREM TaskRefinement == Spec => PlainTasksImplementHold
  <1>1. Init => TaskHold!Init
    BY DEF Init, TaskHold!Init, TaskPhase, Plain
  <1>2. IInv /\ [Next]_vars => [TaskHold!Next]_(TaskHold!vars)
    BY TaskStepRefines
  <1> QED BY <1>1, <1>2, InitIInv, NextIInv, PTL DEF Spec, PlainTasksImplementHold, TaskHold!Spec

-----------------------------------------------------------------------------
(* The tasks a client's fetch may write to *)

(* A fetch of t has been begun and may still write its row. *)
Fetching(t) == IF cSnap[t] # "none" THEN 1 ELSE 0

(* What an open row may still lead to, and what each process owes. *)
AtStake(t) == IF status[t] \in Open THEN Quota ELSE 0
Due(n, t) == IF Owes(n, t) THEN Quota ELSE 0
dues(t) == [n \in Nodes |-> Due(n, t)]

Allowance(t) == (MaxFetches - fetches - Fetching(t)) * Quota

(* A row has one refund at stake while it is open.  A fetch may open it     *)
(* again, but only when it writes, and every refund that is still owed or   *)
(* has been paid was at stake before.                                      *)
RealtimeAccount(t) ==
  /\ status[t] = "NONE" => Account(t) = 0 /\ ~Owed(t)
  /\ \A n \in Nodes : Owes(n, t) => delta[n] >= 0 - Quota
  /\ Account(t) - SumFunctionOnSet(dues(t), Nodes) - AtStake(t) >= 0 - Allowance(t)

RInv == IInv /\ \A t \in RealtimeTasks : RealtimeAccount(t)

(* The numbers of the account. *)
LEMMA RealtimeNumbers ==
  ASSUME NEW t \in RealtimeTasks
  PROVE  /\ t \in Tasks /\ t \notin SunoTasks /\ Quota \in Nat
         /\ AtStake(t) \in Nat
         /\ \A n \in Nodes : dues(t)[n] = Due(n, t) /\ Due(n, t) \in Nat
         /\ SumFunctionOnSet(dues(t), Nodes) \in Int
         /\ TypeOK => Account(t) \in Int /\ fetches \in Int /\ Allowance(t) \in Int
  <1>1. t \in Tasks /\ t \notin SunoTasks /\ Quota \in Nat /\ MaxFetches \in Nat /\ IsFiniteSet(Nodes)
    BY Constants
  <1>2. \A n \in Nodes : dues(t)[n] = Due(n, t) /\ Due(n, t) \in Nat
    BY <1>1 DEF dues, Due
  <1>3. SumFunctionOnSet(dues(t), Nodes) \in Int
    BY <1>1, <1>2, SumTakeOut
  <1>4. TypeOK => Account(t) \in Int /\ fetches \in Int
    BY <1>1 DEF TypeOK
  <1>5. Fetching(t) \in Int
    BY DEF Fetching
  <1>6. TypeOK => (MaxFetches - fetches - Fetching(t)) * Quota \in Int
    BY <1>1, <1>4, <1>5
  <1> QED BY <1>1, <1>2, <1>3, <1>4, <1>6 DEF AtStake, Allowance

(* One process settles what it owes, or becomes liable for what was at      *)
(* stake.                                                                  *)
LEMMA RealtimeMove ==
  ASSUME IInv, IInv', NEW t \in RealtimeTasks, RealtimeAccount(t), NEW n \in Nodes,
         \A m \in Nodes \ {n} : /\ pc'[m] = pc[m] /\ cur'[m] = cur[m]
                                /\ delta'[m] = delta[m],
         UNCHANGED client,
         status'[t] = "NONE" => status[t] = "NONE" /\ Account(t)' = Account(t) /\ ~Owes(n, t)',
         Owes(n, t)' => delta'[n] >= 0 - Quota,
         Account(t)' - Due(n, t)' - AtStake(t)' >= Account(t) - Due(n, t) - AtStake(t)
  PROVE  RealtimeAccount(t)'
  <1>1. /\ t \in Tasks /\ Quota \in Nat /\ IsFiniteSet(Nodes)
        /\ Account(t) \in Int /\ Account(t)' \in Int
        /\ AtStake(t) \in Int /\ AtStake(t)' \in Int
        /\ Due(n, t) \in Int /\ Due(n, t)' \in Int
        /\ SumFunctionOnSet(dues(t), Nodes) \in Int
        /\ Allowance(t) \in Int
    <2>1. t \in Tasks /\ Quota \in Nat /\ IsFiniteSet(Nodes) /\ TypeOK /\ TypeOK'
      BY Constants DEF IInv
    <2>2. Account(t) \in Int /\ Account(t)' \in Int
      BY <2>1 DEF TypeOK
    <2> QED BY <2>1, <2>2, RealtimeNumbers DEF AtStake, Due
  <1>2. \A m \in Nodes \ {n} : Owes(m, t)' <=> Owes(m, t)
    BY DEF Owes
  <1>3. \A m \in Nodes : dues(t)[m] \in Int /\ dues(t)'[m] \in Int
    BY <1>1 DEF dues, Due
  <1>4. \A m \in Nodes \ {n} : dues(t)'[m] = dues(t)[m]
    BY <1>2 DEF dues, Due
  <1>5. dues(t)[n] = Due(n, t) /\ dues(t)'[n] = Due(n, t)'
    BY DEF dues
  <1>6. SumFunctionOnSet(dues(t)', Nodes)
          = SumFunctionOnSet(dues(t), Nodes) + Due(n, t)' - Due(n, t)
    <2>1. ASSUME NEW f, NEW g, \A m \in Nodes : f[m] \in Int /\ g[m] \in Int,
                 \A m \in Nodes \ {n} : g[m] = f[m]
          PROVE  SumFunctionOnSet(g, Nodes) = SumFunctionOnSet(f, Nodes) + g[n] - f[n]
      <3>1. IsFiniteSet(Nodes)
        BY <1>1
      <3> QED BY ONLY <2>1, <3>1, n \in Nodes, SumChange
    <2>2. SumFunctionOnSet(dues(t)', Nodes)
            = SumFunctionOnSet(dues(t), Nodes) + dues(t)'[n] - dues(t)[n]
      BY <1>3, <1>4, <2>1
    <2> QED BY <1>5, <2>2
  <1>7. Allowance(t)' = Allowance(t)
    BY DEF Allowance, Fetching
  <1>8. Account(t) - SumFunctionOnSet(dues(t), Nodes) - AtStake(t) >= 0 - Allowance(t)
    BY DEF RealtimeAccount
  <1>9. (Account(t) - SumFunctionOnSet(dues(t), Nodes) - AtStake(t) >= 0 - Allowance(t))'
    BY <1>1, <1>6, <1>7, <1>8
  <1>10. \A m \in Nodes : Owes(m, t)' => delta'[m] >= 0 - Quota
    BY <1>2 DEF RealtimeAccount
  <1>11. status'[t] = "NONE" => Account(t)' = 0 /\ ~Owed(t)'
    BY <1>2 DEF RealtimeAccount, Owed
  <1> QED BY <1>9, <1>10, <1>11 DEF RealtimeAccount

(* No process is involved: the row, a fetch or a submission. *)
LEMMA RealtimeWrite ==
  ASSUME IInv, IInv', NEW t \in RealtimeTasks, RealtimeAccount(t), UNCHANGED node,
         status'[t] = "NONE" => status[t] = "NONE" /\ Account(t)' = Account(t),
         Account(t)' - AtStake(t)' + Allowance(t)' >= Account(t) - AtStake(t) + Allowance(t)
  PROVE  RealtimeAccount(t)'
  <1>1. \A n \in Nodes : (Owes(n, t)' <=> Owes(n, t)) /\ delta'[n] = delta[n]
    BY DEF Owes
  <1>2. dues(t)' = dues(t)
    BY <1>1 DEF dues, Due
  <1>3. /\ Account(t) \in Int /\ AtStake(t) \in Int /\ Allowance(t) \in Int
        /\ SumFunctionOnSet(dues(t), Nodes) \in Int
    BY RealtimeNumbers DEF IInv
  <1>4. Account(t)' \in Int /\ AtStake(t)' \in Int /\ Allowance(t)' \in Int
    <2>1. TypeOK' /\ t \in Tasks /\ Quota \in Nat /\ MaxFetches \in Nat
      BY Constants DEF IInv
    <2>2. Account(t)' \in Int /\ fetches' \in Int
      BY <2>1 DEF TypeOK
    <2>3. (MaxFetches - fetches' - Fetching(t)') * Quota \in Int
      BY <2>1, <2>2 DEF Fetching
    <2> QED BY <2>1, <2>2, <2>3 DEF AtStake, Allowance
  <1>5. Account(t) - SumFunctionOnSet(dues(t), Nodes) - AtStake(t) >= 0 - Allowance(t)
    BY DEF RealtimeAccount
  <1>6. (Account(t) - SumFunctionOnSet(dues(t), Nodes) - AtStake(t) >= 0 - Allowance(t))'
    <2> DEFINE d == SumFunctionOnSet(dues(t), Nodes)
    <2>1. SumFunctionOnSet(dues(t)', Nodes) = d
      BY <1>2
    <2> HIDE DEF d
    <2>2. Account(t)' - d - AtStake(t)' >= 0 - Allowance(t)'
      BY <1>3, <1>4, <1>5 DEF d
    <2> QED BY <2>1, <2>2
  <1> QED BY <1>1, <1>6 DEF RealtimeAccount, Owed

(* The steps of a process. *)
LEMMA RealtimeWork ==
  ASSUME IInv, IInv', NEW t \in RealtimeTasks, RealtimeAccount(t), NEW n \in Nodes,
         Work(n) \/ Crash(n)
  PROVE  RealtimeAccount(t)'
  <1>0. TypeOK /\ PlainAccounting /\ cur[n] \in Tasks /\ t \in Tasks /\ t \notin SunoTasks
        /\ Quota \in Nat /\ Account(t) \in Int /\ delta[n] \in Int
    BY Constants DEF IInv, TypeOK
  <1>n. Due(n, t) \in Nat /\ AtStake(t) \in Nat
    BY <1>0 DEF Due, AtStake
  <1>r. /\ status[t] = "NONE" => Account(t) = 0 /\ ~Owes(n, t)
        /\ Owes(n, t) => delta[n] >= 0 - Quota
    BY DEF RealtimeAccount, Owed
  (* Nothing of t changes. *)
  <1>s. ASSUME status'[t] = status[t], Account(t)' = Account(t), UNCHANGED client,
               Owes(n, t)' <=> Owes(n, t), Owes(n, t) => delta'[n] = delta[n],
               \A m \in Nodes \ {n} : pc'[m] = pc[m] /\ cur'[m] = cur[m] /\ delta'[m] = delta[m]
        PROVE  RealtimeAccount(t)'
    <2>1. Due(n, t)' = Due(n, t) /\ AtStake(t)' = AtStake(t)
      BY <1>s DEF Due, AtStake
    <2>2. Account(t)' - Due(n, t)' - AtStake(t)' >= Account(t) - Due(n, t) - AtStake(t)
      BY <1>0, <1>n, <1>s, <2>1
    <2> QED BY <1>r, <1>s, <2>2, RealtimeMove
  (* The row is moved on by the winner of the guarded write. *)
  <1>w. ASSUME status[t] \in Open, status'[t] \in Recorded, Account(t)' = Account(t), UNCHANGED client,
               ~Owes(n, t), Owes(n, t)' => status'[t] \in Terminal /\ delta'[n] >= 0 - Quota,
               \A m \in Nodes \ {n} : pc'[m] = pc[m] /\ cur'[m] = cur[m] /\ delta'[m] = delta[m]
        PROVE  RealtimeAccount(t)'
    <2>1. Account(t)' - Due(n, t)' - AtStake(t)' >= Account(t) - Due(n, t) - AtStake(t)
      BY <1>0, <1>w DEF Due, AtStake
    <2> QED BY <1>w, <2>1, RealtimeMove
  <1>1. CASE SweepRead(n) \/ PollRead(n)
    <2>1. /\ UNCHANGED <<status, charge, settled, client, delta, cur>>
          /\ \A m \in Nodes \ {n} : pc'[m] = pc[m]
          /\ pc[n] # "fund" /\ pc'[n] # "fund"
      BY <1>0, <1>1 DEF SweepRead, PollRead, TypeOK
    <2> QED BY <1>s, <2>1 DEF Owes
  <1>2. ASSUME NEW u \in Tasks, SweepTask(n, u) PROVE RealtimeAccount(t)'
    <2>1. /\ pc[n] = "sweep" /\ UNCHANGED <<charge, settled, client>> /\ cur'[n] = u
          /\ \A m \in Nodes \ {n} : pc'[m] = pc[m] /\ cur'[m] = cur[m] /\ delta'[m] = delta[m]
      BY <1>0, <1>2 DEF SweepTask, Take, Bill, TypeOK
    <2>2. CASE /\ Won(n, u) /\ WriteRow(u, "FAILURE", TRUE)
               /\ Bill(n, IF isLegacy(u) THEN 0 ELSE -Quota, "sweep")
      <3>1. status[u] \in Open /\ delta'[n] >= 0 - Quota
        BY <1>0, <2>2, WonIsOpen DEF Bill, TypeOK
      <3>2. status'[t] = IF t = u THEN "FAILURE" ELSE status[t]
        BY <1>0, <2>2 DEF WriteRow, TypeOK
      <3>3. CASE t = u
        BY <1>w, <2>1, <3>1, <3>2, <3>3 DEF Owes
      <3>4. CASE t # u
        BY <1>s, <2>1, <3>2, <3>4 DEF Owes
      <3> QED BY <3>3, <3>4
    <2>3. CASE UNCHANGED <<row, pc, delta, after>>
      BY <1>s, <2>1, <2>3 DEF Owes
    <2> QED BY <1>2, <2>2, <2>3 DEF SweepTask
  <1>3. ASSUME NEW u \in Tasks, BulkFail(n, u) PROVE RealtimeAccount(t)'
    <2>1. /\ pc[n] = "poll" /\ UNCHANGED <<charge, settled, client, pc, delta>>
          /\ \A m \in Nodes \ {n} : cur'[m] = cur[m]
          /\ status' = status \/ status' = [status EXCEPT ![u] = "FAILURE"]
          /\ u \in batch[n]
      BY <1>0, <1>3 DEF BulkFail, Take, WriteRow, TypeOK
    <2>2. CASE status'[t] = status[t]
      BY <1>s, <2>1, <2>2 DEF Owes
    <2>3. CASE status'[t] # status[t]
      <3>1. status'[t] = "FAILURE"
        BY <1>0, <2>1, <2>3 DEF TypeOK
      <3>2. Account(t)' - Due(n, t)' - AtStake(t)' >= Account(t) - Due(n, t) - AtStake(t)
        BY <1>0, <2>1, <3>1 DEF Due, Owes, AtStake
      <3>3. ~Owes(n, t)' /\ Account(t)' = Account(t)
        BY <2>1 DEF Owes
      <3>4. \A m \in Nodes \ {n} : pc'[m] = pc[m] /\ cur'[m] = cur[m] /\ delta'[m] = delta[m]
        BY <2>1
      <3> QED BY <2>1, <3>1, <3>2, <3>3, <3>4, RealtimeMove
    <2> QED BY <2>2, <2>3
  <1>4. ASSUME NEW u \in Tasks, Fetch(n, u) PROVE RealtimeAccount(t)'
    <2>1. /\ UNCHANGED <<status, charge, settled, client, delta>>
          /\ \A m \in Nodes \ {n} : pc'[m] = pc[m] /\ cur'[m] = cur[m]
          /\ pc[n] # "fund" /\ pc'[n] # "fund"
      BY <1>0, <1>4 DEF Fetch, Take, TypeOK
    <2> QED BY <1>s, <2>1 DEF Owes
  <1>5. CASE UpdateVideo(n)
    <2> DEFINE u == cur[n]
    <2>1. /\ pc[n] = "update" /\ UNCHANGED <<charge, settled, client, cur>>
          /\ \A m \in Nodes \ {n} : pc'[m] = pc[m] /\ delta'[m] = delta[m]
      BY <1>0, <1>5 DEF UpdateVideo, Bill, TypeOK
    <2>2. CASE /\ Won(n, u) /\ WriteRow(u, ans[n], ans[n] \in Terminal)
               /\ \/ ans[n] = "IN_PROGRESS" /\ Bill(n, 0, "poll")
                  \/ ans[n] = "FAILURE" /\ Bill(n, -Quota, "poll")
                  \/ /\ ans[n] = "SUCCESS"
                     /\ \E a \in ActualQuotas : Bill(n, Difference(a), "poll")
      <3>1. status[u] \in Open
        BY <1>0, <2>2, WonIsOpen
      <3>2. status'[t] = IF t = u THEN ans[n] ELSE status[t]
        BY <1>0, <2>2 DEF WriteRow, TypeOK
      <3>3. ans[n] \in Answers /\ delta'[n] >= 0 - Quota
            /\ (ans[n] = "IN_PROGRESS" => pc'[n] = "poll")
        BY <1>0, <2>2, Constants DEF Bill, Difference, TypeOK
      <3>4. CASE t = u
        BY <1>w, <2>1, <3>1, <3>2, <3>3, <3>4 DEF Owes
      <3>5. CASE t # u
        BY <1>s, <2>1, <3>2, <3>5 DEF Owes
      <3> QED BY <3>4, <3>5
    <2>3. CASE Goto(n, "poll") /\ UNCHANGED <<row, delta, after>>
      <3>1. pc'[n] = "poll"
        BY <1>0, <2>3 DEF TypeOK
      <3> QED BY <1>s, <2>1, <2>3, <3>1 DEF Owes
    <2> QED BY <1>5, <2>2, <2>3 DEF UpdateVideo
  <1>6. CASE UpdateSuno(n) \/ SaveSuno(n)
    <2>1. cur[n] \in SunoTasks
      BY <1>0, <1>6 DEF UpdateSuno, SaveSuno, PlainAccounting, NodeMemory, Saving
    <2>2. status'[t] = status[t]
      BY <1>0, <1>6, <2>1 DEF UpdateSuno, SaveSuno, WriteRow, TypeOK
    <2>3. /\ UNCHANGED <<charge, settled, client, cur>>
          /\ \A m \in Nodes \ {n} : pc'[m] = pc[m] /\ delta'[m] = delta[m]
      BY <1>0, <1>6 DEF UpdateSuno, SaveSuno, Bill, TypeOK
    <2>4. ~Owes(n, t) /\ ~Owes(n, t)'
      BY <1>0, <2>1, <2>3 DEF Owes
    <2> QED BY <1>s, <2>2, <2>3, <2>4
  <1>7. CASE AdjustFunding(n)
    <2>1. /\ pc[n] = "fund" /\ pc'[n] # "fund"
          /\ UNCHANGED <<status, client, cur, delta, settled>>
          /\ \A m \in Nodes \ {n} : pc'[m] = pc[m]
          /\ charge' = charge \/ charge' = [charge EXCEPT ![cur[n]] = @ + delta[n]]
      BY <1>0, <1>7 DEF AdjustFunding, TypeOK
    <2>2. CASE cur[n] # t
      <3>1. Account(t)' = Account(t)
        BY <1>0, <2>1, <2>2 DEF TypeOK
      <3> QED BY <1>s, <2>1, <2>2, <3>1 DEF Owes
    <2>3. CASE cur[n] = t
      <3>1. Owes(n, t) /\ ~Owes(n, t)' /\ AtStake(t)' = AtStake(t)
        BY <2>1, <2>3 DEF Owes, AtStake
      <3>2. Account(t)' \in {Account(t), Account(t) + delta[n]} /\ delta[n] >= 0 - Quota
        <4>1. charge'[t] = charge[t] \/ charge'[t] = charge[t] + delta[n]
          BY <1>0, <2>1, <2>3 DEF TypeOK
        <4>2. charge[t] \in Int /\ short[t] \in Int /\ short'[t] = short[t]
          BY <1>0, <2>1 DEF TypeOK
        <4> QED BY <1>0, <1>r, <3>1, <4>1, <4>2
      <3>3. Account(t)' - Due(n, t)' - AtStake(t)' >= Account(t) - Due(n, t) - AtStake(t)
        BY <1>0, <1>n, <3>1, <3>2 DEF Due
      <3>4. status[t] # "NONE"
        BY <1>r, <3>1
      <3>5. \A m \in Nodes \ {n} : pc'[m] = pc[m] /\ cur'[m] = cur[m] /\ delta'[m] = delta[m]
        BY <2>1
      <3> QED BY <2>1, <3>1, <3>3, <3>4, <3>5, RealtimeMove
    <2> QED BY <2>2, <2>3
  <1>8. CASE AdjustToken(n) \/ Crash(n)
    <2>1. /\ pc'[n] # "fund" /\ UNCHANGED <<status, charge, settled, client, cur, delta>>
          /\ \A m \in Nodes \ {n} : pc'[m] = pc[m]
      BY <1>0, <1>8 DEF AdjustToken, Crash, TypeOK
    <2>2. ~Owes(n, t)' /\ AtStake(t)' = AtStake(t) /\ Account(t)' = Account(t)
      BY <2>1 DEF Owes, AtStake
    <2>3. Account(t)' - Due(n, t)' - AtStake(t)' >= Account(t) - Due(n, t) - AtStake(t)
      BY <1>0, <1>n, <2>2 DEF Due
    <2>4. \A m \in Nodes \ {n} : pc'[m] = pc[m] /\ cur'[m] = cur[m] /\ delta'[m] = delta[m]
      BY <2>1
    <2> QED BY <2>1, <2>2, <2>3, <2>4, RealtimeMove
  <1> QED BY <1>1, <1>2, <1>3, <1>4, <1>5, <1>6, <1>7, <1>8 DEF Work, Loop, Asks

(* The steps of the clients and of the world. *)
LEMMA RealtimeOthers ==
  ASSUME IInv, IInv', NEW t \in RealtimeTasks, RealtimeAccount(t), NEW u \in Tasks,
         Client(u) \/ Environment(u)
  PROVE  RealtimeAccount(t)'
  <1>0. /\ TypeOK /\ PlainAccounting /\ t \in Tasks /\ Quota \in Nat /\ MaxFetches \in Nat
        /\ Account(t) \in Int /\ fetches \in Int /\ AtStake(t) \in Nat /\ Allowance(t) \in Int
    BY Constants, RealtimeNumbers DEF IInv
  <1>r. status[t] = "NONE" => Account(t) = 0
    BY DEF RealtimeAccount
  <1>1. CASE ClientRead(u)
    <2>1. /\ UNCHANGED <<node, status, charge, settled>> /\ fetches' = fetches - 1
          /\ Fetching(t)' = IF t = u THEN 1 ELSE Fetching(t)
          /\ t = u => Fetching(t) = 0
      BY <1>0, <1>1 DEF ClientRead, Fetching, TypeOK
    <2>2. Fetching(t) \in {0, 1}
      BY DEF Fetching
    <2>3. Allowance(t)' >= Allowance(t)
      <3>1. MaxFetches - fetches' - Fetching(t)' \in {MaxFetches - fetches - Fetching(t),
                                                     MaxFetches - fetches - Fetching(t) + 1}
        BY <1>0, <2>1, <2>2
      <3>2. MaxFetches - fetches - Fetching(t) \in Int
        BY <1>0, <2>2
      <3>3. \A k \in Int : (k + 1) * Quota = k * Quota + Quota /\ k * Quota \in Int
        BY <1>0
      <3> DEFINE k == MaxFetches - fetches - Fetching(t)
      <3>4. k * Quota \in Int /\ (k + 1) * Quota = k * Quota + Quota
        BY <3>2, <3>3, Zenon
      <3>5. Allowance(t) = k * Quota
        BY DEF Allowance
      <3>6. Allowance(t)' = k * Quota \/ Allowance(t)' = (k + 1) * Quota
        BY <1>0, <3>1 DEF Allowance
      <3> HIDE DEF k
      <3> QED BY <1>0, <3>4, <3>5, <3>6
    <2>4. Allowance(t)' \in Int
      <3>1. MaxFetches - fetches' - Fetching(t)' \in Int
        BY <1>0, <2>1, <2>2
      <3> QED BY <1>0, <3>1 DEF Allowance
    <2>5. Account(t)' - AtStake(t)' + Allowance(t)' >= Account(t) - AtStake(t) + Allowance(t)
      BY <1>0, <2>1, <2>3, <2>4 DEF AtStake
    <2> QED BY <2>1, <2>5, RealtimeWrite
  <1>2. CASE ClientFetch(u) \/ ClientWrite(u)
    <2>1. /\ UNCHANGED <<node, charge, settled, fetches>>
          /\ cSnap'[t] = cSnap[t] \/ (t = u /\ cSnap[t] # "none" /\ cSnap'[t] = "none")
          /\ status'[t] = status[t]
             \/ (cSnap[t] # "none" /\ cSnap'[t] = "none" /\ status'[t] \in Answers)
      <3>1. CASE ClientFetch(u)
        BY <1>0, <3>1 DEF ClientFetch, TypeOK
      <3>2. CASE ClientWrite(u)
        <4>1. cSnap[u] # "none" /\ cAns[u] \in Answers
          BY <1>0, <3>2 DEF ClientWrite, PlainAccounting, ClientMemory, TypeOK
        <4>2. /\ UNCHANGED <<node, charge, settled, fetches>>
              /\ cSnap' = [cSnap EXCEPT ![u] = "none"]
              /\ status' = status \/ status' = [status EXCEPT ![u] = cAns[u]]
          BY <3>2 DEF ClientWrite, WriteRow
        <4> QED BY <1>0, <4>1, <4>2 DEF TypeOK
      <3> QED BY <1>2, <3>1, <3>2
    <2>2. \A k \in Int : (k - 0) * Quota = (k - 1) * Quota + Quota /\ (k - 1) * Quota \in Int
      BY <1>0
    <2>3. MaxFetches - fetches \in Int
      BY <1>0
    <2>4. CASE cSnap'[t] = cSnap[t]
      <3>1. status'[t] = status[t] /\ Allowance(t)' = Allowance(t) /\ AtStake(t)' = AtStake(t)
        BY <2>1, <2>4 DEF Allowance, Fetching, AtStake
      <3>2. Account(t)' - AtStake(t)' + Allowance(t)' >= Account(t) - AtStake(t) + Allowance(t)
        BY <1>0, <2>1, <3>1
      <3> QED BY <2>1, <3>1, <3>2, RealtimeWrite
    <2>5. CASE cSnap[t] # "none" /\ cSnap'[t] = "none"
      <3>1. /\ Allowance(t) = (MaxFetches - fetches - 1) * Quota
            /\ Allowance(t)' = (MaxFetches - fetches - 0) * Quota
        BY <2>1, <2>5 DEF Allowance, Fetching
      <3>2. Allowance(t)' = Allowance(t) + Quota
        BY <2>2, <2>3, <3>1
      <3>3. AtStake(t)' \in {0, Quota} /\ AtStake(t) >= 0
        BY <1>0 DEF AtStake
      <3>4. Account(t)' - AtStake(t)' + Allowance(t)' >= Account(t) - AtStake(t) + Allowance(t)
        BY <1>0, <2>1, <3>2, <3>3
      <3>5. status'[t] = "NONE" => status[t] = "NONE" /\ Account(t)' = Account(t)
        BY <2>1
      <3> QED BY <2>1, <3>4, <3>5, RealtimeWrite
    <2> QED BY <2>1, <2>4, <2>5
  <1>3. CASE Submit(u)
    <2>1. UNCHANGED <<node, client>> /\ Allowance(t)' = Allowance(t)
      BY <1>3 DEF Submit, Allowance, Fetching
    <2>2. CASE t = u
      <3>1. /\ Account(t)' = Quota /\ Account(t) = 0 /\ status[t] = "NONE"
            /\ status'[t] \in {"NOT_START", "UNRECORDED"}
        BY <1>0, <1>r, <1>3, <2>2, SubmitMoves
      <3>2. Account(t)' - AtStake(t)' + Allowance(t)' >= Account(t) - AtStake(t) + Allowance(t)
        BY <1>0, <2>1, <3>1 DEF AtStake
      <3> QED BY <2>1, <3>1, <3>2, RealtimeWrite
    <2>3. CASE t # u
      <3>1. Account(t)' = Account(t) /\ status'[t] = status[t]
        BY <1>0, <1>3, <2>3, SubmitMoves
      <3>2. Account(t)' - AtStake(t)' + Allowance(t)' >= Account(t) - AtStake(t) + Allowance(t)
        BY <1>0, <2>1, <3>1 DEF AtStake
      <3> QED BY <2>1, <3>1, <3>2, RealtimeWrite
    <2> QED BY <2>2, <2>3
  <1>4. CASE UpstreamEnds(u) \/ Expire(u) \/ DeleteChannel(u)
    <2>1. UNCHANGED <<row, node, client, bill>>
      BY <1>4 DEF UpstreamEnds, Expire, DeleteChannel
    <2>2. /\ Allowance(t)' = Allowance(t) /\ AtStake(t)' = AtStake(t)
          /\ Account(t)' = Account(t) /\ status'[t] = status[t]
      BY <2>1 DEF Allowance, Fetching, AtStake
    <2>3. Account(t)' - AtStake(t)' + Allowance(t)' >= Account(t) - AtStake(t) + Allowance(t)
      BY <1>0, <2>2
    <2> QED BY <2>1, <2>2, <2>3, RealtimeWrite
  <1> QED BY <1>1, <1>2, <1>3, <1>4 DEF Client, Environment

(* The account of a realtime task at the start. *)
LEMMA InitRInv == Init => RInv
  <1> SUFFICES ASSUME Init, NEW t \in RealtimeTasks PROVE RealtimeAccount(t)
    BY InitIInv DEF RInv
  <1>1. t \in Tasks /\ IsFiniteSet(Nodes) /\ Quota \in Nat /\ MaxFetches \in Nat
    BY Constants
  <1>2. \A n \in Nodes : ~Owes(n, t)
    BY DEF Init, Owes
  <1>3. \A n \in Nodes : dues(t)[n] = 0 /\ dues(t)[n] \in Int
    BY <1>2 DEF dues, Due
  <1>4. SumFunctionOnSet(dues(t), Nodes) = SumFunctionOnSet(dues(t), {})
    BY <1>1, <1>3, SumWithoutZeros
  <1>5. SumFunctionOnSet(dues(t), Nodes) = 0
    BY <1>4, SumEmpty
  <1>6. Account(t) = 0 /\ AtStake(t) = 0 /\ Fetching(t) = 0 /\ status[t] = "NONE" /\ fetches = MaxFetches
    BY <1>1 DEF Init, AtStake, Fetching
  <1>7. Allowance(t) = 0
    BY <1>1, <1>6 DEF Allowance
  <1> QED BY <1>2, <1>5, <1>6, <1>7 DEF RealtimeAccount, Owed

(* It is kept. *)
LEMMA NextRInv == RInv /\ [Next]_vars => RInv'
  <1> SUFFICES ASSUME RInv, [Next]_vars PROVE RInv'
    OBVIOUS
  <1>1. IInv /\ IInv' /\ \A t \in RealtimeTasks : RealtimeAccount(t)
    BY NextIInv DEF RInv
  <1>2. ASSUME NEW t \in RealtimeTasks PROVE RealtimeAccount(t)'
    <2>1. ASSUME NEW n \in Nodes, Work(n) \/ Crash(n) PROVE RealtimeAccount(t)'
      BY <1>1, <2>1, RealtimeWork
    <2>2. ASSUME NEW u \in Tasks, Client(u) \/ Environment(u) PROVE RealtimeAccount(t)'
      BY <1>1, <2>2, RealtimeOthers
    <2>3. CASE UNCHANGED vars
      <3>1. UNCHANGED <<row, node, client, bill>>
        BY <2>3 DEF vars
      <3> QED BY <1>1, <3>1 DEF RealtimeAccount, Owed, Owes, dues, Due, AtStake, Allowance, Fetching
    <2> QED BY <2>1, <2>2, <2>3 DEF Next
  <1> QED BY <1>1, <1>2 DEF RInv

(* Every fetch of a Gemini or Vertex task by a client costs at most one     *)
(* refund too many, however it interleaves with any number of processes     *)
(* that poll the task (tryRealtimeFetch, which writes without billing).     *)
THEOREM RealtimeRefundsTheorem == Spec => []RealtimeRefundsBounded
  <1>1. RInv => RealtimeRefundsBounded
    <2> SUFFICES ASSUME RInv, NEW t \in RealtimeTasks
                 PROVE  Account(t) >= 0 - (MaxFetches - fetches) * Quota
      BY DEF RealtimeRefundsBounded
    <2>1. TypeOK /\ RealtimeAccount(t) /\ Quota \in Nat /\ MaxFetches \in Nat /\ IsFiniteSet(Nodes)
      BY Constants DEF RInv, IInv
    <2>2. /\ Account(t) \in Int /\ AtStake(t) \in Nat /\ Allowance(t) \in Int /\ fetches \in Int
          /\ SumFunctionOnSet(dues(t), Nodes) \in Int
          /\ \A n \in Nodes : dues(t)[n] \in Nat
      BY <2>1, RealtimeNumbers
    <2>3. SumFunctionOnSet(dues(t), Nodes) >= 0
      <3>1. \A n \in Nodes : dues(t)[n] \in Int /\ dues(t)[n] >= 0 - 0
        BY <2>2
      <3>2. SumFunctionOnSet(dues(t), Nodes) >= 0 - Cardinality(Nodes) * 0
        BY ONLY <2>1, <3>1, SumAtLeast
      <3>3. Cardinality(Nodes) \in Nat
        BY <2>1, FS_CardinalityType
      <3> QED BY <2>2, <3>2, <3>3
    <2>4. Allowance(t) <= (MaxFetches - fetches) * Quota
      <3>1. \A k \in Int : (k - 0) * Quota = k * Quota /\ (k - 1) * Quota = k * Quota - Quota
                           /\ k * Quota \in Int
        BY <2>1
      <3>2. MaxFetches - fetches \in Int
        BY <2>1, <2>2
      <3> QED BY <2>1, <3>1, <3>2 DEF Allowance, Fetching
    <2>5. (MaxFetches - fetches) * Quota \in Int
      BY <2>1, <2>2
    <2>6. Account(t) - SumFunctionOnSet(dues(t), Nodes) - AtStake(t) >= 0 - Allowance(t)
      BY <2>1 DEF RealtimeAccount
    <2> QED BY <2>2, <2>3, <2>4, <2>5, <2>6
  <1>2. Spec => []RInv
    BY InitRInv, NextRInv, PTL DEF Spec
  <1> QED BY <1>1, <1>2, PTL

-----------------------------------------------------------------------------
(* Suno tasks, refunded before their row is saved *)

Billing(n, t) == cur[n] = t /\ pc[n] \in {"fund", "token", "save"}

(* A row is in the batch of n, or being worked on, only while it is         *)
(* unfinished, and n has left the batch's copy of it behind when it bills   *)
(* it; a refund that has been paid is followed by the save that ends the    *)
(* task before any batch is read.                                           *)
SunoAccount(n, t) ==
  /\ charge[t] \in {0, Quota}
  /\ status[t] = "NONE" => charge[t] = 0 /\ ~complete[t]
  /\ t \in Unfinished /\ ~Billing(n, t) => charge[t] = Quota
  /\ t \in batch[n] => t \in Unfinished /\ (cur[n] = t => pc[n] \in {"sweep", "poll"})
  /\ pc[n] = "update" /\ cur[n] = t => t \in Unfinished
  /\ Billing(n, t) => status[t] # "NONE"
  /\ Owes(n, t) => charge[t] = Quota /\ delta[n] = 0 - Quota
  /\ Billing(n, t) /\ Saving(n) /\ ~SunoFails(n) => pc[n] = "save" /\ charge[t] = Quota
  /\ Billing(n, t) /\ ~Saving(n) => t \notin Unfinished

(* n is the only process and no access to a row has failed yet. *)
Alone(n) == Nodes = {n} /\ faults = MaxFaults

SInv == IInv /\ \A n \in Nodes : Alone(n) => \A t \in SunoTasks : SunoAccount(n, t)

(* The task is not the one n bills, before and after. *)
LEMMA SunoElsewhere ==
  ASSUME NEW n \in Nodes, NEW t \in Tasks, SunoAccount(n, t),
         ~Billing(n, t), cur'[n] # t, batch'[n] \subseteq batch[n],
         status'[t] = status[t], complete'[t] = complete[t], charge'[t] = charge[t]
  PROVE  SunoAccount(n, t)'
  <1>1. t \in Unfinished' <=> t \in Unfinished
    BY DEF Unfinished
  <1>2. ~Billing(n, t)' /\ ~Owes(n, t)'
    BY DEF Billing, Owes
  <1> QED BY <1>1, <1>2 DEF SunoAccount

(* The row is not written, and n does not bill the task. *)
LEMMA SunoIdle ==
  ASSUME NEW n \in Nodes, NEW t \in Tasks, SunoAccount(n, t),
         status'[t] = status[t], complete'[t] = complete[t], charge'[t] = charge[t],
         ~Billing(n, t) \/ t \notin Unfinished, ~Billing(n, t)',
         t \in batch'[n] => t \in Unfinished /\ (cur'[n] = t => pc'[n] \in {"sweep", "poll"}),
         pc'[n] = "update" /\ cur'[n] = t => t \in Unfinished
  PROVE  SunoAccount(n, t)'
  <1>1. t \in Unfinished' <=> t \in Unfinished
    BY DEF Unfinished
  <1>2. ~Owes(n, t)'
    BY DEF Billing, Owes
  <1> QED BY <1>1, <1>2 DEF SunoAccount

(* The steps of the only process, when they succeed. *)
LEMMA SunoWork ==
  ASSUME IInv, NEW n \in Nodes, NEW t \in SunoTasks, SunoAccount(n, t), Work(n), faults' = faults
  PROVE  SunoAccount(n, t)'
  <1>0. /\ TypeOK /\ NodeMemory(n) /\ cur[n] \in Tasks /\ t \in Tasks
        /\ Quota \in Nat /\ ~Fault
    <2>1. TypeOK /\ NodeMemory(n) /\ t \in Tasks /\ Quota \in Nat /\ MaxFaults \in Nat
      BY Constants DEF IInv, PlainAccounting
    <2> QED BY <2>1 DEF TypeOK, Fault
  <1>1. CASE SweepRead(n) \/ PollRead(n)
    <2>1. /\ UNCHANGED <<status, complete, charge, cur>>
          /\ pc[n] \in {"sweep", "poll"} /\ pc'[n] \in {"sweep", "poll"}
          /\ batch'[n] \subseteq Unfinished
      <3>1. PICK S : S \subseteq Unfinished /\ ReadBatch(n, S)
        BY <1>1 DEF SweepRead, PollRead, Oldest, Earliest
      <3>2. batch'[n] \subseteq Unfinished
        BY <1>0, <3>1 DEF ReadBatch, TypeOK
      <3> QED BY <1>0, <1>1, <3>2 DEF SweepRead, PollRead, TypeOK
    <2> QED BY <1>0, <2>1, SunoIdle DEF Billing
  <1>2. ASSUME NEW u \in Tasks, SweepTask(n, u) PROVE SunoAccount(n, t)'
    <2>1. /\ pc[n] = "sweep" /\ u \in batch[n] /\ batch'[n] = batch[n] \ {u}
          /\ cur'[n] = u /\ UNCHANGED charge
      BY <1>0, <1>2 DEF SweepTask, Take, TypeOK
    <2>2. CASE u = t /\ Won(n, u)
      <3>1. /\ WriteRow(t, "FAILURE", TRUE)
            /\ Bill(n, IF isLegacy(t) THEN 0 ELSE -Quota, "sweep")
        BY <1>0, <1>2, <2>2 DEF SweepTask
      <3>2. /\ status'[t] = "FAILURE" /\ t \notin Unfinished'
            /\ pc'[n] \in {"sweep", "fund"} /\ after'[n] = "sweep"
            /\ pc'[n] = "fund" => delta'[n] = 0 - Quota
        BY <1>0, <3>1 DEF WriteRow, Bill, Unfinished, TypeOK
      <3>3. charge[t] = Quota
        BY <2>1, <2>2 DEF SunoAccount, Billing
      <3>4. ~Saving(n)'
        BY <3>2 DEF Saving
      <3> QED BY <2>1, <2>2, <3>2, <3>3, <3>4 DEF SunoAccount, Billing, Owes
    <2>3. CASE u = t /\ ~Won(n, u)
      <3>1. UNCHANGED <<row, pc>>
        BY <1>2, <2>3 DEF SweepTask
      <3> QED BY <1>0, <2>1, <2>3, <3>1, SunoIdle DEF Billing
    <2>4. CASE u # t
      <3>1. status'[t] = status[t] /\ complete'[t] = complete[t]
        BY <1>0, <1>2, <2>4 DEF SweepTask, WriteRow, TypeOK
      <3> QED BY <1>0, <2>1, <2>4, <3>1, SunoElsewhere DEF Billing
    <2> QED BY <2>2, <2>3, <2>4
  <1>3. ASSUME NEW u \in Tasks, BulkFail(n, u) PROVE SunoAccount(n, t)'
    <2>1. /\ pc[n] = "poll" /\ u \in batch[n] /\ batch'[n] = batch[n] \ {u}
          /\ cur'[n] = u /\ UNCHANGED <<charge, pc>> /\ WriteRow(u, "FAILURE", TRUE)
      BY <1>0, <1>3 DEF BulkFail, Take, TypeOK
    <2>2. CASE u = t
      <3>1. status'[t] = "FAILURE" /\ t \notin Unfinished'
        BY <1>0, <2>1, <2>2 DEF WriteRow, Unfinished, TypeOK
      <3> QED BY <2>1, <2>2, <3>1 DEF SunoAccount, Billing, Owes
    <2>3. CASE u # t
      <3>1. status'[t] = status[t] /\ complete'[t] = complete[t]
        BY <1>0, <2>1, <2>3 DEF WriteRow, TypeOK
      <3> QED BY <1>0, <2>1, <2>3, <3>1, SunoElsewhere DEF Billing
    <2> QED BY <2>2, <2>3
  <1>4. ASSUME NEW u \in Tasks, Fetch(n, u) PROVE SunoAccount(n, t)'
    <2>1. /\ pc[n] = "poll" /\ u \in batch[n] /\ batch'[n] = batch[n] \ {u}
          /\ cur'[n] = u /\ UNCHANGED <<status, complete, charge>>
          /\ pc'[n] \in {"poll", "update"}
      BY <1>0, <1>4 DEF Fetch, Take, TypeOK
    <2>2. CASE u = t
      <3>1. t \in Unfinished
        BY <2>1, <2>2 DEF SunoAccount
      <3> QED BY <1>0, <2>1, <2>2, <3>1, SunoIdle DEF Billing
    <2>3. CASE u # t
      BY <1>0, <2>1, <2>3, SunoElsewhere DEF Billing
    <2> QED BY <2>2, <2>3
  <1>5. CASE UpdateVideo(n)
    <2>1. cur[n] # t /\ cur'[n] # t /\ UNCHANGED <<charge, batch>>
      BY <1>5 DEF UpdateVideo
    <2>2. status'[t] = status[t] /\ complete'[t] = complete[t]
      BY <1>0, <1>5, <2>1 DEF UpdateVideo, WriteRow, TypeOK
    <2> QED BY <1>0, <2>1, <2>2, SunoElsewhere DEF Billing
  <1>6. CASE UpdateSuno(n) \/ SaveSuno(n) \/ AdjustFunding(n) \/ AdjustToken(n)
    <2>1. pc[n] \in {"update", "save", "fund", "token"} /\ UNCHANGED <<cur, batch, ans>>
      BY <1>6 DEF UpdateSuno, SaveSuno, AdjustFunding, AdjustToken
    <2>2. CASE cur[n] # t
      <3>1. status'[t] = status[t] /\ complete'[t] = complete[t] /\ charge'[t] = charge[t]
        BY <1>0, <1>6, <2>2 DEF UpdateSuno, SaveSuno, AdjustFunding, AdjustToken, WriteRow, TypeOK
      <3> QED BY <1>0, <2>1, <2>2, <3>1, SunoElsewhere DEF Billing
    <2>3. CASE cur[n] = t
      <3>1. t \notin batch[n] /\ t \notin batch'[n]
        BY <2>1, <2>3 DEF SunoAccount
      <3>2. CASE UpdateSuno(n)
        <4>1. t \in Unfinished /\ charge[t] = Quota /\ pc[n] = "update" /\ UNCHANGED <<row, charge>>
          BY <2>3, <3>2 DEF UpdateSuno, SunoAccount, Billing
        <4>2. CASE Bill(n, IF SunoFails(n) THEN -Quota ELSE 0, "save")
          <5>1. /\ pc'[n] \in {"fund", "save"} /\ Saving(n)' /\ status[t] # "NONE"
                /\ pc'[n] = "fund" => SunoFails(n) /\ delta'[n] = 0 - Quota
            BY <1>0, <4>1, <4>2 DEF Bill, Saving, Unfinished, TypeOK
          <5>2. SunoFails(n)' <=> SunoFails(n)
            BY <2>1 DEF SunoFails
          <5> QED BY <1>0, <2>1, <2>3, <3>1, <4>1, <5>1, <5>2 DEF SunoAccount, Billing, Owes
        <4>3. CASE pc' = [pc EXCEPT ![n] = "poll"]
          <5>1. pc'[n] = "poll"
            BY <1>0, <4>3 DEF TypeOK
          <5> QED BY <1>0, <2>1, <2>3, <3>1, <4>1, <5>1, SunoIdle DEF Billing
        <4> QED BY <3>2, <4>2, <4>3 DEF UpdateSuno
      <3>3. CASE SaveSuno(n)
        <4>1. /\ pc[n] = "save" /\ pc'[n] = "poll" /\ UNCHANGED charge
              /\ WriteRow(t, IF ans[n] = "REASON" THEN snap[n][t] ELSE ans[n],
                          SunoFails(n) \/ ans[n] = "SUCCESS")
          BY <1>0, <2>3, <3>3 DEF SaveSuno, TypeOK
        <4>2. /\ status'[t] = (IF ans[n] = "REASON" THEN snap[n][t] ELSE ans[n])
              /\ complete'[t] = (SunoFails(n) \/ ans[n] = "SUCCESS")
          BY <1>0, <4>1 DEF WriteRow, TypeOK
        <4>3. ans[n] \in Answers \cup {"REASON"} /\ snap[n][t] \in Open
          BY <1>0, <2>3, <4>1 DEF NodeMemory, Saving, TypeOK
        <4>4. status'[t] # "NONE"
          BY <4>2, <4>3
        <4>5. t \in Unfinished' => ~SunoFails(n)
          BY <1>0, <4>2 DEF Unfinished
        <4>6. Billing(n, t) /\ Saving(n) /\ (~SunoFails(n) => charge[t] = Quota)
          BY <2>3, <4>1 DEF SunoAccount, Billing, Saving
        <4> QED BY <2>1, <3>1, <4>1, <4>4, <4>5, <4>6 DEF SunoAccount, Billing, Owes
      <3>4. CASE AdjustFunding(n)
        <4>1. /\ pc[n] = "fund" /\ UNCHANGED <<row, after, delta>>
              /\ \/ charge' = [charge EXCEPT ![t] = @ + delta[n]] /\ pc'[n] = "token"
                 \/ charge' = charge /\ pc'[n] = after[n]
          BY <1>0, <2>3, <3>4 DEF AdjustFunding, TypeOK
        <4>2. /\ charge[t] = Quota /\ delta[n] = 0 - Quota /\ status[t] # "NONE"
              /\ Saving(n) => SunoFails(n)
              /\ ~Saving(n) => t \notin Unfinished
              /\ Saving(n) <=> after[n] = "save"
          BY <2>3, <4>1 DEF SunoAccount, Billing, Owes, Saving
        <4>3. charge'[t] \in {0, Quota} /\ after[n] \in {"sweep", "poll", "save"}
              /\ (charge'[t] # Quota => pc'[n] = "token")
          BY <1>0, <4>1, <4>2 DEF TypeOK
        <4>4. (t \in Unfinished' <=> t \in Unfinished) /\ (SunoFails(n)' <=> SunoFails(n))
          BY <2>1, <4>1 DEF Unfinished, SunoFails
        <4>5. pc'[n] \in {"token", "save"} => (Saving(n)' <=> after[n] = "save")
          BY <4>1, <4>3 DEF Saving
        <4> QED BY <2>1, <2>3, <3>1, <4>1, <4>2, <4>3, <4>4, <4>5 DEF SunoAccount, Billing, Owes
      <3>5. CASE AdjustToken(n)
        <4>1. pc[n] = "token" /\ UNCHANGED <<row, after, delta, charge>> /\ pc'[n] = after[n]
          BY <1>0, <3>5 DEF AdjustToken, TypeOK
        <4>2. /\ status[t] # "NONE"
              /\ Saving(n) => SunoFails(n)
              /\ ~Saving(n) => t \notin Unfinished
              /\ Saving(n) <=> after[n] = "save"
          BY <2>3, <4>1 DEF SunoAccount, Billing, Saving
        <4>3. after[n] \in {"sweep", "poll", "save"}
          BY <1>0 DEF TypeOK
        <4>4. (t \in Unfinished' <=> t \in Unfinished) /\ (SunoFails(n)' <=> SunoFails(n))
          BY <2>1, <4>1 DEF Unfinished, SunoFails
        <4>5. pc'[n] = "save" => Saving(n)' /\ after[n] = "save"
          BY <4>1 DEF Saving
        <4> QED BY <2>1, <2>3, <3>1, <4>1, <4>2, <4>3, <4>4, <4>5 DEF SunoAccount, Billing, Owes
      <3> QED BY <1>6, <3>2, <3>3, <3>4, <3>5
    <2> QED BY <2>2, <2>3
  <1> QED BY <1>1, <1>2, <1>3, <1>4, <1>5, <1>6 DEF Work, Loop, Asks

(* The steps of the clients and of the world. *)
LEMMA SunoOthers ==
  ASSUME IInv, NEW n \in Nodes, NEW t \in SunoTasks, SunoAccount(n, t), NEW u \in Tasks,
         Client(u) \/ Environment(u), faults' = faults
  PROVE  SunoAccount(n, t)'
  <1>0. TypeOK /\ t \in Tasks /\ ClientMemory(u) /\ t \notin RealtimeTasks /\ ~Fault
    <2>1. TypeOK /\ ClientMemory(u) /\ t \in Tasks /\ t \notin RealtimeTasks /\ MaxFaults \in Nat
      BY Constants DEF IInv, PlainAccounting
    <2> QED BY <2>1 DEF TypeOK, Fault
  <1>1. UNCHANGED node
    BY DEF Client, ClientRead, ClientFetch, ClientWrite, Environment, Submit, UpstreamEnds,
           Expire, DeleteChannel
  <1>2. CASE Submit(u) /\ u = t
    <2>1. status[t] = "NONE" /\ status'[t] = "NOT_START" /\ charge'[t] = Quota /\ UNCHANGED complete
      BY <1>0, <1>2 DEF Submit, TypeOK
    <2>2. ~complete'[t] /\ t \notin Unfinished /\ ~Billing(n, t)
      BY <2>1 DEF SunoAccount, Unfinished
    <2>3. ~(t \in batch[n]) /\ ~(pc[n] = "update" /\ cur[n] = t)
      BY <2>2 DEF SunoAccount
    <2> QED BY <1>1, <2>1, <2>2, <2>3 DEF SunoAccount, Billing, Owes
  <1>3. CASE ~(Submit(u) /\ u = t)
    <2>1. status'[t] = status[t] /\ complete'[t] = complete[t] /\ charge'[t] = charge[t]
      <3>1. CASE Client(u)
        <4>1. u = t => cSnap[u] = "none" /\ cAns[u] = "none"
          BY <1>0 DEF ClientMemory
        <4> QED BY <1>0, <3>1, <4>1 DEF Client, ClientRead, ClientFetch, ClientWrite, WriteRow, TypeOK
      <3>2. CASE Environment(u)
        BY <1>0, <1>3, <3>2 DEF Environment, Submit, UpstreamEnds, Expire, DeleteChannel, TypeOK
      <3> QED BY <3>1, <3>2
    <2>2. t \in Unfinished' <=> t \in Unfinished
      BY <2>1 DEF Unfinished
    <2>3. /\ Billing(n, t)' <=> Billing(n, t)
          /\ Owes(n, t)' <=> Owes(n, t)
          /\ Saving(n)' <=> Saving(n)
          /\ SunoFails(n)' <=> SunoFails(n)
      BY <1>1 DEF Billing, Owes, Saving, SunoFails
    <2> QED BY <1>1, <2>1, <2>2, <2>3 DEF SunoAccount
  <1> QED BY <1>2, <1>3

(* Before anything is submitted. *)
LEMMA InitSInv == Init => SInv
  <1> SUFFICES ASSUME Init, NEW n \in Nodes, NEW t \in SunoTasks PROVE SunoAccount(n, t)
    BY InitIInv DEF SInv
  <1>1. /\ t \in Tasks /\ status[t] = "NONE" /\ charge[t] = 0 /\ complete[t] = FALSE
        /\ batch[n] = {} /\ pc[n] = "poll"
    BY Constants DEF Init
  <1> QED BY <1>1 DEF SunoAccount, Unfinished, Billing, Owes

(* It is kept: a run without a failure had none before. *)
LEMMA NextSInv == SInv /\ [Next]_vars => SInv'
  <1> SUFFICES ASSUME SInv, [Next]_vars PROVE SInv'
    OBVIOUS
  <1>1. IInv /\ IInv'
    BY NextIInv DEF SInv
  <1>2. ASSUME NEW n \in Nodes, Alone(n)', NEW t \in SunoTasks PROVE SunoAccount(n, t)'
    <2>1. faults \in 0 .. MaxFaults /\ MaxFaults \in Nat
      BY <1>1, Constants DEF IInv, TypeOK
    <2>2. faults' = faults \/ faults' = faults - 1
      <3>1. CASE UNCHANGED vars
        BY <3>1 DEF vars
      <3>2. ASSUME NEW m \in Nodes, Work(m) \/ Crash(m) PROVE faults' = faults \/ faults' = faults - 1
        BY <3>2 DEF Work, Loop, Asks, Crash, Fault, SweepRead, PollRead, ReadBatch, SweepTask, BulkFail, Fetch,
                    UpdateVideo, UpdateSuno, SaveSuno, AdjustFunding, AdjustToken
      <3>3. ASSUME NEW u \in Tasks, Client(u) \/ Environment(u)
            PROVE  faults' = faults \/ faults' = faults - 1
        BY <3>3 DEF Client, ClientRead, ClientFetch, ClientWrite, Environment, Submit, UpstreamEnds,
                    Expire, DeleteChannel, Fault
      <3> QED BY <3>1, <3>2, <3>3 DEF Next
    <2>3. faults' = faults /\ Alone(n) /\ Nodes = {n}
      BY <1>2, <2>1, <2>2 DEF Alone
    <2>4. SunoAccount(n, t)
      BY <2>3 DEF SInv
    <2>5. ASSUME NEW m \in Nodes, Work(m) \/ Crash(m) PROVE SunoAccount(n, t)'
      <3>1. m = n
        BY <2>3
      <3>2. ~Crash(n)
        BY <2>1, <2>3 DEF Crash, Fault
      <3> QED BY <1>1, <2>3, <2>4, <2>5, <3>1, <3>2, SunoWork
    <2>6. ASSUME NEW u \in Tasks, Client(u) \/ Environment(u) PROVE SunoAccount(n, t)'
      BY <1>1, <2>3, <2>4, <2>6, SunoOthers
    <2>7. CASE UNCHANGED vars
      <3>1. UNCHANGED <<row, node, bill>>
        BY <2>7 DEF vars
      <3> QED BY <2>4, <3>1 DEF SunoAccount, Unfinished, Billing, Owes, Saving, SunoFails
    <2> QED BY <2>5, <2>6, <2>7 DEF Next
  <1> QED BY <1>1, <1>2 DEF SInv

(* One process whose writes succeed never refunds a Suno task twice, though *)
(* it pays the refund before it saves the row: the batch no longer holds    *)
(* the task, and the save ends it before the next batch is read             *)
(* (updateSunoTasks).                                                       *)
THEOREM SunoTheorem == Spec => []SunoRefundedOnceAlone
  <1>1. SInv => SunoRefundedOnceAlone
    <2> SUFFICES ASSUME SInv, Cardinality(Nodes) = 1, faults = MaxFaults, NEW t \in SunoTasks
                 PROVE  charge[t] >= 0
      BY DEF SunoRefundedOnceAlone
    <2>1. PICK n : Nodes = {n}
      BY Constants, FS_Singleton
    <2>2. SunoAccount(n, t)
      BY <2>1 DEF SInv, Alone
    <2> QED BY <2>2, Constants DEF SunoAccount
  <1>2. Spec => []SInv
    BY InitSInv, NextSInv, PTL DEF Spec
  <1> QED BY <1>1, <1>2, PTL

=============================================================================
