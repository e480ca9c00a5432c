------------------------ MODULE BillingSessionProofs ------------------------
(***************************************************************************)
(* For any number of requests, any estimates, costs and fees, and any      *)
(* failure of the database: the fields of a session account for every unit *)
(* of quota its request has taken, and the billing of requests implements  *)
(* QuotaHold.                                                              *)
(***************************************************************************)
EXTENDS BillingSession, SumTheorems, TLAPS

Account(r) == SourceAccount(r) /\ FundAccount(r) /\ TokenAccount(r)

IInv == TypeOK /\ Accounting

(* The abbreviations every step needs: tuples of variables, sets of labels *)
(* and one-line readings of the state.                                     *)
USE DEF session, amounts, input, funds, tokens, posting, call, Goto,
        Unfunded, PreConsuming, HoldingToken, MidReserve, Serving,
        NoSession, BySubscription, Playground, Clean, Pending

-----------------------------------------------------------------------------
(* Facts the steps share *)

(* What the constants are, where the prover needs it. *)
LEMMA Constants ==
  /\ \A q \in Estimates : q \in Nat
  /\ \A q \in ActualQuotas : q \in Nat
  /\ \A q \in ReserveTargets : q \in Nat
  /\ ViolationFee \in Nat
  /\ InitWallet \in Int /\ InitToken \in Int
  BY BillingAssumption DEF BillingAssumption

(* The estimate in effect is a natural number. *)
LEMMA AmountIsNat ==
  ASSUME TypeOK, NEW r \in Requests
  PROVE  Amount(r) \in Nat
  <1>1. quota[r] \in Nat
    BY Constants DEF TypeOK
  <1> QED BY <1>1 DEF Amount

(* What the invariant says of one request. *)
LEMMA Local ==
  ASSUME IInv, NEW r \in Requests
  PROVE  /\ TypeOK /\ Amount(r) \in Nat
         /\ SourceAccount(r) /\ FundAccount(r) /\ TokenAccount(r)
  BY AmountIsNat DEF IInv, Accounting

(* Authentication takes nothing. *)
LEMMA ArriveKeeps ==
  ASSUME IInv, NEW r \in Requests, Arrive(r)
  PROVE  TypeOK' /\ Account(r)'
  <1>l. /\ TypeOK /\ Amount(r) \in Nat
        /\ SourceAccount(r) /\ FundAccount(r) /\ TokenAccount(r)
    BY Local
  <1>t. TypeOK'
    BY <1>l DEF TypeOK, Arrive, PcStates
  <1>1. SourceAccount(r)'
    BY <1>l DEF TypeOK, Arrive, SourceAccount
  <1>2. FundAccount(r)'
    BY <1>l DEF TypeOK, Arrive, SourceAccount, FundAccount
  <1>3. TokenAccount(r)'
    BY <1>l DEF TypeOK, Arrive, SourceAccount, TokenAccount
  <1> QED BY <1>t, <1>1, <1>2, <1>3 DEF Account

(* Choosing a funding source takes nothing. *)
LEMMA NewBillingSessionKeeps ==
  ASSUME IInv, NEW r \in Requests, NewBillingSession(r)
  PROVE  TypeOK' /\ Account(r)'
  <1>l. /\ TypeOK /\ Amount(r) \in Nat
        /\ SourceAccount(r) /\ FundAccount(r) /\ TokenAccount(r)
    BY Local
  <1>t. TypeOK'
    BY <1>l DEF TypeOK, NewBillingSession, PcStates
  <1>1. SourceAccount(r)'
    BY <1>l DEF TypeOK, NewBillingSession, SourceAccount
  <1>2. FundAccount(r)'
    BY <1>l DEF TypeOK, NewBillingSession, FundAccount
  <1>3. TokenAccount(r)'
    BY <1>l DEF TypeOK, NewBillingSession, TokenAccount
  <1> QED BY <1>t, <1>1, <1>2, <1>3 DEF Account

(* A wallet session starts with nothing taken. *)
LEMMA TryWalletOpensKeeps ==
  ASSUME IInv, NEW r \in Requests, TryWalletOpens(r)
  PROVE  TypeOK' /\ Account(r)'
  <1>l. /\ TypeOK /\ Amount(r) \in Nat
        /\ SourceAccount(r) /\ FundAccount(r) /\ TokenAccount(r)
    BY Local
  <1>t. TypeOK'
    BY <1>l DEF TypeOK, TryWalletOpens, NewSession, shouldTrust, PcStates, Sources
  <1>1. SourceAccount(r)'
    BY <1>l DEF TypeOK, TryWalletOpens, NewSession, SourceAccount
  <1>2. FundAccount(r)'
    BY <1>l DEF TypeOK, TryWalletOpens, NewSession, SourceAccount, FundAccount
  <1>3. TokenAccount(r)'
    BY <1>l DEF TypeOK, TryWalletOpens, NewSession, SourceAccount, TokenAccount,
       TokenShare
  <1> QED BY <1>t, <1>1, <1>2, <1>3 DEF Account

(* A refusal of the wallet takes nothing. *)
LEMMA TryWalletRefusesKeeps ==
  ASSUME IInv, NEW r \in Requests, TryWalletRefuses(r)
  PROVE  TypeOK' /\ Account(r)'
  <1>l. /\ TypeOK /\ Amount(r) \in Nat
        /\ SourceAccount(r) /\ FundAccount(r) /\ TokenAccount(r)
    BY Local
  <1>t. TypeOK'
    BY <1>l DEF TypeOK, TryWalletRefuses, PcStates
  <1>1. SourceAccount(r)'
    BY <1>l DEF TypeOK, TryWalletRefuses, SourceAccount
  <1>2. FundAccount(r)'
    BY <1>l DEF TypeOK, TryWalletRefuses, FundAccount
  <1>3. TokenAccount(r)'
    BY <1>l DEF TypeOK, TryWalletRefuses, TokenAccount
  <1> QED BY <1>t, <1>1, <1>2, <1>3 DEF Account

(* A subscription session starts with nothing taken. *)
LEMMA TrySubscriptionKeeps ==
  ASSUME IInv, NEW r \in Requests, TrySubscription(r)
  PROVE  TypeOK' /\ Account(r)'
  <1>l. /\ TypeOK /\ Amount(r) \in Nat
        /\ SourceAccount(r) /\ FundAccount(r) /\ TokenAccount(r)
    BY Local
  <1>t. TypeOK'
    BY <1>l DEF TypeOK, TrySubscription, NewSession, PcStates, Sources
  <1>1. SourceAccount(r)'
    BY <1>l DEF TypeOK, TrySubscription, NewSession, SourceAccount
  <1>2. FundAccount(r)'
    BY <1>l DEF TypeOK, TrySubscription, NewSession, SourceAccount, FundAccount
  <1>3. TokenAccount(r)'
    BY <1>l DEF TypeOK, TrySubscription, NewSession, SourceAccount, TokenAccount
  <1> QED BY <1>t, <1>1, <1>2, <1>3 DEF Account

(* A failed read ends the request with nothing taken. *)
LEMMA ReadFailsKeeps ==
  ASSUME IInv, NEW r \in Requests, ReadFails(r)
  PROVE  TypeOK' /\ Account(r)'
  <1>l. /\ TypeOK /\ Amount(r) \in Nat
        /\ SourceAccount(r) /\ FundAccount(r) /\ TokenAccount(r)
    BY Local
  <1>t. TypeOK'
    BY <1>l DEF TypeOK, ReadFails, NewSession, PcStates, Sources
  <1>1. SourceAccount(r)'
    BY <1>l DEF TypeOK, ReadFails, NewSession, SourceAccount
  <1>2. FundAccount(r)'
    BY <1>l DEF TypeOK, ReadFails, NewSession, SourceAccount, FundAccount
  <1>3. TokenAccount(r)'
    BY <1>l DEF TypeOK, ReadFails, NewSession, SourceAccount, TokenAccount
  <1> QED BY <1>t, <1>1, <1>2, <1>3 DEF Account

(* The check of the token takes nothing. *)
LEMMA CheckTokenKeeps ==
  ASSUME IInv, NEW r \in Requests, CheckToken(r)
  PROVE  TypeOK' /\ Account(r)'
  <1>l. /\ TypeOK /\ Amount(r) \in Nat
        /\ SourceAccount(r) /\ FundAccount(r) /\ TokenAccount(r)
    BY Local
  <1>t. TypeOK'
    <2>1. CASE TokenConsume(r) /\ Goto(r, "fundTake")
      BY <1>l, <2>1 DEF TypeOK, CheckToken, TokenConsume, PcStates
    <2>2. CASE UNCHANGED session /\ Goto(r, "tokenTake")
      BY <1>l, <2>2 DEF TypeOK, CheckToken, PcStates
    <2>3. CASE NewSession(r, "none", FALSE) /\ Goto(r, "rejected")
      BY <1>l, <2>3 DEF TypeOK, CheckToken, NewSession, PcStates, Sources
    <2> QED BY <2>1, <2>2, <2>3 DEF CheckToken
  <1>1. SourceAccount(r)'
    BY <1>l DEF TypeOK, CheckToken, NewSession, TokenConsume, SourceAccount
  <1>2. FundAccount(r)'
    BY <1>l DEF TypeOK, CheckToken, NewSession, TokenConsume, FundAccount
  <1>3. TokenAccount(r)'
    BY <1>l DEF TypeOK, CheckToken, NewSession, TokenConsume, SourceAccount,
       TokenAccount, TokenShare, Amount
  <1> QED BY <1>t, <1>1, <1>2, <1>3 DEF Account

(* The token is taken and tokenConsumed says so. *)
LEMMA TakeTokenKeeps ==
  ASSUME IInv, NEW r \in Requests, TakeToken(r)
  PROVE  TypeOK' /\ Account(r)'
  <1>l. /\ TypeOK /\ Amount(r) \in Nat
        /\ SourceAccount(r) /\ FundAccount(r) /\ TokenAccount(r)
    BY Local
  <1>t. TypeOK'
    <2>1. CASE TakeTok(r, Amount(r)) /\ TokenConsume(r) /\ Goto(r, "fundTake")
      BY <1>l, <2>1 DEF TypeOK, TakeToken, TakeTok, TokenConsume, PcStates
    <2>2. CASE NewSession(r, "none", FALSE) /\ Goto(r, "rejected") /\ UNCHANGED tokens
      BY <1>l, <2>2 DEF TypeOK, TakeToken, NewSession, PcStates, Sources
    <2> QED BY <2>1, <2>2 DEF TakeToken
  <1>1. SourceAccount(r)'
    BY <1>l DEF TypeOK, TakeToken, NewSession, TokenConsume, SourceAccount
  <1>2. FundAccount(r)'
    BY <1>l DEF TypeOK, TakeToken, NewSession, TokenConsume, FundAccount
  <1>3. TokenAccount(r)'
    <2>1. CASE TakeTok(r, Amount(r)) /\ TokenConsume(r) /\ Goto(r, "fundTake")
      <3>1. Amount(r)' = Amount(r)
        BY <2>1 DEF TakeToken, TokenConsume, Amount, BySubscription
      <3>2. ~Playground(r)
        BY <1>l DEF TakeToken, SourceAccount
      <3> QED BY <1>l, <2>1, <3>1, <3>2 DEF TypeOK, TakeToken, TakeTok, TokenConsume,
              SourceAccount, TokenAccount, TokenShare
    <2>2. CASE NewSession(r, "none", FALSE) /\ Goto(r, "rejected") /\ UNCHANGED tokens
      BY <1>l, <2>2 DEF TypeOK, TakeToken, NewSession, TokenAccount
    <2> QED BY <2>1, <2>2 DEF TakeToken
  <1> QED BY <1>t, <1>1, <1>2, <1>3 DEF Account

(* The funding is taken and the session says so. *)
LEMMA TakeFundingKeeps ==
  ASSUME IInv, NEW r \in Requests, TakeFunding(r)
  PROVE  TypeOK' /\ Account(r)'
  <1>l. /\ TypeOK /\ Amount(r) \in Nat
        /\ SourceAccount(r) /\ FundAccount(r) /\ TokenAccount(r)
    BY Local
  <1>t. TypeOK'
    BY <1>l DEF TypeOK, TakeFunding, Opened, TakeFund, MoveFunding, PcStates,
       FundAccount
  <1>1. SourceAccount(r)'
    BY <1>l DEF TypeOK, TakeFunding, Opened, SourceAccount
  <1>2. FundAccount(r)'
    BY <1>l DEF TypeOK, TakeFunding, Opened, TakeFund, SourceAccount, FundAccount
  <1>3. TokenAccount(r)'
    BY <1>l DEF TypeOK, TakeFunding, Opened, TokenAccount
  <1> QED BY <1>t, <1>1, <1>2, <1>3 DEF Account

(* A refusal of the funding source leaves the token's share for the rollback. *)
LEMMA FundingRefusedKeeps ==
  ASSUME IInv, NEW r \in Requests, FundingRefused(r)
  PROVE  TypeOK' /\ Account(r)'
  <1>l. /\ TypeOK /\ Amount(r) \in Nat
        /\ SourceAccount(r) /\ FundAccount(r) /\ TokenAccount(r)
    BY Local
  <1>t. TypeOK'
    BY <1>l DEF TypeOK, FundingRefused, PcStates
  <1>1. SourceAccount(r)'
    BY <1>l DEF TypeOK, FundingRefused, SourceAccount
  <1>2. FundAccount(r)'
    BY <1>l DEF TypeOK, FundingRefused, FundAccount
  <1>3. TokenAccount(r)'
    BY <1>l DEF TypeOK, FundingRefused, TokenAccount, Amount
  <1> QED BY <1>t, <1>1, <1>2, <1>3 DEF Account

(* The rollback returns what tokenConsumed says, unless it fails and is logged. *)
LEMMA RollbackTokenKeeps ==
  ASSUME IInv, NEW r \in Requests, RollbackToken(r)
  PROVE  TypeOK' /\ Account(r)'
  <1>l. /\ TypeOK /\ Amount(r) \in Nat
        /\ SourceAccount(r) /\ FundAccount(r) /\ TokenAccount(r)
    BY Local
  <1>t. TypeOK'
    BY <1>l DEF TypeOK, RollbackToken, NewSession, TakeTok, LogError, TokenRollback,
       PcStates, Sources, LoggedSteps
  <1>1. SourceAccount(r)'
    BY <1>l DEF TypeOK, RollbackToken, NewSession, SourceAccount
  <1>2. FundAccount(r)'
    BY <1>l DEF TypeOK, RollbackToken, NewSession, FundAccount
  <1>3. TokenAccount(r)'
    BY <1>l DEF TypeOK, RollbackToken, NewSession, TakeTok, LogError, TokenRollback,
       SourceAccount, TokenAccount, TokenShare
  <1> QED BY <1>t, <1>1, <1>2, <1>3 DEF Account

(* Reserve starts with a positive difference. *)
LEMMA ReserveKeeps ==
  ASSUME IInv, NEW r \in Requests, Reserve(r)
  PROVE  TypeOK' /\ Account(r)'
  <1>l. /\ TypeOK /\ Amount(r) \in Nat
        /\ SourceAccount(r) /\ FundAccount(r) /\ TokenAccount(r)
    BY Local
  <1>t. TypeOK'
    BY <1>l, Constants DEF TypeOK, Reserve, PcStates
  <1>1. SourceAccount(r)'
    BY <1>l, Constants DEF TypeOK, Reserve, SourceAccount, Delta
  <1>2. FundAccount(r)'
    BY <1>l DEF TypeOK, Reserve, SourceAccount, FundAccount
  <1>3. TokenAccount(r)'
    BY <1>l DEF TypeOK, Reserve, SourceAccount, TokenAccount
  <1> QED BY <1>t, <1>1, <1>2, <1>3 DEF Account

(* The reservation takes the difference from the funding source. *)
LEMMA ReserveFundingKeeps ==
  ASSUME IInv, NEW r \in Requests, ReserveFunding(r)
  PROVE  TypeOK' /\ Account(r)'
  <1>l. /\ TypeOK /\ Amount(r) \in Nat
        /\ SourceAccount(r) /\ FundAccount(r) /\ TokenAccount(r)
    BY Local
  <1>d. Delta(r) \in Nat /\ Delta(r) > 0
    BY <1>l DEF ReserveFunding, TypeOK, SourceAccount, Delta
  <1>t. TypeOK'
    <2>1. CASE TakeFund(r, Delta(r)) /\ FundingConsumes(r, Delta(r)) /\ Reserved(r) /\ Goto(r, "open")
      BY <1>l, <1>d, <2>1 DEF TypeOK, ReserveFunding, TakeFund, MoveFunding,
         FundingConsumes, Reserved, PcStates
    <2>2. CASE TakeFund(r, Delta(r)) /\ FundingConsumes(r, Delta(r)) /\ NotReserved /\ Goto(r, "resTokenCheck")
      BY <1>l, <1>d, <2>2 DEF TypeOK, ReserveFunding, TakeFund, MoveFunding,
         FundingConsumes, NotReserved, PcStates
    <2>3. CASE Goto(r, "open") /\ UNCHANGED <<funds, amounts>>
      BY <1>l, <2>3 DEF TypeOK, ReserveFunding, PcStates
    <2> QED BY <2>1, <2>2, <2>3 DEF ReserveFunding
  <1>1. SourceAccount(r)'
    BY <1>l DEF TypeOK, ReserveFunding, Reserved, NotReserved, Delta, SourceAccount
  <1>2. FundAccount(r)'
    BY <1>l DEF TypeOK, ReserveFunding, TakeFund, Reserved, NotReserved,
       FundingConsumes, Delta, SourceAccount, FundAccount
  <1>3. TokenAccount(r)'
    BY <1>l DEF TypeOK, ReserveFunding, Reserved, NotReserved, Delta, SourceAccount,
       TokenAccount, TokenShare
  <1> QED BY <1>t, <1>1, <1>2, <1>3 DEF Account

(* The check of the token takes nothing. *)
LEMMA ReserveTokenCheckKeeps ==
  ASSUME IInv, NEW r \in Requests, ReserveTokenCheck(r)
  PROVE  TypeOK' /\ Account(r)'
  <1>l. /\ TypeOK /\ Amount(r) \in Nat
        /\ SourceAccount(r) /\ FundAccount(r) /\ TokenAccount(r)
    BY Local
  <1>t. TypeOK'
    BY <1>l DEF TypeOK, ReserveTokenCheck, PcStates
  <1>1. SourceAccount(r)'
    BY <1>l DEF TypeOK, ReserveTokenCheck, Delta, SourceAccount
  <1>2. FundAccount(r)'
    BY <1>l DEF TypeOK, ReserveTokenCheck, Delta, FundAccount
  <1>3. TokenAccount(r)'
    BY <1>l DEF TypeOK, ReserveTokenCheck, TokenAccount
  <1> QED BY <1>t, <1>1, <1>2, <1>3 DEF Account

(* The reservation takes the difference from the token. *)
LEMMA ReserveTokenKeeps ==
  ASSUME IInv, NEW r \in Requests, ReserveToken(r)
  PROVE  TypeOK' /\ Account(r)'
  <1>l. /\ TypeOK /\ Amount(r) \in Nat
        /\ SourceAccount(r) /\ FundAccount(r) /\ TokenAccount(r)
    BY Local
  <1>t. TypeOK'
    <2>1. Delta(r) \in Nat
      BY <1>l DEF TypeOK, ReserveToken, SourceAccount, Delta
    <2>2. CASE TakeTok(r, Delta(r)) /\ Reserved(r) /\ Goto(r, "open")
      BY <1>l, <2>1, <2>2 DEF TypeOK, ReserveToken, TakeTok, Reserved, PcStates
    <2>3. CASE NotReserved /\ Goto(r, "resUndo") /\ UNCHANGED tokens
      BY <1>l, <2>3 DEF TypeOK, ReserveToken, NotReserved, PcStates
    <2> QED BY <2>2, <2>3 DEF ReserveToken
  <1>1. SourceAccount(r)'
    BY <1>l DEF TypeOK, ReserveToken, Reserved, NotReserved, Delta, SourceAccount
  <1>2. FundAccount(r)'
    BY <1>l DEF TypeOK, ReserveToken, Reserved, NotReserved, Delta, SourceAccount,
       FundAccount
  <1>3. TokenAccount(r)'
    <2>1. ~Playground(r) /\ ~NoSession(r)
      BY <1>l DEF ReserveToken, SourceAccount
    <2>2. CASE TakeTok(r, Delta(r)) /\ Reserved(r) /\ Goto(r, "open")
      BY <1>l, <2>1, <2>2 DEF TypeOK, ReserveToken, TakeTok, Reserved, SourceAccount,
         TokenAccount, TokenShare, Delta
    <2>3. CASE NotReserved /\ Goto(r, "resUndo") /\ UNCHANGED tokens
      BY <1>l, <2>1, <2>3 DEF TypeOK, ReserveToken, NotReserved, SourceAccount,
         TokenAccount, TokenShare
    <2> QED BY <2>2, <2>3 DEF ReserveToken
  <1> QED BY <1>t, <1>1, <1>2, <1>3 DEF Account

(* The rollback of a reservation returns the difference, unless it is logged. *)
LEMMA rollbackFundingReserveKeeps ==
  ASSUME IInv, NEW r \in Requests, rollbackFundingReserve(r)
  PROVE  TypeOK' /\ Account(r)'
  <1>l. /\ TypeOK /\ Amount(r) \in Nat
        /\ SourceAccount(r) /\ FundAccount(r) /\ TokenAccount(r)
    BY Local
  <1>d. /\ Delta(r) \in Nat
        /\ src[r] = "wallet" => consumed[r] >= Delta(r)
    BY <1>l DEF rollbackFundingReserve, TypeOK, SourceAccount, FundAccount, Delta
  <1>t. TypeOK'
    <2>1. src[r] \in {"wallet", "subscription"}
      BY <1>l DEF rollbackFundingReserve, TypeOK, SourceAccount, Sources
    <2>2. CASE TakeFund(r, 0 - Delta(r)) /\ FundingConsumes(r, 0 - Delta(r)) /\ UNCHANGED logged
      BY <1>l, <1>d, <2>1, <2>2 DEF TypeOK, rollbackFundingReserve, TakeFund,
         MoveFunding,
         FundingConsumes, NotReserved, PcStates
    <2>3. CASE LogError(r, "reserveUndo") /\ UNCHANGED <<funds, consumed>>
      BY <1>l, <2>3 DEF TypeOK, rollbackFundingReserve, LogError, NotReserved,
         PcStates, LoggedSteps
    <2> QED BY <2>2, <2>3 DEF rollbackFundingReserve
  <1>1. SourceAccount(r)'
    BY <1>l DEF TypeOK, rollbackFundingReserve, NotReserved, SourceAccount
  <1>2. FundAccount(r)'
    BY <1>l DEF TypeOK, rollbackFundingReserve, TakeFund, LogError, FundingConsumes,
       NotReserved, Delta, SourceAccount, FundAccount
  <1>3. TokenAccount(r)'
    BY <1>l DEF TypeOK, rollbackFundingReserve, LogError, NotReserved, TokenAccount
  <1> QED BY <1>t, <1>1, <1>2, <1>3 DEF Account

(* Settling a request whose hold is its cost takes nothing more. *)
LEMMA SettleKeeps ==
  ASSUME IInv, NEW r \in Requests, Settle(r)
  PROVE  TypeOK' /\ Account(r)'
  <1>l. /\ TypeOK /\ Amount(r) \in Nat
        /\ SourceAccount(r) /\ FundAccount(r) /\ TokenAccount(r)
    BY Local
  <1>t. TypeOK'
    <2>1. PICK actual \in ActualQuotas : arg' = [arg EXCEPT ![r] = actual]
      BY DEF Settle
    <2>2. arg' \in [Requests -> Nat]
      BY <1>l, <2>1, Constants DEF TypeOK
    <2>3. \/ /\ settled' = [settled EXCEPT ![r] = TRUE]
             /\ pc' = [pc EXCEPT ![r] = "done"]
          \/ settled' = settled /\ pc' = [pc EXCEPT ![r] = "setFund"]
      BY DEF Settle
    <2>4. settled' \in [Requests -> BOOLEAN] /\ pc' \in [Requests -> PcStates]
      BY <1>l, <2>3 DEF TypeOK, PcStates
    <2> QED BY <1>l, <2>2, <2>4 DEF TypeOK, Settle
  <1>1. SourceAccount(r)'
    BY <1>l DEF TypeOK, Settle, SourceAccount
  <1>2. FundAccount(r)'
    BY <1>l DEF TypeOK, Settle, SourceAccount, FundAccount
  <1>3. TokenAccount(r)'
    BY <1>l DEF TypeOK, Settle, SourceAccount, TokenAccount
  <1> QED BY <1>t, <1>1, <1>2, <1>3 DEF Account

(* The funding source pays the difference to the real cost. *)
LEMMA SettleFundingKeeps ==
  ASSUME IInv, NEW r \in Requests, SettleFunding(r)
  PROVE  TypeOK' /\ Account(r)'
  <1>l. /\ TypeOK /\ Amount(r) \in Nat
        /\ SourceAccount(r) /\ FundAccount(r) /\ TokenAccount(r)
    BY Local
  <1>d. Delta(r) \in Int
    BY <1>l DEF TypeOK, Delta
  <1>t. TypeOK'
    <2>1. CASE /\ TakeFund(r, Delta(r)) /\ UNCHANGED logged
               /\ fundingSettled' = [fundingSettled EXCEPT ![r] = TRUE]
               /\ settled' = [settled EXCEPT ![r] = Playground(r)]
               /\ Goto(r, IF Playground(r) THEN "done" ELSE "setToken")
      BY <1>l, <1>d, <2>1 DEF TypeOK, SettleFunding, TakeFund, MoveFunding, PcStates
    <2>2. CASE /\ LogError(r, "settleFunding") /\ Goto(r, "done")
               /\ UNCHANGED <<funds, fundingSettled, settled>>
      BY <1>l, <2>2 DEF TypeOK, SettleFunding, LogError, PcStates, LoggedSteps
    <2> QED BY <2>1, <2>2 DEF SettleFunding
  <1>1. SourceAccount(r)'
    <2>1. CASE /\ UNCHANGED logged
               /\ fundingSettled' = [fundingSettled EXCEPT ![r] = TRUE]
               /\ settled' = [settled EXCEPT ![r] = Playground(r)]
               /\ Goto(r, IF Playground(r) THEN "done" ELSE "setToken")
      BY <1>l, <2>1 DEF TypeOK, SettleFunding, SourceAccount
    <2>2. CASE Goto(r, "done") /\ UNCHANGED <<fundingSettled, settled>>
      BY <1>l, <2>2 DEF TypeOK, SettleFunding, SourceAccount
    <2> QED BY <2>1, <2>2 DEF SettleFunding
  <1>2. FundAccount(r)'
    <2>1. CASE /\ TakeFund(r, Delta(r)) /\ UNCHANGED logged
               /\ settled' = [settled EXCEPT ![r] = Playground(r)]
               /\ Goto(r, IF Playground(r) THEN "done" ELSE "setToken")
      <3>1. /\ ~NoSession(r) /\ fundTaken[r] \in Int /\ preConsumedQuota[r] \in Int
            /\ fundTaken[r] >= preConsumedQuota[r] /\ arg[r] \in Int
            /\ Clean(r, {"reserveUndo"}) => fundTaken[r] = preConsumedQuota[r]
        BY <1>l DEF TypeOK, SettleFunding, SourceAccount, FundAccount
      <3>2. /\ fundTaken'[r] >= arg[r]
            /\ Clean(r, {"reserveUndo"}) => fundTaken'[r] = arg[r]
        BY <1>l, <2>1, <3>1 DEF TypeOK, TakeFund, Delta
      <3>3. pc'[r] \in {"done", "setToken"} /\ (pc'[r] = "done" => settled'[r])
        BY <1>l, <2>1 DEF TypeOK
      <3> QED BY <1>l, <2>1, <3>1, <3>2, <3>3 DEF TypeOK, SettleFunding, FundAccount
    <2>2. CASE /\ LogError(r, "settleFunding") /\ Goto(r, "done")
               /\ UNCHANGED <<funds, fundingSettled, settled>>
      BY <1>l, <2>2 DEF TypeOK, SettleFunding, LogError, FundAccount
    <2> QED BY <2>1, <2>2 DEF SettleFunding
  <1>3. TokenAccount(r)'
    BY <1>l DEF TypeOK, SettleFunding, LogError, SourceAccount, TokenAccount, TokenShare
  <1> QED BY <1>t, <1>1, <1>2, <1>3 DEF Account

(* The token pays the difference to the real cost. *)
LEMMA SettleTokenKeeps ==
  ASSUME IInv, NEW r \in Requests, SettleToken(r)
  PROVE  TypeOK' /\ Account(r)'
  <1>l. /\ TypeOK /\ Amount(r) \in Nat
        /\ SourceAccount(r) /\ FundAccount(r) /\ TokenAccount(r)
    BY Local
  <1>t. TypeOK'
    BY <1>l DEF TypeOK, SettleToken, TakeTok, LogError, Delta, PcStates, LoggedSteps
  <1>1. SourceAccount(r)'
    BY <1>l DEF TypeOK, SettleToken, SourceAccount
  <1>2. FundAccount(r)'
    BY <1>l DEF TypeOK, SettleToken, LogError, FundAccount
  <1>3. TokenAccount(r)'
    <2>1. ~Playground(r) /\ ~NoSession(r)
      BY <1>l DEF SettleToken, SourceAccount
    <2>2. CASE TakeTok(r, Delta(r)) /\ UNCHANGED logged
      BY <1>l, <2>1, <2>2 DEF TypeOK, SettleToken, TakeTok, TokenAccount,
         TokenShare, Delta
    <2>3. CASE LogError(r, "settleToken") /\ UNCHANGED tokens
      BY <1>l, <2>1, <2>3 DEF TypeOK, SettleToken, LogError, TokenAccount
    <2> QED BY <2>2, <2>3 DEF SettleToken
  <1> QED BY <1>t, <1>1, <1>2, <1>3 DEF Account

(* A free model has no session. *)
LEMMA SettleFreeKeeps ==
  ASSUME IInv, NEW r \in Requests, SettleFree(r)
  PROVE  TypeOK' /\ Account(r)'
  <1>l. /\ TypeOK /\ Amount(r) \in Nat
        /\ SourceAccount(r) /\ FundAccount(r) /\ TokenAccount(r)
    BY Local
  <1>t. TypeOK'
    BY <1>l, Constants DEF TypeOK, SettleFree, PostConsumeQuota, PcStates
  <1>1. SourceAccount(r)'
    BY <1>l DEF TypeOK, SettleFree, SourceAccount
  <1>2. FundAccount(r)'
    BY <1>l DEF TypeOK, SettleFree, FundAccount
  <1>3. TokenAccount(r)'
    BY <1>l DEF TypeOK, SettleFree, FundAccount, TokenAccount, TokenShare
  <1> QED BY <1>t, <1>1, <1>2, <1>3 DEF Account

(* Refund starts exactly when something was taken. *)
LEMMA FailKeeps ==
  ASSUME IInv, NEW r \in Requests, Fail(r)
  PROVE  TypeOK' /\ Account(r)'
  <1>l. /\ TypeOK /\ Amount(r) \in Nat
        /\ SourceAccount(r) /\ FundAccount(r) /\ TokenAccount(r)
    BY Local
  <1>t. TypeOK'
    <2>1. PICK fee \in Nat : PostConsumeQuota(r, fee)
      BY Constants DEF Fail
    <2>2. postPc' \in [Requests -> {"idle", "fund", "token", "done"}] /\ postAmount' \in [Requests -> Nat]
      BY <1>l, <2>1 DEF TypeOK, PostConsumeQuota
    <2> QED BY <1>l, <2>2 DEF TypeOK, Fail, PcStates
  <1>1. SourceAccount(r)'
    BY <1>l DEF TypeOK, Fail, SourceAccount
  <1>2. FundAccount(r)'
    BY <1>l DEF TypeOK, Fail, needsRefund, SourceAccount, FundAccount, TokenAccount
  <1>3. TokenAccount(r)'
    BY <1>l DEF TypeOK, Fail, needsRefund, SourceAccount, TokenAccount, TokenShare
  <1> QED BY <1>t, <1>1, <1>2, <1>3 DEF Account

(* The funding source gets back what the session consumed. *)
LEMMA RefundFundingKeeps ==
  ASSUME IInv, NEW r \in Requests, RefundFunding(r)
  PROVE  TypeOK' /\ Account(r)'
  <1>l. /\ TypeOK /\ Amount(r) \in Nat
        /\ SourceAccount(r) /\ FundAccount(r) /\ TokenAccount(r)
    BY Local
  <1>t. TypeOK'
    BY <1>l DEF TypeOK, RefundFunding, TakeFund, MoveFunding, LogError, PcStates,
       LoggedSteps, FundAccount
  <1>1. SourceAccount(r)'
    BY <1>l DEF TypeOK, RefundFunding, SourceAccount
  <1>2. FundAccount(r)'
    <2>1. /\ src[r] \in {"wallet", "subscription"} /\ ~settled[r]
          /\ fundTaken[r] \in Int /\ consumed[r] \in Nat /\ extraReserved[r] \in Nat
          /\ fundTaken[r] >= preConsumedQuota[r]
          /\ Clean(r, {"reserveUndo"}) => fundTaken[r] = preConsumedQuota[r]
          /\ src[r] = "wallet" => consumed[r] = fundTaken[r]
          /\ src[r] = "subscription" => preConsumedQuota[r] = consumed[r] + extraReserved[r]
      BY <1>l DEF TypeOK, RefundFunding, SourceAccount, FundAccount, Sources
    <2>2. pc'[r] = IF BySubscription(r) /\ extraReserved[r] > 0 THEN "refExtra" ELSE "refToken"
      BY <1>l DEF TypeOK, RefundFunding
    <2>3. CASE TakeFund(r, 0 - consumed[r]) /\ UNCHANGED logged
      <3>1. fundTaken'[r] = fundTaken[r] - consumed[r]
        BY <1>l, <2>1, <2>3 DEF TypeOK, TakeFund
      <3> QED BY <2>1, <2>2, <2>3, <3>1 DEF RefundFunding, FundAccount
    <2>4. CASE LogError(r, "refundFunding") /\ UNCHANGED funds
      <3>1. "refundFunding" \in logged'[r]
        BY <1>l, <2>4 DEF TypeOK, LogError
      <3> QED BY <2>1, <2>2, <2>4, <3>1 DEF RefundFunding, FundAccount
    <2> QED BY <2>3, <2>4 DEF RefundFunding
  <1>3. TokenAccount(r)'
    BY <1>l DEF TypeOK, RefundFunding, LogError, TokenAccount
  <1> QED BY <1>t, <1>1, <1>2, <1>3 DEF Account

(* The subscription gets back what was reserved on top. *)
LEMMA RefundExtraKeeps ==
  ASSUME IInv, NEW r \in Requests, RefundExtra(r)
  PROVE  TypeOK' /\ Account(r)'
  <1>l. /\ TypeOK /\ Amount(r) \in Nat
        /\ SourceAccount(r) /\ FundAccount(r) /\ TokenAccount(r)
    BY Local
  <1>t. TypeOK'
    BY <1>l, Constants DEF TypeOK, RefundExtra, TakeFund, MoveFunding, LogError,
       PcStates, LoggedSteps, FundAccount
  <1>1. SourceAccount(r)'
    BY <1>l DEF TypeOK, RefundExtra, SourceAccount
  <1>2. FundAccount(r)'
    <2>1. /\ ~NoSession(r) /\ ~settled[r]
          /\ fundTaken[r] \in Int /\ extraReserved[r] \in Int
          /\ fundTaken[r] >= extraReserved[r]
          /\ Clean(r, {"reserveUndo", "refundFunding"}) => fundTaken[r] = extraReserved[r]
      BY <1>l DEF TypeOK, RefundExtra, SourceAccount, FundAccount
    <2>2. CASE TakeFund(r, 0 - extraReserved[r]) /\ UNCHANGED logged
      BY <1>l, <2>1, <2>2 DEF TypeOK, RefundExtra, TakeFund, FundAccount
    <2>3. CASE LogError(r, "refundExtra") /\ UNCHANGED funds
      <3>1. fundTaken'[r] >= 0 /\ "refundExtra" \in logged'[r]
        BY <1>l, <2>1, <2>3 DEF TypeOK, LogError
      <3>2. pc'[r] = "refToken" /\ ~NoSession(r)' /\ ~settled'[r]
        BY <1>l, <2>1 DEF TypeOK, RefundExtra
      <3> QED BY <3>1, <3>2 DEF FundAccount
    <2> QED BY <2>2, <2>3 DEF RefundExtra
  <1>3. TokenAccount(r)'
    BY <1>l DEF TypeOK, RefundExtra, LogError, TokenAccount
  <1> QED BY <1>t, <1>1, <1>2, <1>3 DEF Account

(* The token gets back what was consumed. *)
LEMMA RefundTokenKeeps ==
  ASSUME IInv, NEW r \in Requests, RefundToken(r)
  PROVE  TypeOK' /\ Account(r)'
  <1>l. /\ TypeOK /\ Amount(r) \in Nat
        /\ SourceAccount(r) /\ FundAccount(r) /\ TokenAccount(r)
    BY Local
  <1>t. TypeOK'
    BY <1>l DEF TypeOK, RefundToken, TakeTok, LogError, TokenRollback, PcStates,
       LoggedSteps
  <1>1. SourceAccount(r)'
    BY <1>l DEF TypeOK, RefundToken, SourceAccount
  <1>2. FundAccount(r)'
    BY <1>l DEF TypeOK, RefundToken, LogError, FundAccount
  <1>3. TokenAccount(r)'
    <2>1. /\ ~NoSession(r) /\ ~settled[r]
          /\ Clean(r, {"tokenUndo"}) => tokenTaken[r] = TokenRollback(r)
      BY <1>l DEF RefundToken, SourceAccount, TokenAccount, TokenShare, TokenRollback
    <2>2. CASE TakeTok(r, 0 - TokenRollback(r)) /\ UNCHANGED logged
      <3>1. TokenRollback(r) \in Int /\ tokenTaken[r] \in Int
        BY <1>l DEF TypeOK, TokenRollback
      <3>2. Clean(r, {"tokenUndo"})' => tokenTaken'[r] = 0
        BY <1>l, <2>1, <2>2, <3>1 DEF TypeOK, TakeTok
      <3> QED BY <1>l, <2>1, <2>2, <3>2 DEF TypeOK, RefundToken, TokenAccount
    <2>3. CASE LogError(r, "refundToken") /\ UNCHANGED tokens
      BY <1>l, <2>1, <2>3 DEF TypeOK, RefundToken, LogError, TokenAccount
    <2> QED BY <2>2, <2>3 DEF RefundToken
  <1> QED BY <1>t, <1>1, <1>2, <1>3 DEF Account

(* PostConsumeQuota does not touch the session. *)
LEMMA PostFundingKeeps ==
  ASSUME IInv, NEW r \in Requests, PostFunding(r)
  PROVE  TypeOK' /\ Account(r)'
  <1>l. /\ TypeOK /\ Amount(r) \in Nat
        /\ SourceAccount(r) /\ FundAccount(r) /\ TokenAccount(r)
    BY Local
  <1>t. TypeOK'
    BY <1>l DEF TypeOK, PostFunding, MoveFunding
  <1>1. SourceAccount(r)'
    BY <1>l DEF TypeOK, PostFunding, Delta, SourceAccount
  <1>2. FundAccount(r)'
    BY <1>l DEF TypeOK, PostFunding, Delta, FundAccount
  <1>3. TokenAccount(r)'
    BY <1>l DEF TypeOK, PostFunding, TokenAccount, Amount
  <1> QED BY <1>t, <1>1, <1>2, <1>3 DEF Account

(* PostConsumeQuota does not touch the session. *)
LEMMA PostTokenKeeps ==
  ASSUME IInv, NEW r \in Requests, PostToken(r)
  PROVE  TypeOK' /\ Account(r)'
  <1>l. /\ TypeOK /\ Amount(r) \in Nat
        /\ SourceAccount(r) /\ FundAccount(r) /\ TokenAccount(r)
    BY Local
  <1>t. TypeOK'
    BY <1>l DEF TypeOK, PostToken
  <1>1. SourceAccount(r)'
    BY <1>l DEF TypeOK, PostToken, Delta, SourceAccount
  <1>2. FundAccount(r)'
    BY <1>l DEF TypeOK, PostToken, Delta, FundAccount
  <1>3. TokenAccount(r)'
    BY <1>l DEF TypeOK, PostToken, TokenAccount, Amount
  <1> QED BY <1>t, <1>1, <1>2, <1>3 DEF Account

-----------------------------------------------------------------------------
(* A step belongs to one request and leaves the others alone               *)

(* A step of the goroutines of request r. *)
Step(r) == Opening(r) \/ Reserving(r) \/ Closing(r) \/ Posting(r) \/ Environment(r)

USE DEF Opening, Reserving, Closing, Posting, Environment

(* Nothing that the accounts of request q speak of changes. *)
SameFor(q) ==
  /\ pc'[q] = pc[q] /\ src'[q] = src[q] /\ quota'[q] = quota[q] /\ arg'[q] = arg[q]
  /\ preConsumedQuota'[q] = preConsumedQuota[q] /\ tokenConsumed'[q] = tokenConsumed[q]
  /\ consumed'[q] = consumed[q] /\ extraReserved'[q] = extraReserved[q]
  /\ fundingSettled'[q] = fundingSettled[q] /\ settled'[q] = settled[q]
  /\ refunded'[q] = refunded[q] /\ logged'[q] = logged[q]
  /\ fundTaken'[q] = fundTaken[q] /\ tokenTaken'[q] = tokenTaken[q]

(* The accounts of a request depend on nothing else. *)
LEMMA SameAccount ==
  ASSUME NEW q \in Requests, SameFor(q), Account(q)
  PROVE  Account(q)'
  BY DEF SameFor, Account, SourceAccount, FundAccount, TokenAccount, TokenShare,
         Delta, Amount

(* A step of one request changes nothing of another: sessions are not      *)
(* shared, only the balances are.                                           *)
LEMMA StepIsLocal ==
  ASSUME TypeOK, NEW r \in Requests, NEW q \in Requests \ {r}, Step(r)
  PROVE  SameFor(q)
  <1> USE DEF TypeOK
  <1>1. CASE Arrive(r)
    BY <1>1 DEF SameFor, Arrive
  <1>2. CASE NewBillingSession(r)
    BY <1>2 DEF SameFor, NewBillingSession
  <1>3. CASE TryWalletOpens(r)
    BY <1>3 DEF SameFor, TryWalletOpens, NewSession
  <1>4. CASE TryWalletRefuses(r)
    BY <1>4 DEF SameFor, TryWalletRefuses
  <1>5. CASE TrySubscription(r)
    BY <1>5 DEF SameFor, TrySubscription, NewSession
  <1>6. CASE ReadFails(r)
    BY <1>6 DEF SameFor, ReadFails, NewSession
  <1>7. CASE CheckToken(r)
    BY <1>7 DEF SameFor, CheckToken, NewSession, TokenConsume
  <1>8. CASE TakeToken(r)
    BY <1>8 DEF SameFor, TakeToken, NewSession, TokenConsume, TakeTok
  <1>9. CASE TakeFunding(r)
    BY <1>9 DEF SameFor, TakeFunding, Opened, TakeFund
  <1>10. CASE FundingRefused(r)
    BY <1>10 DEF SameFor, FundingRefused
  <1>11. CASE RollbackToken(r)
    BY <1>11 DEF SameFor, RollbackToken, NewSession, TakeTok, LogError
  <1>12. CASE Reserve(r)
    BY <1>12 DEF SameFor, Reserve
  <1>13. CASE ReserveFunding(r)
    BY <1>13 DEF SameFor, ReserveFunding, TakeFund, Reserved, NotReserved,
       FundingConsumes
  <1>14. CASE ReserveTokenCheck(r)
    BY <1>14 DEF SameFor, ReserveTokenCheck
  <1>15. CASE ReserveToken(r)
    BY <1>15 DEF SameFor, ReserveToken, TakeTok, Reserved, NotReserved
  <1>16. CASE rollbackFundingReserve(r)
    BY <1>16 DEF SameFor, rollbackFundingReserve, TakeFund, LogError, NotReserved,
       FundingConsumes
  <1>17. CASE Settle(r)
    BY <1>17 DEF SameFor, Settle
  <1>18. CASE SettleFunding(r)
    BY <1>18 DEF SameFor, SettleFunding, TakeFund, LogError
  <1>19. CASE SettleToken(r)
    BY <1>19 DEF SameFor, SettleToken, TakeTok, LogError
  <1>20. CASE SettleFree(r)
    BY <1>20 DEF SameFor, SettleFree
  <1>21. CASE Fail(r)
    BY <1>21 DEF SameFor, Fail
  <1>22. CASE RefundFunding(r)
    BY <1>22 DEF SameFor, RefundFunding, TakeFund, LogError
  <1>23. CASE RefundExtra(r)
    BY <1>23 DEF SameFor, RefundExtra, TakeFund, LogError
  <1>24. CASE RefundToken(r)
    BY <1>24 DEF SameFor, RefundToken, TakeTok, LogError
  <1>25. CASE PostFunding(r)
    BY <1>25 DEF SameFor, PostFunding
  <1>26. CASE PostToken(r)
    BY <1>26 DEF SameFor, PostToken
  <1> QED BY <1>1, <1>2, <1>3, <1>4, <1>5, <1>6, <1>7, <1>8, <1>9, <1>10, <1>11,
     <1>12, <1>13, <1>14, <1>15, <1>16, <1>17, <1>18, <1>19, <1>20, <1>21, <1>22,
     <1>23, <1>24, <1>25, <1>26 DEF Step

(* A step of a request keeps the types and that request's own accounts. *)
LEMMA StepKeeps ==
  ASSUME IInv, NEW r \in Requests, Step(r)
  PROVE  TypeOK' /\ Account(r)'
  <1>1. CASE Arrive(r)
    BY <1>1, ArriveKeeps
  <1>2. CASE NewBillingSession(r)
    BY <1>2, NewBillingSessionKeeps
  <1>3. CASE TryWalletOpens(r)
    BY <1>3, TryWalletOpensKeeps
  <1>4. CASE TryWalletRefuses(r)
    BY <1>4, TryWalletRefusesKeeps
  <1>5. CASE TrySubscription(r)
    BY <1>5, TrySubscriptionKeeps
  <1>6. CASE ReadFails(r)
    BY <1>6, ReadFailsKeeps
  <1>7. CASE CheckToken(r)
    BY <1>7, CheckTokenKeeps
  <1>8. CASE TakeToken(r)
    BY <1>8, TakeTokenKeeps
  <1>9. CASE TakeFunding(r)
    BY <1>9, TakeFundingKeeps
  <1>10. CASE FundingRefused(r)
    BY <1>10, FundingRefusedKeeps
  <1>11. CASE RollbackToken(r)
    BY <1>11, RollbackTokenKeeps
  <1>12. CASE Reserve(r)
    BY <1>12, ReserveKeeps
  <1>13. CASE ReserveFunding(r)
    BY <1>13, ReserveFundingKeeps
  <1>14. CASE ReserveTokenCheck(r)
    BY <1>14, ReserveTokenCheckKeeps
  <1>15. CASE ReserveToken(r)
    BY <1>15, ReserveTokenKeeps
  <1>16. CASE rollbackFundingReserve(r)
    BY <1>16, rollbackFundingReserveKeeps
  <1>17. CASE Settle(r)
    BY <1>17, SettleKeeps
  <1>18. CASE SettleFunding(r)
    BY <1>18, SettleFundingKeeps
  <1>19. CASE SettleToken(r)
    BY <1>19, SettleTokenKeeps
  <1>20. CASE SettleFree(r)
    BY <1>20, SettleFreeKeeps
  <1>21. CASE Fail(r)
    BY <1>21, FailKeeps
  <1>22. CASE RefundFunding(r)
    BY <1>22, RefundFundingKeeps
  <1>23. CASE RefundExtra(r)
    BY <1>23, RefundExtraKeeps
  <1>24. CASE RefundToken(r)
    BY <1>24, RefundTokenKeeps
  <1>25. CASE PostFunding(r)
    BY <1>25, PostFundingKeeps
  <1>26. CASE PostToken(r)
    BY <1>26, PostTokenKeeps
  <1> QED BY <1>1, <1>2, <1>3, <1>4, <1>5, <1>6, <1>7, <1>8, <1>9, <1>10, <1>11,
     <1>12, <1>13, <1>14, <1>15, <1>16, <1>17, <1>18, <1>19, <1>20, <1>21, <1>22,
     <1>23, <1>24, <1>25, <1>26 DEF Step

(* The balances start full and nobody has taken anything. *)
LEMMA InitInv == Init => IInv
  <1> SUFFICES ASSUME Init PROVE IInv
    OBVIOUS
  <1>1. TypeOK
    BY Constants DEF Init, TypeOK, PcStates, Sources, LoggedSteps
  <1>2. ASSUME NEW r \in Requests
        PROVE  SourceAccount(r) /\ FundAccount(r) /\ TokenAccount(r)
    BY DEF Init, SourceAccount, FundAccount, TokenAccount
  <1> QED BY <1>1, <1>2 DEF IInv, Accounting

(* Every step of the system keeps the types and the accounts. *)
LEMMA NextKeeps == IInv /\ [Next]_vars => IInv'
  <1> SUFFICES ASSUME IInv, [Next]_vars PROVE IInv'
    OBVIOUS
  <1>0. TypeOK /\ \A q \in Requests : Account(q)
    BY DEF IInv, Accounting, Account
  <1>1. ASSUME NEW r \in Requests, Step(r)
        PROVE  IInv'
    <2>1. TypeOK' /\ Account(r)'
      BY <1>1, StepKeeps
    <2>2. ASSUME NEW q \in Requests \ {r}
          PROVE  Account(q)'
      BY <1>0, <1>1, <2>2, StepIsLocal, SameAccount
    <2>3. \A q \in Requests : Account(q)'
      BY <2>1, <2>2
    <2> QED BY <2>1, <2>3 DEF IInv, Accounting, Account
  <1>2. ASSUME SubscriptionEnds \/ UNCHANGED vars
        PROVE  IInv'
    <2>1. TypeOK'
      BY <1>0, <1>2 DEF SubscriptionEnds, vars, TypeOK
    <2>2. ASSUME NEW q \in Requests
          PROVE  Account(q)'
      <3>1. SameFor(q)
        BY <1>2 DEF SubscriptionEnds, vars, SameFor
      <3> QED BY <1>0, <3>1, SameAccount
    <2> QED BY <2>1, <2>2 DEF IInv, Accounting, Account
  <1> QED BY <1>1, <1>2 DEF Next, Step, Terminating

-----------------------------------------------------------------------------
(* The balances                                                            *)

(* What a request has cost the wallet, and what the subscription. *)
Taken(r) == fundTaken[r] + posted[r]
WalletShare(r) == IF BySubscription(r) THEN 0 ELSE Taken(r)
SubShare(r) == IF BySubscription(r) THEN Taken(r) ELSE 0
walletShares == [r \in Requests |-> WalletShare(r)]
subShares == [r \in Requests |-> SubShare(r)]

(* PostConsumeQuota is called once, after the session, and only free       *)
(* requests get there without a session; a session of the wallet was opened *)
(* with the estimate in it.                                                *)
PostAccount(r) ==
  /\ postPc[r] # "idle" => pc[r] \in {"done", "refFund", "refExtra", "refToken", "failed"}
  /\ postPc[r] \in {"idle", "fund"} => posted[r] = 0
  /\ r \in FreeRequests => NoSession(r) /\ pc[r] \in {"idle", "open", "done", "failed"}
  /\ NoSession(r) /\ r \notin FreeRequests => pc[r] \in Unfunded
  /\ pc[r] = "done" /\ ~settled[r] /\ ~NoSession(r) => "settleFunding" \in logged[r]
  /\ src[r] = "wallet" => quota[r] <= InitWallet

(* Each balance has moved by the shares of the requests. *)
BalancesFollow ==
  /\ wallet = InitWallet - SumFunctionOnSet(walletShares, Requests)
  /\ subUsed = SumFunctionOnSet(subShares, Requests)

BInv == IInv /\ (\A r \in Requests : PostAccount(r)) /\ BalancesFollow

(* A request never holds less than nothing. *)
LEMMA TakenIsNat ==
  ASSUME IInv, NEW r \in Requests
  PROVE  fundTaken[r] \in Nat /\ posted[r] \in Nat /\ Taken(r) \in Nat
  <1>1. TypeOK /\ SourceAccount(r) /\ FundAccount(r)
    BY Local
  <1>2. fundTaken[r] >= 0
    BY <1>1 DEF TypeOK, SourceAccount, FundAccount, PcStates, Delta
  <1>3. fundTaken[r] \in Int /\ posted[r] \in Nat
    BY <1>1 DEF TypeOK
  <1> QED BY <1>2, <1>3 DEF Taken

(* The shares are natural numbers. *)
LEMMA SharesAreNat ==
  ASSUME IInv, NEW r \in Requests
  PROVE  walletShares[r] \in Nat /\ subShares[r] \in Nat
  BY TakenIsNat DEF walletShares, subShares, WalletShare, SubShare

(* The wallet is never above its start: nobody is given more than was taken.*)
LEMMA WalletAtMost ==
  ASSUME BInv
  PROVE  wallet <= InitWallet
  <1> DEFINE none == [r \in Requests |-> 0]
  <1>1. IsFiniteSet(Requests) /\ InitWallet \in Int
    BY BillingAssumption DEF BillingAssumption
  <1>2. \A r \in Requests : none[r] \in Int /\ walletShares[r] \in Int /\ none[r] <= walletShares[r]
    BY SharesAreNat DEF BInv
  <1>3. SumFunctionOnSet(none, Requests) = SumFunctionOnSet(none, {})
    BY <1>1, SumWithoutZeros
  <1>4. SumFunctionOnSet(none, Requests) = 0
    BY <1>3, SumEmpty
  <1> HIDE DEF none
  <1>5. 0 <= SumFunctionOnSet(walletShares, Requests)
    BY <1>1, <1>2, <1>4, SumOrdered
  <1>6. SumFunctionOnSet(walletShares, Requests) \in Int
    BY <1>1, <1>2, SumTakeOut
  <1> QED BY <1>1, <1>5, <1>6 DEF BInv, BalancesFollow

(* A step of a request keeps what is known of its PostConsumeQuota call. *)
LEMMA StepPosts ==
  ASSUME IInv, NEW r \in Requests, PostAccount(r), wallet <= InitWallet, Step(r)
  PROVE  PostAccount(r)'
  <1>a. TypeOK /\ SourceAccount(r) /\ FundAccount(r) /\ wallet \in Int /\ InitWallet \in Int
    BY Local, Constants DEF TypeOK
  <1>b. quota[r] \in Nat
    BY Constants DEF IInv, TypeOK
  <1> USE DEF TypeOK, SourceAccount, PostAccount, Sources
  <1>1. CASE Arrive(r)
    BY <1>1, <1>a, <1>b DEF Arrive
  <1>2. CASE NewBillingSession(r)
    BY <1>2, <1>a, <1>b DEF NewBillingSession
  <1>3. CASE TryWalletOpens(r)
    BY <1>3, <1>a, <1>b DEF TryWalletOpens, NewSession, WalletSuffices
  <1>4. CASE TryWalletRefuses(r)
    BY <1>4, <1>a, <1>b DEF TryWalletRefuses
  <1>5. CASE TrySubscription(r)
    BY <1>5, <1>a, <1>b DEF TrySubscription, NewSession
  <1>6. CASE ReadFails(r)
    BY <1>6, <1>a, <1>b DEF ReadFails, NewSession
  <1>7. CASE CheckToken(r)
    BY <1>7, <1>a, <1>b DEF CheckToken, NewSession, TokenConsume
  <1>8. CASE TakeToken(r)
    BY <1>8, <1>a, <1>b DEF TakeToken, NewSession, TokenConsume, TakeTok
  <1>9. CASE TakeFunding(r)
    BY <1>9, <1>a, <1>b DEF TakeFunding, Opened, TakeFund, MoveFunding
  <1>10. CASE FundingRefused(r)
    BY <1>10, <1>a, <1>b DEF FundingRefused
  <1>11. CASE RollbackToken(r)
    BY <1>11, <1>a, <1>b DEF RollbackToken, NewSession, TakeTok, LogError
  <1>12. CASE Reserve(r)
    BY <1>12, <1>a, <1>b DEF Reserve
  <1>13. CASE ReserveFunding(r)
    BY <1>13, <1>a, <1>b DEF ReserveFunding, TakeFund, MoveFunding
  <1>14. CASE ReserveTokenCheck(r)
    BY <1>14, <1>a, <1>b DEF ReserveTokenCheck
  <1>15. CASE ReserveToken(r)
    BY <1>15, <1>a, <1>b DEF ReserveToken, TakeTok
  <1>16. CASE rollbackFundingReserve(r)
    BY <1>16, <1>a, <1>b DEF rollbackFundingReserve, TakeFund, MoveFunding, LogError
  <1>17. CASE Settle(r)
    BY <1>17, <1>a, <1>b DEF Settle
  <1>18. CASE SettleFunding(r)
    <2>1. CASE fundingSettled'[r] /\ UNCHANGED logged
      BY <1>18, <1>a, <1>b, <2>1 DEF SettleFunding
    <2>2. CASE LogError(r, "settleFunding") /\ pc'[r] = "done" /\ UNCHANGED settled
      <3>1. "settleFunding" \in logged'[r] /\ pc'[r] = "done"
        BY <1>a, <2>2 DEF LogError
      <3> QED BY <1>18, <1>a, <1>b, <3>1 DEF SettleFunding
    <2> QED BY <1>18, <1>a, <2>1, <2>2 DEF SettleFunding
  <1>19. CASE SettleToken(r)
    BY <1>19, <1>a, <1>b DEF SettleToken, TakeTok, LogError
  <1>20. CASE SettleFree(r)
    BY <1>20, <1>a, <1>b DEF SettleFree, PostConsumeQuota
  <1>21. CASE Fail(r)
    BY <1>21, <1>a, <1>b DEF Fail, PostConsumeQuota, needsRefund
  <1>22. CASE RefundFunding(r)
    BY <1>22, <1>a, <1>b DEF RefundFunding, TakeFund, MoveFunding, LogError
  <1>23. CASE RefundExtra(r)
    BY <1>23, <1>a, <1>b DEF RefundExtra, TakeFund, MoveFunding, LogError
  <1>24. CASE RefundToken(r)
    BY <1>24, <1>a, <1>b DEF RefundToken, TakeTok, LogError
  <1>25. CASE PostFunding(r)
    BY <1>25, <1>a, <1>b DEF PostFunding, MoveFunding
  <1>26. CASE PostToken(r)
    BY <1>26, <1>a, <1>b DEF PostToken
  <1> QED BY <1>1, <1>2, <1>3, <1>4, <1>5, <1>6, <1>7, <1>8, <1>9, <1>10, <1>11,
     <1>12, <1>13, <1>14, <1>15, <1>16, <1>17, <1>18, <1>19, <1>20, <1>21, <1>22,
     <1>23, <1>24, <1>25, <1>26 DEF Step

(* A movement of the funding source is entered in the request's share. *)
LEMMA TakeMovesShares ==
  ASSUME TypeOK, NEW r \in Requests, NEW n \in Int, TakeFund(r, n),
         src'[r] = src[r], posted'[r] = posted[r]
  PROVE  /\ wallet' = wallet + WalletShare(r) - WalletShare(r)'
         /\ subUsed' = subUsed + SubShare(r)' - SubShare(r)
  <1>1. /\ fundTaken[r] \in Int /\ posted[r] \in Int /\ wallet \in Int /\ subUsed \in Int
        /\ fundTaken'[r] = fundTaken[r] + n
    BY DEF TypeOK, TakeFund
  <1>2. CASE src[r] = "subscription"
    BY <1>1, <1>2 DEF TakeFund, MoveFunding, WalletShare, SubShare, Taken
  <1>3. CASE src[r] # "subscription"
    BY <1>1, <1>3 DEF TakeFund, MoveFunding, WalletShare, SubShare, Taken
  <1> QED BY <1>2, <1>3

(* A step of a request moves the balances by what its shares change. *)
LEMMA StepBalances ==
  ASSUME IInv, NEW r \in Requests, PostAccount(r), Step(r)
  PROVE  /\ wallet' = wallet + WalletShare(r) - WalletShare(r)'
         /\ subUsed' = subUsed + SubShare(r)' - SubShare(r)
  <1>a. TypeOK /\ SourceAccount(r) /\ FundAccount(r) /\ wallet \in Int /\ subUsed \in Int
    BY Local DEF TypeOK
  <1>b. fundTaken[r] \in Int /\ posted[r] \in Int
    BY <1>a DEF TypeOK
  <1>c. /\ Amount(r) \in Int /\ Delta(r) \in Int /\ 0 - Delta(r) \in Int
        /\ 0 - consumed[r] \in Int /\ 0 - extraReserved[r] \in Int
    BY <1>a, Local DEF TypeOK, Delta
  <1> USE DEF TypeOK, PostAccount, SourceAccount, FundAccount, WalletShare, SubShare, Taken, Sources
  <1>1. CASE Arrive(r)
    BY <1>1, <1>a, <1>b DEF Arrive
  <1>2. CASE NewBillingSession(r)
    BY <1>2, <1>a, <1>b DEF NewBillingSession
  <1>3. CASE TryWalletOpens(r)
    <2>1. fundTaken[r] = 0 /\ posted[r] = 0
      BY <1>3, <1>a DEF TryWalletOpens
    <2>2. UNCHANGED <<wallet, subUsed, fundTaken, posted>>
      BY <1>3 DEF TryWalletOpens
    <2> QED BY <1>a, <2>1, <2>2
  <1>4. CASE TryWalletRefuses(r)
    BY <1>4, <1>a, <1>b DEF TryWalletRefuses
  <1>5. CASE TrySubscription(r)
    <2>1. fundTaken[r] = 0 /\ posted[r] = 0
      BY <1>5, <1>a DEF TrySubscription
    <2>2. UNCHANGED <<wallet, subUsed, fundTaken, posted>>
      BY <1>5 DEF TrySubscription
    <2> QED BY <1>a, <2>1, <2>2
  <1>6. CASE ReadFails(r)
    <2>1. fundTaken[r] = 0 /\ posted[r] = 0
      BY <1>6, <1>a DEF ReadFails
    <2>2. UNCHANGED <<wallet, subUsed, fundTaken, posted>>
      BY <1>6 DEF ReadFails
    <2> QED BY <1>a, <2>1, <2>2
  <1>7. CASE CheckToken(r)
    BY <1>7, <1>a, <1>b DEF CheckToken, NewSession, TokenConsume
  <1>8. CASE TakeToken(r)
    BY <1>8, <1>a, <1>b DEF TakeToken, NewSession, TokenConsume, TakeTok
  <1>9. CASE TakeFunding(r)
    <2>1. TakeFund(r, Amount(r)) /\ src'[r] = src[r] /\ posted'[r] = posted[r]
      BY <1>9 DEF TakeFunding, Opened
    <2> QED BY <1>a, <1>c, <2>1, TakeMovesShares
  <1>10. CASE FundingRefused(r)
    BY <1>10, <1>a, <1>b DEF FundingRefused
  <1>11. CASE RollbackToken(r)
    BY <1>11, <1>a, <1>b DEF RollbackToken, NewSession, TakeTok, LogError
  <1>12. CASE Reserve(r)
    BY <1>12, <1>a, <1>b DEF Reserve
  <1>13. CASE ReserveFunding(r)
    <2>1. src'[r] = src[r] /\ posted'[r] = posted[r]
      BY <1>13 DEF ReserveFunding
    <2>2. CASE TakeFund(r, Delta(r))
      BY <1>a, <1>c, <2>1, <2>2, TakeMovesShares
    <2>3. CASE UNCHANGED funds
      BY <1>a, <1>b, <2>1, <2>3 DEF WalletShare, SubShare, Taken
    <2> QED BY <1>13, <2>2, <2>3 DEF ReserveFunding
  <1>14. CASE ReserveTokenCheck(r)
    BY <1>14, <1>a, <1>b DEF ReserveTokenCheck
  <1>15. CASE ReserveToken(r)
    BY <1>15, <1>a, <1>b DEF ReserveToken, TakeTok
  <1>16. CASE rollbackFundingReserve(r)
    <2>1. src'[r] = src[r] /\ posted'[r] = posted[r]
      BY <1>16 DEF rollbackFundingReserve
    <2>2. CASE TakeFund(r, 0 - Delta(r))
      BY <1>a, <1>c, <2>1, <2>2, TakeMovesShares
    <2>3. CASE UNCHANGED funds
      BY <1>a, <1>b, <2>1, <2>3 DEF WalletShare, SubShare, Taken
    <2> QED BY <1>16, <2>2, <2>3 DEF rollbackFundingReserve
  <1>17. CASE Settle(r)
    BY <1>17, <1>a, <1>b DEF Settle
  <1>18. CASE SettleFunding(r)
    <2>1. src'[r] = src[r] /\ posted'[r] = posted[r]
      BY <1>18 DEF SettleFunding
    <2>2. CASE TakeFund(r, Delta(r))
      BY <1>a, <1>c, <2>1, <2>2, TakeMovesShares
    <2>3. CASE UNCHANGED funds
      BY <1>a, <1>b, <2>1, <2>3 DEF WalletShare, SubShare, Taken
    <2> QED BY <1>18, <2>2, <2>3 DEF SettleFunding
  <1>19. CASE SettleToken(r)
    BY <1>19, <1>a, <1>b DEF SettleToken, TakeTok, LogError
  <1>20. CASE SettleFree(r)
    BY <1>20, <1>a, <1>b DEF SettleFree, PostConsumeQuota
  <1>21. CASE Fail(r)
    BY <1>21, <1>a, <1>b DEF Fail, PostConsumeQuota, needsRefund
  <1>22. CASE RefundFunding(r)
    <2>1. src'[r] = src[r] /\ posted'[r] = posted[r]
      BY <1>22 DEF RefundFunding
    <2>2. CASE TakeFund(r, 0 - consumed[r])
      BY <1>a, <1>c, <2>1, <2>2, TakeMovesShares
    <2>3. CASE UNCHANGED funds
      BY <1>a, <1>b, <2>1, <2>3 DEF WalletShare, SubShare, Taken
    <2> QED BY <1>22, <2>2, <2>3 DEF RefundFunding
  <1>23. CASE RefundExtra(r)
    <2>1. src'[r] = src[r] /\ posted'[r] = posted[r]
      BY <1>23 DEF RefundExtra
    <2>2. CASE TakeFund(r, 0 - extraReserved[r])
      BY <1>a, <1>c, <2>1, <2>2, TakeMovesShares
    <2>3. CASE UNCHANGED funds
      BY <1>a, <1>b, <2>1, <2>3 DEF WalletShare, SubShare, Taken
    <2> QED BY <1>23, <2>2, <2>3 DEF RefundExtra
  <1>24. CASE RefundToken(r)
    BY <1>24, <1>a, <1>b DEF RefundToken, TakeTok, LogError
  <1>25. CASE PostFunding(r)
    BY <1>25, <1>a, <1>b DEF PostFunding, MoveFunding
  <1>26. CASE PostToken(r)
    BY <1>26, <1>a, <1>b DEF PostToken
  <1> QED BY <1>1, <1>2, <1>3, <1>4, <1>5, <1>6, <1>7, <1>8, <1>9, <1>10, <1>11,
     <1>12, <1>13, <1>14, <1>15, <1>16, <1>17, <1>18, <1>19, <1>20, <1>21, <1>22,
     <1>23, <1>24, <1>25, <1>26 DEF Step

(* The PostConsumeQuota call of another request is left alone too. *)
LEMMA PostIsLocal ==
  ASSUME TypeOK, NEW r \in Requests, NEW q \in Requests \ {r}, Step(r)
  PROVE  postPc'[q] = postPc[q] /\ posted'[q] = posted[q]
  <1>1. CASE SettleFree(r)
    BY <1>1 DEF TypeOK, SettleFree, PostConsumeQuota
  <1>2. CASE Fail(r)
    BY <1>2 DEF TypeOK, Fail, PostConsumeQuota
  <1>3. CASE PostFunding(r) \/ PostToken(r)
    BY <1>3 DEF TypeOK, PostFunding, PostToken
  <1>4. CASE ~SettleFree(r) /\ ~Fail(r) /\ ~PostFunding(r) /\ ~PostToken(r)
    <2>1. UNCHANGED <<postPc, posted>>
      BY <1>4 DEF Step, NewBillingSession, TryWalletOpens, TryWalletRefuses, TrySubscription,
         ReadFails, CheckToken, TakeToken, TakeFunding, FundingRefused, RollbackToken,
         Arrive, Reserve, Settle, ReserveFunding, ReserveTokenCheck, ReserveToken,
         rollbackFundingReserve, SettleFunding, SettleToken, RefundFunding, RefundExtra,
         RefundToken
    <2> QED BY <2>1
  <1> QED BY <1>1, <1>2, <1>3, <1>4

(* Whose shares and whose call do not change, keeps them. *)
LEMMA SamePost ==
  ASSUME NEW q \in Requests, SameFor(q), postPc'[q] = postPc[q], posted'[q] = posted[q]
  PROVE  /\ PostAccount(q) => PostAccount(q)'
         /\ WalletShare(q)' = WalletShare(q) /\ SubShare(q)' = SubShare(q)
  BY DEF SameFor, PostAccount, WalletShare, SubShare, Taken

(* Nothing has been taken at the start. *)
LEMMA InitBalances == Init => BInv
  <1> SUFFICES ASSUME Init PROVE BInv
    OBVIOUS
  <1>1. IInv
    BY InitInv
  <1>2. \A r \in Requests : PostAccount(r)
    BY DEF Init, PostAccount
  <1>3. IsFiniteSet(Requests) /\ InitWallet \in Int
    BY BillingAssumption DEF BillingAssumption
  <1>4. \A r \in Requests : walletShares[r] = 0 /\ subShares[r] = 0
    BY DEF Init, walletShares, subShares, WalletShare, SubShare, Taken
  <1>5. /\ SumFunctionOnSet(walletShares, Requests) = SumFunctionOnSet(walletShares, {})
        /\ SumFunctionOnSet(subShares, Requests) = SumFunctionOnSet(subShares, {})
    BY <1>3, <1>4, SumWithoutZeros
  <1>6. /\ SumFunctionOnSet(walletShares, Requests) = 0
        /\ SumFunctionOnSet(subShares, Requests) = 0
    BY <1>5, SumEmpty
  <1>7. BalancesFollow
    BY <1>3, <1>6 DEF Init, BalancesFollow
  <1> QED BY <1>1, <1>2, <1>7 DEF BInv

(* Every step keeps the balances in line with the shares. *)
LEMMA NextBalances == BInv /\ [Next]_vars => BInv'
  <1> SUFFICES ASSUME BInv, [Next]_vars PROVE BInv'
    OBVIOUS
  <1>0. IInv /\ TypeOK /\ (\A q \in Requests : PostAccount(q)) /\ wallet <= InitWallet
    BY WalletAtMost DEF BInv, IInv
  <1>1. IInv'
    BY <1>0, NextKeeps
  <1>f. IsFiniteSet(Requests) /\ InitWallet \in Int
    BY BillingAssumption DEF BillingAssumption
  <1>n. \A q \in Requests : /\ walletShares[q] \in Int /\ subShares[q] \in Int
                            /\ walletShares'[q] \in Int /\ subShares'[q] \in Int
    <2>1. \A q \in Requests : walletShares[q] \in Int /\ subShares[q] \in Int
      BY <1>0, SharesAreNat
    <2>2. \A q \in Requests : fundTaken'[q] \in Int /\ posted'[q] \in Int
      BY <1>1 DEF IInv, TypeOK
    <2>3. \A q \in Requests : walletShares'[q] \in Int /\ subShares'[q] \in Int
      BY <2>2 DEF walletShares, subShares, WalletShare, SubShare, Taken
    <2> QED BY <2>1, <2>3
  <1>2. ASSUME NEW r \in Requests, Step(r)
        PROVE  BInv'
    <2>1. \A q \in Requests \ {r} : SameFor(q) /\ postPc'[q] = postPc[q] /\ posted'[q] = posted[q]
      BY <1>0, <1>2, StepIsLocal, PostIsLocal
    <2>2. \A q \in Requests \ {r} :
            PostAccount(q)' /\ WalletShare(q)' = WalletShare(q) /\ SubShare(q)' = SubShare(q)
      BY <1>0, <2>1, SamePost
    <2>3. PostAccount(r)'
      BY <1>0, <1>2, StepPosts
    <2>4. /\ wallet' = wallet + walletShares[r] - walletShares'[r]
          /\ subUsed' = subUsed + subShares'[r] - subShares[r]
      BY <1>0, <1>2, StepBalances DEF walletShares, subShares
    <2>5. /\ \A q \in Requests \ {r} : walletShares'[q] = walletShares[q]
          /\ \A q \in Requests \ {r} : subShares'[q] = subShares[q]
      BY <2>2 DEF walletShares, subShares
    <2>6. SumFunctionOnSet(walletShares', Requests) =
            SumFunctionOnSet(walletShares, Requests) + walletShares'[r] - walletShares[r]
      BY <1>f, <1>n, <2>5, SumChange
    <2>7. SumFunctionOnSet(subShares', Requests) =
            SumFunctionOnSet(subShares, Requests) + subShares'[r] - subShares[r]
      BY <1>f, <1>n, <2>5, SumChange
    <2>8. /\ SumFunctionOnSet(walletShares, Requests) \in Int
          /\ SumFunctionOnSet(subShares, Requests) \in Int
      BY <1>f, <1>n, SumTakeOut
    <2>9. /\ wallet = InitWallet - SumFunctionOnSet(walletShares, Requests)
          /\ subUsed = SumFunctionOnSet(subShares, Requests)
      BY DEF BInv, BalancesFollow
    <2>10. /\ wallet' = InitWallet - SumFunctionOnSet(walletShares', Requests)
           /\ subUsed' = SumFunctionOnSet(subShares', Requests)
      BY <1>f, <1>n, <2>4, <2>6, <2>7, <2>8, <2>9
    <2> QED BY <1>1, <2>2, <2>3, <2>10 DEF BInv, BalancesFollow
  <1>3. ASSUME SubscriptionEnds \/ UNCHANGED vars
        PROVE  BInv'
    <2>1. \A q \in Requests : SameFor(q) /\ postPc'[q] = postPc[q] /\ posted'[q] = posted[q]
      BY <1>3 DEF SubscriptionEnds, vars, SameFor
    <2>2. \A q \in Requests :
            PostAccount(q)' /\ WalletShare(q)' = WalletShare(q) /\ SubShare(q)' = SubShare(q)
      BY <1>0, <2>1, SamePost
    <2>3. walletShares' = walletShares /\ subShares' = subShares
      BY <2>2 DEF walletShares, subShares
    <2>4. wallet' = wallet /\ subUsed' = subUsed
      BY <1>3 DEF SubscriptionEnds, vars
    <2> QED BY <1>1, <2>2, <2>3, <2>4 DEF BInv, BalancesFollow
  <1> QED BY <1>2, <1>3 DEF Next, Step, Terminating

-----------------------------------------------------------------------------
(* The theorems *)

(* Type correctness: in particular preConsumedQuota, tokenConsumed,        *)
(* consumed and extraReserved of a session never go below zero, whatever    *)
(* Reserve, its rollback and Settle do (service/billing_session.go).        *)
THEOREM TypeCorrect == Spec => []TypeOK
  <1>1. Spec => []IInv
    BY InitInv, NextKeeps, PTL DEF Spec
  <1>2. IInv => TypeOK
    BY DEF IInv
  <1> QED BY <1>1, <1>2, PTL

(* The accounts hold in every reachable state: the fields of a              *)
(* BillingSession say exactly what its request has taken.                   *)
THEOREM AccountingHolds == Spec => []Accounting
  <1>1. Spec => []IInv
    BY InitInv, NextKeeps, PTL DEF Spec
  <1>2. IInv => Accounting
    BY DEF IInv
  <1> QED BY <1>1, <1>2, PTL

(* A settled request has paid its real cost, no more and no less, from its *)
(* funding source and from its token (Settle).                              *)
THEOREM SettledChargeTheorem == Spec => []SettledChargeIsActual
  <1>1. Accounting => SettledChargeIsActual
    BY DEF Accounting, SettledChargeIsActual, FundAccount, TokenAccount, TokenShare
  <1> QED BY <1>1, AccountingHolds, PTL

(* A request that was rejected, or failed and was refunded, has cost       *)
(* nothing (preConsume, Refund).                                            *)
THEOREM FailedRequestTheorem == Spec => []FailedRequestIsFree
  <1>1. Accounting => FailedRequestIsFree
    BY DEF Accounting, FailedRequestIsFree, SourceAccount, FundAccount, TokenAccount
  <1> QED BY <1>1, AccountingHolds, PTL

(* The token and the funding source agree about every finished request     *)
(* (Settle, Refund, preConsume).                                            *)
THEOREM TokenTracksTheorem == Spec => []TokenTracksFunding
  <1>1. TypeOK /\ Accounting => TokenTracksFunding
    BY DEF TypeOK, Accounting, TokenTracksFunding, SourceAccount, FundAccount,
           TokenAccount, TokenShare, LoggedSteps
  <1> QED BY <1>1, TypeCorrect, AccountingHolds, PTL

(* When every request has finished and no write was lost, wallet and       *)
(* subscription have moved by the settled costs and the fees, for any number *)
(* of concurrent requests (Settle, Refund, PostConsumeQuota).               *)
THEOREM QuietBalancesTheorem == Spec => []QuietBalancesAddUp
  <1>1. Spec => []BInv
    BY InitBalances, NextBalances, PTL DEF Spec
  <1>2. BInv => QuietBalancesAddUp
    <2> SUFFICES ASSUME BInv, \A r \in Requests : Finished(r) /\ logged[r] = {}
                 PROVE  LET bySub == {r \in Requests : BySubscription(r)}
                            cost == [r \in Requests |-> Cost(r)]
                        IN /\ wallet = InitWallet - SumFunctionOnSet(cost, Requests \ bySub)
                           /\ subUsed = SumFunctionOnSet(cost, bySub)
      BY DEF QuietBalancesAddUp
    <2> DEFINE bySub == {r \in Requests : src[r] = "subscription"}
               cost == [r \in Requests |-> Cost(r)]
    <2>1. ASSUME NEW r \in Requests PROVE fundTaken[r] = IF settled[r] THEN arg[r] ELSE 0
      <3>1. SourceAccount(r) /\ FundAccount(r) /\ PostAccount(r) /\ Finished(r) /\ logged[r] = {}
        BY Local DEF BInv
      <3> QED BY <3>1 DEF SourceAccount, FundAccount, PostAccount, Finished
    <2>2. \A r \in Requests : cost[r] = Taken(r) /\ Taken(r) \in Nat
      <3>1. ASSUME NEW r \in Requests PROVE cost[r] = Taken(r) /\ Taken(r) \in Nat
        <4>1. fundTaken[r] \in Nat /\ posted[r] \in Nat /\ Taken(r) \in Nat
          BY TakenIsNat DEF BInv
        <4>2. Cost(r) = posted[r] + fundTaken[r]
          BY <2>1 DEF Cost
        <4> QED BY <4>1, <4>2 DEF Taken
      <3> QED BY <3>1
    <2>3. IsFiniteSet(Requests) /\ IsFiniteSet(bySub) /\ IsFiniteSet(Requests \ bySub)
      <3>1. IsFiniteSet(Requests) /\ bySub \in SUBSET Requests /\ Requests \ bySub \in SUBSET Requests
        BY BillingAssumption DEF BillingAssumption
      <3> QED BY <3>1, FS_Subset
    <2>4. /\ \A r \in Requests : walletShares[r] \in Int /\ subShares[r] \in Int
          /\ \A r \in Requests \ bySub : walletShares[r] = cost[r] /\ subShares[r] = 0
          /\ \A r \in bySub : walletShares[r] = 0 /\ subShares[r] = cost[r]
      BY <2>2 DEF walletShares, subShares, WalletShare, SubShare
    <2> HIDE DEF cost
    <2>5. SumFunctionOnSet(walletShares, Requests) = SumFunctionOnSet(walletShares, Requests \ bySub)
      BY <2>3, <2>4, SumWithoutZeros
    <2>6. SumFunctionOnSet(subShares, Requests) = SumFunctionOnSet(subShares, bySub)
      BY <2>3, <2>4, SumWithoutZeros
    <2>7. SumFunctionOnSet(cost, Requests \ bySub) = SumFunctionOnSet(walletShares, Requests \ bySub)
      BY <2>3, <2>4, SumSame
    <2>8. SumFunctionOnSet(cost, bySub) = SumFunctionOnSet(subShares, bySub)
      BY <2>3, <2>4, SumSame
    <2> QED BY <2>5, <2>6, <2>7, <2>8 DEF BInv, BalancesFollow, cost
  <1> QED BY <1>1, <1>2, PTL

(* However the checks and decreases of concurrent requests interleave, the *)
(* wallet is overdrawn by no more than an estimate for each session but one *)
(* and what requests cost beyond their estimates (tryWallet).               *)
THEOREM OverdraftTheorem == Spec => []OverdraftBounded
  <1>1. Spec => []BInv
    BY InitBalances, NextBalances, PTL DEF Spec
  <1>2. BInv => OverdraftBounded
    <2> DEFINE Priced == Requests \ FreeRequests
               surplus == [r \in Requests |-> Surplus(r)]
               net == [r \in Requests |-> Surplus(r) - WalletShare(r)]
               debt == [r \in Requests |-> IF src[r] = "wallet" THEN 0 - quota[r] ELSE 0]
               m == Max(Estimates)
    <2> SUFFICES ASSUME BInv, InitWallet >= 0, Requests # FreeRequests
                 PROVE  wallet + SumFunctionOnSet(surplus, Requests)
                          >= 0 - (Cardinality(Priced) - 1) * m
      BY DEF OverdraftBounded
    <2>1. /\ IsFiniteSet(Requests) /\ FreeRequests \subseteq Requests
          /\ IsFiniteSet(Estimates) /\ Estimates \subseteq Nat /\ InitWallet \in Nat
      BY BillingAssumption DEF BillingAssumption
    <2>2. \A r \in Requests : quota[r] \in Estimates
      BY DEF BInv, IInv, TypeOK
    <2>3. PICK z \in Priced : TRUE
      BY <2>1
    <2>4. m \in Nat /\ \A q \in Estimates : q <= m
      <3>1. Estimates # {} /\ Estimates \subseteq Int
        BY <2>1, <2>2, <2>3
      <3> QED BY <2>1, <3>1, MaxIsGreatest
    <2>5. ASSUME NEW r \in Requests
          PROVE  /\ surplus[r] \in Int /\ walletShares[r] \in Int /\ net[r] \in Int
                 /\ net[r] = surplus[r] + (0 - walletShares[r])
                 /\ debt[r] \in Int /\ debt[r] <= net[r] /\ debt[r] >= 0 - m
                 /\ r \in FreeRequests => debt[r] = 0
                 /\ debt[r] >= 0 - InitWallet
      <3>1. fundTaken[r] \in Nat /\ posted[r] \in Nat /\ quota[r] \in Nat /\ quota[r] <= m
        BY <2>1, <2>2, <2>4, TakenIsNat DEF BInv
      <3>2. PostAccount(r) /\ FundAccount(r) /\ src[r] \in Sources
        BY Local DEF BInv, TypeOK
      <3>3. NoSession(r) /\ r \notin FreeRequests => fundTaken[r] = 0 /\ posted[r] = 0
        BY <3>2, Local DEF PostAccount, FundAccount, BInv, TypeOK
      <3>4. surplus[r] \in Nat /\ walletShares[r] \in Nat
        BY <3>1 DEF Surplus, WalletShare, walletShares, Taken
      <3>5. net[r] = surplus[r] - walletShares[r] /\ debt[r] = IF src[r] = "wallet" THEN 0 - quota[r] ELSE 0
        BY DEF walletShares
      <3>6. CASE src[r] = "wallet"
        <4>1. r \notin FreeRequests /\ quota[r] <= InitWallet
          BY <3>2, <3>6 DEF PostAccount
        <4>2. surplus[r] - walletShares[r] >= 0 - quota[r]
          BY <3>1, <3>6, <4>1 DEF Surplus, WalletShare, walletShares, Taken
        <4> QED BY ONLY <2>1, <2>4, <3>1, <3>4, <3>5, <3>6, <4>1, <4>2
      <3>7. CASE src[r] # "wallet"
        <4>1. surplus[r] - walletShares[r] >= 0
          BY <3>1, <3>2, <3>3, <3>7 DEF Surplus, WalletShare, walletShares, Taken, Sources
        <4> QED BY ONLY <2>1, <2>4, <3>4, <3>5, <3>7, <4>1
      <3> QED BY <3>6, <3>7
    <2> DEFINE minus == [r \in Requests |-> 0 - walletShares[r]]
    <2> HIDE DEF surplus, net, debt, m
    <2>6. SumFunctionOnSet(net, Requests)
            = SumFunctionOnSet(surplus, Requests) + SumFunctionOnSet(minus, Requests)
      BY <2>1, <2>5, SumPlus
    <2>7. SumFunctionOnSet(minus, Requests) + SumFunctionOnSet(walletShares, Requests) = 0
      <3> DEFINE none == [r \in Requests |-> 0]
      <3>1. \A r \in Requests : /\ minus[r] \in Int /\ walletShares[r] \in Int
                                /\ none[r] = minus[r] + walletShares[r]
        BY <2>5
      <3>2. \A r \in Requests : none[r] = 0 /\ none[r] \in Int
        OBVIOUS
      <3> HIDE DEF none, minus
      <3>3. SumFunctionOnSet(none, Requests)
              = SumFunctionOnSet(minus, Requests) + SumFunctionOnSet(walletShares, Requests)
        BY <2>1, <3>1, SumPlus
      <3>4. SumFunctionOnSet(none, Requests) = SumFunctionOnSet(none, {})
        BY <2>1, <3>2, SumWithoutZeros
      <3> QED BY <3>3, <3>4, SumEmpty
    <2>8. SumFunctionOnSet(debt, Requests) <= SumFunctionOnSet(net, Requests)
      BY <2>1, <2>5, SumOrdered
    <2>9. SumFunctionOnSet(debt, Requests) = SumFunctionOnSet(debt, Priced)
      BY <2>1, <2>5, SumWithoutZeros
    <2>10. IsFiniteSet(Priced) /\ IsFiniteSet(Priced \ {z})
      BY <2>1, FS_Subset
    <2>11. SumFunctionOnSet(debt, Priced) = debt[z] + SumFunctionOnSet(debt, Priced \ {z})
      BY <2>5, <2>10, SumTakeOut
    <2>12. SumFunctionOnSet(debt, Priced \ {z}) >= 0 - Cardinality(Priced \ {z}) * m
      BY <2>4, <2>5, <2>10, SumAtLeast
    <2>13. Cardinality(Priced \ {z}) = Cardinality(Priced) - 1
      BY <2>10, FS_RemoveElement
    <2>14. /\ SumFunctionOnSet(surplus, Requests) \in Int /\ SumFunctionOnSet(minus, Requests) \in Int
           /\ SumFunctionOnSet(walletShares, Requests) \in Int
           /\ SumFunctionOnSet(debt, Priced \ {z}) \in Int
      BY <2>1, <2>5, <2>10, SumTakeOut
    <2>15. wallet = InitWallet - SumFunctionOnSet(walletShares, Requests)
      BY DEF BInv, BalancesFollow
    <2>16. debt[z] >= 0 - InitWallet /\ debt[z] \in Int
      BY <2>5
    <2>17. wallet + SumFunctionOnSet(surplus, Requests) >= SumFunctionOnSet(debt, Priced \ {z})
      BY <2>1, <2>6, <2>7, <2>8, <2>9, <2>11, <2>14, <2>15, <2>16
    <2>18. (Cardinality(Priced) - 1) * m \in Int /\ wallet \in Int
      <3>1. Cardinality(Priced) \in Nat
        BY <2>10, FS_CardinalityType
      <3> QED BY <2>1, <2>4, <2>14, <2>15, <3>1
    <2> HIDE DEF Priced
    <2> QED BY <2>12, <2>13, <2>14, <2>17, <2>18
  <1> QED BY <1>1, <1>2, PTL
=============================================================================
