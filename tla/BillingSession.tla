--------------------------- MODULE BillingSession ---------------------------
(***************************************************************************)
(* The billing of relay requests: service/billing_session.go, the funding  *)
(* sources of service/funding_source.go, PreConsumeTokenQuota and          *)
(* PostConsumeQuota of service/quota.go, and the way controller/relay.go   *)
(* drives them.  Requests of one user and one API token run concurrently;  *)
(* each is a goroutine whose database reads and writes are separate steps, *)
(* and a refund runs in a goroutine of its own.                            *)
(*                                                                         *)
(* Beside the three balances of the database the model records what each   *)
(* request has taken from them (fundTaken, tokenTaken, posted,             *)
(* tokenPosted): history the properties speak of and no guard reads.       *)
(***************************************************************************)
EXTENDS Integers, FiniteSets, FiniteSetsExt

CONSTANTS
  Requests,            \* the requests of one user and one token
  FreeRequests,        \* the ones for a free model: no session is opened
  PlaygroundRequests,  \* the ones from the playground: the token is untouched
  TaskRequests,        \* the ones with ForcePreConsume
  Preferences,         \* the billing preferences the user may have
  Estimates,           \* QuotaToPreConsume of a request
  ActualQuotas,        \* what a served request turns out to cost
  ReserveTargets,      \* targetQuota of Reserve
  ViolationFee,        \* feeQuota of a violation, 0 when the fee is disabled
  InitWallet, InitToken,
  SubTotal,            \* AmountTotal of the subscription, 0 for unlimited
  TrustQuota,          \* common.GetTrustQuota()
  TokenUnlimited

AllPreferences == {"subscription_only", "wallet_only", "wallet_first",
                   "subscription_first"}

ASSUME BillingAssumption ==
  /\ IsFiniteSet(Requests) /\ IsFiniteSet(Estimates)
  /\ FreeRequests \subseteq Requests
  /\ PlaygroundRequests \subseteq Requests
  /\ TaskRequests \subseteq Requests
  /\ Preferences \subseteq AllPreferences
  /\ Estimates \subseteq Nat
  /\ ActualQuotas \subseteq Nat
  /\ ReserveTargets \subseteq Nat
  /\ ViolationFee \in Nat
  /\ InitWallet \in Int
  /\ InitToken \in Int
  /\ SubTotal \in Nat
  /\ TrustQuota \in Nat
  /\ TokenUnlimited \in BOOLEAN

VARIABLES
  pc,          \* pc[r]: the next step of the request's goroutine
  postPc,      \* the next step of the request's PostConsumeQuota call
  postAmount,  \* the quota argument of that call
  pref,        \* BillingPreference of the user when the request came
  quota,       \* the preConsumedQuota argument of NewBillingSession
  ctxToken,    \* "token_quota" of the gin context, read at authentication
  src,         \* the funding source of the BillingSession, "none" without one
  trusted, preConsumedQuota, tokenConsumed, extraReserved,
  fundingSettled, settled, refunded,     \* the fields of the BillingSession
  consumed,    \* WalletFunding.consumed or SubscriptionFunding.preConsumed
  arg,         \* targetQuota of the Reserve, actualQuota of the Settle
  wallet,      \* users.quota
  subUsed,     \* user_subscriptions.amount_used
  token,       \* tokens.remain_quota
  fundTaken,   \* what the session has taken from its funding source
  tokenTaken,  \* what the session has taken from the token
  posted,      \* what PostConsumeQuota has taken from the funding source
  tokenPosted, \* what PostConsumeQuota has taken from the token
  logged,      \* the compensating writes that failed and were only logged
  subActive    \* the user's subscription is active and not expired

funds == <<wallet, subUsed, fundTaken>>
tokens == <<token, tokenTaken>>
input == <<pref, quota, ctxToken>>
call == <<postPc, postAmount>>
posting == <<call, posted, tokenPosted>>
amounts == <<preConsumedQuota, tokenConsumed, consumed, extraReserved>>
session == <<src, trusted, amounts, fundingSettled, settled, refunded>>
vars == <<pc, session, arg, logged, subActive, input, funds, tokens, posting>>

-----------------------------------------------------------------------------
(* State *)

PcStates == {"idle", "start", "tryWallet", "trySub", "tokenCheck", "tokenTake",
             "fundTake", "undoFallback", "undoReject", "open", "resFund",
             "resTokenCheck", "resTokenTake", "resUndo", "setFund", "setToken",
             "refFund", "refExtra", "refToken", "done", "failed", "rejected"}

LoggedSteps == {"tokenUndo", "reserveUndo", "settleFunding", "settleToken",
                "refundFunding", "refundExtra", "refundToken"}

Sources == {"none", "wallet", "subscription"}

Init ==
  /\ pc = [r \in Requests |-> "idle"]
  /\ postPc = [r \in Requests |-> "idle"]
  /\ postAmount = [r \in Requests |-> 0]
  /\ pref \in [Requests -> Preferences]
  /\ quota \in [Requests -> Estimates]
  /\ ctxToken = [r \in Requests |-> 0]
  /\ src = [r \in Requests |-> "none"]
  /\ preConsumedQuota = [r \in Requests |-> 0]
  /\ tokenConsumed = [r \in Requests |-> 0]
  /\ consumed = [r \in Requests |-> 0]
  /\ extraReserved = [r \in Requests |-> 0]
  /\ trusted = [r \in Requests |-> FALSE]
  /\ fundingSettled = [r \in Requests |-> FALSE]
  /\ settled = [r \in Requests |-> FALSE]
  /\ refunded = [r \in Requests |-> FALSE]
  /\ arg = [r \in Requests |-> 0]
  /\ wallet = InitWallet
  /\ subUsed = 0
  /\ token = InitToken
  /\ fundTaken = [r \in Requests |-> 0]
  /\ tokenTaken = [r \in Requests |-> 0]
  /\ posted = [r \in Requests |-> 0]
  /\ tokenPosted = [r \in Requests |-> 0]
  /\ logged = [r \in Requests |-> {}]
  /\ subActive \in BOOLEAN

BySubscription(r) == src[r] = "subscription"

(* PostConsumeUserSubscriptionDelta refuses to go over the total. *)
SubAllows(delta) == SubTotal = 0 \/ subUsed + delta <= SubTotal

(* A write of the funding source that takes delta; the wallet's is unconditional. *)
FundingAllows(r, delta) == BySubscription(r) => SubAllows(delta)

Goto(r, label) == pc' = [pc EXCEPT ![r] = label]

(* Decrease (n > 0) or increase the balance of the request's funding source. *)
MoveFunding(r, n) ==
  IF BySubscription(r) THEN subUsed' = subUsed + n /\ UNCHANGED wallet
                       ELSE wallet' = wallet - n /\ UNCHANGED subUsed

TakeFund(r, n) == /\ MoveFunding(r, n)
                  /\ fundTaken' = [fundTaken EXCEPT ![r] = @ + n]

(* DecreaseTokenQuota (n > 0) or IncreaseTokenQuota of the session. *)
TakeTok(r, n) == /\ token' = token - n
                 /\ tokenTaken' = [tokenTaken EXCEPT ![r] = @ + n]

LogError(r, step) == logged' = [logged EXCEPT ![r] = @ \cup {step}]

(* A BillingSession of funding source s, or with "none" its end: nothing    *)
(* taken, no flag set (the flags of a session that ends here never were).   *)
NewSession(r, s, trust) ==
  /\ src' = [src EXCEPT ![r] = s]
  /\ trusted' = [trusted EXCEPT ![r] = trust]
  /\ preConsumedQuota' = [preConsumedQuota EXCEPT ![r] = 0]
  /\ tokenConsumed' = [tokenConsumed EXCEPT ![r] = 0]
  /\ consumed' = [consumed EXCEPT ![r] = 0]
  /\ extraReserved' = [extraReserved EXCEPT ![r] = 0]
  /\ UNCHANGED <<fundingSettled, settled, refunded>>

Playground(r) == r \in PlaygroundRequests

-----------------------------------------------------------------------------
(* Authentication, then NewBillingSession: which funding source, and        *)
(* whether another one is tried when the first has too little.              *)

(* The token middleware puts the token's remaining quota in the context;   *)
(* a free model skips PreConsumeBilling.                                    *)
Arrive(r) ==
  /\ pc[r] = "idle"
  /\ ctxToken' = [ctxToken EXCEPT ![r] = token]
  /\ Goto(r, IF r \in FreeRequests THEN "open" ELSE "start")
  /\ UNCHANGED <<pref, quota, session, arg, logged, subActive, funds, tokens, posting>>

NewBillingSession(r) ==
  /\ pc[r] = "start"
  /\ Goto(r, IF \/ pref[r] = "subscription_only"
                \/ pref[r] = "subscription_first" /\ subActive
             THEN "trySub" ELSE "tryWallet")
  /\ UNCHANGED <<input, session, arg, logged, subActive, funds, tokens, posting>>

shouldTrust(r, userQuota) ==
  /\ r \notin TaskRequests
  /\ TrustQuota > 0
  /\ TokenUnlimited \/ ctxToken[r] > TrustQuota
  /\ userQuota > TrustQuota

WalletSuffices_Mutant(r, userQuota) == userQuota > 0

(* The check of tryWallet: enough is left for the estimate. *)
WalletSuffices(r, userQuota) == userQuota > 0 /\ userQuota - quota[r] >= 0

TryWalletOpens(r) ==
  /\ pc[r] = "tryWallet"
  /\ WalletSuffices(r, wallet)
  /\ LET trust == shouldTrust(r, wallet)
     IN /\ NewSession(r, "wallet", trust)
        /\ Goto(r, IF quota[r] > 0 /\ ~trust THEN "tokenCheck" ELSE "open")
  /\ UNCHANGED <<input, arg, logged, subActive, funds, tokens, posting>>

TryWalletRefuses_Mutant(r) ==
  /\ pc[r] = "tryWallet"
  /\ ~WalletSuffices(r, wallet)
  /\ Goto(r, IF pref[r] # "wallet_only" THEN "trySub" ELSE "rejected")
  /\ UNCHANGED <<input, session, arg, logged, subActive, funds, tokens, posting>>

TryWalletRefuses(r) ==
  /\ pc[r] = "tryWallet"
  /\ ~WalletSuffices(r, wallet)
  /\ Goto(r, IF pref[r] = "wallet_first" THEN "trySub" ELSE "rejected")
  /\ UNCHANGED <<input, session, arg, logged, subActive, funds, tokens, posting>>

TrySubscription(r) ==
  /\ pc[r] = "trySub"
  /\ NewSession(r, "subscription", FALSE)
  /\ Goto(r, "tokenCheck")
  /\ UNCHANGED <<input, arg, logged, subActive, funds, tokens, posting>>

(* A read of the user, the token or the subscriptions fails: the error is  *)
(* returned at once, no other funding source is tried.                      *)
ReadFails(r) ==
  /\ \/ pc[r] = "start" /\ pref[r] = "subscription_first"
     \/ pc[r] = "tryWallet"
     \/ pc[r] = "tokenCheck" /\ ~Playground(r)
  /\ NewSession(r, "none", FALSE)
  /\ Goto(r, "rejected")
  /\ UNCHANGED <<input, arg, logged, subActive, funds, tokens, posting>>

-----------------------------------------------------------------------------
(* preConsume: the token first, then the funding source                     *)

(* subConsume for a subscription, the estimate for the wallet. *)
Amount(r) == IF BySubscription(r) /\ quota[r] = 0 THEN 1 ELSE quota[r]

TokenConsume(r) ==
  /\ tokenConsumed' = [tokenConsumed EXCEPT ![r] = Amount(r)]
  /\ UNCHANGED <<src, trusted, preConsumedQuota, consumed, extraReserved,
                 fundingSettled, settled, refunded>>

TokenSuffices(n) == TokenUnlimited \/ token >= n

(* PreConsumeTokenQuota up to its write.  A refusal is not "insufficient   *)
(* user quota", so there is no fallback.                                    *)
CheckToken(r) ==
  /\ pc[r] = "tokenCheck"
  /\ \/ /\ Playground(r)
        /\ TokenConsume(r)
        /\ Goto(r, "fundTake")
     \/ /\ ~Playground(r)
        /\ TokenSuffices(Amount(r))
        /\ Goto(r, "tokenTake")
        /\ UNCHANGED session
     \/ /\ ~Playground(r)
        /\ ~TokenSuffices(Amount(r))
        /\ Goto(r, "rejected")
        /\ NewSession(r, "none", FALSE)
  /\ UNCHANGED <<input, arg, logged, subActive, funds, tokens, posting>>

(* DecreaseTokenQuota of PreConsumeTokenQuota. *)
TakeToken(r) ==
  /\ pc[r] = "tokenTake"
  /\ \/ /\ TakeTok(r, Amount(r))
        /\ TokenConsume(r)
        /\ Goto(r, "fundTake")
     \/ /\ NewSession(r, "none", FALSE)
        /\ Goto(r, "rejected")
        /\ UNCHANGED tokens
  /\ UNCHANGED <<input, arg, logged, subActive, funds, posting>>

Opened_Mutant(r) ==
  /\ consumed' = [consumed EXCEPT ![r] = Amount(r)]
  /\ preConsumedQuota' = [preConsumedQuota EXCEPT ![r] = quota[r]]
  /\ UNCHANGED <<src, trusted, tokenConsumed, extraReserved,
                 fundingSettled, settled, refunded>>

(* The session after both pre-consumptions: the estimate it goes on from is *)
(* what was taken, subConsume and not the preConsumedQuota argument.        *)
Opened(r) ==
  /\ consumed' = [consumed EXCEPT ![r] = Amount(r)]
  /\ preConsumedQuota' = [preConsumedQuota EXCEPT ![r] = Amount(r)]
  /\ UNCHANGED <<src, trusted, tokenConsumed, extraReserved,
                 fundingSettled, settled, refunded>>

(* funding.PreConsume: the session is open once the funding is taken. *)
TakeFunding(r) ==
  /\ pc[r] = "fundTake"
  /\ BySubscription(r) => subActive
  /\ FundingAllows(r, Amount(r))
  /\ TakeFund(r, Amount(r))
  /\ Opened(r)
  /\ Goto(r, "open")
  /\ UNCHANGED <<input, arg, logged, subActive, tokens, posting>>

(* funding.PreConsume fails: no active subscription or too little of it    *)
(* ("insufficient", another source may be tried), or a database error.      *)
FundingRefused(r) ==
  /\ pc[r] = "fundTake"
  /\ \/ /\ BySubscription(r)
        /\ ~subActive \/ ~SubAllows(Amount(r))
        /\ Goto(r, IF pref[r] = "subscription_first" THEN "undoFallback"
                                                     ELSE "undoReject")
     \/ Goto(r, "undoReject")
  /\ UNCHANGED <<input, session, arg, logged, subActive, funds, tokens, posting>>

TokenRollback_Mutant(r) == 0

(* What the token gets back when a pre-consumption is undone: nothing was   *)
(* taken from it for the playground, although tokenConsumed is set.         *)
TokenRollback(r) == IF Playground(r) THEN 0 ELSE tokenConsumed[r]

RollbackToken(r) ==
  /\ pc[r] \in {"undoFallback", "undoReject"}
  /\ \/ /\ TakeTok(r, 0 - TokenRollback(r))
        /\ UNCHANGED logged
     \/ /\ TokenRollback(r) > 0
        /\ LogError(r, "tokenUndo")
        /\ UNCHANGED tokens
  /\ NewSession(r, "none", FALSE)
  /\ Goto(r, IF pc[r] = "undoFallback" THEN "tryWallet" ELSE "rejected")
  /\ UNCHANGED <<input, arg, subActive, funds, posting>>

-----------------------------------------------------------------------------
(* Reserve: raise the hold to targetQuota before the request is sent        *)

(* Bound: a request goes on reserving only until a rollback has been lost,  *)
(* or it could lose one after another for ever.                             *)
ReserveBound(r) == "reserveUndo" \notin logged[r]

Reserve(r) ==
  /\ pc[r] = "open"
  /\ src[r] # "none"
  /\ ~trusted[r]
  /\ ReserveBound(r)
  /\ \E target \in ReserveTargets :
       /\ target > preConsumedQuota[r]
       /\ arg' = [arg EXCEPT ![r] = target]
  /\ Goto(r, "resFund")
  /\ UNCHANGED <<input, session, logged, subActive, funds, tokens, posting>>

Delta(r) == arg[r] - preConsumedQuota[r]

Reserved_Mutant(r) ==
  /\ preConsumedQuota' = [preConsumedQuota EXCEPT ![r] = arg[r]]
  /\ tokenConsumed' = [tokenConsumed EXCEPT ![r] = @ + Delta(r)]
  /\ UNCHANGED extraReserved

(* The fields of the session once both reservations have succeeded. *)
Reserved(r) ==
  /\ preConsumedQuota' = [preConsumedQuota EXCEPT ![r] = arg[r]]
  /\ tokenConsumed' = [tokenConsumed EXCEPT ![r] = @ + Delta(r)]
  /\ extraReserved' = [extraReserved EXCEPT ![r] = @ + Delta(r)]

NotReserved == UNCHANGED <<preConsumedQuota, tokenConsumed, extraReserved>>

(* WalletFunding.consumed follows the reservation; a subscription's         *)
(* preConsumed does not, extraReserved stands for it.                       *)
FundingConsumes(r, delta) ==
  consumed' = [consumed EXCEPT ![r] = IF BySubscription(r) THEN @ ELSE @ + delta]

ReserveFunding(r) ==
  /\ pc[r] = "resFund"
  /\ \/ /\ FundingAllows(r, Delta(r))
        /\ TakeFund(r, Delta(r))
        /\ FundingConsumes(r, Delta(r))
        /\ IF Playground(r)
           THEN Reserved(r) /\ Goto(r, "open")
           ELSE NotReserved /\ Goto(r, "resTokenCheck")
     \/ Goto(r, "open") /\ UNCHANGED <<funds, amounts>>
  /\ UNCHANGED <<src, trusted, fundingSettled, settled, refunded,
                 input, arg, logged, subActive, tokens, posting>>

ReserveTokenCheck(r) ==
  /\ pc[r] = "resTokenCheck"
  /\ \/ TokenSuffices(Delta(r)) /\ Goto(r, "resTokenTake")
     \/ Goto(r, "resUndo")
  /\ UNCHANGED <<input, session, arg, logged, subActive, funds, tokens, posting>>

ReserveToken(r) ==
  /\ pc[r] = "resTokenTake"
  /\ \/ /\ TakeTok(r, Delta(r))
        /\ Reserved(r)
        /\ Goto(r, "open")
     \/ /\ NotReserved
        /\ Goto(r, "resUndo")
        /\ UNCHANGED tokens
  /\ UNCHANGED <<src, trusted, consumed, fundingSettled, settled, refunded,
                 input, arg, logged, subActive, funds, posting>>

rollbackFundingReserve(r) ==
  /\ pc[r] = "resUndo"
  /\ \/ /\ TakeFund(r, 0 - Delta(r))
        /\ FundingConsumes(r, 0 - Delta(r))
        /\ UNCHANGED logged
     \/ /\ LogError(r, "reserveUndo")
        /\ UNCHANGED <<funds, consumed>>
  /\ Goto(r, "open")
  /\ NotReserved
  /\ UNCHANGED <<src, trusted, fundingSettled, settled, refunded, input, arg,
                 subActive, tokens, posting>>

-----------------------------------------------------------------------------
(* The upstream answers: SettleBilling with the real cost                   *)

Settle(r) ==
  /\ pc[r] = "open"
  /\ src[r] # "none"
  /\ \E actual \in ActualQuotas :
       /\ arg' = [arg EXCEPT ![r] = actual]
       /\ IF actual = preConsumedQuota[r]
          THEN /\ settled' = [settled EXCEPT ![r] = TRUE]
               /\ Goto(r, "done")
          ELSE /\ Goto(r, "setFund")
               /\ UNCHANGED settled
  /\ UNCHANGED <<src, trusted, amounts, fundingSettled, refunded, input, logged,
                 subActive, funds, tokens, posting>>

SettleFunding_Mutant(r) ==
  /\ pc[r] = "setFund"
  /\ \/ FundingAllows(r, Delta(r)) /\ TakeFund(r, Delta(r)) /\ UNCHANGED logged
     \/ LogError(r, "settleFunding") /\ UNCHANGED funds
  /\ fundingSettled' = [fundingSettled EXCEPT ![r] = TRUE]
  /\ settled' = [settled EXCEPT ![r] = Playground(r)]
  /\ Goto(r, IF Playground(r) THEN "done" ELSE "setToken")
  /\ UNCHANGED <<src, trusted, amounts, refunded, input, arg, subActive, tokens,
                 posting>>

SettleFunding(r) ==
  /\ pc[r] = "setFund"
  /\ \/ /\ FundingAllows(r, Delta(r))
        /\ TakeFund(r, Delta(r))
        /\ fundingSettled' = [fundingSettled EXCEPT ![r] = TRUE]
        /\ settled' = [settled EXCEPT ![r] = Playground(r)]
        /\ Goto(r, IF Playground(r) THEN "done" ELSE "setToken")
        /\ UNCHANGED logged
     \/ /\ LogError(r, "settleFunding")
        /\ Goto(r, "done")
        /\ UNCHANGED <<funds, fundingSettled, settled>>
  /\ UNCHANGED <<src, trusted, amounts, refunded, input, arg, subActive, tokens,
                 posting>>

SettleToken_Mutant(r) ==
  /\ pc[r] = "setToken"
  /\ \/ /\ TakeTok(r, Delta(r))
        /\ settled' = [settled EXCEPT ![r] = TRUE]
        /\ Goto(r, "done")
     \/ Goto(r, "setFund") /\ UNCHANGED <<tokens, settled>>
  /\ UNCHANGED <<src, trusted, amounts, fundingSettled, refunded, input, arg,
                 logged, subActive, funds, posting>>

SettleToken(r) ==
  /\ pc[r] = "setToken"
  /\ \/ TakeTok(r, Delta(r)) /\ UNCHANGED logged
     \/ LogError(r, "settleToken") /\ UNCHANGED tokens
  /\ settled' = [settled EXCEPT ![r] = TRUE]
  /\ Goto(r, "done")
  /\ UNCHANGED <<src, trusted, amounts, fundingSettled, refunded, input, arg,
                 subActive, funds, posting>>

(* The call of PostConsumeQuota: nothing is called for a quota of 0. *)
PostConsumeQuota(r, n) ==
  IF n = 0 THEN UNCHANGED call
  ELSE /\ postPc' = [postPc EXCEPT ![r] = "fund"]
       /\ postAmount' = [postAmount EXCEPT ![r] = n]

(* SettleBilling of a request without a session: PostConsumeQuota. *)
SettleFree(r) ==
  /\ pc[r] = "open"
  /\ src[r] = "none"
  /\ \E actual \in ActualQuotas :
       PostConsumeQuota(r, actual)
  /\ Goto(r, "done")
  /\ UNCHANGED <<input, session, arg, logged, subActive, funds, tokens, posted,
                 tokenPosted>>

-----------------------------------------------------------------------------
(* The upstream fails: the deferred Refund, and the violation fee           *)

needsRefund(r) ==
  /\ ~settled[r] /\ ~refunded[r] /\ ~fundingSettled[r]
  /\ tokenConsumed[r] > 0 \/ (BySubscription(r) /\ consumed[r] > 0)

(* Refund marks the session and starts the goroutine; then the handler     *)
(* charges a violation fee when the error asks for one (RelayTask does not).*)
Fail(r) ==
  /\ pc[r] = "open"
  /\ IF src[r] # "none" /\ needsRefund(r)
     THEN /\ refunded' = [refunded EXCEPT ![r] = TRUE]
          /\ Goto(r, "refFund")
     ELSE /\ Goto(r, "failed")
          /\ UNCHANGED refunded
  /\ \E fee \in IF r \in TaskRequests THEN {0} ELSE {0, ViolationFee} :
       PostConsumeQuota(r, fee)
  /\ UNCHANGED <<src, trusted, amounts, fundingSettled, settled, input, arg, logged,
                 subActive, funds, tokens, posted, tokenPosted>>

RefundFunding_Mutant(r) ==
  /\ pc[r] = "refFund"
  /\ \/ /\ TakeFund(r, 0 - consumed[r])
        /\ Goto(r, IF BySubscription(r) /\ extraReserved[r] > 0
                   THEN "refExtra" ELSE "refToken")
        /\ UNCHANGED logged
     \/ /\ consumed[r] > 0
        /\ LogError(r, "refundFunding")
        /\ Goto(r, "done")
        /\ UNCHANGED funds
  /\ UNCHANGED <<input, session, arg, subActive, tokens, posting>>

RefundFunding(r) ==
  /\ pc[r] = "refFund"
  /\ \/ /\ TakeFund(r, 0 - consumed[r])
        /\ UNCHANGED logged
     \/ /\ consumed[r] > 0
        /\ LogError(r, "refundFunding")
        /\ UNCHANGED funds
  /\ Goto(r, IF BySubscription(r) /\ extraReserved[r] > 0
             THEN "refExtra" ELSE "refToken")
  /\ UNCHANGED <<input, session, arg, subActive, tokens, posting>>

RefundExtra(r) ==
  /\ pc[r] = "refExtra"
  /\ \/ /\ TakeFund(r, 0 - extraReserved[r])
        /\ UNCHANGED logged
     \/ LogError(r, "refundExtra") /\ UNCHANGED funds
  /\ Goto(r, "refToken")
  /\ UNCHANGED <<input, session, arg, subActive, tokens, posting>>

RefundToken(r) ==
  /\ pc[r] = "refToken"
  /\ \/ /\ TakeTok(r, 0 - TokenRollback(r))
        /\ UNCHANGED logged
     \/ /\ TokenRollback(r) > 0
        /\ LogError(r, "refundToken")
        /\ UNCHANGED tokens
  /\ Goto(r, "failed")
  /\ UNCHANGED <<input, session, arg, subActive, funds, posting>>

-----------------------------------------------------------------------------
(* PostConsumeQuota: the funding source, then the token                     *)

PostFunding(r) ==
  /\ postPc[r] = "fund"
  /\ \/ /\ FundingAllows(r, postAmount[r])
        /\ MoveFunding(r, postAmount[r])
        /\ posted' = [posted EXCEPT ![r] = @ + postAmount[r]]
        /\ postPc' = [postPc EXCEPT ![r] = IF Playground(r) THEN "done" ELSE "token"]
     \/ /\ postPc' = [postPc EXCEPT ![r] = "done"]
        /\ UNCHANGED <<posted, wallet, subUsed>>
  /\ UNCHANGED <<pc, postAmount, session, arg, logged, subActive, input, fundTaken,
                 tokens, tokenPosted>>

PostToken(r) ==
  /\ postPc[r] = "token"
  /\ \/ /\ token' = token - postAmount[r]
        /\ tokenPosted' = [tokenPosted EXCEPT ![r] = @ + postAmount[r]]
     \/ UNCHANGED <<token, tokenPosted>>
  /\ postPc' = [postPc EXCEPT ![r] = "done"]
  /\ UNCHANGED <<pc, postAmount, session, arg, logged, subActive, input, funds,
                 tokenTaken, posted>>

-----------------------------------------------------------------------------
(* The subscription runs out or is cancelled while requests are in flight. *)
SubscriptionEnds ==
  /\ subActive
  /\ subActive' = FALSE
  /\ UNCHANGED <<pc, session, arg, logged, input, funds, tokens, posting>>

(* Steps the request's own goroutine takes to open its session. *)
Opening(r) == \/ NewBillingSession(r) \/ TryWalletOpens(r) \/ TryWalletRefuses(r)
              \/ TrySubscription(r) \/ ReadFails(r) \/ CheckToken(r)
              \/ TakeToken(r) \/ TakeFunding(r) \/ FundingRefused(r)
              \/ RollbackToken(r)

Reserving(r) == \/ ReserveFunding(r) \/ ReserveTokenCheck(r) \/ ReserveToken(r)
                \/ rollbackFundingReserve(r)

Closing(r) == \/ SettleFunding(r) \/ SettleToken(r) \/ RefundFunding(r)
              \/ RefundExtra(r) \/ RefundToken(r)

Posting(r) == PostFunding(r) \/ PostToken(r)

(* What the client and the upstream decide. *)
Environment(r) == Arrive(r) \/ Reserve(r) \/ Settle(r) \/ SettleFree(r) \/ Fail(r)

Finished(r) == pc[r] \in {"done", "failed", "rejected"} /\ postPc[r] \in {"idle", "done"}

Terminating == (\A r \in Requests : Finished(r)) /\ UNCHANGED vars

Next == \/ \E r \in Requests : \/ Opening(r) \/ Reserving(r) \/ Closing(r)
                               \/ Posting(r) \/ Environment(r)
        \/ SubscriptionEnds
        \/ Terminating

(* A goroutine that can run does run, and database calls return.  Nothing  *)
(* is assumed of the client, the upstream or the subscription's end.        *)
Fairness == \A r \in Requests :
              WF_vars(Opening(r) \/ Reserving(r) \/ Closing(r)) /\ WF_vars(Posting(r))

Spec == Init /\ [][Next]_vars

FairSpec == Spec /\ Fairness

-----------------------------------------------------------------------------
(* Properties *)

(* Every variable keeps its type; what a request has taken is an integer.  *)
TypeOK ==
  /\ pc \in [Requests -> PcStates]
  /\ postPc \in [Requests -> {"idle", "fund", "token", "done"}]
  /\ postAmount \in [Requests -> Nat]
  /\ pref \in [Requests -> Preferences]
  /\ quota \in [Requests -> Estimates]
  /\ ctxToken \in [Requests -> Int]
  /\ src \in [Requests -> Sources]
  /\ preConsumedQuota \in [Requests -> Nat] /\ tokenConsumed \in [Requests -> Nat]
  /\ consumed \in [Requests -> Nat] /\ extraReserved \in [Requests -> Nat]
  /\ trusted \in [Requests -> BOOLEAN] /\ refunded \in [Requests -> BOOLEAN]
  /\ fundingSettled \in [Requests -> BOOLEAN] /\ settled \in [Requests -> BOOLEAN]
  /\ arg \in [Requests -> Nat]
  /\ wallet \in Int /\ subUsed \in Int /\ token \in Int
  /\ fundTaken \in [Requests -> Int]
  /\ tokenTaken \in [Requests -> Int]
  /\ posted \in [Requests -> Nat]
  /\ tokenPosted \in [Requests -> Nat]
  /\ logged \in [Requests -> SUBSET LoggedSteps]
  /\ subActive \in BOOLEAN

Clean(r, steps) == logged[r] \cap steps = {}

(* A request that was served and settled has paid its real cost, no more   *)
(* and no less, from its funding source and from its token, whatever it    *)
(* had pre-consumed or reserved and whichever source was tried first,       *)
(* unless a failed write was logged on the way (Settle, preConsume,         *)
(* Reserve in service/billing_session.go).                                  *)
SettledChargeIsActual ==
  \A r \in Requests : settled[r] /\ pc[r] = "done" =>
    /\ Clean(r, {"reserveUndo"}) => fundTaken[r] = arg[r]
    /\ Clean(r, {"tokenUndo", "settleToken"}) =>
         tokenTaken[r] = IF Playground(r) THEN 0 ELSE arg[r]

(* A request that was turned away, or failed and whose refund goroutine has *)
(* ended, has cost nothing: pre-consume rolls back what it took before it   *)
(* falls back or rejects, and Refund gives back the estimate and the        *)
(* reservations of both sides (Refund comment: "returns all pre-consumed").*)
FailedRequestIsFree ==
  \A r \in Requests : pc[r] \in {"failed", "rejected"} =>
    /\ Clean(r, {"reserveUndo", "refundFunding", "refundExtra"}) => fundTaken[r] = 0
    /\ Clean(r, {"tokenUndo", "refundToken"}) => tokenTaken[r] = 0

(* The token's counter and the funding source agree about every finished    *)
(* request, also when Settle could not adjust the funding source.           *)
TokenTracksFunding ==
  \A r \in Requests :
    /\ pc[r] \in {"done", "failed", "rejected"}
    /\ ~Playground(r)
    /\ Clean(r, LoggedSteps \ {"settleFunding"})
    => tokenTaken[r] = fundTaken[r]

-----------------------------------------------------------------------------
(* The inductive invariant: at every step of its life, what a request has   *)
(* taken follows from the fields of its session                             *)

Unfunded == {"idle", "start", "tryWallet", "trySub", "rejected"}
PreConsuming == {"tokenCheck", "tokenTake", "fundTake", "undoFallback", "undoReject"}
HoldingToken == {"fundTake", "undoFallback", "undoReject"}
MidReserve == {"resTokenCheck", "resTokenTake", "resUndo"}
Serving == {"open", "resFund", "setFund", "refFund"} \cup MidReserve

(* The funding a Reserve has taken and not yet entered in the session. *)
Pending(r) == IF pc[r] \in MidReserve THEN Delta(r) ELSE 0

NoSession(r) == src[r] = "none"

SourceAccount(r) ==
  /\ pc[r] \in Unfunded => NoSession(r)
  /\ NoSession(r) => pc[r] \in Unfunded \cup {"open", "done", "failed"}
  /\ pc[r] \in MidReserve \cup {"resFund"} => Delta(r) > 0
  /\ pc[r] = "refExtra" => BySubscription(r)
  /\ pc[r] \in MidReserve \cup {"tokenTake", "setToken"} => ~Playground(r)
  /\ settled[r] => pc[r] = "done"
  /\ fundingSettled[r] => pc[r] \in {"setToken", "done"}
  /\ pc[r] = "setToken" => fundingSettled[r]
  /\ fundingSettled[r] /\ pc[r] = "done" => settled[r]
  /\ refunded[r] => pc[r] \in {"refFund", "refExtra", "refToken", "failed"}

FundAccount(r) ==
  LET clean == Clean(r, {"reserveUndo"})
  IN /\ NoSession(r) \/ pc[r] \in PreConsuming =>
          /\ fundTaken[r] = 0 /\ consumed[r] = 0 /\ preConsumedQuota[r] = 0
          /\ extraReserved[r] = 0
     /\ ~NoSession(r) /\ pc[r] \in Serving =>
          /\ fundTaken[r] >= preConsumedQuota[r] + Pending(r)
          /\ clean => fundTaken[r] = preConsumedQuota[r] + Pending(r)
          /\ src[r] = "wallet" => consumed[r] = fundTaken[r]
          /\ src[r] = "subscription" => consumed[r] + extraReserved[r] = preConsumedQuota[r]
     /\ pc[r] = "setToken" \/ settled[r] =>
          fundTaken[r] >= arg[r] /\ (clean => fundTaken[r] = arg[r])
     /\ pc[r] = "done" /\ ~settled[r] =>
          /\ fundTaken[r] >= preConsumedQuota[r]
          /\ clean => fundTaken[r] = preConsumedQuota[r]
     /\ pc[r] = "refExtra" =>
          /\ fundTaken[r] >= extraReserved[r]
          /\ Clean(r, {"reserveUndo", "refundFunding"}) => fundTaken[r] = extraReserved[r]
     /\ pc[r] \in {"refToken", "failed"} =>
          /\ fundTaken[r] >= 0
          /\ Clean(r, {"reserveUndo", "refundFunding", "refundExtra"}) => fundTaken[r] = 0

TokenShare(r, n) == IF Playground(r) THEN 0 ELSE n

TokenAccount(r) ==
  LET clean == Clean(r, {"tokenUndo"})
  IN /\ NoSession(r) \/ pc[r] \in {"tokenCheck", "tokenTake"} =>
          tokenConsumed[r] = 0 /\ (clean => tokenTaken[r] = 0)
     /\ pc[r] \in HoldingToken =>
          /\ tokenConsumed[r] = Amount(r)
          /\ clean => tokenTaken[r] = TokenShare(r, tokenConsumed[r])
     /\ ~NoSession(r) /\ pc[r] \in Serving \cup {"setToken", "refExtra", "refToken"} =>
          /\ tokenConsumed[r] = preConsumedQuota[r]
          /\ clean => tokenTaken[r] = TokenShare(r, preConsumedQuota[r])
     /\ settled[r] /\ Clean(r, {"tokenUndo", "settleToken"}) =>
          tokenTaken[r] = TokenShare(r, arg[r])
     /\ pc[r] = "done" /\ ~settled[r] /\ clean =>
          tokenTaken[r] = TokenShare(r, preConsumedQuota[r])
     /\ pc[r] = "failed" /\ Clean(r, {"tokenUndo", "refundToken"}) =>
          tokenTaken[r] = 0

(* Through every interleaving of pre-consume, fallback, Reserve, Settle and *)
(* Refund, the session's own fields account for every unit of quota taken   *)
(* from the funding source and from the token, up to the writes whose       *)
(* failure was logged; so Settle and Refund always start from the truth.    *)
Accounting == \A r \in Requests :
                SourceAccount(r) /\ FundAccount(r) /\ TokenAccount(r)

-----------------------------------------------------------------------------
(* When every request has finished and no write was lost, the balances have *)
(* moved by exactly the settled costs and the fees: concurrent holds,       *)
(* fallbacks, rollbacks, settlements and refunds leave nothing behind.      *)
Cost(r) == posted[r] + IF settled[r] THEN arg[r] ELSE 0

QuietBalancesAddUp ==
  (\A r \in Requests : Finished(r) /\ logged[r] = {}) =>
    LET bySub == {r \in Requests : BySubscription(r)}
        cost == [r \in Requests |-> Cost(r)]
    IN /\ wallet = InitWallet - SumFunctionOnSet(cost, Requests \ bySub)
       /\ subUsed = SumFunctionOnSet(cost, bySub)

(* What a request costs beyond the estimate that tryWallet checked: all of  *)
(* it for a free one, which is not checked.                                 *)
Surplus(r) == LET checked == IF r \in FreeRequests THEN 0 ELSE quota[r]
                  over == fundTaken[r] + posted[r] - checked
              IN IF over > 0 THEN over ELSE 0

(* The check of the balance and its decrease are separate steps, so         *)
(* concurrent requests may overdraw the wallet, but by no more than one     *)
(* estimate for each session other than the last one admitted, plus what    *)
(* requests cost beyond their estimate (NewBillingSession, DecreaseUserQuota).*)
OverdraftBounded ==
  InitWallet >= 0 /\ Requests # FreeRequests =>
    wallet + SumFunctionOnSet([r \in Requests |-> Surplus(r)], Requests)
      >= 0 - (Cardinality(Requests \ FreeRequests) - 1) * Max(Estimates)

(* NewBillingSession always comes to a decision: the fallback from one      *)
(* funding source to the other does not go round in circles.                *)
EveryRequestDecided ==
  \A r \in Requests : pc[r] = "start" ~> pc[r] \in {"open", "rejected"}

(* A refund that has been started runs to its end, the token's part too.    *)
RefundCompletes ==
  \A r \in Requests : refunded[r] ~> pc[r] = "failed"

-----------------------------------------------------------------------------
(* The abstract specification this one implements *)

Outcome(r) == IF fundTaken[r] = 0 THEN "released" ELSE "kept"

PhaseOf(r) ==
  IF NoSession(r) \/ pc[r] \in PreConsuming THEN "idle"
  ELSE IF pc[r] \in {"refToken", "failed"} THEN Outcome(r)
  ELSE IF pc[r] \notin {"setToken", "done"} THEN "held"
  ELSE IF fundingSettled[r] \/ settled[r] THEN "charged" ELSE "kept"

Hold == INSTANCE QuotaHold WITH
          phase <- [r \in Requests |-> PhaseOf(r)],
          taken <- fundTaken

(* Every request's money moves only between its hold and its one outcome.   *)
ImplementsQuotaHold == Hold!Spec
=============================================================================
