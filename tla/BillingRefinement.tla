-------------------------- MODULE BillingRefinement --------------------------
(***************************************************************************)
(* The billing of relay requests implements QuotaHold: every step of the   *)
(* detailed specification is a step of the abstract one or a stutter.      *)
(***************************************************************************)
EXTENDS BillingSessionProofs

USE DEF session, amounts, input, funds, tokens, posting, call, Goto,
        Unfunded, PreConsuming, HoldingToken, MidReserve, Serving,
        NoSession, BySubscription, Playground, Clean, Pending,
        Opening, Reserving, Closing, Posting, Environment

(* One step of one request, as QuotaHold allows it. *)
Moves(r) ==
  \/ PhaseOf(r)' = PhaseOf(r) /\ fundTaken'[r] = fundTaken[r]
  \/ PhaseOf(r) = "idle" /\ PhaseOf(r)' = "held" /\ fundTaken'[r] \in Nat
  \/ PhaseOf(r) = "held" /\ PhaseOf(r)' \in {"held", "charged"} /\ fundTaken'[r] \in Nat
  \/ PhaseOf(r) = "held" /\ PhaseOf(r)' = "released" /\ fundTaken'[r] = 0
  \/ PhaseOf(r) = "held" /\ PhaseOf(r)' = "kept" /\ fundTaken'[r] \in 0 .. fundTaken[r]

LEMMA StepMoves ==
  ASSUME IInv, NEW r \in Requests, Step(r)
  PROVE  Moves(r)
  <1>a. TypeOK /\ SourceAccount(r) /\ FundAccount(r)
    BY Local
  <1>b. TypeOK' /\ SourceAccount(r)' /\ FundAccount(r)'
    BY StepKeeps DEF Account
  <1> USE DEF Moves, PhaseOf, Outcome, TypeOK, SourceAccount, FundAccount, Sources
  <1>1. CASE Arrive(r)
    BY <1>1, <1>a, <1>b DEF Arrive
  <1>2. CASE NewBillingSession(r)
    BY <1>2, <1>a, <1>b DEF NewBillingSession
  <1>3. CASE TryWalletOpens(r)
    BY <1>3, <1>a, <1>b DEF TryWalletOpens, NewSession
  <1>4. CASE TryWalletRefuses(r)
    BY <1>4, <1>a, <1>b DEF TryWalletRefuses
  <1>5. CASE TrySubscription(r)
    BY <1>5, <1>a, <1>b DEF TrySubscription, NewSession
  <1>6. CASE ReadFails(r)
    BY <1>6, <1>a, <1>b DEF ReadFails, NewSession
  <1>7. CASE CheckToken(r)
    BY <1>7, <1>a, <1>b DEF CheckToken, NewSession, TokenConsume
  <1>8. CASE TakeToken(r)
    BY <1>8, <1>a, <1>b DEF TakeToken, NewSession, TokenConsume, TakeTok
  <1>9. CASE TakeFunding(r)
    BY <1>9, <1>a, <1>b DEF TakeFunding, Opened, TakeFund
  <1>10. CASE FundingRefused(r)
    BY <1>10, <1>a, <1>b DEF FundingRefused
  <1>11. CASE RollbackToken(r)
    BY <1>11, <1>a, <1>b DEF RollbackToken, NewSession, TakeTok, LogError
  <1>12. CASE Reserve(r)
    BY <1>12, <1>a, <1>b DEF Reserve
  <1>13. CASE ReserveFunding(r)
    <2>1. Delta(r) > 0 /\ Delta(r) \in Int
      BY <1>13, <1>a DEF ReserveFunding, Delta
    <2>2. CASE TakeFund(r, Delta(r)) /\ pc'[r] \in {"open", "resTokenCheck"}
      BY <1>13, <1>a, <2>1, <2>2 DEF ReserveFunding, TakeFund
    <2>3. CASE pc'[r] = "open" /\ UNCHANGED funds
      BY <1>13, <1>a, <2>3 DEF ReserveFunding
    <2> QED BY <1>13, <1>a, <2>2, <2>3 DEF ReserveFunding
  <1>14. CASE ReserveTokenCheck(r)
    BY <1>14, <1>a, <1>b DEF ReserveTokenCheck
  <1>15. CASE ReserveToken(r)
    BY <1>15, <1>a, <1>b DEF ReserveToken, TakeTok, Reserved, NotReserved
  <1>16. CASE rollbackFundingReserve(r)
    BY <1>16, <1>a, <1>b DEF rollbackFundingReserve, TakeFund, LogError,
       NotReserved, FundingConsumes
  <1>17. CASE Settle(r)
    BY <1>17, <1>a, <1>b DEF Settle
  <1>18. CASE SettleFunding(r)
    BY <1>18, <1>a, <1>b DEF SettleFunding, TakeFund, LogError
  <1>19. CASE SettleToken(r)
    BY <1>19, <1>a, <1>b DEF SettleToken, TakeTok, LogError
  <1>20. CASE SettleFree(r)
    BY <1>20, <1>a, <1>b DEF SettleFree
  <1>21. CASE Fail(r)
    BY <1>21, <1>a, <1>b DEF Fail
  <1>22. CASE RefundFunding(r)
    BY <1>22, <1>a, <1>b DEF RefundFunding, TakeFund, LogError
  <1>23. CASE RefundExtra(r)
    BY <1>23, <1>a, <1>b DEF RefundExtra, TakeFund, LogError
  <1>24. CASE RefundToken(r)
    BY <1>24, <1>a, <1>b DEF RefundToken, TakeTok, LogError
  <1>25. CASE PostFunding(r)
    BY <1>25, <1>a, <1>b DEF PostFunding
  <1>26. CASE PostToken(r)
    BY <1>26, <1>a, <1>b DEF PostToken
  <1> QED BY <1>1, <1>2, <1>3, <1>4, <1>5, <1>6, <1>7, <1>8, <1>9, <1>10, <1>11,
     <1>12, <1>13, <1>14, <1>15, <1>16, <1>17, <1>18, <1>19, <1>20, <1>21, <1>22,
     <1>23, <1>24, <1>25, <1>26 DEF Step

(* The phase of a request depends on nothing but that request. *)
LEMMA SamePhase ==
  ASSUME NEW q \in Requests, SameFor(q)
  PROVE  PhaseOf(q)' = PhaseOf(q) /\ fundTaken'[q] = fundTaken[q]
  BY DEF SameFor, PhaseOf, Outcome

(* A step of a request is a step of QuotaHold or changes nothing of it. *)
LEMMA StepRefines ==
  ASSUME IInv, NEW r \in Requests, Step(r)
  PROVE  [Hold!Next]_(Hold!vars)
  <1> DEFINE phase == [q \in Requests |-> PhaseOf(q)]
  <1>1. TypeOK /\ TypeOK'
    BY StepKeeps DEF IInv
  <1>2. \A q \in Requests \ {r} :
          PhaseOf(q)' = PhaseOf(q) /\ fundTaken'[q] = fundTaken[q]
    BY <1>1, StepIsLocal, SamePhase
  <1>3. fundTaken' = [fundTaken EXCEPT ![r] = fundTaken'[r]]
    BY <1>1, <1>2 DEF TypeOK
  <1>4. phase' = [phase EXCEPT ![r] = PhaseOf(r)']
    BY <1>2
  <1>5. phase[r] = PhaseOf(r)
    OBVIOUS
  <1>6. Moves(r)
    BY StepMoves
  <1>7. CASE PhaseOf(r)' = PhaseOf(r) /\ fundTaken'[r] = fundTaken[r]
    <2>1. phase' = phase
      BY <1>4, <1>7
    <2>2. fundTaken' = fundTaken
      BY <1>1, <1>3, <1>7 DEF TypeOK
    <2> QED BY <2>1, <2>2 DEF Hold!vars
  <1>8. CASE PhaseOf(r) = "idle" /\ PhaseOf(r)' = "held" /\ fundTaken'[r] \in Nat
    <2>1. Hold!Hold(r)
      BY <1>3, <1>4, <1>5, <1>8 DEF Hold!Hold, Hold!MovesTo
    <2> QED BY <2>1 DEF Hold!Next
  <1>9. CASE PhaseOf(r) = "held" /\ PhaseOf(r)' = "held" /\ fundTaken'[r] \in Nat
    <2>1. phase' = phase
      BY <1>4, <1>9
    <2>2. Hold!Adjust(r)
      BY <1>3, <1>5, <1>9, <2>1 DEF Hold!Adjust, Hold!MovesTo
    <2> QED BY <2>2 DEF Hold!Next
  <1>10. CASE PhaseOf(r) = "held" /\ PhaseOf(r)' = "charged" /\ fundTaken'[r] \in Nat
    <2>1. Hold!Charge(r)
      BY <1>3, <1>4, <1>5, <1>10 DEF Hold!Charge, Hold!MovesTo
    <2> QED BY <2>1 DEF Hold!Next
  <1>11. CASE PhaseOf(r) = "held" /\ PhaseOf(r)' = "released" /\ fundTaken'[r] = 0
    <2>1. Hold!Release(r)
      BY <1>3, <1>4, <1>5, <1>11 DEF Hold!Release, Hold!MovesTo
    <2> QED BY <2>1 DEF Hold!Next
  <1>12. CASE /\ PhaseOf(r) = "held" /\ PhaseOf(r)' = "kept"
              /\ fundTaken'[r] \in 0 .. fundTaken[r]
    <2>1. Hold!Keep(r)
      BY <1>3, <1>4, <1>5, <1>12 DEF Hold!Keep, Hold!MovesTo
    <2> QED BY <2>1 DEF Hold!Next
  <1> QED BY <1>6, <1>7, <1>8, <1>9, <1>10, <1>11, <1>12 DEF Moves

(* The detailed billing implements QuotaHold: for any number of concurrent *)
(* requests and any failures, each request's money is held once, has one   *)
(* outcome, and does not move after it (BillingSession as a whole).         *)
THEOREM Refinement == Spec => ImplementsQuotaHold
  <1>1. Init => Hold!Init
    BY DEF Init, Hold!Init, PhaseOf
  <1>2. IInv /\ [Next]_vars => [Hold!Next]_(Hold!vars)
    <2> SUFFICES ASSUME IInv, [Next]_vars PROVE [Hold!Next]_(Hold!vars)
      OBVIOUS
    <2>1. ASSUME NEW r \in Requests, Step(r)
          PROVE  [Hold!Next]_(Hold!vars)
      BY <2>1, StepRefines
    <2>2. ASSUME SubscriptionEnds \/ UNCHANGED vars
          PROVE  UNCHANGED Hold!vars
      <3>1. \A q \in Requests : PhaseOf(q)' = PhaseOf(q)
        BY <2>2, SamePhase DEF SubscriptionEnds, vars, SameFor
      <3>2. fundTaken' = fundTaken
        BY <2>2 DEF SubscriptionEnds, vars
      <3> QED BY <3>1, <3>2 DEF Hold!vars
    <2> QED BY <2>1, <2>2 DEF Next, Step, Terminating
  <1>3. Spec => []IInv
    BY InitInv, NextKeeps, PTL DEF Spec
  <1> QED BY <1>1, <1>2, <1>3, PTL DEF Spec, ImplementsQuotaHold, Hold!Spec
=============================================================================
