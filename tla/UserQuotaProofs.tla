--------------------------- MODULE UserQuotaProofs ---------------------------
(***************************************************************************)
(* For any number of operations, any amounts and any number of failures:   *)
(* the ledger of a balance, how often a redemption code is credited, and   *)
(* when the cached balance follows the row.                                *)
(***************************************************************************)
EXTENDS UserQuota, SumTheorems

Hashes == [quota : Int, whole : BOOLEAN]

(* The hash is absent or one; in this form the induction needs no counting. *)
CacheOK == cache = {} \/ \E h \in Hashes : cache = {h}

Redeeming == {p \in Ops : pc[p] = "redeem"}

Typing ==
  /\ db \in Int /\ store \in Int /\ taken \in Int
  /\ code \in {"enabled", "used"}
  /\ reset \in {"none", "pending", "completed"}
  /\ checkins \in Nat
  /\ pc \in [Ops -> Labels]
  /\ amt \in [Ops -> Int] /\ snap \in [Ops -> Int]
  /\ cpc \in [Ops -> {"none", "ttl", "apply"}]
  /\ acked \in Int /\ lost \in Int
  /\ expiries \in Nat /\ faults \in Nat

Flags == raced \in BOOLEAN /\ clean \in BOOLEAN

(* Once the code is used nobody reads it as unused any more, so the credits  *)
(* made and those still to come are at most the redemptions under way then. *)
CodeOK ==
  /\ credited \in Nat /\ racers \in Nat
  /\ credited > 0 => /\ code = "used"
                     /\ credited + Cardinality(Redeeming) <= racers

IInv == Typing /\ Flags /\ CacheOK /\ LedgerBalances /\ CodeOK

USE DEF row, batch, goroutines, history, bounds, Goto, Keep, Fault

-----------------------------------------------------------------------------
(* Facts the steps share *)

(* The constants a step may add to the balance are integers. *)
LEMMA Constants ==
  /\ \A d \in Deltas : d \in Int
  /\ \A v \in Overrides : v \in Int
  /\ Initial \in Int /\ CodeQuota \in Int /\ Target \in Nat
  /\ MaxExpiries \in Nat /\ MaxFaults \in Nat
  /\ IsFiniteSet(Ops)
  BY UserQuotaAssumption DEF UserQuotaAssumption

(* The operations in a redemption are finitely many. *)
LEMMA RedeemingFinite ==
  /\ IsFiniteSet(Redeeming) /\ Cardinality(Redeeming) \in Nat
  /\ IsFiniteSet(Redeeming') /\ Cardinality(Redeeming') \in Nat
  <1>1. Redeeming \in SUBSET Ops /\ Redeeming' \in SUBSET Ops
    BY DEF Redeeming
  <1>2. IsFiniteSet(Redeeming) /\ IsFiniteSet(Redeeming')
    BY <1>1, Constants, FS_Subset
  <1> QED BY <1>2, FS_CardinalityType

(* Replacing a balance by another and acknowledging the difference. *)
LEMMA Replaced ==
  ASSUME NEW a \in Int, NEW b \in Int, NEW c \in Int, NEW d \in Int,
         NEW i \in Int, NEW k \in Int, NEW x \in Int,
         a + b + c + d = i + k
  PROVE  x + b + c + d = i + (k + (x - a))
  OBVIOUS

(* Operations that leave the redemption of a code, or do something else, do *)
(* not make its credits more (every step but RedeemRead and RedeemCommit).  *)
LEMMA FewerRedeeming ==
  ASSUME CodeOK, Redeeming' \subseteq Redeeming,
         UNCHANGED <<code, credited, racers>>
  PROVE  CodeOK'
  <1>1. Cardinality(Redeeming') <= Cardinality(Redeeming)
    BY RedeemingFinite, FS_Subset
  <1> QED BY <1>1, RedeemingFinite, SMT DEF CodeOK

(* A whole hash or one field of it (RedisHSetObj, RedisHSetField, HINCRBY). *)
LEMMA IncrementedOK ==
  ASSUME CacheOK, NEW d \in Int
  PROVE  Incremented(d) = {} \/ \E h \in Hashes : Incremented(d) = {h}
  <1>1. CASE cache = {}
    <2>1. Incremented(d) = {[quota |-> d, whole |-> FALSE]}
      BY <1>1 DEF Incremented
    <2>2. [quota |-> d, whole |-> FALSE] \in Hashes
      BY DEF Hashes
    <2> QED BY <2>1, <2>2
  <1>2. CASE \E h \in Hashes : cache = {h}
    <2>1. PICK h \in Hashes : cache = {h}
      BY <1>2
    <2>2. Incremented(d) = {[h EXCEPT !.quota = @ + d]}
      BY <2>1 DEF Incremented
    <2>3. [h EXCEPT !.quota = @ + d] \in Hashes
      BY DEF Hashes
    <2> QED BY <2>2, <2>3
  <1> QED BY <1>1, <1>2 DEF CacheOK

-----------------------------------------------------------------------------
(* One lemma per step *)

(* A charge or a credit is acknowledged when it is in the store (addNewRecord). *)
LEMMA ChangeKeeps ==
  ASSUME IInv, NEW o \in Ops, Change(o)
  PROVE  IInv'
  <1>t. Typing'
    BY Constants, SMT DEF IInv, Typing, Change, Labels
  <1>f. Flags'
    BY Zenon DEF IInv, Flags, Change
  <1>c. CacheOK'
    BY DEF IInv, Change, CacheOK
  <1>l. LedgerBalances'
    BY Constants, SMT DEF IInv, Typing, Change, LedgerBalances
  <1>k. CodeOK'
    <2>1. Redeeming' \subseteq Redeeming
      BY DEF IInv, Typing, Change, Redeeming
    <2>2. UNCHANGED <<code, credited, racers>>
      BY DEF Change
    <2> QED BY <2>1, <2>2, FewerRedeeming DEF IInv
  <1> QED BY <1>t, <1>f, <1>c, <1>l, <1>k DEF IInv

(* A charge or a credit is acknowledged with its write (increaseUserQuota). *)
LEMMA WriteKeeps ==
  ASSUME IInv, NEW o \in Ops, Write(o)
  PROVE  IInv'
  <1>t. Typing'
    BY Constants, SMT DEF IInv, Typing, Write, Labels
  <1>f. Flags'
    BY Zenon DEF IInv, Flags, Write
  <1>c. CacheOK'
    BY DEF IInv, Write, CacheOK
  <1>l. LedgerBalances'
    BY Constants, SMT DEF IInv, Typing, Write, LedgerBalances
  <1>k. CodeOK'
    <2>1. Redeeming' \subseteq Redeeming
      BY DEF IInv, Typing, Write, Redeeming
    <2>2. UNCHANGED <<code, credited, racers>>
      BY DEF Write
    <2> QED BY <2>1, <2>2, FewerRedeeming DEF IInv
  <1> QED BY <1>t, <1>f, <1>c, <1>l, <1>k DEF IInv

(* A failed write acknowledges nothing. *)
LEMMA WriteFailsKeeps ==
  ASSUME IInv, NEW o \in Ops, WriteFails(o)
  PROVE  IInv'
  <1>t. Typing'
    BY Constants, SMT DEF IInv, Typing, WriteFails, Labels
  <1>f. Flags'
    BY Zenon DEF IInv, Flags, WriteFails
  <1>c. CacheOK'
    BY DEF IInv, WriteFails, CacheOK
  <1>l. LedgerBalances'
    BY Constants, SMT DEF IInv, Typing, WriteFails, LedgerBalances
  <1>k. CodeOK'
    <2>1. Redeeming' \subseteq Redeeming
      BY DEF IInv, Typing, WriteFails, Redeeming
    <2>2. UNCHANGED <<code, credited, racers>>
      BY DEF WriteFails
    <2> QED BY <2>1, <2>2, FewerRedeeming DEF IInv
  <1> QED BY <1>t, <1>f, <1>c, <1>l, <1>k DEF IInv

(* Looking at the key's TTL changes nothing (RedisHIncrBy). *)
LEMMA CacheTTLKeeps ==
  ASSUME IInv, NEW o \in Ops, CacheTTL(o)
  PROVE  IInv'
  <1>t. Typing'
    BY Constants, SMT DEF IInv, Typing, CacheTTL, Labels
  <1>f. Flags'
    BY Zenon DEF IInv, Flags, CacheTTL
  <1>c. CacheOK'
    BY DEF IInv, CacheTTL, CacheOK
  <1>l. LedgerBalances'
    BY Constants, SMT DEF IInv, Typing, CacheTTL, LedgerBalances
  <1>k. CodeOK'
    <2>1. Redeeming' \subseteq Redeeming
      BY DEF IInv, Typing, CacheTTL, Redeeming
    <2>2. UNCHANGED <<code, credited, racers>>
      BY DEF CacheTTL
    <2> QED BY <2>1, <2>2, FewerRedeeming DEF IInv
  <1> QED BY <1>t, <1>f, <1>c, <1>l, <1>k DEF IInv

(* The increment of the hash (RedisHIncrBy). *)
LEMMA CacheIncrKeeps ==
  ASSUME IInv, NEW o \in Ops, CacheIncr(o)
  PROVE  IInv'
  <1>t. Typing'
    BY Constants, SMT DEF IInv, Typing, CacheIncr, Labels
  <1>f. Flags'
    BY Zenon DEF IInv, Flags, CacheIncr
  <1>c. CacheOK'
    <2>1. amt[o] \in Int /\ CacheOK
      BY DEF IInv, Typing
    <2> QED BY <2>1, IncrementedOK DEF CacheIncr, CacheOK
  <1>l. LedgerBalances'
    BY Constants, SMT DEF IInv, Typing, CacheIncr, LedgerBalances
  <1>k. CodeOK'
    <2>1. Redeeming' \subseteq Redeeming
      BY DEF IInv, Typing, CacheIncr, Redeeming
    <2>2. UNCHANGED <<code, credited, racers>>
      BY DEF CacheIncr
    <2> QED BY <2>1, <2>2, FewerRedeeming DEF IInv
  <1> QED BY <1>t, <1>f, <1>c, <1>l, <1>k DEF IInv

(* A call of Redis fails (RedisHIncrBy). *)
LEMMA CacheFailsKeeps ==
  ASSUME IInv, NEW o \in Ops, CacheFails(o)
  PROVE  IInv'
  <1>t. Typing'
    BY Constants, SMT DEF IInv, Typing, CacheFails, Labels
  <1>f. Flags'
    BY Zenon DEF IInv, Flags, CacheFails
  <1>c. CacheOK'
    BY DEF IInv, CacheFails, CacheOK
  <1>l. LedgerBalances'
    BY Constants, SMT DEF IInv, Typing, CacheFails, LedgerBalances
  <1>k. CodeOK'
    <2>1. Redeeming' \subseteq Redeeming
      BY DEF IInv, Typing, CacheFails, Redeeming
    <2>2. UNCHANGED <<code, credited, racers>>
      BY DEF CacheFails
    <2> QED BY <2>1, <2>2, FewerRedeeming DEF IInv
  <1> QED BY <1>t, <1>f, <1>c, <1>l, <1>k DEF IInv

(* A read that misses the cache, or that Redis does not answer (GetUserCache). *)
LEMMA ReadQuotaKeeps ==
  ASSUME IInv, NEW o \in Ops, ReadQuota(o)
  PROVE  IInv'
  <1>t. Typing'
    BY Constants, SMT DEF IInv, Typing, ReadQuota, Labels
  <1>f. Flags'
    BY Zenon DEF IInv, Flags, ReadQuota
  <1>c. CacheOK'
    BY DEF IInv, ReadQuota, CacheOK
  <1>l. LedgerBalances'
    BY Constants, SMT DEF IInv, Typing, ReadQuota, LedgerBalances
  <1>k. CodeOK'
    <2>1. Redeeming' \subseteq Redeeming
      BY DEF IInv, Typing, ReadQuota, Redeeming
    <2>2. UNCHANGED <<code, credited, racers>>
      BY DEF ReadQuota
    <2> QED BY <2>1, <2>2, FewerRedeeming DEF IInv
  <1> QED BY <1>t, <1>f, <1>c, <1>l, <1>k DEF IInv

(* The hash is filled (RedisHSetObj). *)
LEMMA FillKeeps ==
  ASSUME IInv, NEW o \in Ops, Fill(o)
  PROVE  IInv'
  <1>t. Typing'
    BY Constants, SMT DEF IInv, Typing, Fill, Labels
  <1>f. Flags'
    BY Zenon DEF IInv, Flags, Fill
  <1>c. CacheOK'
    <2>1. [quota |-> snap[o], whole |-> TRUE] \in Hashes
      BY DEF IInv, Typing, Hashes
    <2> QED BY <2>1 DEF Fill, CacheOK
  <1>l. LedgerBalances'
    BY Constants, SMT DEF IInv, Typing, Fill, LedgerBalances
  <1>k. CodeOK'
    <2>1. Redeeming' \subseteq Redeeming
      BY DEF IInv, Typing, Fill, Redeeming
    <2>2. UNCHANGED <<code, credited, racers>>
      BY DEF Fill
    <2> QED BY <2>1, <2>2, FewerRedeeming DEF IInv
  <1> QED BY <1>t, <1>f, <1>c, <1>l, <1>k DEF IInv

(* A check-in credits an award (UserCheckin). *)
LEMMA CheckinKeeps ==
  ASSUME IInv, NEW o \in Ops, Checkin(o)
  PROVE  IInv'
  <1>t. Typing'
    BY Constants, SMT DEF IInv, Typing, Checkin, Labels
  <1>f. Flags'
    BY Zenon DEF IInv, Flags, Checkin
  <1>c. CacheOK'
    BY DEF IInv, Checkin, CacheOK
  <1>l. LedgerBalances'
    BY Constants, SMT DEF IInv, Typing, Checkin, LedgerBalances
  <1>k. CodeOK'
    <2>1. Redeeming' \subseteq Redeeming
      BY DEF IInv, Typing, Checkin, Redeeming
    <2>2. UNCHANGED <<code, credited, racers>>
      BY DEF Checkin
    <2> QED BY <2>1, <2>2, FewerRedeeming DEF IInv
  <1> QED BY <1>t, <1>f, <1>c, <1>l, <1>k DEF IInv

(* A redemption reads the code, which nobody has used (Redeem). *)
LEMMA RedeemReadKeeps ==
  ASSUME IInv, NEW o \in Ops, RedeemRead(o)
  PROVE  IInv'
  <1>t. Typing'
    BY Constants, SMT DEF IInv, Typing, RedeemRead, Labels
  <1>f. Flags'
    BY Zenon DEF IInv, Flags, RedeemRead
  <1>c. CacheOK'
    BY DEF IInv, RedeemRead, CacheOK
  <1>l. LedgerBalances'
    BY Constants, SMT DEF IInv, Typing, RedeemRead, LedgerBalances
  <1>k. CodeOK'
    <2>1. credited = 0 /\ credited' = credited /\ racers' = racers /\ racers \in Nat
      BY DEF IInv, CodeOK, RedeemRead
    <2> QED BY <2>1 DEF CodeOK
  <1> QED BY <1>t, <1>f, <1>c, <1>l, <1>k DEF IInv

(* A redemption commits (Redeem). *)
LEMMA RedeemCommitKeeps ==
  ASSUME IInv, NEW o \in Ops, RedeemCommit(o)
  PROVE  IInv'
  <1>t. Typing'
    BY Constants, SMT DEF IInv, Typing, RedeemCommit, Labels
  <1>f. Flags'
    BY Zenon DEF IInv, Flags, RedeemCommit
  <1>c. CacheOK'
    BY DEF IInv, RedeemCommit, CacheOK
  <1>l. LedgerBalances'
    BY Constants, SMT DEF IInv, Typing, RedeemCommit, LedgerBalances
  <1>k. CodeOK'
    <2>1. Redeeming' = Redeeming \ {o} /\ o \in Redeeming
      BY DEF IInv, Typing, RedeemCommit, Redeeming
    <2>2. Cardinality(Redeeming') = Cardinality(Redeeming) - 1
      BY <2>1, RedeemingFinite, FS_RemoveElement
    <2>3. racers' = IF credited = 0 THEN Cardinality(Redeeming) ELSE racers
      BY DEF RedeemCommit, Redeeming
    <2>4. credited' = credited + 1 /\ code' = "used"
      BY DEF RedeemCommit
    <2> QED BY <2>2, <2>3, <2>4, RedeemingFinite, SMT DEF IInv, CodeOK
  <1> QED BY <1>t, <1>f, <1>c, <1>l, <1>k DEF IInv

(* A paid order moves the row (Recharge, BuySubscription with the balance). *)
LEMMA PayOrderKeeps ==
  ASSUME IInv, NEW o \in Ops, PayOrder(o)
  PROVE  IInv'
  <1>t. Typing'
    BY Constants, SMT DEF IInv, Typing, PayOrder, Labels
  <1>f. Flags'
    BY Zenon DEF IInv, Flags, PayOrder
  <1>c. CacheOK'
    BY DEF IInv, PayOrder, CacheOK
  <1>l. LedgerBalances'
    BY Constants, SMT DEF IInv, Typing, PayOrder, LedgerBalances
  <1>k. CodeOK'
    <2>1. Redeeming' \subseteq Redeeming
      BY DEF IInv, Typing, PayOrder, Redeeming
    <2>2. UNCHANGED <<code, credited, racers>>
      BY DEF PayOrder
    <2> QED BY <2>1, <2>2, FewerRedeeming DEF IInv
  <1> QED BY <1>t, <1>f, <1>c, <1>l, <1>k DEF IInv

(* An administrator sets the balance (ManageUser). *)
LEMMA OverrideKeeps ==
  ASSUME IInv, NEW o \in Ops, Override(o)
  PROVE  IInv'
  <1>t. Typing'
    BY Constants, SMT DEF IInv, Typing, Override, Labels
  <1>f. Flags'
    BY Zenon DEF IInv, Flags, Override
  <1>c. CacheOK'
    BY DEF IInv, Override, CacheOK
  <1>l. LedgerBalances'
    <2>1. /\ db \in Int /\ store \in Int /\ taken \in Int /\ lost \in Int /\ acked \in Int
          /\ Initial \in Int /\ db' \in Int
      BY <1>t, Constants DEF IInv, Typing
    <2>2. /\ UNCHANGED <<store, taken, lost, raced>>
          /\ acked' = acked + (db' - db)
      BY DEF Override
    <2>3. CASE raced
      BY <2>2, <2>3 DEF LedgerBalances
    <2>4. CASE ~raced
      <3>1. db + store + taken + lost = Initial + acked
        BY <2>4 DEF IInv, LedgerBalances
      <3>2. db' + store + taken + lost = Initial + (acked + (db' - db))
        BY <2>1, <3>1, Replaced
      <3> QED BY <2>2, <3>2, Zenon DEF LedgerBalances
    <2> QED BY <2>3, <2>4
  <1>k. CodeOK'
    <2>1. Redeeming' \subseteq Redeeming
      BY DEF IInv, Typing, Override, Redeeming
    <2>2. UNCHANGED <<code, credited, racers>>
      BY DEF Override
    <2> QED BY <2>1, <2>2, FewerRedeeming DEF IInv
  <1> QED BY <1>t, <1>f, <1>c, <1>l, <1>k DEF IInv

(* A user is loaded (GetUserById). *)
LEMMA ProfileLoadKeeps ==
  ASSUME IInv, NEW o \in Ops, ProfileLoad(o)
  PROVE  IInv'
  <1>t. Typing'
    BY Constants, SMT DEF IInv, Typing, ProfileLoad, Labels
  <1>f. Flags'
    BY Zenon DEF IInv, Flags, ProfileLoad
  <1>c. CacheOK'
    BY DEF IInv, ProfileLoad, CacheOK
  <1>l. LedgerBalances'
    BY Constants, SMT DEF IInv, Typing, ProfileLoad, LedgerBalances
  <1>k. CodeOK'
    <2>1. Redeeming' \subseteq Redeeming
      BY DEF IInv, Typing, ProfileLoad, Redeeming
    <2>2. UNCHANGED <<code, credited, racers>>
      BY DEF ProfileLoad
    <2> QED BY <2>1, <2>2, FewerRedeeming DEF IInv
  <1> QED BY <1>t, <1>f, <1>c, <1>l, <1>k DEF IInv

(* A user is saved, balance included (User.Update). *)
LEMMA ProfileSaveKeeps ==
  ASSUME IInv, NEW o \in Ops, ProfileSave(o)
  PROVE  IInv'
  <1>t. Typing'
    BY Constants, SMT DEF IInv, Typing, ProfileSave, Labels, SavedQuota
  <1>f. Flags'
    BY Zenon DEF IInv, Flags, ProfileSave
  <1>c. CacheOK'
    BY DEF IInv, ProfileSave, CacheOK
  <1>l. LedgerBalances'
    <2>1. CASE raced'
      BY <2>1 DEF LedgerBalances
    <2>2. CASE ~raced'
      <3>1. ~raced /\ db = SavedQuota(snap[o])
        BY <2>2, Zenon DEF ProfileSave
      <3>2. db + store + taken + lost = Initial + acked
        BY <3>1 DEF IInv, LedgerBalances
      <3>3. db' + store' + taken' + lost' = Initial + acked'
        <4>1. /\ db \in Int /\ store \in Int /\ taken \in Int
              /\ lost \in Int /\ acked \in Int /\ amt[o] \in Int /\ snap[o] \in Int
          BY DEF IInv, Typing
        <4>2. db' = SavedQuota(snap[o]) /\ acked' = acked
          BY Zenon DEF ProfileSave
        <4>3. store' = store /\ taken' = taken /\ lost' = lost
          BY DEF ProfileSave
        <4>4. db = SavedQuota(snap[o])
          BY <3>1
        <4>5. Initial \in Int
          BY Constants
        <4> QED BY <3>2, <4>1, <4>2, <4>3, <4>4, <4>5
      <3> QED BY <3>3, UserQuotaAssumption DEF LedgerBalances
    <2> QED BY <2>1, <2>2
  <1>k. CodeOK'
    <2>1. Redeeming' \subseteq Redeeming
      BY DEF IInv, Typing, ProfileSave, Redeeming, SavedQuota
    <2>2. UNCHANGED <<code, credited, racers>>
      BY DEF ProfileSave
    <2> QED BY <2>1, <2>2, FewerRedeeming DEF IInv
  <1> QED BY <1>t, <1>f, <1>c, <1>l, <1>k DEF IInv

(* A low-balance reset reads the balance. *)
LEMMA ResetReadKeeps ==
  ASSUME IInv, NEW o \in Ops, ResetRead(o)
  PROVE  IInv'
  <1>t. Typing'
    BY Constants, SMT DEF IInv, Typing, ResetRead, Labels
  <1>f. Flags'
    BY Zenon DEF IInv, Flags, ResetRead
  <1>c. CacheOK'
    BY DEF IInv, ResetRead, CacheOK
  <1>l. LedgerBalances'
    BY Constants, SMT DEF IInv, Typing, ResetRead, LedgerBalances
  <1>k. CodeOK'
    <2>1. Redeeming' \subseteq Redeeming
      BY DEF IInv, Typing, ResetRead, Redeeming
    <2>2. UNCHANGED <<code, credited, racers>>
      BY DEF ResetRead
    <2> QED BY <2>1, <2>2, FewerRedeeming DEF IInv
  <1> QED BY <1>t, <1>f, <1>c, <1>l, <1>k DEF IInv

(* A low-balance reset writes the balance. *)
LEMMA ResetWriteKeeps ==
  ASSUME IInv, NEW o \in Ops, ResetWrite(o)
  PROVE  IInv'
  <1>t. Typing'
    BY Constants, SMT DEF IInv, Typing, ResetWrite, Labels
  <1>f. Flags'
    BY Zenon DEF IInv, Flags, ResetWrite
  <1>c. CacheOK'
    BY DEF IInv, ResetWrite, CacheOK
  <1>l. LedgerBalances'
    <2>1. CASE raced'
      BY <2>1 DEF LedgerBalances
    <2>2. CASE ~raced'
      <3>1. ~raced /\ db = snap[o]
        BY <2>2, Zenon DEF ResetWrite
      <3>2. db + store + taken + lost = Initial + acked
        BY <3>1 DEF IInv, LedgerBalances
      <3>3. db' + store' + taken' + lost' = Initial + acked'
        <4>1. /\ db \in Int /\ store \in Int /\ taken \in Int
              /\ lost \in Int /\ acked \in Int /\ amt[o] \in Int /\ snap[o] \in Int
          BY DEF IInv, Typing
        <4>2. db' = amt[o] /\ acked' = acked + (amt[o] - snap[o])
          BY Zenon DEF ResetWrite
        <4>3. store' = store /\ taken' = taken /\ lost' = lost
          BY DEF ResetWrite
        <4>4. db = snap[o]
          BY <3>1
        <4>5. Initial \in Int
          BY Constants
        <4>6. amt[o] + store + taken + lost = Initial + (acked + (amt[o] - db))
          BY <3>2, <4>1, <4>5, Replaced
        <4>7. db' + store' + taken' + lost' = amt[o] + store + taken + lost
          BY <4>2, <4>3, Zenon
        <4>8. acked' = acked + (amt[o] - db)
          BY <4>2, <4>4, Zenon
        <4> QED BY <4>6, <4>7, <4>8, Zenon
      <3> QED BY <3>3, UserQuotaAssumption DEF LedgerBalances
    <2> QED BY <2>1, <2>2
  <1>k. CodeOK'
    <2>1. Redeeming' \subseteq Redeeming
      BY DEF IInv, Typing, ResetWrite, Redeeming
    <2>2. UNCHANGED <<code, credited, racers>>
      BY DEF ResetWrite
    <2> QED BY <2>1, <2>2, FewerRedeeming DEF IInv
  <1> QED BY <1>t, <1>f, <1>c, <1>l, <1>k DEF IInv

(* A low-balance reset is not needed. *)
LEMMA ResetCompleteKeeps ==
  ASSUME IInv, NEW o \in Ops, ResetComplete(o)
  PROVE  IInv'
  <1>t. Typing'
    BY Constants, SMT DEF IInv, Typing, ResetComplete, Labels
  <1>f. Flags'
    BY Zenon DEF IInv, Flags, ResetComplete
  <1>c. CacheOK'
    BY DEF IInv, ResetComplete, CacheOK
  <1>l. LedgerBalances'
    BY Constants, SMT DEF IInv, Typing, ResetComplete, LedgerBalances
  <1>k. CodeOK'
    <2>1. Redeeming' \subseteq Redeeming
      BY DEF IInv, Typing, ResetComplete, Redeeming
    <2>2. UNCHANGED <<code, credited, racers>>
      BY DEF ResetComplete
    <2> QED BY <2>1, <2>2, FewerRedeeming DEF IInv
  <1> QED BY <1>t, <1>f, <1>c, <1>l, <1>k DEF IInv

(* The balances below the target are raised to it. *)
LEMMA ResetAllKeeps ==
  ASSUME IInv, NEW o \in Ops, ResetAll(o)
  PROVE  IInv'
  <1>t. Typing'
    BY Constants, SMT DEF IInv, Typing, ResetAll, Labels
  <1>f. Flags'
    BY Zenon DEF IInv, Flags, ResetAll
  <1>c. CacheOK'
    BY DEF IInv, ResetAll, CacheOK
  <1>l. LedgerBalances'
    <2>1. /\ db \in Int /\ store \in Int /\ taken \in Int /\ lost \in Int /\ acked \in Int
          /\ Initial \in Int /\ db' \in Int
      BY <1>t, Constants DEF IInv, Typing
    <2>2. /\ UNCHANGED <<store, taken, lost, raced>>
          /\ acked' = acked + (db' - db)
      BY DEF ResetAll
    <2>3. CASE raced
      BY <2>2, <2>3 DEF LedgerBalances
    <2>4. CASE ~raced
      <3>1. db + store + taken + lost = Initial + acked
        BY <2>4 DEF IInv, LedgerBalances
      <3>2. db' + store + taken + lost = Initial + (acked + (db' - db))
        BY <2>1, <3>1, Replaced
      <3> QED BY <2>2, <3>2, Zenon DEF LedgerBalances
    <2> QED BY <2>3, <2>4
  <1>k. CodeOK'
    <2>1. Redeeming' \subseteq Redeeming
      BY DEF IInv, Typing, ResetAll, Redeeming
    <2>2. UNCHANGED <<code, credited, racers>>
      BY DEF ResetAll
    <2> QED BY <2>1, <2>2, FewerRedeeming DEF IInv
  <1> QED BY <1>t, <1>f, <1>c, <1>l, <1>k DEF IInv

(* A transaction, or a write of the hash, fails. *)
LEMMA StepFailsKeeps ==
  ASSUME IInv, NEW o \in Ops, StepFails(o)
  PROVE  IInv'
  <1>t. Typing'
    BY Constants, SMT DEF IInv, Typing, StepFails, Labels
  <1>f. Flags'
    BY Zenon DEF IInv, Flags, StepFails
  <1>c. CacheOK'
    BY DEF IInv, StepFails, CacheOK
  <1>l. LedgerBalances'
    BY Constants, SMT DEF IInv, Typing, StepFails, LedgerBalances
  <1>k. CodeOK'
    <2>1. Redeeming' \subseteq Redeeming
      BY DEF IInv, Typing, StepFails, Redeeming
    <2>2. UNCHANGED <<code, credited, racers>>
      BY DEF StepFails
    <2> QED BY <2>1, <2>2, FewerRedeeming DEF IInv
  <1> QED BY <1>t, <1>f, <1>c, <1>l, <1>k DEF IInv

(* Looking at the key's TTL changes nothing (RedisHSetField). *)
LEMMA SetTTLKeeps ==
  ASSUME IInv, NEW o \in Ops, SetTTL(o)
  PROVE  IInv'
  <1>t. Typing'
    BY Constants, SMT DEF IInv, Typing, SetTTL, Labels
  <1>f. Flags'
    BY Zenon DEF IInv, Flags, SetTTL
  <1>c. CacheOK'
    BY DEF IInv, SetTTL, CacheOK
  <1>l. LedgerBalances'
    BY Constants, SMT DEF IInv, Typing, SetTTL, LedgerBalances
  <1>k. CodeOK'
    <2>1. Redeeming' \subseteq Redeeming
      BY DEF IInv, Typing, SetTTL, Redeeming
    <2>2. UNCHANGED <<code, credited, racers>>
      BY DEF SetTTL
    <2> QED BY <2>1, <2>2, FewerRedeeming DEF IInv
  <1> QED BY <1>t, <1>f, <1>c, <1>l, <1>k DEF IInv

(* One field of the hash is set (RedisHSetField). *)
LEMMA CacheSetKeeps ==
  ASSUME IInv, NEW o \in Ops, CacheSet(o)
  PROVE  IInv'
  <1>t. Typing'
    BY Constants, SMT DEF IInv, Typing, CacheSet, Labels
  <1>f. Flags'
    BY Zenon DEF IInv, Flags, CacheSet
  <1>c. CacheOK'
    <2>1. [quota |-> snap[o], whole |-> \E h \in cache : h.whole] \in Hashes
      BY DEF IInv, Typing, Hashes
    <2> QED BY <2>1 DEF CacheSet, CacheOK
  <1>l. LedgerBalances'
    BY Constants, SMT DEF IInv, Typing, CacheSet, LedgerBalances
  <1>k. CodeOK'
    <2>1. Redeeming' \subseteq Redeeming
      BY DEF IInv, Typing, CacheSet, Redeeming
    <2>2. UNCHANGED <<code, credited, racers>>
      BY DEF CacheSet
    <2> QED BY <2>1, <2>2, FewerRedeeming DEF IInv
  <1> QED BY <1>t, <1>f, <1>c, <1>l, <1>k DEF IInv

(* The store is emptied (batchUpdate). *)
LEMMA BatchTakeKeeps ==
  ASSUME IInv, BatchTake
  PROVE  IInv'
  <1>t. Typing'
    BY Constants, SMT DEF IInv, Typing, BatchTake, Labels
  <1>f. Flags'
    BY Zenon DEF IInv, Flags, BatchTake
  <1>c. CacheOK'
    BY DEF IInv, BatchTake, CacheOK
  <1>l. LedgerBalances'
    BY Constants, SMT DEF IInv, Typing, BatchTake, LedgerBalances
  <1>k. CodeOK'
    <2>1. Redeeming' \subseteq Redeeming
      BY DEF IInv, Typing, BatchTake, Redeeming
    <2>2. UNCHANGED <<code, credited, racers>>
      BY DEF BatchTake
    <2> QED BY <2>1, <2>2, FewerRedeeming DEF IInv
  <1> QED BY <1>t, <1>f, <1>c, <1>l, <1>k DEF IInv

(* What was taken is written (batchUpdate). *)
LEMMA BatchWriteKeeps ==
  ASSUME IInv, BatchWrite
  PROVE  IInv'
  <1>t. Typing'
    BY Constants, SMT DEF IInv, Typing, BatchWrite, Labels
  <1>f. Flags'
    BY Zenon DEF IInv, Flags, BatchWrite
  <1>c. CacheOK'
    BY DEF IInv, BatchWrite, CacheOK
  <1>l. LedgerBalances'
    BY Constants, SMT DEF IInv, Typing, BatchWrite, LedgerBalances
  <1>k. CodeOK'
    <2>1. Redeeming' \subseteq Redeeming
      BY DEF IInv, Typing, BatchWrite, Redeeming
    <2>2. UNCHANGED <<code, credited, racers>>
      BY DEF BatchWrite
    <2> QED BY <2>1, <2>2, FewerRedeeming DEF IInv
  <1> QED BY <1>t, <1>f, <1>c, <1>l, <1>k DEF IInv

(* What was taken is lost (batchUpdate). *)
LEMMA BatchFailsKeeps ==
  ASSUME IInv, BatchFails
  PROVE  IInv'
  <1>t. Typing'
    BY Constants, SMT DEF IInv, Typing, BatchFails, Labels
  <1>f. Flags'
    BY Zenon DEF IInv, Flags, BatchFails
  <1>c. CacheOK'
    BY DEF IInv, BatchFails, CacheOK
  <1>l. LedgerBalances'
    BY Constants, SMT DEF IInv, Typing, BatchFails, LedgerBalances
  <1>k. CodeOK'
    <2>1. Redeeming' \subseteq Redeeming
      BY DEF IInv, Typing, BatchFails, Redeeming
    <2>2. UNCHANGED <<code, credited, racers>>
      BY DEF BatchFails
    <2> QED BY <2>1, <2>2, FewerRedeeming DEF IInv
  <1> QED BY <1>t, <1>f, <1>c, <1>l, <1>k DEF IInv

(* The process dies. *)
LEMMA CrashKeeps ==
  ASSUME IInv, Crash
  PROVE  IInv'
  <1>t. Typing'
    BY Constants, SMT DEF IInv, Typing, Crash, Labels
  <1>f. Flags'
    BY Zenon DEF IInv, Flags, Crash
  <1>c. CacheOK'
    BY DEF IInv, Crash, CacheOK
  <1>l. LedgerBalances'
    BY Constants, SMT DEF IInv, Typing, Crash, LedgerBalances
  <1>k. CodeOK'
    <2>1. Redeeming' \subseteq Redeeming
      BY DEF IInv, Typing, Crash, Redeeming
    <2>2. UNCHANGED <<code, credited, racers>>
      BY DEF Crash
    <2> QED BY <2>1, <2>2, FewerRedeeming DEF IInv
  <1> QED BY <1>t, <1>f, <1>c, <1>l, <1>k DEF IInv

(* The hash expires. *)
LEMMA ExpiresKeeps ==
  ASSUME IInv, Expires
  PROVE  IInv'
  <1>t. Typing'
    BY Constants, SMT DEF IInv, Typing, Expires, Labels
  <1>f. Flags'
    BY Zenon DEF IInv, Flags, Expires
  <1>c. CacheOK'
    BY DEF IInv, Expires, CacheOK
  <1>l. LedgerBalances'
    BY Constants, SMT DEF IInv, Typing, Expires, LedgerBalances
  <1>k. CodeOK'
    <2>1. Redeeming' \subseteq Redeeming
      BY DEF IInv, Typing, Expires, Redeeming
    <2>2. UNCHANGED <<code, credited, racers>>
      BY DEF Expires
    <2> QED BY <2>1, <2>2, FewerRedeeming DEF IInv
  <1> QED BY <1>t, <1>f, <1>c, <1>l, <1>k DEF IInv

(* A reset is scheduled (MaybeScheduleLowBalanceQuotaReset). *)
LEMMA ScheduleKeeps ==
  ASSUME IInv, Schedule
  PROVE  IInv'
  <1>t. Typing'
    BY Constants, SMT DEF IInv, Typing, Schedule, Labels
  <1>f. Flags'
    BY Zenon DEF IInv, Flags, Schedule
  <1>c. CacheOK'
    BY DEF IInv, Schedule, CacheOK
  <1>l. LedgerBalances'
    BY Constants, SMT DEF IInv, Typing, Schedule, LedgerBalances
  <1>k. CodeOK'
    <2>1. Redeeming' \subseteq Redeeming
      BY DEF IInv, Typing, Schedule, Redeeming
    <2>2. UNCHANGED <<code, credited, racers>>
      BY DEF Schedule
    <2> QED BY <2>1, <2>2, FewerRedeeming DEF IInv
  <1> QED BY <1>t, <1>f, <1>c, <1>l, <1>k DEF IInv

-----------------------------------------------------------------------------
(* Every step keeps the invariant. *)
LEMMA NextKeeps ==
  ASSUME IInv, [Next]_vars
  PROVE  IInv'
  <1>1. ASSUME NEW o \in Ops, Step(o)
        PROVE  IInv'
    BY <1>1, ChangeKeeps, WriteKeeps, WriteFailsKeeps, CacheTTLKeeps, CacheIncrKeeps,
       CacheFailsKeeps, ReadQuotaKeeps, FillKeeps, CheckinKeeps, RedeemReadKeeps,
       RedeemCommitKeeps, PayOrderKeeps, OverrideKeeps, ProfileLoadKeeps, ProfileSaveKeeps,
       ResetReadKeeps, ResetWriteKeeps, ResetCompleteKeeps, ResetAllKeeps, StepFailsKeeps,
       SetTTLKeeps, CacheSetKeeps DEF Step
  <1>2. CASE batchUpdate
    BY <1>2, BatchTakeKeeps, BatchWriteKeeps, BatchFailsKeeps DEF batchUpdate
  <1>3. CASE Crash
    BY <1>3, CrashKeeps
  <1>4. CASE Expires
    BY <1>4, ExpiresKeeps
  <1>5. CASE Schedule
    BY <1>5, ScheduleKeeps
  <1>6. CASE UNCHANGED vars
    BY <1>6 DEF vars, IInv, Typing, Flags, CacheOK, LedgerBalances, CodeOK, Redeeming
  <1>7. CASE Done
    BY <1>6, <1>7 DEF Done
  <1> QED BY <1>1, <1>2, <1>3, <1>4, <1>5, <1>6, <1>7 DEF Next

(* Nothing is under way at the start. *)
LEMMA InitHolds ==
  ASSUME Init
  PROVE  IInv
  <1>1. Typing
    BY Constants, SMT DEF Init, Typing, Labels
  <1>2. CacheOK /\ CodeOK
    BY SMT DEF Init, CacheOK, CodeOK
  <1>4. Flags
    BY Zenon DEF Init, Flags
  <1>3. LedgerBalances
    BY Constants, SMT DEF Init, LedgerBalances
  <1> QED BY <1>1, <1>2, <1>3, <1>4 DEF IInv

(* The invariant holds in every state of every behaviour. *)
THEOREM Invariance == Spec => []IInv
  <1>1. Init => IInv
    BY InitHolds
  <1>2. IInv /\ [Next]_vars => IInv'
    BY NextKeeps
  <1> QED BY <1>1, <1>2, PTL DEF Spec

(* Types of the row, the hash, the store and the operations: one hash at    *)
(* most, whatever fills, increments and expiries interleave (GetUserCache,  *)
(* RedisHIncrBy, RedisHSetField).                                           *)
THEOREM TypeCorrect == Spec => []TypeOK
  <1>1. ASSUME IInv
        PROVE  TypeOK
    <2>1. cache \subseteq Hashes /\ Cardinality(cache) <= 1
      <3>1. CASE cache = {}
        BY <3>1, FS_EmptySet
      <3>2. CASE \E h \in Hashes : cache = {h}
        <4>1. PICK h \in Hashes : cache = {h}
          BY <3>2
        <4>2. Cardinality(cache) = 1
          BY <4>1, FS_Singleton
        <4> QED BY <4>1, <4>2
      <3> QED BY <1>1, <3>1, <3>2 DEF IInv, CacheOK
    <2> QED BY <1>1, <2>1 DEF IInv, Typing, Flags, CodeOK, Hashes, TypeOK
  <1> QED BY <1>1, Invariance, PTL

(* Every acknowledged change of the balance is in the row or in the batch   *)
(* updater exactly once, or was lost with it, until a reset or the save of  *)
(* a profile overwrites a balance that has changed (IncreaseUserQuota,      *)
(* DecreaseUserQuota, batchUpdate, UserCheckin, Redeem).                    *)
THEOREM LedgerCorrect == Spec => []LedgerBalances
  <1>1. IInv => LedgerBalances
    BY DEF IInv
  <1> QED BY <1>1, Invariance, PTL

(* A redemption code is credited more than once only to redemptions that    *)
(* had all read it before the first of them committed (Redeem).             *)
THEOREM CodeCorrect == Spec => []CodeCreditedOnceUnlessRaced
  <1>1. ASSUME IInv
        PROVE  CodeCreditedOnceUnlessRaced
    BY <1>1, RedeemingFinite, SMT DEF IInv, CodeOK, CodeCreditedOnceUnlessRaced
  <1> QED BY <1>1, Invariance, PTL

-----------------------------------------------------------------------------
(* The hash and the row *)

(* What the hash has still to be told, and what the row has. *)
ToHash == SumFunctionOnSet(amt, Outstanding)
ToRow == SumFunctionOnSet(amt, Unwritten)

(* An operation that has not begun has no goroutine of the cache either, so *)
(* its amount may be set.                                                   *)
Fresh == \A o \in Ops : pc[o] = "start" => cpc[o] = "none"

FInv == IInv /\ Fresh /\ CleanCacheFollowsRow

(* An operation joins those that have something to tell. *)
LEMMA SumJoins ==
  ASSUME NEW f \in [Ops -> Int], NEW g \in [Ops -> Int], NEW S \in SUBSET Ops, NEW o \in Ops,
         o \notin S, \A p \in Ops \ {o} : g[p] = f[p]
  PROVE  /\ SumFunctionOnSet(g, S) = SumFunctionOnSet(f, S)
         /\ SumFunctionOnSet(g, S \cup {o}) = SumFunctionOnSet(f, S) + g[o]
  <1>1. IsFiniteSet(S)
    BY Constants, FS_Subset
  <1>2. \A p \in S : f[p] \in Int /\ g[p] = f[p]
    OBVIOUS
  <1>3. g[o] \in Int
    OBVIOUS
  <1> QED BY ONLY <1>1, <1>2, <1>3, o \notin S, SumJoin

(* It has told it. *)
LEMMA SumLeaves ==
  ASSUME NEW f \in [Ops -> Int], NEW S \in SUBSET Ops, NEW o \in S
  PROVE  SumFunctionOnSet(f, S \ {o}) = SumFunctionOnSet(f, S) - f[o]
  <1>1. IsFiniteSet(S) /\ IsFiniteSet(S \ {o})
    BY Constants, FS_Subset
  <1>2. \A p \in S : f[p] \in Int
    OBVIOUS
  <1>3. SumFunctionOnSet(f, S) = f[o] + SumFunctionOnSet(f, S \ {o})
    BY ONLY <1>1, <1>2, o \in S, SumTakeOut
  <1>4. SumFunctionOnSet(f, S \ {o}) \in Int
    BY ONLY <1>1, <1>2, SumTakeOut
  <1> QED BY <1>2, <1>3, <1>4

(* What is still to come is a number. *)
LEMMA ToComeOK == IInv => ToHash \in Int /\ ToRow \in Int
  <1> SUFFICES ASSUME IInv PROVE ToHash \in Int /\ ToRow \in Int
    OBVIOUS
  <1>1. IsFiniteSet(Outstanding) /\ IsFiniteSet(Unwritten)
    BY Constants, FS_Subset DEF Outstanding, Unwritten
  <1>2. \A o \in Ops : amt[o] \in Int
    BY DEF IInv, Typing
  <1>3. SumFunctionOnSet(amt, Outstanding) \in Int
    <2>1. \A o \in Outstanding : amt[o] \in Int
      BY <1>2 DEF Outstanding
    <2> QED BY ONLY <1>1, <2>1, SumTakeOut
  <1>4. SumFunctionOnSet(amt, Unwritten) \in Int
    <2>1. \A o \in Unwritten : amt[o] \in Int
      BY <1>2 DEF Unwritten
    <2> QED BY ONLY <1>1, <2>1, SumTakeOut
  <1> QED BY <1>3, <1>4 DEF ToHash, ToRow

(* The hash is left alone, and what it has still to be told changes by as   *)
(* much as the row's balance and what is still to be written to it.         *)
LEMMA HashUntouched ==
  ASSUME FInv, IInv', cache' = cache, clean' => clean,
         ToHash' - ToHash = (db + store + taken + ToRow)' - (db + store + taken + ToRow)
  PROVE  CleanCacheFollowsRow'
  <1>1. /\ ToHash \in Int /\ ToRow \in Int /\ ToHash' \in Int /\ ToRow' \in Int
        /\ db \in Int /\ store \in Int /\ taken \in Int
        /\ db' \in Int /\ store' \in Int /\ taken' \in Int
    <2>1. (ToHash \in Int /\ ToRow \in Int)'
      BY ToComeOK, PTL
    <2> QED BY <2>1, ToComeOK DEF FInv, IInv, Typing
  <1>2. ASSUME NEW h \in cache', clean'
        PROVE  h.quota + ToHash' = (db + store + taken + ToRow)'
    <2>1. h.quota \in Int /\ h \in cache
      BY <1>2 DEF FInv, IInv, CacheOK, Hashes
    <2>2. h.quota + ToHash = db + store + taken + ToRow
      BY <1>2, <2>1 DEF FInv, CleanCacheFollowsRow, ToHash, ToRow
    <2> QED BY <1>1, <2>1, <2>2
  <1> QED BY <1>2 DEF CleanCacheFollowsRow, ToHash, ToRow

(* The hash is filled with the row's balance while nothing is under way.    *)
LEMMA HashFilled ==
  ASSUME FInv, NEW o \in Ops, Fill(o) \/ CacheSet(o)
  PROVE  CleanCacheFollowsRow'
  <1>1. ASSUME NEW h \in cache', clean'
        PROVE  h.quota + ToHash' = (db + store + taken + ToRow)'
    <2>1. /\ h.quota = db /\ db \in Int /\ store = 0 /\ taken = 0
          /\ UNCHANGED <<db, store, taken, cpc>>
          /\ \A p \in Ops : cpc[p] = "none"
          /\ \A p \in Ops : pc'[p] # "write"
      <3>1. snap[o] = db /\ Quiet(o)
        BY <1>1, Zenon DEF Fill, CacheSet
      <3>2. h.quota = snap[o]
        <4>1. \E w : h = [quota |-> snap[o], whole |-> w]
          BY <1>1, Zenon DEF Fill, CacheSet
        <4> QED BY ONLY <4>1
      <3>3. pc' = [pc EXCEPT ![o] = "done"] /\ UNCHANGED <<db, store, taken, cpc>>
        BY DEF Fill, CacheSet
      <3> QED BY <3>1, <3>2, <3>3 DEF Quiet, FInv, IInv, Typing
    <2>2. Outstanding' = {} /\ Unwritten' = {}
      BY <2>1 DEF Outstanding, Unwritten
    <2>3. ToHash' = 0 /\ ToRow' = 0
      BY <2>2, SumEmpty DEF ToHash, ToRow
    <2> QED BY <2>1, <2>3
  <1> QED BY <1>1 DEF CleanCacheFollowsRow, ToHash, ToRow

(* Nothing is added to what is still to come. *)
LEMMA NothingToTell ==
  ASSUME FInv, IInv', cache' = cache, clean' => clean,
         amt' = amt, Outstanding' = Outstanding, Unwritten' = Unwritten,
         db' + store' + taken' = db + store + taken
  PROVE  CleanCacheFollowsRow'
  <1>1. ToHash' = ToHash /\ ToRow' = ToRow
    BY DEF ToHash, ToRow
  <1>2. /\ ToHash \in Int /\ ToRow \in Int
        /\ db \in Int /\ store \in Int /\ taken \in Int
        /\ db' \in Int /\ store' \in Int /\ taken' \in Int
    BY ToComeOK DEF FInv, IInv, Typing
  <1>3. ToHash' - ToHash = (db + store + taken + ToRow)' - (db + store + taken + ToRow)
    <2>1. db' + store' + taken' + ToRow' = db + store + taken + ToRow
      BY <1>1
    <2>2. db + store + taken + ToRow \in Int
      BY <1>2
    <2>3. (db + store + taken + ToRow)' = db + store + taken + ToRow
      BY <2>1
    <2>4. ToHash - ToHash = 0
      BY <1>2
    <2>5. ToHash' - ToHash = 0
      BY <1>1, <2>4, Zenon
    <2>6. (db + store + taken + ToRow) - (db + store + taken + ToRow) = 0
      BY <2>2
    <2>7. (db + store + taken + ToRow)' - (db + store + taken + ToRow) = 0
      BY ONLY <2>3, <2>6, Zenon
    <2> QED BY ONLY <2>5, <2>7, Zenon
  <1> QED BY <1>3, HashUntouched

(* The steps of an operation. *)
LEMMA StepFollows ==
  ASSUME FInv, IInv', NEW o \in Ops, Step(o)
  PROVE  CleanCacheFollowsRow'
  <1>0. /\ IInv /\ Typing /\ Typing' /\ ToHash \in Int /\ ToRow \in Int
        /\ amt \in [Ops -> Int] /\ amt' \in [Ops -> Int]
        /\ db \in Int /\ store \in Int /\ taken \in Int
        /\ Outstanding \in SUBSET Ops /\ Unwritten \in SUBSET Ops
    BY ToComeOK DEF FInv, IInv, Typing, Outstanding, Unwritten
  <1>1. CASE \/ WriteFails(o) \/ CacheFails(o) \/ RedeemCommit(o) \/ PayOrder(o)
             \/ Override(o) \/ ResetWrite(o) \/ ResetAll(o)
    <2>1. clean' = FALSE
      BY <1>1 DEF WriteFails, CacheFails, RedeemCommit, PayOrder, Override, ResetWrite, ResetAll
    <2> QED BY <2>1 DEF CleanCacheFollowsRow
  <1>2. CASE Fill(o) \/ CacheSet(o)
    BY <1>2, HashFilled
  <1>3. CASE Change(o) \/ Checkin(o)
    <2>1. /\ pc[o] = "start" /\ cpc[o] = "none"
          /\ cpc' = [cpc EXCEPT ![o] = "ttl"] /\ cache' = cache /\ clean' = clean
          /\ taken' = taken
      BY <1>3 DEF Change, Checkin, FInv, Fresh
    <2>2. /\ o \notin Outstanding /\ o \notin Unwritten
          /\ Outstanding' = Outstanding \cup {o}
      BY <1>0, <2>1 DEF Outstanding, Unwritten, Typing
    <2>3. PICK d \in Deltas :
            /\ amt' = [amt EXCEPT ![o] = d]
            /\ \/ pc' = [pc EXCEPT ![o] = "write"] /\ UNCHANGED <<db, store>>
               \/ /\ pc' = [pc EXCEPT ![o] = "done"]
                  /\ (db' = db /\ store' = store + d) \/ (db' = db + d /\ store' = store)
      BY <1>3 DEF Change, Checkin
    <2>4. d \in Int /\ amt'[o] = d /\ \A p \in Ops \ {o} : amt'[p] = amt[p]
      BY <1>0, <2>3, Constants
    <2>5. ToHash' = ToHash + d
      BY <1>0, <2>2, <2>4, SumJoins DEF ToHash
    <2>6. CASE pc' = [pc EXCEPT ![o] = "write"] /\ UNCHANGED <<db, store>>
      <3>1. Unwritten' = Unwritten \cup {o}
        BY <1>0, <2>6 DEF Unwritten, Typing
      <3>2. ToRow' = ToRow + d
        BY <1>0, <2>2, <2>4, <3>1, SumJoins DEF ToRow
      <3>3. ToHash' - ToHash = (db + store + taken + ToRow)' - (db + store + taken + ToRow)
        BY <1>0, <2>1, <2>4, <2>5, <2>6, <3>2
      <3> QED BY <2>1, <3>3, HashUntouched
    <2>7. CASE /\ pc' = [pc EXCEPT ![o] = "done"]
               /\ (db' = db /\ store' = store + d) \/ (db' = db + d /\ store' = store)
      <3>1. Unwritten' = Unwritten
        BY <1>0, <2>1, <2>7 DEF Unwritten, Typing
      <3>2. ToRow' = ToRow
        BY <1>0, <2>2, <2>4, <3>1, SumJoins DEF ToRow
      <3>3. ToHash' - ToHash = (db + store + taken + ToRow)' - (db + store + taken + ToRow)
        BY <1>0, <2>1, <2>4, <2>5, <2>7, <3>2
      <3> QED BY <2>1, <3>3, HashUntouched
    <2> QED BY <2>3, <2>6, <2>7
  <1>4. CASE Write(o)
    <2>1. /\ o \in Unwritten /\ Unwritten' = Unwritten \ {o} /\ Outstanding' = Outstanding
          /\ db' = db + amt[o] /\ UNCHANGED <<cache, clean, store, taken, amt>>
      BY <1>0, <1>4 DEF Write, Unwritten, Outstanding, Typing
    <2>2. ToRow' = ToRow - amt[o] /\ ToHash' = ToHash /\ amt[o] \in Int
      BY <1>0, <2>1, SumLeaves DEF ToRow, ToHash
    <2>3. ToHash' - ToHash = (db + store + taken + ToRow)' - (db + store + taken + ToRow)
      BY <1>0, <2>1, <2>2
    <2> QED BY <2>1, <2>3, HashUntouched
  <1>5. CASE CacheTTL(o)
    <2>1. UNCHANGED <<cache, clean, amt, db, store, taken, pc>>
          /\ (cache # {} => Outstanding' = Outstanding)
      BY <1>0, <1>5 DEF CacheTTL, Outstanding, Typing
    <2>2. CASE cache = {}
      BY <2>1, <2>2 DEF CleanCacheFollowsRow
    <2>3. CASE cache # {}
      BY <2>1, <2>3, NothingToTell DEF Unwritten
    <2> QED BY <2>2, <2>3
  <1>6. CASE CacheIncr(o)
    <2>1. /\ o \in Outstanding /\ Outstanding' = Outstanding \ {o} /\ Unwritten' = Unwritten
          /\ cache' = Incremented(amt[o]) /\ (clean' => clean /\ cache # {})
          /\ UNCHANGED <<db, store, taken, amt>>
      BY <1>0, <1>6 DEF CacheIncr, Unwritten, Outstanding, Typing
    <2>2. ToHash' = ToHash - amt[o] /\ ToRow' = ToRow /\ amt[o] \in Int
      BY <1>0, <2>1, SumLeaves DEF ToRow, ToHash
    <2>3. ASSUME NEW h \in cache', clean'
          PROVE  h.quota + ToHash' = (db + store + taken + ToRow)'
      <3>1. PICK g \in Hashes : cache = {g}
        BY <1>0, <2>1, <2>3 DEF IInv, CacheOK
      <3>2. h = [g EXCEPT !.quota = @ + amt[o]]
        BY <2>1, <2>3, <3>1 DEF Incremented
      <3>3. g.quota \in Int /\ h.quota = g.quota + amt[o]
        BY <3>1, <3>2 DEF Hashes
      <3>4. g.quota + ToHash = db + store + taken + ToRow
        BY <2>1, <2>3, <3>1 DEF FInv, CleanCacheFollowsRow, ToHash, ToRow
      <3> QED BY <1>0, <2>1, <2>2, <3>3, <3>4
    <2> QED BY <2>3 DEF CleanCacheFollowsRow, ToHash, ToRow
  <1>7. CASE ResetRead(o)
    <2>1. /\ pc[o] = "start" /\ cpc[o] = "none" /\ \A p \in Ops \ {o} : amt'[p] = amt[p]
          /\ UNCHANGED <<cache, clean, db, store, taken, cpc>>
      BY <1>0, <1>7 DEF ResetRead, FInv, Fresh
    <2>2. /\ o \notin Outstanding /\ o \notin Unwritten
          /\ Outstanding' = Outstanding /\ Unwritten' = Unwritten
      BY <1>0, <1>7, <2>1 DEF ResetRead, Outstanding, Unwritten, Typing
    <2>3. ToHash' = ToHash /\ ToRow' = ToRow
      BY <1>0, <2>1, <2>2, SumJoins DEF ToHash, ToRow
    <2>4. ToHash' - ToHash = (db + store + taken + ToRow)' - (db + store + taken + ToRow)
      BY <1>0, <2>1, <2>3
    <2> QED BY <2>1, <2>4, HashUntouched
  <1>8. CASE \/ ReadQuota(o) \/ RedeemRead(o) \/ ProfileLoad(o) \/ ResetComplete(o)
             \/ StepFails(o) \/ SetTTL(o)
    <2>1. /\ UNCHANGED <<cache, clean, db, store, taken, cpc, amt>>
          /\ pc[o] # "write" /\ \E l \in Labels \ {"write"} : pc' = [pc EXCEPT ![o] = l]
      BY <1>8 DEF ReadQuota, RedeemRead, ProfileLoad, ResetComplete, StepFails, SetTTL, Labels
    <2>2. Outstanding' = Outstanding /\ Unwritten' = Unwritten
      BY <1>0, <2>1 DEF Outstanding, Unwritten, Typing
    <2> QED BY <2>1, <2>2, NothingToTell
  <1>9. CASE ProfileSave(o)
    <2>1. CASE clean'
      <3>1. /\ UNCHANGED <<cache, db, store, taken, cpc, amt>> /\ clean
            /\ pc[o] # "write" /\ pc' = [pc EXCEPT ![o] = "fill"]
        BY <1>9, <2>1 DEF ProfileSave
      <3>2. Outstanding' = Outstanding /\ Unwritten' = Unwritten
        BY <1>0, <3>1 DEF Outstanding, Unwritten, Typing
      <3> QED BY <3>1, <3>2, NothingToTell
    <2>2. CASE ~clean'
      BY <2>2 DEF CleanCacheFollowsRow
    <2> QED BY <2>1, <2>2
  <1> QED BY <1>1, <1>2, <1>3, <1>4, <1>5, <1>6, <1>7, <1>8, <1>9 DEF Step

(* Every step keeps the agreement of the hash and the row. *)
LEMMA NextFInv == FInv /\ [Next]_vars => FInv'
  <1> SUFFICES ASSUME FInv, [Next]_vars PROVE FInv'
    OBVIOUS
  <1>1. IInv' /\ Typing /\ Typing'
    BY NextKeeps DEF FInv, IInv
  <1>2. Fresh'
    <2>1. ASSUME NEW o \in Ops, Step(o) PROVE Fresh'
      <3>1. /\ \A p \in Ops \ {o} : pc'[p] = pc[p] /\ cpc'[p] = cpc[p]
            /\ pc'[o] = "start" => cpc'[o] = "none"
        BY <1>1, <2>1 DEF Step, Change, Write, WriteFails, CacheTTL, CacheIncr, CacheFails,
             ReadQuota, Fill, Checkin, RedeemRead, RedeemCommit, PayOrder, Override, ProfileLoad,
             ProfileSave, ResetRead, ResetWrite, ResetComplete, ResetAll, StepFails, SetTTL, CacheSet, FInv, Fresh, Typing
      <3> QED BY <3>1 DEF FInv, Fresh
    <2>2. CASE Crash
      BY <2>2 DEF Crash, Fresh
    <2>3. CASE batchUpdate \/ Expires \/ Schedule \/ Done \/ UNCHANGED vars
      <3>1. UNCHANGED <<pc, cpc>>
        BY <2>3 DEF batchUpdate, BatchTake, BatchWrite, BatchFails, Expires, Schedule, Done, vars
      <3> QED BY <3>1 DEF FInv, Fresh
    <2> QED BY <2>1, <2>2, <2>3 DEF Next
  <1>3. CleanCacheFollowsRow'
    <2>1. ASSUME NEW o \in Ops, Step(o) PROVE CleanCacheFollowsRow'
      BY <1>1, <2>1, StepFollows
    <2>2. CASE BatchFails \/ Crash \/ Expires
      <3>1. clean' = FALSE \/ cache' = {}
        BY <2>2 DEF BatchFails, Crash, Expires
      <3> QED BY <3>1 DEF CleanCacheFollowsRow
    <2>3. CASE BatchTake \/ BatchWrite \/ Schedule
      <3>1. UNCHANGED <<cache, clean, amt, pc, cpc>>
        BY <2>3 DEF BatchTake, BatchWrite, Schedule
      <3>2. db' + store' + taken' = db + store + taken
        <4>1. db \in Int /\ store \in Int /\ taken \in Int
          BY <1>1 DEF Typing
        <4>2. CASE BatchTake
          BY <4>1, <4>2 DEF BatchTake
        <4>3. CASE BatchWrite
          BY <4>1, <4>3 DEF BatchWrite
        <4>4. CASE Schedule
          BY <4>4 DEF Schedule
        <4> QED BY <2>3, <4>2, <4>3, <4>4
      <3> QED BY <1>1, <3>1, <3>2, NothingToTell DEF Outstanding, Unwritten
    <2>4. CASE Done \/ UNCHANGED vars
      BY <2>4 DEF Done, vars, FInv, CleanCacheFollowsRow, Outstanding, Unwritten
    <2> QED BY <2>1, <2>2, <2>3, <2>4 DEF Next, batchUpdate
  <1> QED BY <1>1, <1>2, <1>3 DEF FInv

(* For any number of operations: a hash filled while nothing was under way  *)
(* follows the row, through every order in which the goroutines of the      *)
(* cache, the writes and the batches arrive, until one of the steps that    *)
(* clean lists (GetUserCache, RedisHIncrBy, batchUpdate).                   *)
THEOREM CacheCorrect == Spec => []CleanCacheFollowsRow
  <1>1. Init => FInv
    BY InitHolds DEF FInv, Init, Fresh, CleanCacheFollowsRow
  <1>2. FInv => CleanCacheFollowsRow
    BY DEF FInv
  <1> QED BY <1>1, <1>2, NextFInv, PTL DEF Spec

=============================================================================
