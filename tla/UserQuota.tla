------------------------------ MODULE UserQuota ------------------------------
(***************************************************************************)
(* The balance of one user: the column users.quota, the Redis hash that    *)
(* caches it (model/user_cache.go over common/redis.go), the store of the  *)
(* batch updater (model/utils.go), and the operations that move it:        *)
(* charges and credits, check-ins, redemption codes, paid orders, the      *)
(* low-balance resets, an administrator's override and, unintentionally,   *)
(* every update of the user's profile, which saves the balance it had      *)
(* loaded.                                                                 *)
(*                                                                         *)
(* An operation is a goroutine; its cache update is another one, which     *)
(* looks at the key's TTL and only then changes the hash.  tx.Set(         *)
(* "gorm:query_option", "FOR UPDATE") locks nothing, so the read and the   *)
(* write of a transaction are steps of their own.                          *)
(***************************************************************************)
EXTENDS Integers, FiniteSets, Functions

CONSTANTS
  Ops,        \* operations, each one call
  Deltas,     \* what a charge (negative) or a credit may be
  Overrides,  \* what an administrator may set the balance to
  Initial,    \* the balance at the start
  CodeQuota,  \* worth of the redemption code
  Threshold,  \* lowBalanceResetThresholdUSD, in quota
  Target,     \* lowBalanceResetTargetUSD, in quota
  MaxExpiries,\* bound: how often the hash expires
  MaxFaults   \* bound: failed calls of the database or of Redis, and crashes

ASSUME UserQuotaAssumption ==
  /\ IsFiniteSet(Ops)
  /\ Deltas \subseteq Int \ {0}
  /\ Overrides \subseteq Int
  /\ Initial \in Int
  /\ CodeQuota \in Nat \ {0}
  /\ Threshold \in Nat
  /\ Target \in Nat
  /\ MaxExpiries \in Nat
  /\ MaxFaults \in Nat

VARIABLES
  db,         \* users.quota
  code,       \* status of the redemption code
  reset,      \* status of the user's UserQuotaResetState
  checkins,   \* what was credited by check-ins since it was triggered
  cache,      \* {} or one hash [quota, whole]: whole if it has all fields
  store,      \* batchUpdateStores[BatchUpdateTypeUserQuota][id]
  taken,      \* what batchUpdate has taken out of it and not yet written
  pc, amt,    \* the next step of an operation and its amount
  snap,       \* the balance it has read
  cpc,        \* the next step of its cache goroutine: "none", "ttl", "apply"
  acked,      \* sum of the changes reported as made (history)
  lost,       \* those that were in the batch updater when it failed (history)
  raced,      \* a whole balance was saved over one that had changed (history)
  clean,      \* the hash was filled while nothing was under way (history)
  credited,   \* how often the code was credited (history)
  racers,     \* redemptions that had read the code when it was first used (history)
  expiries, faults

row == <<db, code, reset, checkins>>
batch == <<store, taken>>
goroutines == <<pc, amt, snap, cpc>>
history == <<acked, lost, raced, clean, credited, racers>>
bounds == <<expiries, faults>>
vars == <<row, cache, batch, goroutines, history, bounds>>

Init ==
  /\ db = Initial /\ code = "enabled" /\ reset = "none" /\ checkins = 0
  /\ cache = {}
  /\ store = 0 /\ taken = 0
  /\ pc = [o \in Ops |-> "start"]
  /\ amt = [o \in Ops |-> 0]
  /\ snap = [o \in Ops |-> 0]
  /\ cpc = [o \in Ops |-> "none"]
  /\ acked = 0 /\ lost = 0 /\ raced = FALSE /\ clean = FALSE
  /\ credited = 0 /\ racers = 0
  /\ expiries = MaxExpiries /\ faults = MaxFaults

Goto(o, label) == pc' = [pc EXCEPT ![o] = label]
Keep(o, q) == snap' = [snap EXCEPT ![o] = q]
Fault == faults > 0 /\ faults' = faults - 1

(* Nothing but o is under way. *)
Quiet(o) == /\ store = 0 /\ taken = 0
            /\ \A p \in Ops : cpc[p] = "none"
            /\ \A p \in Ops \ {o} : pc[p] \in {"start", "done"}

-----------------------------------------------------------------------------
(* IncreaseUserQuota and DecreaseUserQuota: the goroutine for the cache is  *)
(* started first, whatever becomes of the write.                            *)

Change(o) ==
  /\ pc[o] = "start"
  /\ \E d \in Deltas :
       /\ amt' = [amt EXCEPT ![o] = d]
       /\ cpc' = [cpc EXCEPT ![o] = "ttl"]
       /\ \/ /\ Goto(o, "write")                      \* db, or no batch updates
             /\ UNCHANGED <<store, acked>>
          \/ /\ store' = store + d                    \* addNewRecord
             /\ acked' = acked + d
             /\ Goto(o, "done")
  /\ UNCHANGED <<row, cache, taken, snap, lost, raced, clean, credited, racers, bounds>>

Write(o) ==
  /\ pc[o] = "write"
  /\ db' = db + amt[o]
  /\ acked' = acked + amt[o]
  /\ Goto(o, "done")
  /\ UNCHANGED <<code, reset, checkins, cache, batch, amt, snap, cpc, lost, raced, clean,
                 credited, racers, bounds>>

WriteFails(o) ==
  /\ pc[o] = "write"
  /\ Fault
  /\ Goto(o, "done")
  /\ clean' = FALSE
  /\ UNCHANGED <<row, cache, batch, amt, snap, cpc, acked, lost, raced, credited, racers,
                 expiries>>

(* RedisHIncrBy *)
CacheTTL(o) ==
  /\ cpc[o] = "ttl"
  /\ cpc' = [cpc EXCEPT ![o] = IF cache = {} THEN "none" ELSE "apply"]
  /\ UNCHANGED <<row, cache, batch, pc, amt, snap, history, bounds>>

(* HINCRBY on a key that has expired meanwhile makes one with that field. *)
Incremented_Mutant(d) == {[quota |-> d, whole |-> cache # {}]}
Incremented(d) == IF cache = {} THEN {[quota |-> d, whole |-> FALSE]}
                  ELSE {[h EXCEPT !.quota = @ + d] : h \in cache}

CacheIncr(o) ==
  /\ cpc[o] = "apply"
  /\ cache' = Incremented(amt[o])
  /\ clean' = (clean /\ cache # {})
  /\ cpc' = [cpc EXCEPT ![o] = "none"]
  /\ UNCHANGED <<row, batch, pc, amt, snap, acked, lost, raced, credited, racers, bounds>>

(* Either call may fail; the error is only logged, and the hash has missed  *)
(* the change.                                                              *)
CacheFails(o) ==
  /\ cpc[o] # "none"
  /\ Fault
  /\ cpc' = [cpc EXCEPT ![o] = "none"]
  /\ clean' = FALSE
  /\ UNCHANGED <<row, cache, batch, pc, amt, snap, acked, lost, raced, credited, racers,
                 expiries>>

-----------------------------------------------------------------------------
(* GetUserCache: a miss is answered from the row, and the hash filled with  *)
(* it by a goroutine.                                                       *)

ReadQuota(o) ==
  /\ pc[o] = "start"
  /\ \/ cache = {} /\ UNCHANGED faults
     \/ cache # {} /\ Fault                          \* Redis does not answer
  /\ Keep(o, db)
  /\ Goto(o, "fill")
  /\ UNCHANGED <<row, cache, batch, amt, cpc, history, expiries>>

(* RedisHSetObj, for a read or for an update of the profile *)
Fill(o) ==
  /\ pc[o] = "fill"
  /\ cache' = {[quota |-> snap[o], whole |-> TRUE]}
  /\ clean' = (snap[o] = db /\ Quiet(o))
  /\ Goto(o, "done")
  /\ UNCHANGED <<row, batch, amt, snap, cpc, acked, lost, raced, credited, racers, bounds>>

(* The key's time to live is over. *)
Expires ==
  /\ cache # {}
  /\ expiries > 0
  /\ cache' = {}
  /\ expiries' = expiries - 1
  /\ UNCHANGED <<row, batch, goroutines, history, faults>>

-----------------------------------------------------------------------------
(* batchUpdate: the store is emptied under its lock, written without it.    *)

BatchTake_Mutant ==
  /\ taken = 0 /\ store # 0
  /\ taken' = store
  /\ UNCHANGED <<row, cache, store, goroutines, history, bounds>>

BatchTake_OnlyCredits ==
  /\ taken = 0 /\ store > 0
  /\ taken' = store
  /\ store' = 0
  /\ UNCHANGED <<row, cache, goroutines, history, bounds>>

BatchTake ==
  /\ taken = 0 /\ store # 0
  /\ taken' = store
  /\ store' = 0
  /\ UNCHANGED <<row, cache, goroutines, history, bounds>>

BatchWrite ==
  /\ taken # 0
  /\ db' = db + taken
  /\ taken' = 0
  /\ UNCHANGED <<code, reset, checkins, cache, store, goroutines, history, bounds>>

(* The error is logged. *)
BatchFails ==
  /\ taken # 0
  /\ Fault
  /\ lost' = lost + taken
  /\ taken' = 0
  /\ clean' = FALSE
  /\ UNCHANGED <<row, cache, store, goroutines, acked, raced, credited, racers, expiries>>

(* Goroutines and the store die with the process. *)
Crash ==
  /\ Fault
  /\ lost' = lost + store + taken
  /\ store' = 0 /\ taken' = 0
  /\ pc' = [o \in Ops |-> IF pc[o] = "start" THEN "start" ELSE "done"]
  /\ cpc' = [o \in Ops |-> "none"]
  /\ clean' = FALSE
  /\ UNCHANGED <<row, cache, amt, snap, acked, raced, credited, racers, expiries>>

-----------------------------------------------------------------------------
(* UserCheckin, in a transaction: the award lies between two positive bounds. *)
Checkin(o) ==
  /\ pc[o] = "start"
  /\ \E d \in Deltas :
       /\ d > 0
       /\ db' = db + d
       /\ checkins' = IF reset = "pending" THEN checkins + d ELSE checkins
       /\ acked' = acked + d
       /\ amt' = [amt EXCEPT ![o] = d]
  /\ cpc' = [cpc EXCEPT ![o] = "ttl"]
  /\ Goto(o, "done")
  /\ UNCHANGED <<code, reset, cache, batch, snap, lost, raced, clean, credited, racers,
                 bounds>>

(* Redeem: the cache is not told. *)
RedeemRead(o) ==
  /\ pc[o] = "start"
  /\ code = "enabled"
  /\ Goto(o, "redeem")
  /\ UNCHANGED <<row, cache, batch, amt, snap, cpc, history, bounds>>

RedeemCommit_Mutant(o) ==
  /\ pc[o] = "redeem"
  /\ db' = db + CodeQuota
  /\ acked' = acked + CodeQuota
  /\ credited' = credited + 1
  /\ racers' = IF credited = 0 THEN Cardinality({p \in Ops : pc[p] = "redeem"}) ELSE racers
  /\ clean' = FALSE
  /\ Goto(o, "done")
  /\ UNCHANGED <<code, reset, checkins, cache, batch, amt, snap, cpc, lost, raced, bounds>>

RedeemCommit(o) ==
  /\ pc[o] = "redeem"
  /\ db' = db + CodeQuota
  /\ code' = "used"
  /\ acked' = acked + CodeQuota
  /\ credited' = credited + 1
  /\ racers' = IF credited = 0 THEN Cardinality({p \in Ops : pc[p] = "redeem"}) ELSE racers
  /\ clean' = FALSE
  /\ Goto(o, "done")
  /\ UNCHANGED <<reset, checkins, cache, batch, amt, snap, cpc, lost, raced, bounds>>

(* A top-up order is completed, or a subscription bought with the balance:  *)
(* one statement in a transaction; the cache is not told.  A purchase has   *)
(* checked the balance before without a lock, so it may be made below it.   *)
PayOrder(o) ==
  /\ pc[o] = "start"
  /\ \E d \in Deltas : db' = db + d /\ acked' = acked + d
  /\ clean' = FALSE
  /\ Goto(o, "done")
  /\ UNCHANGED <<code, reset, checkins, cache, batch, amt, snap, cpc, lost, raced,
                 credited, racers, bounds>>

(* The override of ManageUser: an absolute balance; the cache is not told. *)
Override(o) ==
  /\ pc[o] = "start"
  /\ db' \in Overrides
  /\ acked' = acked + (db' - db)
  /\ clean' = FALSE
  /\ Goto(o, "done")
  /\ UNCHANGED <<code, reset, checkins, cache, batch, amt, snap, cpc, lost, raced,
                 credited, racers, bounds>>

-----------------------------------------------------------------------------
(* A change of the language, the sidebar or the billing preference: the     *)
(* user is loaded, and User.Update saves every field that is not zero.      *)

ProfileLoad(o) ==
  /\ pc[o] = "start"
  /\ Keep(o, db)
  /\ Goto(o, "profile")
  /\ UNCHANGED <<row, cache, batch, amt, cpc, history, bounds>>

SavedQuota(q) == IF q = 0 THEN db ELSE q

ProfileSave(o) ==
  /\ pc[o] = "profile"
  /\ db' = SavedQuota(snap[o])
  /\ Keep(o, SavedQuota(snap[o]))
  /\ raced' = (raced \/ SavedQuota(snap[o]) # db)
  /\ clean' = (clean /\ SavedQuota(snap[o]) = db)
  /\ Goto(o, "fill")
  /\ UNCHANGED <<code, reset, checkins, cache, batch, amt, cpc, acked, lost, credited,
                 racers, bounds>>

-----------------------------------------------------------------------------
(* The low-balance reset *)

CachedQuota == IF cache = {} THEN db ELSE (CHOOSE h \in cache : TRUE).quota

(* MaybeScheduleLowBalanceQuotaReset, on a balance read before *)
Schedule ==
  /\ reset # "pending"
  /\ CachedQuota < Threshold
  /\ reset' = "pending"
  /\ checkins' = 0
  /\ UNCHANGED <<db, code, cache, batch, goroutines, history, bounds>>

ResetRead(o) ==
  /\ pc[o] = "start"
  /\ reset = "pending"
  /\ Keep(o, db)
  /\ amt' = [amt EXCEPT ![o] = Target + checkins]
  /\ Goto(o, IF db - checkins < Threshold /\ Target + checkins > db
               THEN "reset" ELSE "complete")
  /\ UNCHANGED <<row, cache, batch, cpc, history, bounds>>

ResetWrite(o) ==
  /\ pc[o] = "reset"
  /\ db' = amt[o]
  /\ reset' = "completed"
  /\ acked' = acked + (amt[o] - snap[o])
  /\ raced' = (raced \/ db # snap[o])
  /\ clean' = FALSE
  /\ Keep(o, amt[o])
  /\ Goto(o, "set_ttl")
  /\ UNCHANGED <<code, checkins, cache, batch, amt, cpc, lost, credited, racers, bounds>>

ResetComplete(o) ==
  /\ pc[o] = "complete"
  /\ reset' = "completed"
  /\ Goto(o, "done")
  /\ UNCHANGED <<db, code, checkins, cache, batch, amt, snap, cpc, history, bounds>>

(* ResetAllLowBalanceUsersToTargetQuota: the write is guarded by the        *)
(* balance itself.                                                          *)
ResetAll(o) ==
  /\ pc[o] = "start"
  /\ db < Target
  /\ db' = Target
  /\ reset' = "completed"
  /\ acked' = acked + (Target - db)
  /\ clean' = FALSE
  /\ Keep(o, Target)
  /\ Goto(o, "set_ttl")
  /\ UNCHANGED <<code, checkins, cache, batch, amt, cpc, lost, raced, credited, racers,
                 bounds>>

(* A transaction, the update of a profile, or a write of the hash fails;    *)
(* that of the hash is only logged.                                         *)
StepFails(o) ==
  /\ pc[o] \in {"redeem", "profile", "reset", "complete", "fill", "set_ttl", "set"}
  /\ Fault
  /\ Goto(o, "done")
  /\ UNCHANGED <<row, cache, batch, amt, snap, cpc, history, expiries>>

(* RedisHSetField *)
SetTTL(o) ==
  /\ pc[o] = "set_ttl"
  /\ Goto(o, IF cache = {} THEN "done" ELSE "set")
  /\ UNCHANGED <<row, cache, batch, amt, snap, cpc, history, bounds>>

CacheSet(o) ==
  /\ pc[o] = "set"
  /\ cache' = {[quota |-> snap[o], whole |-> \E h \in cache : h.whole]}
  /\ clean' = (snap[o] = db /\ Quiet(o) /\ cache # {})
  /\ Goto(o, "done")
  /\ UNCHANGED <<row, batch, amt, snap, cpc, acked, lost, raced, credited, racers, bounds>>

-----------------------------------------------------------------------------
Step(o) == \/ Change(o) \/ Write(o) \/ WriteFails(o) \/ CacheTTL(o) \/ CacheIncr(o)
           \/ ReadQuota(o) \/ Fill(o)
           \/ CacheFails(o) \/ Checkin(o) \/ RedeemRead(o) \/ RedeemCommit(o)
           \/ PayOrder(o) \/ Override(o) \/ ResetAll(o)
           \/ ProfileLoad(o) \/ ProfileSave(o)
           \/ ResetRead(o) \/ ResetWrite(o) \/ ResetComplete(o) \/ StepFails(o)
           \/ SetTTL(o) \/ CacheSet(o)

batchUpdate == BatchTake \/ BatchWrite \/ BatchFails

(* All operations have been made. *)
Done == (\A o \in Ops : pc[o] = "done" /\ cpc[o] = "none") /\ UNCHANGED vars

Next == \/ \E o \in Ops : Step(o)
        \/ batchUpdate \/ Crash \/ Expires \/ Schedule \/ Done

Spec == Init /\ [][Next]_vars

(* InitBatchUpdater runs batchUpdate at every interval, for ever. *)
FairSpec == Spec /\ WF_vars(batchUpdate)

-----------------------------------------------------------------------------
(* Properties *)

Labels == {"start", "write", "fill", "redeem", "profile", "reset", "complete", "set_ttl",
           "set", "done"}

TypeOK ==
  /\ db \in Int /\ store \in Int /\ taken \in Int
  /\ code \in {"enabled", "used"}
  /\ reset \in {"none", "pending", "completed"}
  /\ checkins \in Nat
  /\ cache \subseteq [quota : Int, whole : BOOLEAN] /\ Cardinality(cache) <= 1
  /\ pc \in [Ops -> Labels]
  /\ amt \in [Ops -> Int] /\ snap \in [Ops -> Int]
  /\ cpc \in [Ops -> {"none", "ttl", "apply"}]
  /\ acked \in Int /\ lost \in Int
  /\ raced \in BOOLEAN /\ clean \in BOOLEAN
  /\ credited \in Nat /\ racers \in Nat
  /\ expiries \in Nat /\ faults \in Nat

(* Every change that was acknowledged is in the row or in the batch updater *)
(* exactly once, unless a failed batch write or a crash lost it: with batch *)
(* updates, resets and saved profiles interleaved, as long as none of the   *)
(* two last saved a balance that had changed since it was read.             *)
LedgerBalances ==
  raced \/ db + store + taken + lost = Initial + acked

Outstanding == {o \in Ops : cpc[o] # "none"}
Unwritten == {o \in Ops : pc[o] = "write"}

(* A hash that was filled while nothing was under way follows the row: with *)
(* the increments that have still to reach it, it has the balance that the  *)
(* row will have after the writes and the batch still to come.  What breaks *)
(* it is listed by clean: a fill that raced a change, an increment that     *)
(* came after the key's expiry or failed, a failed or lost write, and the   *)
(* operations that change the row only (a redemption, a paid order, an      *)
(* override, a balance saved as a whole).                                   *)
CleanCacheFollowsRow ==
  \A h \in cache :
    clean => h.quota + SumFunctionOnSet(amt, Outstanding)
               = db + store + taken + SumFunctionOnSet(amt, Unwritten)

(* A redemption code is credited again only to redemptions that had read it *)
(* before it was first used (Redeem).                                       *)
CodeCreditedOnceUnlessRaced ==
  /\ credited <= (IF racers > 1 THEN racers ELSE 1)
  /\ credited > 0 => code = "used"

(* What waits in the batch updater is written, or lost with a failed write  *)
(* or a crash (InitBatchUpdater, batchUpdate).                              *)
BatchDrains == store # 0 ~> (store = 0 /\ taken = 0)

=============================================================================
