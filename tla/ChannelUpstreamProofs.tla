------------------------ MODULE ChannelUpstreamProofs ------------------------
(***************************************************************************)
(* For any channels, models, upstreams, jobs and failures: what the jobs   *)
(* may do to a channel whatever copies of its row they hold.               *)
(*                                                                         *)
(* Jobs write back copies, so the invariant says of every copy what it     *)
(* says of the row.                                                        *)
(***************************************************************************)
EXTENDS ChannelUpstream, TLAPS

(* What holds of a row of channel c and of every copy of it, when ap are   *)
(* the changes that were asked for.                                        *)
RowOK(c, x, ap) ==
  /\ x \in Rows
  /\ Initial[c] \cap Sources[c] \subseteq x.models
  /\ x.remove \cap Sources[c] = {}
  /\ x.add \cap x.ignored = {}
  /\ Initial[c] \ x.models \subseteq ap[c].remove
  /\ c \notin AutoSync => x.models \ Initial[c] \subseteq ap[c].add

(* What a job applies has been asked for. *)
Named(y, c, ap) ==
  /\ y.kind = "apply" => /\ y.sel.add \subseteq ap[c].add
                         /\ y.sel.remove \subseteq ap[c].remove
  /\ y.kind = "applyAll" => /\ y.loaded[c].add \subseteq ap[c].add
                            /\ y.loaded[c].remove \subseteq ap[c].remove

JobOK(y, ap) ==
  /\ y \in JobType
  /\ y.pc = "abilities" => y.at \in Channels
  /\ \A c \in Channels : RowOK(c, y.loaded[c], ap)
  /\ \A c \in y.todo : Named(y, c, ap)

PageTypes ==
  /\ list \in [Channels -> Pendings]
  /\ modal \in [channel : Channels \cup {NoChannel}, shown : Pendings]
  /\ selected \in Pendings
  /\ busy \subseteq PageKinds
  /\ faults \in 0 .. MaxFaults

TableTypes ==
  /\ row \in [Channels -> Rows]
  /\ abilities \in [Channels -> SUBSET Models] /\ met \subseteq Jobs
  /\ job \in [Jobs -> JobType]
  /\ approved \in [Channels -> Pendings]
  /\ raced \subseteq Channels /\ broken \subseteq Channels

RowsOK == \A c \in Channels : RowOK(c, row[c], approved)
JobsOK == \A j \in Jobs : JobOK(job[j], approved)

IInv == /\ PageTypes /\ TableTypes /\ RowsOK /\ JobsOK
        /\ OffersMakeSense /\ AbilitiesFollowModels

USE DEF page, history, routes

-----------------------------------------------------------------------------
(* Facts about what the jobs compute *)

(* What the constants are, for one channel. *)
LEMMA Constants ==
  /\ NoChannel \notin Channels /\ Checked \subseteq Channels
  /\ MaxFaults \in Nat
  /\ \A up \in Offered : up \in SUBSET Models
  /\ \A c \in Channels : /\ Initial[c] \in SUBSET Models /\ Found[c] \in SUBSET Models
                         /\ Sources[c] \in SUBSET Models /\ Targets[c] \in SUBSET Models
  BY ChannelAssumption DEF ChannelAssumption

(* A row as it was before any check. *)
LEMMA FreshOK ==
  ASSUME NEW c \in Channels, NEW ap
  PROVE  RowOK(c, Fresh(c), ap)
  BY Constants DEF RowOK, Fresh, Rows

(* collectPendingUpstreamModelChangesFromModels offers models only, never an *)
(* alias for removal nor an ignored model for addition.                      *)
LEMMA CollectOK ==
  ASSUME NEW c \in Channels, NEW r \in Rows, NEW up \in SUBSET Models
  PROVE  LET p == collectPending(c, r, up)
         IN  /\ p.add \subseteq Models /\ p.remove \subseteq Models
             /\ p.remove \cap Sources[c] = {} /\ p.add \cap r.ignored = {}
             /\ p.remove \subseteq r.models /\ p.add \cap r.models = {}
             /\ p.remove \cap p.add = {}
  BY DEF collectPending, Rows

(* A check keeps what holds of a row (checkAndPersistChannelUpstreamModelUpdates). *)
LEMMA CheckOK ==
  ASSUME NEW c \in Channels, NEW ap, NEW r, RowOK(c, r, ap), NEW up \in SUBSET Models,
         NEW k
  PROVE  /\ RowOK(c, Check(k, c, r, up), ap)
         /\ Check(k, c, r, up).add \cap Check(k, c, r, up).models = {}
         /\ Check(k, c, r, up).remove \subseteq Check(k, c, r, up).models
         /\ Check(k, c, r, up).ignored = r.ignored
  <1> DEFINE p == collectPending(c, r, up)
  <1>1. r \in Rows
    BY DEF RowOK
  <1>2. /\ p.add \subseteq Models /\ p.remove \subseteq Models
        /\ p.remove \cap Sources[c] = {} /\ p.add \cap r.ignored = {}
        /\ p.remove \subseteq r.models /\ p.add \cap r.models = {}
        /\ p.remove \cap p.add = {}
    BY <1>1, CollectOK
  <1>3. CASE k = "task" /\ c \in AutoSync /\ p.add # {}
    <2>1. Check(k, c, r, up) =
            [r EXCEPT !.models = r.models \cup p.add, !.add = {}, !.remove = p.remove]
      BY <1>3 DEF Check
    <2> HIDE DEF p
    <2> QED BY <1>1, <1>2, <1>3, <2>1 DEF RowOK, Rows
  <1>4. CASE ~(k = "task" /\ c \in AutoSync /\ p.add # {})
    <2>1. Check(k, c, r, up) = [r EXCEPT !.add = p.add, !.remove = p.remove]
      BY <1>4 DEF Check
    <2> HIDE DEF p
    <2> QED BY <1>1, <1>2, <2>1 DEF RowOK, Rows
  <1> QED BY <1>3, <1>4

(* Applying what was asked for keeps what holds of a row, offers nothing new *)
(* and ignores no less (applyChannelUpstreamModelUpdates).                   *)
LEMMA ApplyOK ==
  ASSUME NEW c \in Channels, NEW ap, NEW r, RowOK(c, r, ap), NEW s \in Selections,
         s.add \cap r.add \subseteq ap[c].add,
         s.remove \cap r.remove \subseteq ap[c].remove
  PROVE  /\ RowOK(c, Apply(r, s), ap)
         /\ Apply(r, s).add \subseteq r.add
         /\ Apply(r, s).remove \subseteq r.remove
         /\ r.ignored \subseteq Apply(r, s).ignored
         /\ r.add \cap r.models = {} /\ r.remove \subseteq r.models
            => /\ Apply(r, s).add \cap Apply(r, s).models = {}
               /\ Apply(r, s).remove \subseteq Apply(r, s).models
  <1> DEFINE add == s.add \cap r.add
             ignore == s.ignore \cap r.add
             remove == (s.remove \cap r.remove) \ add
  <1>1. Apply(r, s) = [models |-> (r.models \cup add) \ remove,
                       ignored |-> (r.ignored \cup ignore) \ add,
                       add |-> r.add \ (add \cup ignore),
                       remove |-> r.remove \ remove]
    BY DEF Apply
  <1>2. /\ add \subseteq r.add /\ add \subseteq ap[c].add
        /\ ignore \subseteq r.add
        /\ remove \subseteq r.remove /\ remove \subseteq ap[c].remove
    OBVIOUS
  <1>3. /\ r.models \subseteq Models /\ r.ignored \subseteq Models
        /\ r.add \subseteq Models /\ r.remove \subseteq Models
    BY DEF RowOK, Rows
  <1> HIDE DEF add, ignore, remove
  <1>4. Apply(r, s) \in Rows
    BY <1>1, <1>2, <1>3 DEF Rows
  <1>5. RowOK(c, Apply(r, s), ap)
    BY <1>1, <1>2, <1>4 DEF RowOK
  <1> QED BY <1>1, <1>2, <1>5 DEF RowOK

(* Copies of other fields than the models, with the models of the row: what *)
(* updateChannelUpstreamModelSettings leaves in the table.                  *)
LEMMA WrittenOK ==
  ASSUME NEW c \in Channels, NEW r, NEW new,
         RowOK(c, row[c], approved), RowOK(c, new, approved)
  PROVE  RowOK(c, Written(c, r, new), approved)
  <1>1. CASE new.models # r.models
    <2>1. Written(c, r, new) = new
      BY <1>1 DEF Written, RowOK, Rows
    <2> QED BY <2>1
  <1>2. CASE new.models = r.models
    <2>1. Written(c, r, new) = [new EXCEPT !.models = row[c].models]
      BY <1>2 DEF Written
    <2> QED BY <2>1 DEF RowOK, Rows
  <1> QED BY <1>1, <1>2

(* A job that is done with a channel (the next turn of its loop). *)
LEMMA MovedOK ==
  ASSUME NEW y, NEW ap, JobOK(y, ap), NEW c \in Channels, NEW ok \in BOOLEAN
  PROVE  JobOK(Moved(y, c, ok), ap) /\ Moved(y, c, ok).pc = "work"
  <1> DEFINE m == Moved(y, c, ok)
  <1>1. y \in JobType
    BY DEF JobOK
  <1>2. /\ m.kind = y.kind /\ m.pc = "work" /\ m.at = NoChannel
        /\ m.todo = y.todo \ {c} /\ m.sel = y.sel /\ m.heard = y.heard
        /\ m.loaded = [y.loaded EXCEPT ![c] = Fresh(c)]
    BY <1>1 DEF Moved, JobType
  <1>3. RowOK(c, Fresh(c), ap) /\ Fresh(c) \in Rows
    BY FreshOK DEF RowOK
  <1>4. m \in JobType
    BY <1>1, <1>3 DEF Moved, JobType
  <1>5. y.loaded \in [Channels -> Rows]
    BY <1>1 DEF JobType
  <1> HIDE DEF m
  <1>6. \A d \in Channels : RowOK(d, m.loaded[d], ap)
    BY <1>2, <1>3, <1>5 DEF JobOK
  <1>7. \A d \in m.todo : Named(m, d, ap)
    <2> TAKE d \in m.todo
    <2>1. d \in y.todo /\ d # c
      BY <1>2
    <2>2. m.loaded[d] = y.loaded[d] /\ d \in Channels
      BY <1>1, <1>2, <1>5, <2>1 DEF JobType
    <2> QED BY <1>2, <2>1, <2>2 DEF JobOK, Named
  <1> QED BY <1>2, <1>4, <1>6, <1>7 DEF JobOK, m

(* A job that is over. *)
LEMMA OverOK ==
  ASSUME NEW x, NEW ap
  PROVE  JobOK(Over(x), ap) /\ Over(x).pc = "done"
  <1>1. /\ Over(x).kind = "task" /\ Over(x).pc = "done" /\ Over(x).todo = {}
        /\ Over(x).loaded = [c \in Channels |-> Fresh(c)]
    BY DEF Over, Unused
  <1>2. \A c \in Channels : RowOK(c, Fresh(c), ap) /\ Fresh(c) \in Rows
    BY FreshOK DEF RowOK
  <1>3. Over(x) \in JobType
    BY <1>2 DEF Over, Unused, JobType, Kinds, NoSelection, Selections
  <1> QED BY <1>1, <1>2, <1>3 DEF JobOK

(* What a job writes for a channel, from the copy it has loaded. *)
LEMMA OutcomesOK ==
  ASSUME IInv, NEW j \in Jobs, NEW c \in Channels, AtWork(j, c),
         NEW new \in Outcomes(j, c)
  PROVE  LET r == job[j].loaded[c]
         IN  /\ RowOK(c, r, approved) /\ RowOK(c, new, approved)
             /\ Applies(job[j].kind) => new.add \subseteq r.add /\ new.remove \subseteq r.remove
             /\ r.ignored \subseteq new.ignored
             /\ r.add \cap r.models = {} /\ r.remove \subseteq r.models
                => new.add \cap new.models = {} /\ new.remove \subseteq new.models
  <1> DEFINE r == job[j].loaded[c]
             y == job[j]
  <1>1. JobOK(y, approved) /\ c \in y.todo
    BY DEF IInv, JobsOK, AtWork
  <1>2. RowOK(c, r, approved) /\ Named(y, c, approved) /\ y \in JobType
    BY <1>1 DEF JobOK
  <1>3. CASE Applies(y.kind)
    <2>1. new = Apply(r, Selection(j, c))
      BY <1>3 DEF Outcomes
    <2>2. CASE y.kind = "applyAll"
      <3>1. Selection(j, c) = [add |-> r.add, ignore |-> {}, remove |-> r.remove]
        BY <2>2 DEF Selection
      <3>2. Selection(j, c) \in Selections
        BY <1>2, <3>1 DEF Selections, RowOK, Rows
      <3>3. r.add \subseteq approved[c].add /\ r.remove \subseteq approved[c].remove
        BY <1>2, <2>2 DEF Named
      <3>4. /\ Selection(j, c).add \cap r.add \subseteq approved[c].add
            /\ Selection(j, c).remove \cap r.remove \subseteq approved[c].remove
        BY <3>1, <3>3
      <3> QED BY <1>2, <2>1, <3>2, <3>4, ApplyOK
    <2>3. CASE y.kind = "apply"
      <3>1. Selection(j, c) = y.sel
        BY <2>3 DEF Selection
      <3>2. y.sel \in Selections
        BY <1>2 DEF JobType
      <3>3. y.sel.add \subseteq approved[c].add /\ y.sel.remove \subseteq approved[c].remove
        BY <1>2, <2>3 DEF Named
      <3>4. /\ y.sel.add \cap r.add \subseteq approved[c].add
            /\ y.sel.remove \cap r.remove \subseteq approved[c].remove
        BY <3>3
      <3> QED BY <1>2, <2>1, <3>1, <3>2, <3>4, ApplyOK
    <2> QED BY <1>3, <2>2, <2>3 DEF Applies
  <1>4. CASE ~Applies(y.kind)
    <2>1. PICK up \in Offered : new = Check(y.kind, c, r, up)
      BY <1>4 DEF Outcomes
    <2>2. up \in SUBSET Models
      BY Constants
    <2> QED BY <1>2, <1>4, <2>1, <2>2, CheckOK
  <1> QED BY <1>3, <1>4

-----------------------------------------------------------------------------
(* Facts the steps share *)

(* One job changes. *)
LEMMA JobReplaced ==
  ASSUME IInv, NEW j \in Jobs, NEW y, JobOK(y, approved),
         job' = [job EXCEPT ![j] = y], approved' = approved
  PROVE  JobsOK' /\ job' \in [Jobs -> JobType] /\ approved' \in [Channels -> Pendings]
  <1>1. y \in JobType /\ job \in [Jobs -> JobType]
    BY DEF JobOK, IInv, TableTypes
  <1>2. \A i \in Jobs : job'[i] = y \/ job'[i] = job[i]
    BY <1>1
  <1>3. JobsOK'
    BY <1>2 DEF IInv, JobsOK
  <1> QED BY <1>1, <1>3 DEF IInv, TableTypes

(* The routing follows the models where neither changes and no job leaves   *)
(* the place between the two writes.                                        *)
LEMMA RoutingKept ==
  ASSUME IInv, abilities' = abilities, broken \subseteq broken',
         \A c \in Channels : row'[c].models = row[c].models,
         \A i \in Jobs : job[i].pc = "abilities"
                           => job'[i].pc = "abilities" /\ job'[i].at = job[i].at
  PROVE  AbilitiesFollowModels'
  BY DEF IInv, AbilitiesFollowModels

(* A row is written: what updateChannelUpstreamModelSettings does to the    *)
(* table, whatever copy it came from.                                       *)
LEMMA StoreOK ==
  ASSUME IInv, NEW c \in Channels, NEW r, NEW new, RowOK(c, new, approved),
         r.add \cap r.models = {} /\ r.remove \subseteq r.models
           => new.add \cap new.models = {} /\ new.remove \subseteq new.models,
         r.ignored \subseteq new.ignored,
         Store(c, r, new), approved' = approved
  PROVE  /\ row' \in [Channels -> Rows] /\ RowsOK' /\ raced' \subseteq Channels
         /\ OffersMakeSense'
         /\ \A d \in Channels \ raced' : row[d].ignored \subseteq row'[d].ignored
         /\ \A d \in Channels :
              d # c \/ new.models = r.models => row'[d].models = row[d].models
  <1> DEFINE w == Written(c, r, new)
  <1>1. row \in [Channels -> Rows] /\ raced \subseteq Channels
    BY DEF IInv, TableTypes
  <1>2. RowOK(c, w, approved) /\ w \in Rows
    BY WrittenOK DEF IInv, RowsOK, RowOK
  <1>3. row' = [row EXCEPT ![c] = w]
    BY DEF Store
  <1>4. /\ row[c] # r => c \in raced'
        /\ raced \subseteq raced' /\ raced' \subseteq Channels
    BY <1>1 DEF Store
  <1>5. new.models = r.models => w.models = row[c].models
    BY DEF Written, RowOK, Rows
  <1>6. row[c] = r => w = new
    BY DEF Written, RowOK, Rows
  <1> HIDE DEF w
  <1>7. row' \in [Channels -> Rows]
    BY <1>1, <1>2, <1>3
  <1>8. \A d \in Channels : row'[d] = IF d = c THEN w ELSE row[d]
    BY <1>1, <1>3
  <1>9. RowsOK'
    BY <1>2, <1>8 DEF IInv, RowsOK
  <1>10. OffersMakeSense'
    <2>1. ASSUME NEW d \in Channels, d \notin raced'
          PROVE  row'[d].add \cap row'[d].models = {} /\ row'[d].remove \subseteq row'[d].models
      <3>1. /\ row[d].add \cap row[d].models = {}
            /\ row[d].remove \subseteq row[d].models
        BY <1>4, <2>1 DEF IInv, OffersMakeSense
      <3>2. CASE d = c
        <4>1. row[c] = r /\ row'[c] = new
          BY <1>4, <1>6, <1>8, <2>1, <3>2
        <4> QED BY <3>1, <3>2, <4>1
      <3>3. CASE d # c
        BY <1>8, <3>1, <3>3
      <3> QED BY <3>2, <3>3
    <2> QED BY <2>1 DEF OffersMakeSense
  <1>11. \A d \in Channels \ raced' : row[d].ignored \subseteq row'[d].ignored
    BY <1>4, <1>6, <1>8
  <1>12. \A d \in Channels :
           d # c \/ new.models = r.models => row'[d].models = row[d].models
    BY <1>5, <1>8
  <1> QED BY <1>4, <1>7, <1>9, <1>10, <1>11, <1>12

(* More is asked for. *)
Grows(ap, bp) ==
  \A c \in Channels : ap[c].add \subseteq bp[c].add /\ ap[c].remove \subseteq bp[c].remove

(* Nothing is withdrawn by asking for more. *)
LEMMA GrowsOK ==
  ASSUME NEW ap, NEW bp, Grows(ap, bp)
  PROVE  /\ \A c \in Channels : \A x : RowOK(c, x, ap) => RowOK(c, x, bp)
         /\ \A y : JobOK(y, ap) => JobOK(y, bp)
  <1>1. ASSUME NEW c \in Channels, NEW x, RowOK(c, x, ap)
        PROVE  RowOK(c, x, bp)
    BY <1>1 DEF RowOK, Grows
  <1>2. ASSUME NEW y, JobOK(y, ap)
        PROVE  JobOK(y, bp)
    <2>1. \A c \in Channels : RowOK(c, y.loaded[c], bp)
      BY <1>1, <1>2 DEF JobOK
    <2>2. y.todo \subseteq Channels
      BY <1>2 DEF JobOK, JobType
    <2>3. \A c \in y.todo : Named(y, c, bp)
      BY <1>2, <2>2 DEF JobOK, Named, Grows
    <2> QED BY <1>2, <2>1, <2>3 DEF JobOK
  <1> QED BY <1>1, <1>2

(* A job begins with copies of rows (the handlers' database reads). *)
LEMMA StartOK ==
  ASSUME IInv, NEW j \in Jobs, NEW k \in Kinds, NEW c, NEW s \in Selections,
         ~ForAll(k) => c \in Channels,
         Start(j, k, c, s), Grows(approved, approved'),
         \A d \in Todo(k, c) :
           /\ k = "apply" => s.add \subseteq approved'[d].add /\ s.remove \subseteq approved'[d].remove
           /\ k = "applyAll" => /\ row[d].add \subseteq approved'[d].add
                                /\ row[d].remove \subseteq approved'[d].remove
  PROVE  /\ job' \in [Jobs -> JobType] /\ JobsOK'
         /\ \A i \in Jobs : job[i].pc = "abilities"
                              => job'[i].pc = "abilities" /\ job'[i].at = job[i].at
  <1> DEFINE y == [kind |-> k, pc |-> "work", todo |-> Todo(k, c), at |-> NoChannel,
                   loaded |-> [d \in Channels |-> IF d \in Todo(k, c) THEN row[d] ELSE Fresh(d)],
                   sel |-> s, ok |-> TRUE, heard |-> k # "task"]
  <1>1. job' = [job EXCEPT ![j] = y] /\ job[j].pc = "unused"
    BY DEF Start
  <1>2. Todo(k, c) \subseteq Channels
    BY Constants DEF Todo
  <1>3. \A d \in Channels : RowOK(d, y.loaded[d], approved) /\ y.loaded[d] \in Rows
    BY FreshOK DEF IInv, RowsOK, RowOK
  <1>4. y \in JobType
    BY <1>2, <1>3 DEF JobType
  <1>5. y.pc = "work" /\ y.kind = k /\ y.sel = s /\ y.todo = Todo(k, c)
    OBVIOUS
  <1>6. \A d \in Todo(k, c) : y.loaded[d] = row[d]
    BY <1>2
  <1> HIDE DEF y
  <1>7. \A d \in Channels : RowOK(d, y.loaded[d], approved')
    BY <1>3, GrowsOK
  <1>8. \A d \in y.todo : Named(y, d, approved')
    BY <1>5, <1>6 DEF Named
  <1>9. JobOK(y, approved')
    BY <1>4, <1>5, <1>7, <1>8 DEF JobOK
  <1>10. \A i \in Jobs : JobOK(job[i], approved')
    BY GrowsOK DEF IInv, JobsOK
  <1>11. job \in [Jobs -> JobType]
    BY DEF IInv, TableTypes
  <1>12. \A i \in Jobs : job'[i] = IF i = j THEN y ELSE job[i]
    BY <1>1, <1>11
  <1>13. JobsOK'
    BY <1>9, <1>10, <1>12 DEF JobsOK
  <1>14. job' \in [Jobs -> JobType]
    BY <1>1, <1>4, <1>11
  <1> QED BY <1>1, <1>12, <1>13, <1>14

(* The ignored models of channels that were not raced. *)
Kept == \A c \in Channels \ raced' : row[c].ignored \subseteq row'[c].ignored

(* A step that leaves the tables alone. *)
LEMMA TablesKept ==
  ASSUME IInv, UNCHANGED <<row, routes, raced>>,
         PageTypes', job' \in [Jobs -> JobType], approved' \in [Channels -> Pendings],
         JobsOK', Grows(approved, approved'),
         broken \subseteq broken', broken' \subseteq Channels,
         \A i \in Jobs : job[i].pc = "abilities"
                           => job'[i].pc = "abilities" /\ job'[i].at = job[i].at
  PROVE  IInv' /\ Kept
  <1>1. AbilitiesFollowModels'
    BY RoutingKept
  <1>2. TableTypes'
    BY DEF IInv, TableTypes
  <1>3. RowsOK'
    BY GrowsOK DEF IInv, RowsOK
  <1>4. OffersMakeSense'
    BY DEF IInv, OffersMakeSense
  <1> QED BY <1>1, <1>2, <1>3, <1>4 DEF IInv, Kept

(* A step of the page that leaves the server alone. *)
LEMMA ServerKept ==
  ASSUME IInv, UNCHANGED <<row, routes, job, history>>, PageTypes'
  PROVE  IInv' /\ Kept
  BY DEF IInv, TableTypes, RowsOK, JobsOK, OffersMakeSense, AbilitiesFollowModels, Kept

(* A failure is one of a bounded number. *)
LEMMA FaultsType ==
  ASSUME PageTypes, faults > 0, faults' = faults - 1
  PROVE  faults' \in 0 .. MaxFaults
  BY Constants DEF PageTypes

-----------------------------------------------------------------------------
(* The steps of a job *)

(* A job writes a row, from whatever copy. *)
LEMMA PersistKeeps ==
  ASSUME IInv, NEW j \in Jobs, NEW c \in Channels, Persist(j, c)
  PROVE  IInv' /\ Kept
  <1> DEFINE r == job[j].loaded[c]
             y(new) == IF new.models # r.models
                       THEN [job[j] EXCEPT !.pc = "abilities", !.at = c, !.loaded[c] = new]
                       ELSE Moved(job[j], c, TRUE)
  <1>1. PICK new \in Outcomes(j, c) : Store(c, r, new) /\ job' = [job EXCEPT ![j] = y(new)]
    BY DEF Persist
  <1>2. /\ AtWork(j, c) /\ approved' = approved /\ broken' = broken
        /\ UNCHANGED <<routes, page, busy, faults>>
    BY DEF Persist
  <1>3. /\ RowOK(c, r, approved) /\ RowOK(c, new, approved)
        /\ Applies(job[j].kind) => new.add \subseteq r.add /\ new.remove \subseteq r.remove
        /\ r.ignored \subseteq new.ignored
        /\ r.add \cap r.models = {} /\ r.remove \subseteq r.models
           => new.add \cap new.models = {} /\ new.remove \subseteq new.models
    BY <1>2, OutcomesOK
  <1>4. JobOK(job[j], approved) /\ job[j] \in JobType /\ job[j].pc = "work"
    BY <1>2 DEF IInv, JobsOK, JobOK, AtWork
  <1>5. JobOK(y(new), approved)
    <2>1. CASE new.models # r.models
      <3> DEFINE z == [job[j] EXCEPT !.pc = "abilities", !.at = c, !.loaded[c] = new]
      <3>1. y(new) = z
        BY <2>1
      <3>2. new \in Rows /\ job[j].loaded \in [Channels -> Rows]
        BY <1>3, <1>4 DEF RowOK, JobType
      <3>3. /\ z.pc = "abilities" /\ z.at = c /\ z.kind = job[j].kind
            /\ z.todo = job[j].todo /\ z.sel = job[j].sel
            /\ z.loaded = [job[j].loaded EXCEPT ![c] = new]
        BY <1>4 DEF JobType
      <3>4. z \in JobType
        BY <1>4, <3>2 DEF JobType
      <3> HIDE DEF z
      <3>5. \A d \in Channels : z.loaded[d] = IF d = c THEN new ELSE job[j].loaded[d]
        BY <3>2, <3>3
      <3>6. \A d \in Channels : RowOK(d, z.loaded[d], approved)
        BY <1>3, <1>4, <3>5 DEF JobOK
      <3>7. \A d \in z.todo : Named(z, d, approved)
        <4> TAKE d \in z.todo
        <4>1. Named(job[j], d, approved) /\ d \in Channels
          BY <1>4, <3>3 DEF JobOK, JobType
        <4>2. z.kind = "applyAll" =>
                /\ z.loaded[d].add \subseteq job[j].loaded[d].add
                /\ z.loaded[d].remove \subseteq job[j].loaded[d].remove
          BY <1>3, <3>3, <3>5, <4>1 DEF Applies
        <4> QED BY <3>3, <4>1, <4>2 DEF Named
      <3> QED BY <3>1, <3>3, <3>4, <3>6, <3>7 DEF JobOK
    <2>2. CASE new.models = r.models
      BY <1>4, <2>2, MovedOK
    <2> QED BY <2>1, <2>2
  <1>6. /\ JobsOK' /\ job' \in [Jobs -> JobType] /\ approved' \in [Channels -> Pendings]
    BY <1>1, <1>2, <1>5, JobReplaced
  <1>7. /\ row' \in [Channels -> Rows] /\ RowsOK' /\ raced' \subseteq Channels
        /\ OffersMakeSense' /\ Kept
        /\ \A d \in Channels :
             d # c \/ new.models = r.models => row'[d].models = row[d].models
    BY <1>1, <1>2, <1>3, StoreOK DEF Kept
  <1>8. \A i \in Jobs : i # j => job'[i] = job[i]
    BY <1>1 DEF IInv, TableTypes
  <1>9. AbilitiesFollowModels'
    <2>1. CASE new.models = r.models
      BY <1>2, <1>4, <1>7, <1>8, <2>1, RoutingKept
    <2>2. CASE new.models # r.models
      <3>1. job'[j].pc = "abilities" /\ job'[j].at = c
        BY <1>1, <1>4, <2>2 DEF IInv, TableTypes, JobType
      <3>2. \A d \in Channels : d # c => row'[d].models = row[d].models
        BY <1>7
      <3>3. \A i \in Jobs : job[i].pc = "abilities" => job'[i] = job[i]
        BY <1>4, <1>8
      <3> QED BY <1>2, <3>1, <3>2, <3>3 DEF IInv, AbilitiesFollowModels
    <2> QED BY <2>1, <2>2
  <1>10. TableTypes' /\ PageTypes'
    BY <1>2, <1>6, <1>7 DEF IInv, TableTypes, PageTypes
  <1> QED BY <1>6, <1>7, <1>9, <1>10 DEF IInv

(* The upstream does not answer, and the copy is written back. *)
LEMMA FetchFailsKeeps ==
  ASSUME IInv, NEW j \in Jobs, NEW c \in Channels, FetchFails(j, c)
  PROVE  IInv' /\ Kept
  <1> DEFINE r == job[j].loaded[c]
  <1>1. /\ AtWork(j, c) /\ Store(c, r, r) /\ job' = [job EXCEPT ![j] = Moved(job[j], c, FALSE)]
        /\ approved' = approved /\ broken' = broken
        /\ UNCHANGED <<routes, page, busy>> /\ faults > 0 /\ faults' = faults - 1
    BY DEF FetchFails
  <1>2. JobOK(job[j], approved) /\ job[j].pc = "work"
    BY <1>1 DEF IInv, JobsOK, AtWork
  <1>3. RowOK(c, r, approved) /\ JobOK(Moved(job[j], c, FALSE), approved)
    BY <1>2, MovedOK DEF JobOK
  <1>4. JobsOK' /\ job' \in [Jobs -> JobType] /\ approved' \in [Channels -> Pendings]
    BY <1>1, <1>3, JobReplaced
  <1>5. /\ row' \in [Channels -> Rows] /\ RowsOK' /\ raced' \subseteq Channels
        /\ OffersMakeSense' /\ Kept
        /\ \A d \in Channels : row'[d].models = row[d].models
    BY <1>1, <1>3, StoreOK DEF Kept
  <1>6. \A i \in Jobs : job[i].pc = "abilities" => job'[i] = job[i]
    BY <1>1, <1>2 DEF IInv, TableTypes
  <1>7. AbilitiesFollowModels'
    BY <1>1, <1>5, <1>6, RoutingKept
  <1>8. TableTypes'
    BY <1>1, <1>4, <1>5 DEF IInv, TableTypes
  <1>9. PageTypes'
    BY <1>1, FaultsType DEF IInv, PageTypes
  <1> QED BY <1>4, <1>5, <1>7, <1>8, <1>9 DEF IInv

(* A job goes on without writing: the row could not be written, or the task *)
(* found that the channel is not due.                                       *)
LEMMA MovesOn ==
  ASSUME IInv, NEW j \in Jobs, NEW c \in Channels, NEW ok \in BOOLEAN, job[j].pc = "work",
         job' = [job EXCEPT ![j] = Moved(job[j], c, ok)],
         UNCHANGED <<row, routes, page, busy, history>>, faults' \in 0 .. MaxFaults
  PROVE  IInv' /\ Kept
  <1>1. JobOK(Moved(job[j], c, ok), approved)
    BY MovedOK DEF IInv, JobsOK
  <1>2. JobsOK' /\ job' \in [Jobs -> JobType] /\ approved' \in [Channels -> Pendings]
    BY <1>1, JobReplaced
  <1>3. \A i \in Jobs : job[i].pc = "abilities" => job'[i] = job[i]
    BY DEF IInv, TableTypes
  <1>4. PageTypes' /\ Grows(approved, approved') /\ broken' \subseteq Channels
    BY DEF IInv, PageTypes, TableTypes, Grows
  <1> QED BY <1>2, <1>3, <1>4, TablesKept

(* The row cannot be written. *)
LEMMA PersistFailsKeeps ==
  ASSUME IInv, NEW j \in Jobs, NEW c \in Channels, PersistFails(j, c)
  PROVE  IInv' /\ Kept
  <1>1. faults' \in 0 .. MaxFaults
    BY FaultsType DEF IInv, PersistFails
  <1> QED BY <1>1, MovesOn DEF PersistFails, AtWork

(* The task leaves a channel out. *)
LEMMA NotDueKeeps ==
  ASSUME IInv, NEW j \in Jobs, NEW c \in Channels, NotDue(j, c)
  PROVE  IInv' /\ Kept
  <1>1. faults' \in 0 .. MaxFaults
    BY DEF IInv, PageTypes, NotDue
  <1> QED BY <1>1, MovesOn DEF NotDue, AtWork

(* The abilities are rewritten from the job's copy. *)
LEMMA UpdateAbilitiesKeeps ==
  ASSUME IInv, NEW j \in Jobs, UpdateAbilities(j)
  PROVE  IInv' /\ Kept
  <1> DEFINE c == job[j].at
             mine == job[j].loaded[c].models
  <1>0. PICK others \in IF j \in met THEN {{}, abilities[c]} ELSE {{}} :
          /\ abilities' = [abilities EXCEPT ![c] = mine \cup others]
          /\ broken' = IF row[c].models = mine \cup others THEN broken \ {c}
                       ELSE broken \cup {c}
    BY DEF UpdateAbilities
  <1>1. /\ job[j].pc = "abilities" /\ met' = (met \cup Rewriting(c)) \ {j}
        /\ job' = [job EXCEPT ![j] = Moved(job[j], c, TRUE)]
        /\ UNCHANGED <<row, page, busy, approved, raced, faults>>
    BY DEF UpdateAbilities
  <1>2. JobOK(job[j], approved) /\ c \in Channels
    BY <1>1 DEF IInv, JobsOK, JobOK
  <1>3. mine \cup others \in SUBSET Models /\ met' \subseteq Jobs
    <2>1. mine \in SUBSET Models
      BY <1>2 DEF JobOK, RowOK, Rows
    <2>2. others \in SUBSET Models
      BY <1>0, <1>2 DEF IInv, TableTypes
    <2>3. met' \subseteq Jobs
      BY <1>1 DEF IInv, TableTypes, Rewriting
    <2> QED BY <2>1, <2>2, <2>3
  <1>4. JobOK(Moved(job[j], c, TRUE), approved)
    BY <1>2, MovedOK
  <1>5. JobsOK' /\ job' \in [Jobs -> JobType] /\ approved' \in [Channels -> Pendings]
    BY <1>1, <1>4, JobReplaced
  <1>6. TableTypes' /\ PageTypes'
    BY <1>0, <1>1, <1>2, <1>3, <1>5 DEF IInv, TableTypes, PageTypes
  <1>7. RowsOK' /\ OffersMakeSense' /\ Kept
    BY <1>1 DEF IInv, RowsOK, OffersMakeSense, Kept
  <1>8. \A i \in Jobs : i # j => job'[i] = job[i]
    BY <1>1 DEF IInv, TableTypes
  <1>9. /\ abilities'[c] = mine \cup others
        /\ \A d \in Channels : d # c => abilities'[d] = abilities[d]
    BY <1>0, <1>2 DEF IInv, TableTypes
  <1>10. AbilitiesFollowModels'
    <2> SUFFICES ASSUME NEW d \in Channels
                 PROVE  \/ abilities'[d] = row'[d].models
                        \/ d \in broken'
                        \/ \E i \in Jobs : job'[i].pc = "abilities" /\ job'[i].at = d
      BY DEF AbilitiesFollowModels
    <2>1. CASE d = c
      BY <1>0, <1>1, <1>9, <2>1
    <2>2. CASE d # c
      <3>1. \/ abilities[d] = row[d].models
            \/ d \in broken
            \/ \E i \in Jobs : job[i].pc = "abilities" /\ job[i].at = d
        BY DEF IInv, AbilitiesFollowModels
      <3>2. CASE \E i \in Jobs : job[i].pc = "abilities" /\ job[i].at = d
        BY <1>8, <2>2, <3>2
      <3> QED BY <1>0, <1>1, <1>9, <2>2, <3>1, <3>2
    <2> QED BY <2>1, <2>2
  <1> QED BY <1>5, <1>6, <1>7, <1>10 DEF IInv

(* The abilities cannot be rewritten. *)
LEMMA AbilitiesFailKeeps ==
  ASSUME IInv, NEW j \in Jobs, AbilitiesFail(j)
  PROVE  IInv' /\ Kept
  <1> DEFINE c == job[j].at
  <1>1. /\ job[j].pc = "abilities" /\ broken' = broken \cup {c}
        /\ job' = [job EXCEPT ![j] = Moved(job[j], c, FALSE)]
        /\ met' = met \ {j} /\ UNCHANGED <<row, abilities, page, busy, approved, raced>>
        /\ faults > 0 /\ faults' = faults - 1
    BY DEF AbilitiesFail
  <1>2. JobOK(job[j], approved) /\ c \in Channels
    BY <1>1 DEF IInv, JobsOK, JobOK
  <1>3. JobOK(Moved(job[j], c, FALSE), approved)
    BY <1>2, MovedOK
  <1>4. JobsOK' /\ job' \in [Jobs -> JobType] /\ approved' \in [Channels -> Pendings]
    BY <1>1, <1>3, JobReplaced
  <1>5. TableTypes'
    BY <1>1, <1>2, <1>4 DEF IInv, TableTypes
  <1>6. PageTypes'
    BY <1>1, FaultsType DEF IInv, PageTypes
  <1>7. RowsOK' /\ OffersMakeSense' /\ Kept
    BY <1>1 DEF IInv, RowsOK, OffersMakeSense, Kept
  <1>8. \A i \in Jobs : i # j => job'[i] = job[i]
    BY <1>1 DEF IInv, TableTypes
  <1>9. AbilitiesFollowModels'
    <2> SUFFICES ASSUME NEW d \in Channels
                 PROVE  \/ abilities'[d] = row'[d].models
                        \/ d \in broken'
                        \/ \E i \in Jobs : job'[i].pc = "abilities" /\ job'[i].at = d
      BY DEF AbilitiesFollowModels
    <2>1. \/ abilities[d] = row[d].models
          \/ d \in broken
          \/ \E i \in Jobs : job[i].pc = "abilities" /\ job[i].at = d
      BY DEF IInv, AbilitiesFollowModels
    <2>2. CASE \E i \in Jobs : job[i].pc = "abilities" /\ job[i].at = d
      BY <1>1, <1>8, <2>2
    <2> QED BY <1>1, <2>1, <2>2
  <1> QED BY <1>4, <1>5, <1>6, <1>7, <1>9 DEF IInv

(* A job ends, and the page hears of it if it still waits. *)
LEMMA AnswerKeeps ==
  ASSUME IInv, NEW j \in Jobs, Answer(j)
  PROVE  IInv' /\ Kept
  <1>1. /\ job[j].pc = "work" /\ job' = [job EXCEPT ![j] = Over(job[j])]
        /\ UNCHANGED <<row, routes, selected, history, faults>>
    BY DEF Answer
  <1>2. JobsOK' /\ job' \in [Jobs -> JobType] /\ approved' \in [Channels -> Pendings]
    BY <1>1, OverOK, JobReplaced
  <1>3. \A i \in Jobs : job[i].pc = "abilities" => job'[i] = job[i]
    BY <1>1 DEF IInv, TableTypes
  <1>4. \A c \in Channels : Pending(row[c]) \in Pendings
    BY DEF IInv, TableTypes, Pending, Pendings, Rows
  <1>5. None \in Pendings
    BY DEF None, Pendings
  <1>6. list' \in [Channels -> Pendings]
    BY <1>4 DEF IInv, PageTypes, Answer
  <1>7. busy' \subseteq PageKinds
    BY DEF IInv, PageTypes, Answer
  <1>8. modal' \in [channel : Channels \cup {NoChannel}, shown : Pendings]
    BY <1>5 DEF IInv, PageTypes, Answer, closeModal
  <1>9. PageTypes'
    BY <1>1, <1>6, <1>7, <1>8 DEF IInv, PageTypes
  <1>10. Grows(approved, approved') /\ broken' \subseteq Channels
    BY <1>1 DEF IInv, TableTypes, Grows
  <1> QED BY <1>1, <1>2, <1>3, <1>9, <1>10, TablesKept

(* The page gives up waiting. *)
LEMMA DisconnectKeeps ==
  ASSUME IInv, NEW j \in Jobs, Disconnect(j)
  PROVE  IInv' /\ Kept
  <1> DEFINE y == [job[j] EXCEPT !.heard = FALSE]
  <1>1. /\ job' = [job EXCEPT ![j] = y] /\ busy' \subseteq busy
        /\ UNCHANGED <<row, routes, page, history>>
        /\ faults > 0 /\ faults' = faults - 1
    BY DEF Disconnect, IInv, TableTypes
  <1>2. JobOK(job[j], approved) /\ job[j] \in JobType
    BY DEF IInv, JobsOK, JobOK
  <1>3. /\ y \in JobType /\ y.pc = job[j].pc /\ y.at = job[j].at /\ y.kind = job[j].kind
        /\ y.todo = job[j].todo /\ y.sel = job[j].sel /\ y.loaded = job[j].loaded
    BY <1>2 DEF JobType
  <1> HIDE DEF y
  <1>4. JobOK(y, approved)
    BY <1>2, <1>3 DEF JobOK, Named
  <1>5. JobsOK' /\ job' \in [Jobs -> JobType] /\ approved' \in [Channels -> Pendings]
    BY <1>1, <1>4, JobReplaced
  <1>6. \A i \in Jobs : job'[i].pc = job[i].pc /\ job'[i].at = job[i].at
    BY <1>1, <1>3 DEF IInv, TableTypes
  <1>7. PageTypes' /\ Grows(approved, approved') /\ broken' \subseteq Channels
    BY <1>1, FaultsType DEF IInv, PageTypes, TableTypes, Grows
  <1> QED BY <1>1, <1>5, <1>6, <1>7, TablesKept

(* The server dies. *)
LEMMA CrashKeeps ==
  ASSUME IInv, Crash
  PROVE  IInv' /\ Kept
  <1>1. /\ job' = [j \in Jobs |-> IF Running(j) THEN Over(job[j]) ELSE job[j]]
        /\ broken' = broken \cup {job[j].at : j \in {i \in Jobs : job[i].pc = "abilities"}}
        /\ busy' = {} /\ met' = {} /\ faults > 0 /\ faults' = faults - 1
        /\ UNCHANGED <<row, abilities, page, approved, raced>>
    BY DEF Crash
  <1>2. \A j \in Jobs : JobOK(job'[j], approved)
    BY <1>1, OverOK DEF IInv, JobsOK
  <1>3. job' \in [Jobs -> JobType]
    BY <1>1, <1>2 DEF JobOK
  <1>4. broken' \subseteq Channels
    <2>1. \A i \in Jobs : job[i].pc = "abilities" => job[i].at \in Channels
      BY DEF IInv, JobsOK, JobOK
    <2> QED BY <1>1, <2>1 DEF IInv, TableTypes
  <1>5. TableTypes' /\ JobsOK'
    BY <1>1, <1>2, <1>3, <1>4 DEF IInv, TableTypes, JobsOK
  <1>6. PageTypes'
    BY <1>1, FaultsType DEF IInv, PageTypes
  <1>7. RowsOK' /\ OffersMakeSense' /\ Kept
    BY <1>1 DEF IInv, RowsOK, OffersMakeSense, Kept
  <1>8. AbilitiesFollowModels'
    BY <1>1 DEF IInv, AbilitiesFollowModels
  <1> QED BY <1>5, <1>6, <1>7, <1>8 DEF IInv

-----------------------------------------------------------------------------
(* The steps of the page *)

(* The dialog is opened, used and closed. *)
LEMMA DialogKeeps ==
  ASSUME IInv, Dialog
  PROVE  IInv' /\ Kept
  <1>n. None \in Pendings
    BY DEF None, Pendings
  <1>1. ASSUME NEW c \in Channels, Open(c)
        PROVE  IInv' /\ Kept
    <2>1. PageTypes' /\ UNCHANGED <<row, routes, job, history>>
      BY <1>1 DEF IInv, PageTypes, Open
    <2> QED BY <2>1, ServerKept
  <1>2. ASSUME NEW add \in SUBSET modal.shown.add, NEW remove \in SUBSET modal.shown.remove,
               Select(add, remove)
        PROVE  IInv' /\ Kept
    <2>1. /\ modal.shown.add \subseteq Models /\ modal.shown.remove \subseteq Models
          /\ selected.add \subseteq Models /\ selected.remove \subseteq Models
      BY DEF IInv, PageTypes, Pendings
    <2>2. selected' = [add |-> (selected.add \ modal.shown.add) \cup add,
                       remove |-> (selected.remove \ modal.shown.remove) \cup remove]
      BY <1>2 DEF Select
    <2>3. selected' \in Pendings
      BY <2>1, <2>2 DEF Pendings
    <2>4. PageTypes' /\ UNCHANGED <<row, routes, job, history>>
      BY <1>2, <2>3 DEF IInv, PageTypes, Select
    <2> QED BY <2>4, ServerKept
  <1>3. CASE Cancel
    <2>1. PageTypes' /\ UNCHANGED <<row, routes, job, history>>
      BY <1>n, <1>3 DEF IInv, PageTypes, Cancel, closeModal
    <2> QED BY <2>1, ServerKept
  <1> QED BY <1>1, <1>2, <1>3 DEF Dialog

(* A request of the page: what it names is asked for from now on. *)
LEMMA RequestKeeps ==
  ASSUME IInv, NEW j \in Jobs, NEW k \in PageKinds, NEW c, NEW s \in Selections,
         ~ForAll(k) => c \in Channels, Request(j, k, c, s)
  PROVE  IInv' /\ Kept
  <1>1. /\ busy' = busy \cup {k} /\ Start(j, k, c, s) /\ Approve(k, c, s)
        /\ UNCHANGED <<row, routes, page, raced, broken, faults>>
    BY DEF Request
  <1>2. Todo(k, c) \subseteq Channels
    BY Constants DEF Todo
  <1>3. /\ s.add \subseteq Models /\ s.remove \subseteq Models
        /\ \A d \in Channels : /\ row[d].add \subseteq Models /\ row[d].remove \subseteq Models
                               /\ approved[d].add \subseteq Models
                               /\ approved[d].remove \subseteq Models
                               /\ approved[d] \in Pendings
    BY DEF IInv, TableTypes, Rows, Pendings, Selections
  <1>4. approved' \in [Channels -> Pendings]
    BY <1>1, <1>3 DEF Approve, Pendings
  <1>5. Grows(approved, approved')
    BY <1>1 DEF Approve, Grows
  <1>6. \A d \in Todo(k, c) :
          /\ k = "apply" => s.add \subseteq approved'[d].add /\ s.remove \subseteq approved'[d].remove
          /\ k = "applyAll" => /\ row[d].add \subseteq approved'[d].add
                               /\ row[d].remove \subseteq approved'[d].remove
    BY <1>1, <1>2 DEF Approve, Applies
  <1>7. k \in Kinds
    BY DEF Kinds
  <1>8. /\ job' \in [Jobs -> JobType] /\ JobsOK'
        /\ \A i \in Jobs : job[i].pc = "abilities"
                             => job'[i].pc = "abilities" /\ job'[i].at = job[i].at
    BY <1>1, <1>5, <1>6, <1>7, StartOK
  <1>9. PageTypes' /\ broken' \subseteq Channels
    BY <1>1 DEF IInv, PageTypes, TableTypes
  <1> QED BY <1>1, <1>4, <1>5, <1>8, <1>9, TablesKept

(* The buttons of the page. *)
LEMMA UserKeeps ==
  ASSUME IInv, NEW j \in Jobs, User(j)
  PROVE  IInv' /\ Kept
  <1>n. NoSelection \in Selections
    BY DEF NoSelection, Selections
  <1>k. "apply" \in PageKinds /\ "detect" \in PageKinds
    BY DEF PageKinds
  <1>1. CASE Confirm(j)
    <2> DEFINE s == [add |-> selected.add, ignore |-> modal.shown.add \ selected.add,
                     remove |-> selected.remove]
    <2>1. s \in Selections
      BY DEF IInv, PageTypes, Pendings, Selections
    <2>2. modal.channel \in Channels /\ Request(j, "apply", modal.channel, s)
      BY <1>1 DEF IInv, PageTypes, Confirm, Shut
    <2> HIDE DEF s
    <2> QED BY <1>k, <2>1, <2>2, RequestKeeps
  <1>2. ASSUME NEW c \in Channels, Detect(j, c)
        PROVE  IInv' /\ Kept
    BY <1>k, <1>n, <1>2, RequestKeeps DEF Detect
  <1>3. ASSUME NEW k \in PageKinds, Bulk(j, k)
        PROVE  IInv' /\ Kept
    <2>1. ForAll(k) /\ Request(j, k, NoChannel, NoSelection)
      BY <1>3 DEF Bulk, ForAll
    <2> QED BY <1>n, <2>1, RequestKeeps
  <1> QED BY <1>1, <1>2, <1>3 DEF User

(* The ticker of the periodic task fires. *)
LEMMA TickKeeps ==
  ASSUME IInv, NEW j \in Jobs, Tick(j)
  PROVE  IInv' /\ Kept
  <1>1. /\ Start(j, "task", NoChannel, NoSelection)
        /\ UNCHANGED <<row, routes, page, busy, history, faults>>
    BY DEF Tick
  <1>2. NoSelection \in Selections /\ "task" \in Kinds /\ ForAll("task")
    BY DEF NoSelection, Selections, Kinds, ForAll
  <1>3. Grows(approved, approved')
    BY <1>1 DEF Grows
  <1>4. /\ job' \in [Jobs -> JobType] /\ JobsOK'
        /\ \A i \in Jobs : job[i].pc = "abilities"
                             => job'[i].pc = "abilities" /\ job'[i].at = job[i].at
    BY <1>1, <1>2, <1>3, StartOK
  <1>5. PageTypes' /\ broken' \subseteq Channels /\ approved' \in [Channels -> Pendings]
    BY <1>1 DEF IInv, PageTypes, TableTypes
  <1> QED BY <1>1, <1>3, <1>4, <1>5, TablesKept

-----------------------------------------------------------------------------
(* Every step keeps the invariant, and the models that are ignored. *)
LEMMA NextKeeps ==
  ASSUME IInv, [Next]_vars
  PROVE  IInv' /\ Kept
  <1>1. ASSUME NEW j \in Jobs, JobStep(j)
        PROVE  IInv' /\ Kept
    BY <1>1, PersistKeeps, NotDueKeeps, UpdateAbilitiesKeeps, AnswerKeeps DEF JobStep
  <1>2. ASSUME NEW j \in Jobs, Fault(j)
        PROVE  IInv' /\ Kept
    BY <1>2, FetchFailsKeeps, PersistFailsKeeps, AbilitiesFailKeeps, DisconnectKeeps DEF Fault
  <1>3. CASE UNCHANGED vars
    <2>1. PageTypes'
      BY <1>3 DEF vars, IInv, PageTypes
    <2> QED BY <1>3, <2>1, ServerKept DEF vars
  <1> QED BY <1>1, <1>2, <1>3, UserKeeps, TickKeeps, DialogKeeps, CrashKeeps DEF Next

(* Only the write of a job changes the models of a channel. *)
LEMMA OnlyPersistWrites ==
  ASSUME IInv, [Next]_vars, NEW c \in Channels, row'[c].models # row[c].models
  PROVE  \E j \in Jobs : Persist(j, c)
  <1>1. row' # row
    OBVIOUS
  <1>2. ASSUME NEW j \in Jobs, NEW d \in Channels, FetchFails(j, d)
        PROVE  FALSE
    <2> DEFINE r == job[j].loaded[d]
    <2>1. Store(d, r, r) /\ approved' = approved
      BY <1>2 DEF FetchFails
    <2>2. RowOK(d, r, approved)
      BY DEF IInv, JobsOK, JobOK
    <2> HIDE DEF r
    <2>3. \A e \in Channels : row'[e].models = row[e].models
      BY <2>1, <2>2, StoreOK
    <2> QED BY <2>3
  <1>3. ASSUME NEW j \in Jobs, NEW d \in Channels, Persist(j, d), d # c
        PROVE  FALSE
    <2>1. PICK new : row' = [row EXCEPT ![d] = new]
      BY <1>3 DEF Persist, Store
    <2> QED BY <1>3, <2>1 DEF IInv, TableTypes
  <1>4. \E j \in Jobs : JobStep(j) \/ Fault(j)
    <2>1. ~Crash /\ ~Dialog /\ ~UNCHANGED vars
      BY <1>1 DEF Crash, Dialog, Open, Select, Cancel, vars
    <2>2. \A j \in Jobs : ~User(j) /\ ~Tick(j)
      BY <1>1 DEF User, Tick, Confirm, Detect, Bulk, Request
    <2> QED BY <2>1, <2>2 DEF Next
  <1>5. PICK j \in Jobs : JobStep(j) \/ Fault(j)
    BY <1>4
  <1>6. CASE JobStep(j)
    BY <1>1, <1>3, <1>6 DEF JobStep, NotDue, UpdateAbilities, Answer
  <1>7. CASE Fault(j)
    BY <1>1, <1>2, <1>7 DEF Fault, PersistFails, AbilitiesFail, Disconnect
  <1> QED BY <1>5, <1>6, <1>7

(* What a job computes from its copy differs from it by what was asked for, *)
(* or by what the synchronisation of the channel adds.                      *)
LEMMA OutcomesApproved ==
  ASSUME IInv, NEW j \in Jobs, NEW c \in Channels, AtWork(j, c),
         NEW new \in Outcomes(j, c)
  PROVE  LET r == job[j].loaded[c]
         IN  /\ r.models \ new.models \subseteq approved[c].remove
             /\ \/ new.models \ r.models \subseteq approved[c].add
                \/ job[j].kind = "task" /\ c \in AutoSync
  <1> DEFINE r == job[j].loaded[c]
  <1>1. Named(job[j], c, approved) /\ r \in Rows
    BY DEF IInv, JobsOK, JobOK, AtWork, RowOK
  <1>2. CASE Applies(job[j].kind)
    <2> DEFINE s == Selection(j, c)
    <2>1. new.models = (r.models \cup (s.add \cap r.add))
                         \ ((s.remove \cap r.remove) \ (s.add \cap r.add))
      BY <1>2 DEF Outcomes, Apply
    <2>2. s.add \subseteq approved[c].add /\ s.remove \subseteq approved[c].remove
      BY <1>1, <1>2 DEF Selection, Applies, Named
    <2> HIDE DEF r, s
    <2> QED BY <2>1, <2>2 DEF r
  <1>3. CASE ~Applies(job[j].kind)
    <2>1. PICK up \in Offered : new = Check(job[j].kind, c, r, up)
      BY <1>3 DEF Outcomes
    <2> HIDE DEF r
    <2>2. CASE job[j].kind = "task" /\ c \in AutoSync
      <3>1. r.models \subseteq new.models
        BY <1>1, <2>1 DEF Check, Rows
      <3> QED BY <2>2, <3>1 DEF r
    <2>3. CASE ~(job[j].kind = "task" /\ c \in AutoSync)
      <3>1. new.models = r.models
        BY <1>1, <2>1, <2>3 DEF Check, Rows
      <3> QED BY <3>1 DEF r
    <2> QED BY <2>2, <2>3
  <1> QED BY <1>2, <1>3

(* What a job's write changes in the table: that, and what it had not seen. *)
LEMMA PersistApproved ==
  ASSUME IInv, NEW j \in Jobs, NEW c \in Channels, Persist(j, c),
         row'[c].models # row[c].models
  PROVE  /\ AtWork(j, c) /\ job'[j] # job[j]
         /\ row[c].models \ row'[c].models \subseteq approved[c].remove \cup Unseen(j, c)
         /\ \/ row'[c].models \ row[c].models \subseteq approved[c].add \cup Unseen(j, c)
            \/ job[j].kind = "task" /\ c \in AutoSync
  <1> DEFINE r == job[j].loaded[c]
  <1>1. PICK new \in Outcomes(j, c) :
          /\ Store(c, r, new)
          /\ job' = [job EXCEPT ![j] =
               IF new.models # r.models
               THEN [job[j] EXCEPT !.pc = "abilities", !.at = c, !.loaded[c] = new]
               ELSE Moved(job[j], c, TRUE)]
    BY DEF Persist
  <1>2. AtWork(j, c) /\ job[j].pc = "work" /\ job[j] \in JobType
    BY DEF Persist, AtWork, IInv, TableTypes
  <1>3. RowOK(c, new, approved)
    BY <1>2, OutcomesOK
  <1>4. row'[c] = Written(c, r, new)
    BY <1>1 DEF Store, IInv, TableTypes
  <1>5. new.models # r.models /\ row'[c].models = new.models
    BY <1>3, <1>4 DEF Written, RowOK, Rows
  <1>6. job'[j].pc = "abilities"
    BY <1>1, <1>2, <1>5 DEF IInv, TableTypes, JobType
  <1>7. /\ r.models \ new.models \subseteq approved[c].remove
        /\ \/ new.models \ r.models \subseteq approved[c].add
           \/ job[j].kind = "task" /\ c \in AutoSync
    BY <1>2, OutcomesApproved
  <1>8. Unseen(j, c) = (row[c].models \ r.models) \cup (r.models \ row[c].models)
    BY DEF Unseen
  <1> HIDE DEF r
  <1> QED BY <1>2, <1>5, <1>6, <1>7, <1>8

(* The rows as the last check before left them. *)
LEMMA InitHolds ==
  ASSUME Init
  PROVE  IInv
  <1>1. \A c \in Channels :
          /\ RowOK(c, row[c], approved) /\ row[c] \in Rows
          /\ row[c].add \cap row[c].models = {} /\ row[c].remove \subseteq row[c].models
          /\ row[c].models = Initial[c]
    <2> TAKE c \in Channels
    <2>1. row[c] = Check("detect", c, Fresh(c), Found[c])
      BY DEF Init
    <2>2. /\ RowOK(c, row[c], approved)
          /\ row[c].add \cap row[c].models = {} /\ row[c].remove \subseteq row[c].models
      <3>1. RowOK(c, Fresh(c), approved) /\ Found[c] \in SUBSET Models
        BY Constants, FreshOK
      <3>2. \A r : RowOK(c, r, approved) =>
              LET x == Check("detect", c, r, Found[c])
              IN  /\ RowOK(c, x, approved)
                  /\ x.add \cap x.models = {} /\ x.remove \subseteq x.models
        BY <3>1, CheckOK
      <3> QED BY <2>1, <3>1, <3>2
    <2>3. row[c].models = Initial[c]
      BY <2>1 DEF Check, Fresh
    <2> QED BY <2>2, <2>3 DEF RowOK
  <1>2. row \in [Channels -> Rows]
    BY <1>1 DEF Init
  <1>3. None \in Pendings /\ \A c \in Channels : Pending(row[c]) \in Pendings
    BY <1>1 DEF None, Pendings, Pending, Rows
  <1>4. PageTypes
    BY <1>3, Constants DEF Init, PageTypes
  <1>5. JobOK(Unused, approved)
    <2>1. /\ Unused.kind = "task" /\ Unused.pc = "unused" /\ Unused.todo = {}
          /\ Unused.loaded = [c \in Channels |-> Fresh(c)]
      BY DEF Unused
    <2>2. \A c \in Channels : RowOK(c, Fresh(c), approved) /\ Fresh(c) \in Rows
      BY FreshOK DEF RowOK
    <2>3. Unused \in JobType
      BY <2>2 DEF Unused, JobType, Kinds, NoSelection, Selections
    <2> QED BY <2>1, <2>2, <2>3 DEF JobOK
  <1>6. JobsOK /\ job \in [Jobs -> JobType]
    BY <1>5 DEF Init, JobsOK, JobOK
  <1>7. abilities = Initial /\ Initial \in [Channels -> SUBSET Models]
    BY ChannelAssumption DEF Init, ChannelAssumption
  <1>8. approved \in [Channels -> Pendings] /\ raced = {} /\ broken = {} /\ met = {}
    BY <1>3 DEF Init
  <1>9. TableTypes /\ RowsOK /\ OffersMakeSense /\ AbilitiesFollowModels
    BY <1>1, <1>2, <1>6, <1>7, <1>8
    DEF TableTypes, RowsOK, OffersMakeSense, AbilitiesFollowModels
  <1> QED BY <1>4, <1>6, <1>9 DEF IInv

(* The invariant holds in every state of every behaviour. *)
THEOREM Invariance == Spec => []IInv
  <1>1. Init => IInv
    BY InitHolds
  <1>2. IInv /\ [Next]_vars => IInv'
    BY NextKeeps
  <1> QED BY <1>1, <1>2, PTL DEF Spec

(* Types of the tables, the jobs and the page, in particular that a job is  *)
(* at a channel when it is about to rewrite its abilities.                  *)
THEOREM TypeCorrect == Spec => []TypeOK
  <1>1. IInv => TypeOK
    BY DEF IInv, PageTypes, TableTypes, JobsOK, JobOK, TypeOK
  <1> QED BY <1>1, Invariance, PTL

(* No combination of checks, applications, stale copies, failures and       *)
(* crashes takes a redirected alias from a channel (redirectSourceSet in    *)
(* collectPendingUpstreamModelChangesFromModels).                           *)
THEOREM AliasesCorrect == Spec => []AliasesKept
  <1>1. IInv => AliasesKept
    BY DEF IInv, RowsOK, RowOK, AliasesKept
  <1> QED BY <1>1, Invariance, PTL

(* A step takes from a channel only what a request of the page has named,   *)
(* and gives it only that or what its own synchronisation finds; a job with *)
(* an outdated copy moreover undoes what others have changed since, and no  *)
(* more (applyChannelUpstreamModelUpdates, the auto-sync of the periodic    *)
(* task, updateChannelUpstreamModelSettings).                               *)
THEOREM ApprovalCorrect == Spec => OnlyApprovedChanges
  <1>1. IInv /\ [Next]_vars
          => [\A c \in Channels :
                row'[c].models # row[c].models =>
                  \E j \in Jobs :
                    /\ AtWork(j, c) /\ job'[j] # job[j]
                    /\ row[c].models \ row'[c].models
                         \subseteq approved[c].remove \cup Unseen(j, c)
                    /\ \/ row'[c].models \ row[c].models
                            \subseteq approved[c].add \cup Unseen(j, c)
                       \/ job[j].kind = "task" /\ c \in AutoSync]_vars
    BY OnlyPersistWrites, PersistApproved
  <1> QED BY <1>1, Invariance, PTL DEF Spec, OnlyApprovedChanges

(* An ignored model is not offered, also by settings written from an        *)
(* outdated copy (updateChannelUpstreamModelSettings).                      *)
THEOREM IgnoredCorrect == Spec => []IgnoredNotOffered
  <1>1. IInv => IgnoredNotOffered
    BY DEF IInv, RowsOK, RowOK, IgnoredNotOffered
  <1> QED BY <1>1, Invariance, PTL

(* Without races the offers are about models the channel lacks or has (the  *)
(* remaining models of applyChannelUpstreamModelUpdates).                   *)
THEOREM OffersCorrect == Spec => []OffersMakeSense
  <1>1. IInv => OffersMakeSense
    BY DEF IInv
  <1> QED BY <1>1, Invariance, PTL

(* Without races a model once ignored stays so (mergeModelNames in          *)
(* applyChannelUpstreamModelUpdates).                                       *)
THEOREM IgnoresCorrect == Spec => IgnoresAreKept
  <1>1. IInv /\ [Next]_vars
          => [\A c \in Channels \ raced' : row[c].ignored \subseteq row'[c].ignored]_vars
    BY NextKeeps DEF Kept
  <1> QED BY <1>1, Invariance, PTL DEF Spec, IgnoresAreKept

(* A channel is routed by the models of its row, except between the two     *)
(* writes of a job and after a failure, a crash or an overtaking there      *)
(* (updateChannelUpstreamModelSettings, UpdateAbilities).                   *)
THEOREM RoutingCorrect == Spec => []AbilitiesFollowModels
  <1>1. IInv => AbilitiesFollowModels
    BY DEF IInv
  <1> QED BY <1>1, Invariance, PTL

=============================================================================
