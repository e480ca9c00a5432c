--------------------------- MODULE ChannelUpstream ---------------------------
(***************************************************************************)
(* Keeping the model list of a channel in step with its upstream:          *)
(* controller/channel_upstream_update.go on the server, and the channels   *)
(* page of the web frontend that drives it                                 *)
(* (web/default/src/features/channels: use-channel-upstream-updates.ts,    *)
(* upstream-update-dialog.tsx, channels-columns.tsx).                      *)
(*                                                                         *)
(* A channel row holds its models and a settings column: the models found  *)
(* upstream that may be added, those gone upstream that may be removed and *)
(* those the administrator ignores.  Five kinds of jobs change it; each    *)
(* loads rows, asks the upstream or applies a selection, and writes the    *)
(* whole settings column back, and the models if they changed, without a   *)
(* transaction around load and write.  The abilities (what requests are    *)
(* routed by) are rewritten afterwards in a transaction of their own.      *)
(***************************************************************************)
EXTENDS Naturals

CONSTANTS
  Channels,     \* ids of enabled channels, processed in increasing order
  Checked,      \* those with upstream_model_update_check_enabled
  AutoSync,     \* those with upstream_model_update_auto_sync_enabled
  Models,       \* model names
  Offered,      \* what an upstream may list: a set of sets of models
  Initial,      \* the models of a channel at the start
  Found,        \* what its upstream listed at the last check before
  Sources,      \* per channel, the aliases its model_mapping redirects
  Targets,      \* per channel, the models they are redirected to
  NoChannel,    \* no channel
  RelayTimeout, \* RELAY_TIMEOUT in seconds, 0 (the default) for none
  Jobs,         \* bound: the jobs of one behaviour, in the order of use
  MaxFaults     \* bound: failures of the database and the network, crashes

ASSUME ChannelAssumption ==
  /\ Channels \subseteq Nat /\ NoChannel \notin Channels
  /\ Checked \subseteq Channels /\ AutoSync \subseteq Channels
  /\ Offered \subseteq SUBSET Models
  /\ Initial \in [Channels -> SUBSET Models]
  /\ Found \in [Channels -> SUBSET Models]
  /\ Sources \in [Channels -> SUBSET Models]
  /\ Targets \in [Channels -> SUBSET Models]
  /\ RelayTimeout \in Nat /\ Jobs \subseteq Nat /\ MaxFaults \in Nat

VARIABLES
  row,         \* the channels table: models and settings
  abilities,   \* the abilities table: the models a channel serves
  met,         \* jobs that were to rewrite it when another one committed
  job,         \* the jobs of the server
  list,        \* the page's copy of the settings, as of the last refresh
  modal,       \* the dialog: its channel and what it shows
  selected,    \* the dialog's selectedAdd and selectedRemove
  busy,        \* applyRef, applyAllRef, detectRef, detectAllRef
  approved,    \* what requests of the page have named, per channel (history)
  raced,       \* channels written from an outdated copy (history)
  broken,      \* channels whose abilities could not be rewritten (history)
  faults

page == <<list, modal, selected>>
history == <<approved, raced, broken>>
routes == <<abilities, met>>
vars == <<row, routes, job, page, busy, history, faults>>

PageKinds == {"apply", "applyAll", "detect", "detectAll"}
Kinds == PageKinds \cup {"task"}
Applies(k) == k \in {"apply", "applyAll"}
ForAll(k) == k \in {"applyAll", "detectAll", "task"}

Pendings == [add : SUBSET Models, remove : SUBSET Models]
Rows == [models : SUBSET Models, ignored : SUBSET Models,
         add : SUBSET Models, remove : SUBSET Models]
Selections == [add : SUBSET Models, ignore : SUBSET Models, remove : SUBSET Models]
NoSelection == [add |-> {}, ignore |-> {}, remove |-> {}]
None == [add |-> {}, remove |-> {}]

Pending(r) == [add |-> r.add, remove |-> r.remove]
HasPending(p) == p.add # {} \/ p.remove # {}

Fresh(c) == [models |-> Initial[c], ignored |-> {}, add |-> {}, remove |-> {}]
Unused == [kind |-> "task", pc |-> "unused", todo |-> {}, at |-> NoChannel,
           loaded |-> [c \in Channels |-> Fresh(c)], sel |-> NoSelection,
           ok |-> TRUE, heard |-> FALSE]

-----------------------------------------------------------------------------
(* What the jobs compute. *)

(* collectPendingUpstreamModelChangesFromModels *)
collectPending_NoAliases(c, r, up) ==
  [add |-> up \ (r.models \cup Targets[c] \cup r.ignored), remove |-> r.models \ up]
collectPending_NoIgnored(c, r, up) ==
  [add |-> up \ (r.models \cup Targets[c]), remove |-> (r.models \ up) \ Sources[c]]
collectPending(c, r, up) ==
  [add |-> up \ (r.models \cup Targets[c] \cup r.ignored),
   remove |-> (r.models \ up) \ Sources[c]]

(* checkAndPersistChannelUpstreamModelUpdates, after a successful fetch: the
   periodic task adds what is new at once where the channel syncs itself. *)
Check_Mutant(k, c, r, up) ==
  LET p == collectPending(c, r, up)
  IN  IF k = "task" /\ c \in AutoSync /\ p.add # {}
      THEN [r EXCEPT !.models = (r.models \ p.remove) \cup p.add, !.add = {}, !.remove = {}]
      ELSE [r EXCEPT !.add = p.add, !.remove = p.remove]
Check(k, c, r, up) ==
  LET p == collectPending(c, r, up)
  IN  IF k = "task" /\ c \in AutoSync /\ p.add # {}
      THEN [r EXCEPT !.models = r.models \cup p.add, !.add = {}, !.remove = p.remove]
      ELSE [r EXCEPT !.add = p.add, !.remove = p.remove]

(* applyChannelUpstreamModelUpdates: only what is pending is applied, and a
   model in both lists is added. *)
Apply_NoRemaining(r, s) ==
  LET add == s.add \cap r.add
      remove == (s.remove \cap r.remove) \ add
  IN  [models |-> (r.models \cup add) \ remove,
       ignored |-> (r.ignored \cup (s.ignore \cap r.add)) \ add,
       add |-> r.add \ s.ignore,
       remove |-> r.remove]
Apply_Mutant(r, s) ==
  LET add == s.add \cap r.add
      ignore == s.ignore \cap r.add
      remove == (s.remove \cap r.remove) \ add
  IN  [models |-> (r.models \cup add) \ remove,
       ignored |-> ignore,
       add |-> r.add \ (add \cup ignore),
       remove |-> r.remove \ remove]
Apply(r, s) ==
  LET add == s.add \cap r.add
      ignore == s.ignore \cap r.add
      remove == (s.remove \cap r.remove) \ add
  IN  [models |-> (r.models \cup add) \ remove,
       ignored |-> (r.ignored \cup ignore) \ add,
       add |-> r.add \ (add \cup ignore),
       remove |-> r.remove \ remove]

Init ==
  /\ row = [c \in Channels |-> Check("detect", c, Fresh(c), Found[c])]
  /\ abilities = Initial /\ met = {}
  /\ job = [j \in Jobs |-> Unused]
  /\ list = [c \in Channels |-> Pending(row[c])]
  /\ modal = [channel |-> NoChannel, shown |-> None]
  /\ selected = None
  /\ busy = {}
  /\ approved = [c \in Channels |-> None]
  /\ raced = {} /\ broken = {}
  /\ faults = MaxFaults

-----------------------------------------------------------------------------
(* The jobs of the server. *)

(* The channels a job goes through: the bulk ones only those with checking
   enabled, and apply_all only those with something pending. *)
Todo(k, c) ==
  IF ~ForAll(k) THEN {c}
  ELSE {d \in Checked : k = "applyAll" => HasPending(row[d])}

(* A request of the page arrives, or the task's ticker fires: rows are loaded. *)
Start(j, k, c, s) ==
  /\ job[j].pc = "unused" /\ \A i \in Jobs : i < j => job[i].pc # "unused"
  /\ job' = [job EXCEPT ![j] =
       [kind |-> k, pc |-> "work", todo |-> Todo(k, c), at |-> NoChannel,
        loaded |-> [d \in Channels |-> IF d \in Todo(k, c) THEN row[d] ELSE Fresh(d)],
        sel |-> s, ok |-> TRUE, heard |-> k # "task"]]

(* c is the next channel of a job, which takes them in the order of the ids. *)
AtWork(j, c) ==
  job[j].pc = "work" /\ c \in job[j].todo /\ \A d \in job[j].todo : c <= d

(* apply_all selects all that is pending in the row it has loaded. *)
Selection(j, c) ==
  LET r == job[j].loaded[c]
  IN  IF job[j].kind = "applyAll"
      THEN [add |-> r.add, ignore |-> {}, remove |-> r.remove]
      ELSE job[j].sel

(* What a job writes for a channel, for each answer of the upstream. *)
Outcomes(j, c) ==
  LET r == job[j].loaded[c]
  IN  IF Applies(job[j].kind) THEN {Apply(r, Selection(j, c))}
      ELSE {Check(job[j].kind, c, r, up) : up \in Offered}

(* A bulk job goes on with the next channel, whatever came of this one; the
   others answer with an error. *)
Moved(x, c, ok) ==
  [x EXCEPT !.pc = "work", !.at = NoChannel, !.todo = @ \ {c},
            !.loaded[c] = Fresh(c), !.ok = @ /\ (ok \/ ForAll(x.kind))]

(* updateChannelUpstreamModelSettings writes the settings always and the models
   only if the job has changed them. *)
Written(c, r, new) ==
  [new EXCEPT !.models = IF new.models # r.models THEN new.models ELSE row[c].models]

Store(c, r, new) ==
  /\ row' = [row EXCEPT ![c] = Written(c, r, new)]
  /\ raced' = IF row[c] = r THEN raced ELSE raced \cup {c}

Persist(j, c) ==
  /\ AtWork(j, c)
  /\ LET r == job[j].loaded[c]
     IN  \E new \in Outcomes(j, c) :
           /\ Store(c, r, new)
           /\ job' = [job EXCEPT ![j] =
                IF new.models # r.models
                THEN [@ EXCEPT !.pc = "abilities", !.at = c, !.loaded[c] = new]
                ELSE Moved(@, c, TRUE)]
  /\ UNCHANGED <<routes, page, busy, approved, broken, faults>>

(* The upstream does not answer: the loaded settings are written again. *)
FetchFails(j, c) ==
  /\ AtWork(j, c) /\ ~Applies(job[j].kind) /\ faults > 0
  /\ Store(c, job[j].loaded[c], job[j].loaded[c])
  /\ job' = [job EXCEPT ![j] = Moved(@, c, FALSE)]
  /\ faults' = faults - 1
  /\ UNCHANGED <<routes, page, busy, approved, broken>>

(* The row cannot be written. *)
PersistFails(j, c) ==
  /\ AtWork(j, c) /\ faults > 0
  /\ job' = [job EXCEPT ![j] = Moved(@, c, FALSE)]
  /\ faults' = faults - 1
  /\ UNCHANGED <<row, routes, page, busy, history>>

(* The task leaves out a channel it checked less than the minimal interval ago. *)
NotDue(j, c) ==
  /\ AtWork(j, c) /\ job[j].kind = "task"
  /\ job' = [job EXCEPT ![j] = Moved(@, c, TRUE)]
  /\ UNCHANGED <<row, routes, page, busy, history, faults>>

(* UpdateAbilities: the models of the job's copy replace those of the channel,
   or its transaction fails.  Rows that another transaction inserts meanwhile
   escape its DELETE (PostgreSQL at READ COMMITTED), and its INSERT leaves them. *)
Rewriting(c) == {j \in Jobs : job[j].pc = "abilities" /\ job[j].at = c}

UpdateAbilities_Mutant(j) ==
  /\ job[j].pc = "abilities"
  /\ LET c == job[j].at
         mine == job[j].loaded[c].models
     IN  /\ abilities' = [abilities EXCEPT ![c] = @ \cup mine]
         /\ met' = (met \cup Rewriting(c)) \ {j}
         /\ broken' = IF row[c].models = mine THEN broken \ {c} ELSE broken \cup {c}
         /\ job' = [job EXCEPT ![j] = Moved(@, c, TRUE)]
  /\ UNCHANGED <<row, page, busy, approved, raced, faults>>
UpdateAbilities(j) ==
  /\ job[j].pc = "abilities"
  /\ LET c == job[j].at
         mine == job[j].loaded[c].models
     IN  /\ \E others \in IF j \in met THEN {{}, abilities[c]} ELSE {{}} :
              /\ abilities' = [abilities EXCEPT ![c] = mine \cup others]
              /\ broken' = IF row[c].models = mine \cup others THEN broken \ {c}
                           ELSE broken \cup {c}
         /\ met' = (met \cup Rewriting(c)) \ {j}
         /\ job' = [job EXCEPT ![j] = Moved(@, c, TRUE)]
  /\ UNCHANGED <<row, page, busy, approved, raced, faults>>

AbilitiesFail(j) ==
  /\ job[j].pc = "abilities" /\ faults > 0
  /\ LET c == job[j].at
     IN  /\ broken' = broken \cup {c}
         /\ job' = [job EXCEPT ![j] = Moved(@, c, FALSE)]
  /\ met' = met \ {j}
  /\ faults' = faults - 1
  /\ UNCHANGED <<row, abilities, page, busy, approved, raced>>

(* The job is over.  The page, if it still waits, releases its ref whatever
   the answer; after a success it refreshes its list, and apply closes the
   dialog, whichever channel it shows by now. *)
Over(x) == [Unused EXCEPT !.pc = "done"]
closeModal == modal' = [channel |-> NoChannel, shown |-> None]

Answer(j) ==
  LET k == job[j].kind
      success == job[j].heard /\ job[j].ok
  IN  /\ job[j].pc = "work" /\ job[j].todo = {}
      /\ job' = [job EXCEPT ![j] = Over(@)]
      /\ busy' = IF job[j].heard THEN busy \ {k} ELSE busy
      /\ list' = IF success THEN [c \in Channels |-> Pending(row[c])] ELSE list
      /\ IF success /\ k = "apply" THEN closeModal ELSE UNCHANGED modal
      /\ UNCHANGED <<row, routes, selected, history, faults>>

(* The connection breaks: the page gives up, the server does not. *)
Disconnect(j) ==
  /\ job[j].heard /\ faults > 0
  /\ job' = [job EXCEPT ![j].heard = FALSE]
  /\ busy' = busy \ {job[j].kind}
  /\ faults' = faults - 1
  /\ UNCHANGED <<row, routes, page, history>>

(* The server dies, with all its jobs, wherever they are. *)
Running(j) == job[j].pc \in {"work", "abilities"}
Crash ==
  /\ faults > 0 /\ \E j \in Jobs : Running(j)
  /\ job' = [j \in Jobs |-> IF Running(j) THEN Over(job[j]) ELSE job[j]]
  /\ broken' = broken \cup {job[j].at : j \in {i \in Jobs : job[i].pc = "abilities"}}
  /\ busy' = {} /\ met' = {}
  /\ faults' = faults - 1
  /\ UNCHANGED <<row, abilities, page, approved, raced>>

-----------------------------------------------------------------------------
(* The page. *)

Shut == modal.channel = NoChannel

(* openModal, from the list as it was last refreshed. *)
Open(c) ==
  /\ Shut /\ HasPending(list[c])
  /\ modal' = [channel |-> c, shown |-> list[c]]
  /\ UNCHANGED <<row, routes, job, list, selected, busy, history, faults>>

(* Boxes are ticked and unticked, of the models that are shown; what was
   ticked for another channel stays in the sets. *)
Select(add, remove) ==
  /\ ~Shut
  /\ LET new == [add |-> (selected.add \ modal.shown.add) \cup add,
                 remove |-> (selected.remove \ modal.shown.remove) \cup remove]
     IN  new # selected /\ selected' = new
  /\ UNCHANGED <<row, routes, job, list, modal, busy, history, faults>>

Cancel ==
  /\ ~Shut /\ closeModal
  /\ UNCHANGED <<row, routes, job, list, selected, busy, history, faults>>

Approve(k, c, s) ==
  approved' = [d \in Channels |->
    IF d \notin Todo(k, c) \/ ~Applies(k) THEN approved[d]
    ELSE IF k = "apply"
         THEN [add |-> approved[d].add \cup s.add, remove |-> approved[d].remove \cup s.remove]
         ELSE [add |-> approved[d].add \cup row[d].add,
               remove |-> approved[d].remove \cup row[d].remove]]

Request(j, k, c, s) ==
  /\ k \notin busy
  /\ busy' = busy \cup {k}
  /\ Start(j, k, c, s)
  /\ Approve(k, c, s)
  /\ UNCHANGED <<row, routes, page, raced, broken, faults>>

(* handleConfirm and applyUpdates: all that is ticked is sent, and what is
   shown and not ticked is to be ignored. *)
Confirm(j) ==
  /\ ~Shut
  /\ Request(j, "apply", modal.channel,
       [add |-> selected.add, ignore |-> modal.shown.add \ selected.add,
        remove |-> selected.remove])

(* detectChannelUpdates, offered where nothing is pending. *)
Detect(j, c) ==
  /\ Shut /\ ~HasPending(list[c])
  /\ Request(j, "detect", c, NoSelection)

Bulk(j, k) ==
  /\ Shut /\ k \in {"applyAll", "detectAll"}
  /\ Request(j, k, NoChannel, NoSelection)

(* The periodic task, of which one runs at a time. *)
Tick(j) ==
  /\ \A i \in Jobs : Running(i) => job[i].kind # "task"
  /\ Start(j, "task", NoChannel, NoSelection)
  /\ UNCHANGED <<row, routes, page, busy, history, faults>>

-----------------------------------------------------------------------------
JobStep(j) ==
  \/ \E c \in Channels : Persist(j, c) \/ NotDue(j, c)
  \/ UpdateAbilities(j) \/ Answer(j)
Fault(j) ==
  \/ \E c \in Channels : FetchFails(j, c) \/ PersistFails(j, c)
  \/ AbilitiesFail(j) \/ Disconnect(j)
User(j) ==
  \/ Confirm(j)
  \/ \E c \in Channels : Detect(j, c)
  \/ \E k \in PageKinds : Bulk(j, k)
Dialog ==
  \/ \E c \in Channels : Open(c)
  \/ \E add \in SUBSET modal.shown.add, remove \in SUBSET modal.shown.remove :
       Select(add, remove)
  \/ Cancel

Next ==
  \/ \E j \in Jobs : JobStep(j) \/ Fault(j) \/ User(j) \/ Tick(j)
  \/ Dialog
  \/ Crash

Spec == Init /\ [][Next]_vars

(* The database answers.  The upstream's answer, or an error in its place, is
   sure to come only when RELAY_TIMEOUT is set: a detection may else stay where
   it is.  The answer of the server reaches the page, or the page learns that
   the connection is broken; its own requests have no timeout. *)
Assured(j) ==
  /\ JobStep(j)
  /\ RelayTimeout > 0 \/ Applies(job[j].kind) \/ job[j].todo = {}
       \/ job[j].pc = "abilities"

FairSpec == Spec /\ \A j \in Jobs : WF_vars(Assured(j))

-----------------------------------------------------------------------------
JobType ==
  [kind : Kinds, pc : {"unused", "work", "abilities", "done"},
   todo : SUBSET Channels, at : Channels \cup {NoChannel},
   loaded : [Channels -> Rows], sel : Selections, ok : BOOLEAN, heard : BOOLEAN]

(* Types of the tables, the jobs and the page. *)
TypeOK ==
  /\ row \in [Channels -> Rows]
  /\ abilities \in [Channels -> SUBSET Models] /\ met \subseteq Jobs
  /\ job \in [Jobs -> JobType]
  /\ \A j \in Jobs : job[j].pc = "abilities" => job[j].at \in Channels
  /\ list \in [Channels -> Pendings]
  /\ modal \in [channel : Channels \cup {NoChannel}, shown : Pendings]
  /\ selected \in Pendings
  /\ busy \subseteq PageKinds
  /\ approved \in [Channels -> Pendings]
  /\ raced \subseteq Channels /\ broken \subseteq Channels
  /\ faults \in 0 .. MaxFaults

(* An alias that model_mapping redirects is never taken from a channel because
   the upstream does not list it, through whatever copies of the row
   (collectPendingUpstreamModelChangesFromModels, redirectSourceSet). *)
AliasesKept ==
  \A c \in Channels : Initial[c] \cap Sources[c] \subseteq row[c].models

(* What other jobs have changed in the models of c since j loaded its copy,
   which a write of j takes back. *)
Unseen(j, c) ==
  LET mine == job[j].loaded[c].models
  IN  (row[c].models \ mine) \cup (mine \ row[c].models)

(* A step takes a model from a channel only if a request of the page has named
   it for removal, and gives it one only if a request has named it for addition
   or the task synchronises the channel: except that a job whose copy is out of
   date undoes what others have changed since it was loaded, and no more
   (applyChannelUpstreamModelUpdates, the auto-sync of the periodic task and
   updateChannelUpstreamModelSettings, which writes the models of the copy). *)
OnlyApprovedChanges ==
  [][\A c \in Channels :
       row'[c].models # row[c].models =>
         \E j \in Jobs :
           /\ AtWork(j, c) /\ job'[j] # job[j]
           /\ row[c].models \ row'[c].models \subseteq approved[c].remove \cup Unseen(j, c)
           /\ \/ row'[c].models \ row[c].models \subseteq approved[c].add \cup Unseen(j, c)
              \/ job[j].kind = "task" /\ c \in AutoSync]_vars

(* A model the administrator ignores is not offered for addition, even when
   settings are written from an outdated copy (ignored and pending models are
   parts of one column). *)
IgnoredNotOffered ==
  \A c \in Channels : row[c].add \cap row[c].ignored = {}

(* While no write came from an outdated copy, what is offered makes sense: to
   add what the channel lacks, to remove what it has (the remaining models of
   applyChannelUpstreamModelUpdates against the models it leaves). *)
OffersMakeSense ==
  \A c \in Channels \ raced :
    row[c].add \cap row[c].models = {} /\ row[c].remove \subseteq row[c].models

(* While no write came from an outdated copy, a model once ignored stays so
   (mergeModelNames of the ignored models in applyChannelUpstreamModelUpdates). *)
IgnoresAreKept ==
  [][\A c \in Channels \ raced' : row[c].ignored \subseteq row'[c].ignored]_vars

(* The models a channel is routed by are those of its row, except while a job
   is between the two writes, after a failure or a crash between them, or
   after jobs have overtaken one another there (updateChannelUpstreamModelSettings
   followed by UpdateAbilities in a transaction of its own). *)
AbilitiesFollowModels ==
  \A c \in Channels :
    \/ abilities[c] = row[c].models
    \/ c \in broken
    \/ \E j \in Jobs : job[j].pc = "abilities" /\ job[j].at = c


=============================================================================
