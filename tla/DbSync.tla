------------------------------- MODULE DbSync -------------------------------
(***************************************************************************)
(* The post-write database synchroniser of the server: DbSyncer of         *)
(* src/src/sync.rs, driven by the write-tool handlers (write a note, then  *)
(* schedule()) and by sync_database {force} (sync_now(), with or without a *)
(* caller that waits and gives up) of src/src/server.rs.                   *)
(*                                                                         *)
(* The vault is a version number: each note write adds one.  db is the     *)
(* largest v such that org-roam.db reflects every write up to v.           *)
(*                                                                         *)
(* Every call of schedule() or sync_now() is a tokio task named by the     *)
(* value the generation counter took at that call.  An atomic load whose   *)
(* value is used at once under the run lock is one step with that use:     *)
(* `completed' is only read and written under the lock, and a bump of      *)
(* `generation' between the load and its use commutes with the load.       *)
(*                                                                         *)
(* Emacs is outside this repository.  What is used of it: the daemon       *)
(* evaluates one request at a time and an evaluation, once received, runs  *)
(* to its end even if the emacsclient process that asked for it is killed. *)
(*                                                                         *)
(* A definition introduced as a faulty variant is used by no action: it is *)
(* what a plausible mistake would make of the definition after it, and     *)
(* shows that the properties can tell the two apart.                       *)
(***************************************************************************)
EXTENDS Naturals

CONSTANTS
  MaxGen,    \* bound on the number of requests the generation counts
  Settings   \* the servers considered: how each is configured and used

(* SyncConfig.mode; the forms of sync_database {force} its clients use; and *)
(* what may go wrong with its Emacs.                                       *)
Setting == [mode: {"client-only", "full", "never"},
            forced: SUBSET {"queued", "blocking"},
            failures: SUBSET {"down", "error", "timeout"}]

ASSUME DbSyncAssumption == MaxGen \in Nat /\ Settings \subseteq Setting

VARIABLES
  setting,      \* the server this behaviour is one of; it never changes
  vault,        \* number of note writes that have landed on disk
  unscheduled,  \* writes landed whose handler has not yet called schedule()
  generation,   \* DbSyncer.generation
  completed,    \* DbSyncer.completed
  holder,       \* task holding DbSyncer.run_lock, 0 when free
  tickets,      \* number of tasks that have queued on run_lock
  kind,         \* how the task of each generation was requested
  pc,           \* where the task of each generation is
  ticket,       \* place of each task in the FIFO queue of run_lock
  asked,        \* history: the vault version when the task was requested
  runFrom,      \* vault version at the start of the latest run
  attempted,    \* history: runFrom of the latest run that finished
  client,       \* task whose org-roam-db-sync the daemon evaluates, 0 if none
  clientFrom,   \* vault version that evaluation is bound to see
  db,           \* vault version org-roam.db reflects
  lastSync,     \* SyncState.last_sync: the last successful run, by its runFrom
  lastOutcome   \* SyncState.last_outcome

reqVars   == <<setting, vault, unscheduled, generation, kind, asked>>
lockVars  == <<holder, tickets, ticket>>
runVars   == <<runFrom, attempted, completed, lastSync, lastOutcome>>
emacsVars == <<client, clientFrom, db>>
vars      == <<reqVars, lockVars, runVars, emacsVars, pc>>

Mode          == setting.mode
ForcedKinds   == setting.forced
EmacsFailures == setting.failures

Gens    == 1..MaxGen
Running == {"probing", "client", "answered", "batch"}
Ended   == {"bailed", "coalesced", "ran", "cancelled"}
PC      == {"none", "sleeping", "waiting"} \cup Running \cup Ended
Kinds   == {"none", "debounce", "queued", "blocking"}
Outcomes == {"none", "client", "batch", "skipped"}
Synced  == {"client", "batch"}     \* SyncOutcome::synced

Largest(a, b) == IF a >= b THEN a ELSE b

TypeOK ==
  /\ setting \in Settings
  /\ vault \in Nat /\ unscheduled \in Nat
  /\ generation \in 0..MaxGen /\ generation + unscheduled <= MaxGen
  /\ completed \in 0..MaxGen
  /\ holder \in 0..MaxGen
  /\ tickets \in Nat
  /\ kind \in [Gens -> Kinds]
  /\ pc \in [Gens -> PC]
  /\ ticket \in [Gens -> Nat]
  /\ asked \in [Gens -> Nat]
  /\ runFrom \in Nat /\ attempted \in Nat
  /\ client \in 0..MaxGen /\ clientFrom \in Nat
  /\ db \in Nat
  /\ lastSync \in Nat /\ lastOutcome \in Outcomes

Init ==
  /\ setting \in Settings
  /\ vault = 0 /\ unscheduled = 0 /\ generation = 0 /\ completed = 0
  /\ holder = 0 /\ tickets = 0
  /\ kind = [g \in Gens |-> "none"]
  /\ pc = [g \in Gens |-> "none"]
  /\ ticket = [g \in Gens |-> 0]
  /\ asked = [g \in Gens |-> 0]
  /\ runFrom = 0 /\ attempted = 0
  /\ client = 0 /\ clientFrom = 0 /\ db = 0
  /\ lastSync = 0 /\ lastOutcome = "none"

Goto(g, label) == pc' = [pc EXCEPT ![g] = label]

-----------------------------------------------------------------------------
(* Requests                                                                *)

(* A write tool's handler has changed a note on disk.                      *)
LandWrite ==
  /\ generation + unscheduled < MaxGen
  /\ vault' = vault + 1
  /\ unscheduled' = unscheduled + 1
  /\ UNCHANGED <<setting, generation, kind, asked, lockVars, runVars, emacsVars, pc>>

(* generation.fetch_add(1) + 1 names the task this call creates. *)
NewTask(k, label) ==
  /\ generation' = generation + 1
  /\ kind' = [kind EXCEPT ![generation + 1] = k]
  /\ asked' = [asked EXCEPT ![generation + 1] = vault]
  /\ Goto(generation + 1, label)

(* Faulty variant: the handler schedules once too often. *)
ScheduleAgain ==
  /\ unscheduled > 0
  /\ NewTask("debounce", "sleeping")
  /\ UNCHANGED <<setting, vault, unscheduled, lockVars, runVars, emacsVars>>

(* schedule(), the last call of every write handler. *)
Schedule ==
  /\ unscheduled > 0
  /\ unscheduled' = unscheduled - 1
  /\ NewTask("debounce", "sleeping")
  /\ UNCHANGED <<setting, vault, lockVars, runVars, emacsVars>>

(* A task joins the queue of the (fair) tokio mutex. *)
Enqueue(g) ==
  /\ tickets' = tickets + 1
  /\ ticket' = [ticket EXCEPT ![g] = tickets]
  /\ UNCHANGED holder

(* sync_database {force: true}: "queued" spawns sync_now, "blocking" awaits *)
(* it under timeout_ms.  With sync-mode never the tool returns before this. *)
ForceSync(k) ==
  /\ Mode # "never"
  /\ generation + unscheduled < MaxGen
  /\ NewTask(k, "waiting")
  /\ Enqueue(generation + 1)
  /\ UNCHANGED <<setting, vault, unscheduled, runVars, emacsVars>>

-----------------------------------------------------------------------------
(* The life of a task                                                      *)

(* Faulty variant: try_lock, dropping the request while a run is going on. *)
WakeUnlessBusy(g) ==
  /\ pc[g] = "sleeping"
  /\ IF generation # g \/ holder # 0
     THEN Goto(g, "bailed") /\ UNCHANGED lockVars
     ELSE Goto(g, "waiting") /\ Enqueue(g)
  /\ UNCHANGED <<reqVars, runVars, emacsVars>>

(* The debounce sleep is over: give up if a later request superseded us.   *)
Wake(g) ==
  /\ pc[g] = "sleeping"
  /\ IF generation # g
     THEN Goto(g, "bailed") /\ UNCHANGED lockVars
     ELSE Goto(g, "waiting") /\ Enqueue(g)
  /\ UNCHANGED <<reqVars, runVars, emacsVars>>

(* Faulty variant: no run lock. *)
FirstUnlocked(g) == pc[g] = "waiting"

(* run_lock is free and g is first in its queue. *)
FirstInLine(g) ==
  /\ pc[g] = "waiting"
  /\ holder = 0
  /\ \A h \in Gens : pc[h] = "waiting" => ticket[g] <= ticket[h]

(* Faulty variant: the debounced path rechecks `completed' like sync_now. *)
SupersededByCompleted(g) == completed >= g

(* What the task sees once it holds the lock: nothing left for it to do. *)
Superseded(g) ==
  IF kind[g] = "debounce" THEN generation # g ELSE completed >= g

(* The lock is taken and, the recheck failing, released at once. *)
AcquireInVain(g) ==
  /\ FirstInLine(g)
  /\ Superseded(g)
  /\ Goto(g, IF kind[g] = "debounce" THEN "bailed" ELSE "coalesced")
  /\ UNCHANGED <<reqVars, lockVars, runVars, emacsVars>>

(* run_and_record() begins, under the lock. *)
AcquireAndRun(g) ==
  /\ FirstInLine(g)
  /\ ~ Superseded(g)
  /\ Goto(g, "probing")
  /\ holder' = g
  /\ runFrom' = vault
  /\ UNCHANGED <<reqVars, tickets, ticket, attempted, completed, lastSync,
                 lastOutcome, emacsVars>>

(* Faulty variant: a skipped run is stamped like a real one. *)
FinishStamping(g, outcome) ==
  /\ Goto(g, "ran")
  /\ holder' = 0
  /\ lastOutcome' = outcome
  /\ lastSync' = runFrom
  /\ completed' = generation
  /\ attempted' = runFrom
  /\ UNCHANGED <<runFrom, tickets, ticket>>

(* Faulty variant: the lock guard outlives the run. *)
FinishHoldingLock(g, outcome) ==
  /\ Goto(g, "ran")
  /\ lastOutcome' = outcome
  /\ lastSync' = IF outcome \in Synced THEN runFrom ELSE lastSync
  /\ completed' = generation
  /\ attempted' = runFrom
  /\ UNCHANGED <<runFrom, lockVars>>

(* The end of run_and_record(): the outcome is recorded, completed takes    *)
(* the value generation has now, and the lock guard is dropped.            *)
Finish(g, outcome) ==
  /\ Goto(g, "ran")
  /\ holder' = 0
  /\ lastOutcome' = outcome
  /\ lastSync' = IF outcome \in Synced THEN runFrom ELSE lastSync
  /\ completed' = generation
  /\ attempted' = runFrom
  /\ UNCHANGED <<runFrom, tickets, ticket>>

(* emacsclient did not help: try a headless Emacs, in full mode only. *)
Fallback(g) ==
  IF Mode = "full"
  THEN Goto(g, "batch") /\ UNCHANGED <<lockVars, runVars>>
  ELSE Finish(g, "skipped")

RunDisabled(g) ==
  /\ pc[g] = "probing" /\ Mode = "never"
  /\ Finish(g, "skipped")
  /\ UNCHANGED <<reqVars, emacsVars>>

(* emacsclient_alive(): a daemon still evaluating does not answer in time. *)
ProbeFails(g) ==
  /\ pc[g] = "probing" /\ Mode # "never"
  /\ "down" \in EmacsFailures \/ client # 0
  /\ Fallback(g)
  /\ UNCHANGED <<reqVars, emacsVars>>

(* The daemon answers the probe and is handed (org-roam-db-sync). *)
SendToDaemon(g) ==
  /\ pc[g] = "probing" /\ Mode # "never"
  /\ client = 0
  /\ client' = g
  /\ clientFrom' = vault
  /\ Goto(g, "client")
  /\ UNCHANGED <<reqVars, lockVars, runVars, db>>

(* The cfg.timeout of run_emacsclient_sync expires; only emacsclient dies. *)
ClientTimesOut(g) ==
  /\ pc[g] \in {"client", "answered"} /\ "timeout" \in EmacsFailures
  /\ Fallback(g)
  /\ UNCHANGED <<reqVars, emacsVars>>

ClientSucceeds(g) ==
  /\ pc[g] = "answered"
  /\ Finish(g, "client")
  /\ UNCHANGED <<reqVars, emacsVars>>

(* `emacs --batch' exits with status 0, having synchronised. *)
BatchSucceeds(g) ==
  /\ pc[g] = "batch"
  /\ db' \in Largest(db, runFrom)..vault
  /\ Finish(g, "batch")
  /\ UNCHANGED <<reqVars, client, clientFrom>>

(* A bad exit status, a missing emacs, or the timeout that kills it. *)
BatchFails(g) ==
  /\ pc[g] = "batch" /\ EmacsFailures # {}
  /\ Finish(g, "skipped")
  /\ UNCHANGED <<reqVars, emacsVars>>

(* Faulty variant: the lock is not released by the dropped future. *)
GiveUpHoldingLock(g) ==
  /\ kind[g] = "blocking"
  /\ pc[g] \in {"waiting"} \cup Running
  /\ Goto(g, "cancelled")
  /\ UNCHANGED <<reqVars, lockVars, runVars, emacsVars>>

(* timeout_ms expires: run_blocking_sync drops the sync_now future, which   *)
(* leaves the queue or releases the lock; kill_on_drop kills its child.     *)
GiveUp(g) ==
  /\ kind[g] = "blocking"
  /\ pc[g] \in {"waiting"} \cup Running
  /\ Goto(g, "cancelled")
  /\ holder' = IF holder = g THEN 0 ELSE holder
  /\ UNCHANGED <<reqVars, tickets, ticket, runVars, emacsVars>>

-----------------------------------------------------------------------------
(* The Emacs daemon (external)                                             *)

(* The evaluation ends with the database committed. *)
DaemonCommits ==
  /\ client # 0
  /\ db' \in Largest(db, clientFrom)..vault
  /\ IF pc[client] = "client" THEN Goto(client, "answered") ELSE UNCHANGED pc
  /\ client' = 0
  /\ UNCHANGED <<reqVars, lockVars, runVars, clientFrom>>

(* Faulty variant: `nil' on stdout is taken for a completed sync. *)
DaemonFailsUnnoticed ==
  /\ client # 0 /\ "error" \in EmacsFailures
  /\ IF pc[client] = "client"
     THEN Finish(client, "client")
     ELSE UNCHANGED <<pc, lockVars, runVars>>
  /\ client' = 0
  /\ UNCHANGED <<reqVars, clientFrom, db>>

(* The evaluation ends with an error, or nil because org-roam is absent. *)
DaemonFails ==
  /\ client # 0 /\ "error" \in EmacsFailures
  /\ IF pc[client] = "client"
     THEN Fallback(client)
     ELSE UNCHANGED <<pc, lockVars, runVars>>
  /\ client' = 0
  /\ UNCHANGED <<reqVars, clientFrom, db>>

-----------------------------------------------------------------------------
Step(g) ==
  \/ Wake(g)
  \/ AcquireInVain(g)
  \/ AcquireAndRun(g)
  \/ RunDisabled(g)
  \/ ProbeFails(g)
  \/ SendToDaemon(g)
  \/ ClientTimesOut(g)
  \/ ClientSucceeds(g)
  \/ BatchSucceeds(g)
  \/ BatchFails(g)

Daemon == DaemonCommits \/ DaemonFails

(* Every request made and answered: the server waits for the next one. *)
Idle ==
  /\ generation = MaxGen
  /\ \A g \in Gens : pc[g] \in Ended
  /\ client = 0
  /\ UNCHANGED vars

Next ==
  \/ LandWrite
  \/ Schedule
  \/ \E k \in ForcedKinds : ForceSync(k)
  \/ \E g \in Gens : Step(g)
  \/ \E g \in Gens : GiveUp(g)
  \/ Daemon
  \/ Idle

(* tokio keeps polling a ready task, a handler that has written goes on to *)
(* schedule() with no await in between, and Emacs finishes an evaluation.  *)
(* Nobody has to write, to force a sync or to give up waiting for one.     *)
Fairness ==
  /\ WF_vars(Schedule)
  /\ \A g \in Gens : WF_vars(Step(g))
  /\ WF_vars(Daemon)

Spec == Init /\ [][Next]_vars /\ Fairness
-----------------------------------------------------------------------------
(* Safety                                                                  *)

(* The run lock is held exactly while a task is inside run_and_record, so  *)
(* a task that ends or is dropped leaves it free for the next one.         *)
LockDiscipline == \A g \in Gens : pc[g] \in Running <=> holder = g

(* SyncState.last_sync never promises more than org-roam.db holds: every   *)
(* write that preceded the run it stands for is in the database, whatever  *)
(* orphaned evaluations and fallbacks happened around that run.            *)
LastSyncHonest == lastSync <= db

(* "The run_lock prevents two syncs from running concurrently": the daemon *)
(* and a headless Emacs never synchronise the database at the same time.   *)
OneDbWriter == client # 0 => \A g \in Gens : pc[g] # "batch"

(* They do not, that is, as long as no emacsclient is killed for its       *)
(* timeout or its caller's while the daemon goes on with what it asked.    *)
OneDbWriterIfNoneIsKilled ==
  "timeout" \notin EmacsFailures /\ "blocking" \notin ForcedKinds => OneDbWriter

(* No request is lost by debouncing: as long as a landed write has not     *)
(* been seen by a finished run, its handler has still to schedule, or the  *)
(* latest request is on its way to a run that sees it.                     *)
LatestCovers ==
  IF generation = 0
  THEN vault = 0
  ELSE \/ pc[generation] \in {"sleeping", "waiting"}
       \/ pc[generation] \in Running /\ runFrom = vault
       \/ pc[generation] = "ran" /\ attempted = vault

NoLostWrite == ForcedKinds = {} /\ unscheduled = 0 => LatestCovers

(* sync_now's doc: it coalesces only with "a sync that already accounts    *)
(* for this request", one that saw every write made before the request.    *)
CoalescedMeansCovered ==
  \A g \in Gens : pc[g] = "coalesced" => attempted >= asked[g]

(* A run that reports a real sync leaves in the database every write made  *)
(* before the task that ran it was requested.                              *)
RealSyncCoversItsRequest ==
  [][\A g \in Gens :
       pc[g] \in Running /\ pc'[g] = "ran" /\ lastOutcome' \in Synced
         => db' >= asked[g]]_vars

-----------------------------------------------------------------------------
(* Liveness                                                                *)

(* Every request for a sync is answered: nobody waits for ever on the run  *)
(* lock, whatever Emacs does to the runs ahead in the queue.               *)
EveryRequestEnds ==
  \A g \in Gens : (pc[g] # "none") ~> (pc[g] \in Ended)

(* What the syncer promises its callers, as one module: runs one at a time, *)
(* none recorded as having seen a write it did not start after.             *)
Promise == INSTANCE SyncPromise WITH
  landed <- vault, busy <- holder # 0, from <- runFrom, seen <- attempted

PromiseKept == Promise!Spec

(* The rest of the promise, kept while no sync is forced: runs begin as    *)
(* long as a landed write is unseen, and those that begin end.             *)
ProgressKept == ForcedKinds = {} => Promise!Progress
=============================================================================
