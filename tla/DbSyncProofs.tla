--------------------------- MODULE DbSyncProofs ---------------------------
(***************************************************************************)
(* Proofs about DbSync, for every bound MaxGen on the number of requests   *)
(* and every set of servers: modes, uses and Emacs failures.               *)
(***************************************************************************)
EXTENDS DbSync, TLAPS

(* Only requested tasks have a life; later generations are still unborn.   *)
Unborn == \A g \in Gens : g > generation => pc[g] = "none"

(* Type correctness, the unborn tasks and the lock support each other.     *)
LockInv == TypeOK /\ Unborn /\ LockDiscipline

LEMMA InitLock == Init => LockInv
BY DbSyncAssumption
   DEF Init, LockInv, TypeOK, Unborn, LockDiscipline, Gens, Running, Ended,
       PC, Kinds, Outcomes

(* Finish is taken by the holder of the lock, from inside its run. *)
LEMMA FinishLock ==
  ASSUME LockInv, NEW g \in Gens, NEW out \in Outcomes,
         pc[g] \in Running, Finish(g, out), UNCHANGED reqVars,
         client' \in 0..MaxGen, clientFrom' \in Nat, db' \in Nat
  PROVE  LockInv'
BY DbSyncAssumption
   DEF Finish, Goto, LockInv, TypeOK, Unborn, LockDiscipline, reqVars, Gens,
       Running, Ended, PC, Kinds, Outcomes
(* What every step of a run does, whichever way emacsclient fails it. *)
LEMMA FallbackLock ==
  ASSUME LockInv, NEW g \in Gens, pc[g] \in Running, Fallback(g),
         UNCHANGED reqVars,
         client' \in 0..MaxGen, clientFrom' \in Nat, db' \in Nat
  PROVE  LockInv'
<1>1. CASE Mode = "full"
  BY <1>1, DbSyncAssumption
     DEF Fallback, Goto, LockInv, TypeOK, Unborn, LockDiscipline, reqVars,
         lockVars, runVars, Gens, Running, Ended, PC, Kinds, Outcomes
<1>2. CASE Mode # "full"
  BY <1>2, FinishLock DEF Fallback, Outcomes
<1>3. QED BY <1>1, <1>2

LEMMA StepLock ==
  ASSUME LockInv, NEW g \in Gens, Step(g)
  PROVE  LockInv'
<1> USE DbSyncAssumption
<1> DEFINE Emacs == /\ client' \in 0..MaxGen
                    /\ clientFrom' \in Nat /\ db' \in Nat
<1>e. UNCHANGED emacsVars => Emacs
  BY DEF emacsVars, LockInv, TypeOK
<1>1. CASE Wake(g)
  <2>1. /\ pc' \in [Gens -> PC]
        /\ pc'[g] \in {"bailed", "waiting"} /\ pc[g] = "sleeping"
        /\ \A h \in Gens : h # g => pc'[h] = pc[h]
    BY <1>1 DEF Wake, Goto, LockInv, TypeOK, PC, Ended
  <2>2. tickets' \in Nat /\ ticket' \in [Gens -> Nat] /\ holder' = holder
    BY <1>1 DEF Wake, Enqueue, LockInv, TypeOK, lockVars
  <2>3. TypeOK'
    BY <1>1, <2>1, <2>2
       DEF Wake, LockInv, TypeOK, reqVars, runVars, emacsVars
  <2>4. Unborn' /\ LockDiscipline'
    BY <1>1, <2>1, <2>2
       DEF Wake, LockInv, Unborn, LockDiscipline, reqVars, Running
  <2>5. QED BY <2>3, <2>4 DEF LockInv
<1>2. CASE AcquireInVain(g)
  BY <1>2 DEF AcquireInVain, FirstInLine, Goto, LockInv, TypeOK, Unborn,
              LockDiscipline, reqVars, lockVars, runVars, emacsVars, Gens,
              Running, Ended, PC, Kinds, Outcomes
<1>3. CASE AcquireAndRun(g)
  BY <1>3 DEF AcquireAndRun, FirstInLine, Goto, LockInv, TypeOK, Unborn,
              LockDiscipline, reqVars, emacsVars, Gens, Running, Ended,
              PC, Kinds, Outcomes
<1>4. CASE RunDisabled(g)
  BY <1>4, <1>e, FinishLock DEF RunDisabled, Running, Outcomes
<1>5. CASE ProbeFails(g)
  BY <1>5, <1>e, FallbackLock DEF ProbeFails, Running
<1>6. CASE SendToDaemon(g)
  BY <1>6 DEF SendToDaemon, Goto, LockInv, TypeOK, Unborn, LockDiscipline,
              reqVars, lockVars, runVars, Gens, Running, Ended, PC, Kinds,
              Outcomes
<1>7. CASE ClientTimesOut(g)
  BY <1>7, <1>e, FallbackLock DEF ClientTimesOut, Running
<1>8. CASE ClientSucceeds(g)
  BY <1>8, <1>e, FinishLock DEF ClientSucceeds, Running, Outcomes
<1>9. CASE BatchSucceeds(g)
  <2>1. Emacs
    BY <1>9 DEF BatchSucceeds, LockInv, TypeOK, Largest
  <2>2. QED BY <1>9, <2>1, FinishLock DEF BatchSucceeds, Running, Outcomes
<1>10. CASE BatchFails(g)
  BY <1>10, <1>e, FinishLock DEF BatchFails, Running, Outcomes
<1>11. QED
  BY <1>1, <1>2, <1>3, <1>4, <1>5, <1>6, <1>7, <1>8, <1>9, <1>10 DEF Step

LEMMA DaemonLock ==
  ASSUME LockInv, Daemon
  PROVE  LockInv'
<1> USE DbSyncAssumption
<1>1. CASE DaemonCommits
  <2>1. client \in Gens /\ db' \in Nat
    BY <1>1 DEF DaemonCommits, Largest, LockInv, TypeOK, Gens
  <2>2. /\ pc' \in [Gens -> PC]
        /\ pc'[client] = pc[client] \/ (pc[client] = "client"
                                        /\ pc'[client] = "answered")
        /\ \A h \in Gens : h # client => pc'[h] = pc[h]
    BY <1>1, <2>1 DEF DaemonCommits, Goto, LockInv, TypeOK, PC, Running
  <2>3. TypeOK'
    BY <1>1, <2>1, <2>2
       DEF DaemonCommits, LockInv, TypeOK, reqVars, lockVars, runVars, Gens
  <2>4. Unborn' /\ LockDiscipline'
    BY <1>1, <2>1, <2>2
       DEF DaemonCommits, LockInv, Unborn, LockDiscipline, reqVars, lockVars,
           Running
  <2>5. QED BY <2>3, <2>4 DEF LockInv
<1>2. CASE DaemonFails
  <2>1. client \in Gens /\ client' \in 0..MaxGen /\ clientFrom' \in Nat
        /\ db' \in Nat
    BY <1>2 DEF DaemonFails, LockInv, TypeOK, Gens
  <2>2. CASE pc[client] = "client"
    BY <1>2, <2>1, <2>2, FallbackLock DEF DaemonFails, Running
  <2>3. CASE pc[client] # "client"
    BY <1>2, <2>1, <2>3
       DEF DaemonFails, LockInv, TypeOK, Unborn, LockDiscipline, reqVars,
           lockVars, runVars, Gens
  <2>4. QED BY <2>2, <2>3
<1>3. QED BY <1>1, <1>2 DEF Daemon

LEMMA LandLock == ASSUME LockInv, LandWrite PROVE LockInv'
BY DbSyncAssumption
   DEF LandWrite, LockInv, TypeOK, Unborn, LockDiscipline, lockVars, runVars,
       emacsVars, Gens

(* The task a request creates was unborn, hence not in a run. *)
LEMMA NewTaskLock ==
  ASSUME LockInv, NEW k \in Kinds, NEW label \in {"sleeping", "waiting"},
         NewTask(k, label), generation < MaxGen,
         vault' \in Nat, unscheduled' \in Nat, tickets' \in Nat,
         ticket' \in [Gens -> Nat], generation' + unscheduled' <= MaxGen,
         holder' = holder, setting' = setting, UNCHANGED <<runVars, emacsVars>>
  PROVE  LockInv'
<1> USE DbSyncAssumption
<1>1. generation + 1 \in Gens /\ generation \in Nat
  BY DEF LockInv, TypeOK, Gens
<1>2. pc[generation + 1] = "none"
  BY <1>1 DEF LockInv, Unborn
<1>3. pc' \in [Gens -> PC] /\ pc'[generation + 1] = label
      /\ \A g \in Gens : g # generation + 1 => pc'[g] = pc[g]
  BY <1>1 DEF NewTask, Goto, LockInv, TypeOK, PC
<1>4. TypeOK'
  <2>1. kind' \in [Gens -> Kinds] /\ asked' \in [Gens -> Nat]
    BY <1>1 DEF NewTask, LockInv, TypeOK
  <2>2. generation' \in 0..MaxGen /\ holder' \in 0..MaxGen
    BY <1>1 DEF NewTask, LockInv, TypeOK
  <2>3. QED
    BY <1>3, <2>1, <2>2 DEF LockInv, TypeOK, runVars, emacsVars
<1>5. Unborn'
  BY <1>1, <1>3 DEF NewTask, LockInv, Unborn, Gens
<1>6. LockDiscipline'
  BY <1>1, <1>2, <1>3 DEF LockInv, LockDiscipline, Running
<1>7. QED BY <1>4, <1>5, <1>6 DEF LockInv

LEMMA ScheduleLock == ASSUME LockInv, Schedule PROVE LockInv'
<1>1. generation < MaxGen /\ vault' \in Nat /\ unscheduled' \in Nat
      /\ generation' + unscheduled' <= MaxGen
  BY DbSyncAssumption DEF Schedule, NewTask, LockInv, TypeOK
<1>2. QED
  BY <1>1, NewTaskLock
     DEF Schedule, LockInv, TypeOK, lockVars, Kinds

LEMMA ForceLock ==
  ASSUME LockInv, NEW k \in ForcedKinds, ForceSync(k) PROVE LockInv'
<1>1. /\ generation < MaxGen /\ vault' \in Nat /\ unscheduled' \in Nat
      /\ generation' + unscheduled' <= MaxGen
      /\ tickets' \in Nat /\ ticket' \in [Gens -> Nat] /\ holder' = holder
  <2>1. /\ generation < MaxGen /\ generation' = generation + 1
        /\ UNCHANGED <<vault, unscheduled>>
        /\ generation' + unscheduled' <= MaxGen
    BY DbSyncAssumption DEF ForceSync, NewTask, LockInv, TypeOK
  <2>2. tickets' \in Nat /\ ticket' \in [Gens -> Nat] /\ holder' = holder
    <3>1. /\ tickets' = tickets + 1 /\ holder' = holder
          /\ ticket' = [ticket EXCEPT ![generation + 1] = tickets]
      BY DEF ForceSync, Enqueue
    <3>2. tickets \in Nat /\ generation \in Nat /\ ticket \in [Gens -> Nat]
      BY DEF LockInv, TypeOK
    <3>3. tickets' \in Nat BY <3>1, <3>2
    <3>4. ticket' \in [Gens -> Nat] BY <3>1, <3>2
    <3>5. QED BY <3>1, <3>3, <3>4
  <2>3. QED BY <2>1, <2>2 DEF LockInv, TypeOK
<1>2. k \in Kinds
  BY DbSyncAssumption DEF LockInv, TypeOK, Setting, ForcedKinds, Kinds
<1>3. QED
  BY <1>1, <1>2, NewTaskLock DEF ForceSync

LEMMA GiveUpLock ==
  ASSUME LockInv, NEW g \in Gens, GiveUp(g)
  PROVE  LockInv'
BY DbSyncAssumption
   DEF GiveUp, Goto, LockInv, TypeOK, Unborn, LockDiscipline, reqVars,
       runVars, emacsVars, Gens, Running, Ended, PC, Kinds

LEMMA NextLock == LockInv /\ [Next]_vars => LockInv'
<1> SUFFICES ASSUME LockInv, [Next]_vars PROVE LockInv'
  OBVIOUS
<1>1. CASE LandWrite
  BY <1>1, LandLock
<1>2. CASE Schedule
  BY <1>2, ScheduleLock
<1>3. ASSUME NEW k \in ForcedKinds, ForceSync(k) PROVE LockInv'
  BY <1>3, ForceLock
<1>4. ASSUME NEW g \in Gens, Step(g) PROVE LockInv'
  BY <1>4, StepLock
<1>5. ASSUME NEW g \in Gens, GiveUp(g) PROVE LockInv'
  BY <1>5, GiveUpLock
<1>6. CASE Daemon
  BY <1>6, DaemonLock
<1>7. CASE UNCHANGED vars
  BY <1>7 DEF LockInv, TypeOK, Unborn, LockDiscipline, vars, reqVars,
              lockVars, runVars, emacsVars
<1>8. QED
  BY <1>1, <1>2, <1>3, <1>4, <1>5, <1>6, <1>7 DEF Next, Idle

LEMMA LockInvariant == Spec => []LockInv
<1>1. Init => LockInv BY InitLock
<1>2. LockInv /\ [Next]_vars => LockInv' BY NextLock
<1>3. QED BY <1>1, <1>2, PTL DEF Spec

(* Every variable of the synchroniser keeps its type. *)
THEOREM TypeCorrect == Spec => []TypeOK
BY LockInvariant, PTL DEF LockInv

(* A task is inside run_and_record exactly when it holds run_lock: no end  *)
(* of a run, and no caller giving up on one, leaves the lock taken.        *)
THEOREM LockSafe == Spec => []LockDiscipline
BY LockInvariant, PTL DEF LockInv
-----------------------------------------------------------------------------
(* How the versions recorded along a run relate to the vault's.  The daemon's *)
(* answer covers the run only because the request was sent after its start. *)
RunInv ==
  /\ runFrom <= vault /\ db <= vault /\ clientFrom <= vault
  /\ \A g \in Gens : /\ asked[g] <= vault
                     /\ pc[g] \in Running => asked[g] <= runFrom
                     /\ pc[g] = "client" /\ client = g => runFrom <= clientFrom
                     /\ pc[g] = "answered" => runFrom <= db
  /\ lastSync <= db

LEMMA InitRun == Init => RunInv
BY DEF Init, RunInv, Running

(* A run ends with a real sync only once the database has seen its start. *)
LEMMA FinishRun ==
  ASSUME LockInv, RunInv, NEW g \in Gens, NEW out \in Outcomes,
         pc[g] \in Running, Finish(g, out), UNCHANGED reqVars,
         out \in Synced => runFrom <= db',
         db' \in Nat, db <= db', db' <= vault,
         client' = client \/ client' = 0, clientFrom' = clientFrom
  PROVE  RunInv'
<1>1. /\ \A h \in Gens : h # g => pc'[h] = pc[h]
      /\ pc'[g] = "ran"
  BY DEF Finish, Goto, LockInv, TypeOK
<1>2. \A h \in Gens : pc'[h] \notin Running
  BY <1>1 DEF LockInv, LockDiscipline, Running
<1>3. lastSync' <= db'
  BY DEF Finish, LockInv, TypeOK, RunInv
<1>4. QED
  BY <1>1, <1>2, <1>3 DEF Finish, RunInv, reqVars, Running

LEMMA FallbackRun ==
  ASSUME LockInv, RunInv, NEW g \in Gens, pc[g] \in Running, Fallback(g),
         UNCHANGED reqVars, db' = db,
         client' = client \/ client' = 0, clientFrom' = clientFrom
  PROVE  RunInv'
<1>1. CASE Mode = "full"
  <2>1. /\ \A h \in Gens : h # g => pc'[h] = pc[h]
        /\ pc'[g] = "batch"
    BY <1>1 DEF Fallback, Goto, LockInv, TypeOK
  <2>2. UNCHANGED <<lockVars, runVars>>
    BY <1>1 DEF Fallback
  <2>3. \A h \in Gens : client' = h => client = h
    BY DEF Gens, DbSyncAssumption
  <2>4. QED
    BY <2>1, <2>2, <2>3 DEF RunInv, reqVars, runVars, Running
<1>2. CASE Mode # "full"
  BY <1>2, FinishRun DEF Fallback, Outcomes, Synced, RunInv, LockInv, TypeOK
<1>3. QED BY <1>1, <1>2

LEMMA StepRun ==
  ASSUME LockInv, RunInv, NEW g \in Gens, Step(g)
  PROVE  RunInv'
<1> USE DbSyncAssumption
<1>e. UNCHANGED emacsVars =>
        /\ db' = db /\ client' = client /\ clientFrom' = clientFrom
        /\ db' \in Nat /\ db <= db' /\ db' <= vault
  BY DEF emacsVars, LockInv, TypeOK, RunInv
<1>1. CASE Wake(g) \/ AcquireInVain(g)
  <2>1. UNCHANGED <<reqVars, runVars, emacsVars>>
    BY <1>1 DEF Wake, AcquireInVain
  <2>2. \A h \in Gens : pc'[h] \in Running => pc'[h] = pc[h]
    BY <1>1 DEF Wake, AcquireInVain, Goto, LockInv, TypeOK, Running
  <2>3. QED
    BY <2>1, <2>2 DEF RunInv, reqVars, runVars, emacsVars, Running
<1>2. CASE AcquireAndRun(g)
  <2>1. /\ runFrom' = vault /\ UNCHANGED <<reqVars, lastSync, emacsVars>>
        /\ pc'[g] = "probing" /\ \A h \in Gens : h # g => pc'[h] = pc[h]
    BY <1>2 DEF AcquireAndRun, Goto, LockInv, TypeOK
  <2>2. \A h \in Gens : pc[h] \notin Running
    BY <1>2 DEF AcquireAndRun, FirstInLine, LockInv, LockDiscipline, Gens
  <2>3. QED
    BY <2>1, <2>2 DEF RunInv, LockInv, TypeOK, reqVars, emacsVars, Running
<1>3. CASE RunDisabled(g)
  BY <1>3, <1>e, FinishRun DEF RunDisabled, Running, Outcomes, Synced
<1>4. CASE ProbeFails(g)
  BY <1>4, <1>e, FallbackRun DEF ProbeFails, Running
<1>5. CASE SendToDaemon(g)
  <2>1. /\ clientFrom' = vault /\ UNCHANGED <<reqVars, runVars, db>>
        /\ pc[g] = "probing" /\ pc'[g] = "client"
        /\ \A h \in Gens : h # g => pc'[h] = pc[h]
    BY <1>5 DEF SendToDaemon, Goto, LockInv, TypeOK
  <2>2. \A h \in Gens : h # g => pc[h] \notin Running
    BY <2>1 DEF LockInv, LockDiscipline, Running
  <2>3. QED
    BY <2>1, <2>2 DEF RunInv, LockInv, TypeOK, reqVars, runVars, Running
<1>6. CASE ClientTimesOut(g)
  BY <1>6, <1>e, FallbackRun DEF ClientTimesOut, Running
<1>7. CASE ClientSucceeds(g)
  BY <1>7, <1>e, FinishRun DEF ClientSucceeds, Running, Outcomes, RunInv
<1>8. CASE BatchSucceeds(g)
  <2>1. db' \in Nat /\ db <= db' /\ db' <= vault /\ runFrom <= db'
    BY <1>8 DEF BatchSucceeds, Largest, LockInv, TypeOK
  <2>2. QED
    BY <1>8, <2>1, FinishRun DEF BatchSucceeds, Running, Outcomes
<1>9. CASE BatchFails(g)
  BY <1>9, <1>e, FinishRun DEF BatchFails, Running, Outcomes, Synced
<1>10. QED
  BY <1>1, <1>2, <1>3, <1>4, <1>5, <1>6, <1>7, <1>8, <1>9 DEF Step
LEMMA DaemonRun ==
  ASSUME LockInv, RunInv, Daemon
  PROVE  RunInv'
<1> USE DbSyncAssumption
<1>1. client \in Gens
  BY DEF Daemon, DaemonCommits, DaemonFails, LockInv, TypeOK, Gens
<1>2. CASE DaemonCommits
  <2>1. /\ db' \in Nat /\ db <= db' /\ clientFrom <= db' /\ db' <= vault
        /\ client' = 0 /\ UNCHANGED <<reqVars, runVars, clientFrom>>
    BY <1>2 DEF DaemonCommits, Largest, LockInv, TypeOK
  <2>2. \A h \in Gens :
          \/ pc'[h] = pc[h]
          \/ h = client /\ pc[h] = "client" /\ pc'[h] = "answered"
    BY <1>1, <1>2 DEF DaemonCommits, Goto, LockInv, TypeOK
  <2>3. QED
    BY <1>1, <2>1, <2>2
       DEF RunInv, LockInv, TypeOK, reqVars, runVars, Running, Gens
<1>3. CASE DaemonFails
  <2>1. /\ UNCHANGED reqVars /\ db' = db /\ client' = 0
        /\ clientFrom' = clientFrom
    BY <1>3 DEF DaemonFails
  <2>2. CASE pc[client] = "client"
    BY <1>1, <1>3, <2>1, <2>2, FallbackRun DEF DaemonFails, Running
  <2>3. CASE pc[client] # "client"
    BY <1>3, <2>1, <2>3 DEF DaemonFails, RunInv, reqVars, runVars, Gens
  <2>4. QED BY <2>2, <2>3
<1>4. QED BY <1>2, <1>3 DEF Daemon

(* A new task records the vault of its request; no run depends on it yet. *)
LEMMA NewTaskRun ==
  ASSUME LockInv, RunInv, NEW k, NEW label \in {"sleeping", "waiting"},
         NewTask(k, label), generation < MaxGen, vault' = vault,
         UNCHANGED <<runVars, emacsVars>>
  PROVE  RunInv'
<1>1. generation + 1 \in Gens
  BY DbSyncAssumption DEF LockInv, TypeOK, Gens
<1>2. /\ pc'[generation + 1] = label /\ asked'[generation + 1] = vault
      /\ \A h \in Gens : h # generation + 1 =>
                           pc'[h] = pc[h] /\ asked'[h] = asked[h]
  BY <1>1 DEF NewTask, Goto, LockInv, TypeOK
<1>3. vault \in Nat
  BY DEF LockInv, TypeOK
<1>4. QED
  BY <1>1, <1>2, <1>3 DEF RunInv, runVars, emacsVars, Running

LEMMA RequestRun ==
  ASSUME LockInv, RunInv
  PROVE  /\ LandWrite => RunInv'
         /\ Schedule => RunInv'
         /\ \A k \in ForcedKinds : ForceSync(k) => RunInv'
<1> USE DbSyncAssumption
<1>1. ASSUME LandWrite PROVE RunInv'
  <2>1. /\ vault \in Nat /\ vault' = vault + 1
        /\ UNCHANGED <<asked, pc, runVars, emacsVars>>
    BY <1>1 DEF LandWrite, LockInv, TypeOK
  <2>2. runFrom \in Nat /\ db \in Nat /\ clientFrom \in Nat
        /\ asked \in [Gens -> Nat]
    BY DEF LockInv, TypeOK
  <2>3. QED
    BY <2>1, <2>2 DEF RunInv, runVars, emacsVars
<1>2. ASSUME Schedule PROVE RunInv'
  <2>1. generation < MaxGen
    BY <1>2 DEF Schedule, LockInv, TypeOK
  <2>2. QED BY <1>2, <2>1, NewTaskRun DEF Schedule
<1>3. ASSUME NEW k \in ForcedKinds, ForceSync(k) PROVE RunInv'
  <2>1. generation < MaxGen
    BY <1>3 DEF ForceSync, LockInv, TypeOK
  <2>2. QED BY <1>3, <2>1, NewTaskRun DEF ForceSync
<1>4. QED BY <1>1, <1>2, <1>3

LEMMA GiveUpRun ==
  ASSUME LockInv, RunInv, NEW g \in Gens, GiveUp(g)
  PROVE  RunInv'
<1>1. /\ UNCHANGED <<reqVars, runVars, emacsVars>>
      /\ \A h \in Gens : pc'[h] = pc[h] \/ pc'[h] = "cancelled"
  BY DEF GiveUp, Goto, LockInv, TypeOK
<1>2. QED
  BY <1>1 DEF RunInv, reqVars, runVars, emacsVars, Running

LEMMA NextRun == LockInv /\ RunInv /\ [Next]_vars => RunInv'
<1> SUFFICES ASSUME LockInv, RunInv, [Next]_vars PROVE RunInv'
  OBVIOUS
<1>1. CASE LandWrite \/ Schedule
  BY <1>1, RequestRun
<1>2. ASSUME NEW k \in ForcedKinds, ForceSync(k) PROVE RunInv'
  BY <1>2, RequestRun
<1>3. ASSUME NEW g \in Gens, Step(g) PROVE RunInv'
  BY <1>3, StepRun
<1>4. ASSUME NEW g \in Gens, GiveUp(g) PROVE RunInv'
  BY <1>4, GiveUpRun
<1>5. CASE Daemon
  BY <1>5, DaemonRun
<1>6. CASE UNCHANGED vars
  BY <1>6 DEF RunInv, vars, reqVars, lockVars, runVars, emacsVars
<1>7. QED
  BY <1>1, <1>2, <1>3, <1>4, <1>5, <1>6 DEF Next, Idle

LEMMA RunInvariant == Spec => []RunInv
<1>1. Init => RunInv BY InitRun
<1>2. LockInv /\ RunInv /\ [Next]_vars => RunInv' BY NextRun
<1>3. QED BY <1>1, <1>2, LockInvariant, PTL DEF Spec

(* The last_sync a client reads never stands for a run the database does   *)
(* not reflect, for any mode, any Emacs failure and any forced sync.       *)
THEOREM LastSyncSafe == Spec => []LastSyncHonest
<1>1. RunInv => LastSyncHonest BY DEF RunInv, LastSyncHonest
<1>2. QED BY <1>1, RunInvariant, PTL

(* Only Finish ends a run as "ran", and only for the task that runs. *)
LEMMA RanMeansFinished ==
  ASSUME LockInv, [Next]_vars, NEW g \in Gens,
         pc[g] \in Running, pc'[g] = "ran"
  PROVE  \E out \in Outcomes : Finish(g, out)
<1> USE DEF Running, Outcomes
<1>t. pc \in [Gens -> PC]
  BY DEF LockInv, TypeOK
<1>1. CASE LandWrite \/ Schedule \/ UNCHANGED vars
  <2>1. CASE Schedule
    BY <1>t, <2>1 DEF Schedule, NewTask, Goto
  <2>2. CASE LandWrite \/ UNCHANGED vars
    BY <2>2 DEF LandWrite, vars
  <2>3. QED BY <1>1, <2>1, <2>2
<1>2. ASSUME NEW k \in ForcedKinds, ForceSync(k) PROVE FALSE
  BY <1>t, <1>2 DEF ForceSync, NewTask, Goto
<1>3. ASSUME NEW h \in Gens, Step(h) PROVE \E out \in Outcomes : Finish(g, out)
  <2>1. CASE Wake(h) \/ AcquireInVain(h) \/ AcquireAndRun(h) \/ SendToDaemon(h)
    BY <1>t, <2>1 DEF Wake, AcquireInVain, AcquireAndRun, SendToDaemon, Goto
  <2>2. ASSUME Fallback(h) PROVE \E out \in Outcomes : Finish(g, out)
    BY <1>t, <2>2 DEF Fallback, Finish, Goto
  <2>3. ASSUME NEW out \in Outcomes, Finish(h, out) PROVE Finish(g, out)
    BY <1>t, <2>3 DEF Finish, Goto
  <2>4. CASE ProbeFails(h) \/ ClientTimesOut(h)
    BY <2>2, <2>4 DEF ProbeFails, ClientTimesOut
  <2>5. CASE RunDisabled(h) \/ ClientSucceeds(h) \/ BatchSucceeds(h) \/ BatchFails(h)
    BY <2>3, <2>5 DEF RunDisabled, ClientSucceeds, BatchSucceeds, BatchFails
  <2>6. QED BY <1>3, <2>1, <2>4, <2>5 DEF Step
<1>4. ASSUME NEW h \in Gens, GiveUp(h) PROVE FALSE
  BY <1>t, <1>4 DEF GiveUp, Goto
<1>5. CASE Daemon
  <2>1. CASE DaemonCommits
    BY <1>t, <2>1 DEF DaemonCommits, Goto
  <2>2. CASE DaemonFails
    BY <1>t, <2>2 DEF DaemonFails, Fallback, Finish, Goto
  <2>3. QED BY <1>5, <2>1, <2>2 DEF Daemon
<1>6. QED
  BY <1>1, <1>2, <1>3, <1>4, <1>5 DEF Next, Idle

(* A run that ends with a real sync leaves in the database every write     *)
(* made before the request it served.                                      *)
THEOREM RealSyncSafe == Spec => RealSyncCoversItsRequest
<1> DEFINE Covers ==
      \A g \in Gens :
        pc[g] \in Running /\ pc'[g] = "ran" /\ lastOutcome' \in Synced
          => db' >= asked[g]
<1>1. ASSUME LockInv, RunInv, [Next]_vars PROVE Covers
  <2> SUFFICES ASSUME NEW g \in Gens, pc[g] \in Running,
                      pc'[g] = "ran", lastOutcome' \in Synced
               PROVE  db' >= asked[g]
    OBVIOUS
  <2>1. lastSync' = runFrom
    BY <1>1, RanMeansFinished DEF Finish
  <2>2. lastSync' <= db' /\ db' \in Nat
    BY <1>1, NextRun, NextLock DEF RunInv, LockInv, TypeOK
  <2>3. asked[g] <= runFrom /\ asked[g] \in Nat /\ runFrom \in Nat
    BY <1>1 DEF RunInv, LockInv, TypeOK
  <2>4. QED BY <2>1, <2>2, <2>3
<1>2. QED
  BY <1>1, LockInvariant, RunInvariant, PTL DEF Spec, RealSyncCoversItsRequest

-----------------------------------------------------------------------------
(* With writes alone (no forced sync), the latest request always covers    *)
(* every landed write: only it may run, and it cannot be given up.         *)
NoLoss == unscheduled = 0 => LatestCovers

CoverInv ==
  /\ \A g \in Gens : kind[g] \in {"none", "debounce"}
                     /\ (pc[g] # "none" => kind[g] = "debounce")
  /\ generation # 0 /\ pc[generation] = "ran" => holder = 0
  /\ NoLoss

LEMMA InitCover == Init => CoverInv
BY DEF Init, CoverInv, NoLoss, LatestCovers

LEMMA FinishCover ==
  ASSUME LockInv, CoverInv, NEW g \in Gens, NEW out \in Outcomes,
         pc[g] \in Running, Finish(g, out), UNCHANGED reqVars
  PROVE  CoverInv'
<1>1. /\ pc'[g] = "ran" /\ holder' = 0 /\ attempted' = runFrom
      /\ \A h \in Gens : h # g => pc'[h] = pc[h]
  BY DEF Finish, Goto, LockInv, TypeOK
<1>2. holder = g
  BY DEF LockInv, LockDiscipline
<1>3. generation = 0 \/ generation \in Gens
  BY DbSyncAssumption DEF LockInv, TypeOK, Gens
<1>4. g # 0 /\ g <= generation
  BY DEF LockInv, Unborn, TypeOK, Running, Gens
<1>5. NoLoss'
  <2>1. runFrom' = runFrom
    BY DEF Finish
  <2>2. \A h \in Gens : h # g => pc[h] \notin Running
    BY <1>2 DEF LockInv, LockDiscipline
  <2>3. QED
    BY <1>1, <1>2, <1>3, <1>4, <2>1, <2>2
       DEF CoverInv, NoLoss, LatestCovers, reqVars, Running
<1>6. QED
  BY <1>1, <1>5 DEF CoverInv, reqVars, Running

LEMMA FallbackCover ==
  ASSUME LockInv, CoverInv, NEW g \in Gens, pc[g] \in Running, Fallback(g),
         UNCHANGED reqVars
  PROVE  CoverInv'
<1>1. CASE Mode = "full"
  <2>1. /\ pc'[g] = "batch" /\ \A h \in Gens : h # g => pc'[h] = pc[h]
        /\ UNCHANGED <<lockVars, runVars>>
    BY <1>1 DEF Fallback, Goto, LockInv, TypeOK
  <2>2. generation = 0 \/ generation \in Gens
    BY DbSyncAssumption DEF LockInv, TypeOK, Gens
  <2>3. QED
    BY <2>1, <2>2 DEF CoverInv, NoLoss, LatestCovers, reqVars, lockVars,
                      runVars, Running
<1>2. CASE Mode # "full"
  BY <1>2, FinishCover DEF Fallback, Outcomes
<1>3. QED BY <1>1, <1>2

(* Only the latest request may run, and no run overlaps another: what the  *)
(* latest one has seen stays the vault until the next write is scheduled.  *)
LEMMA StepCover ==
  ASSUME LockInv, CoverInv, NEW g \in Gens, Step(g)
  PROVE  CoverInv'
<1> USE DEF Running
<1>g. generation = 0 \/ generation \in Gens
  BY DbSyncAssumption DEF LockInv, TypeOK, Gens
<1>1. CASE Wake(g)
  <2>1. /\ pc[g] = "sleeping"
        /\ pc'[g] = IF generation # g THEN "bailed" ELSE "waiting"
        /\ \A h \in Gens : h # g => pc'[h] = pc[h]
        /\ holder' = holder /\ UNCHANGED <<reqVars, runVars>>
    BY <1>1 DEF Wake, Enqueue, Goto, lockVars, LockInv, TypeOK
  <2>2. QED
    BY <1>g, <2>1 DEF CoverInv, NoLoss, LatestCovers, reqVars, runVars
<1>2. CASE AcquireInVain(g)
  <2>1. /\ pc[g] = "waiting" /\ generation # g
        /\ pc'[g] = "bailed" /\ \A h \in Gens : h # g => pc'[h] = pc[h]
        /\ UNCHANGED <<reqVars, lockVars, runVars>>
    BY <1>2 DEF AcquireInVain, FirstInLine, Superseded, Goto, CoverInv,
                LockInv, TypeOK
  <2>2. QED
    BY <1>g, <2>1 DEF CoverInv, NoLoss, LatestCovers, reqVars, lockVars,
                      runVars
<1>3. CASE AcquireAndRun(g)
  <2>1. /\ pc[g] = "waiting" /\ generation = g /\ runFrom' = vault
        /\ pc'[g] = "probing" /\ \A h \in Gens : h # g => pc'[h] = pc[h]
        /\ UNCHANGED reqVars
    BY <1>3 DEF AcquireAndRun, FirstInLine, Superseded, Goto, CoverInv,
                LockInv, TypeOK
  <2>2. QED
    BY <2>1 DEF CoverInv, NoLoss, LatestCovers, reqVars, Gens
<1>4. CASE SendToDaemon(g)
  <2>1. /\ pc[g] = "probing"
        /\ pc'[g] = "client" /\ \A h \in Gens : h # g => pc'[h] = pc[h]
        /\ UNCHANGED <<reqVars, lockVars, runVars>>
    BY <1>4 DEF SendToDaemon, Goto, LockInv, TypeOK
  <2>2. QED
    BY <1>g, <2>1 DEF CoverInv, NoLoss, LatestCovers, reqVars, lockVars,
                      runVars
<1>5. CASE ProbeFails(g) \/ ClientTimesOut(g)
  BY <1>5, FallbackCover DEF ProbeFails, ClientTimesOut
<1>6. CASE RunDisabled(g) \/ ClientSucceeds(g) \/ BatchSucceeds(g) \/ BatchFails(g)
  BY <1>6, FinishCover
     DEF RunDisabled, ClientSucceeds, BatchSucceeds, BatchFails, Outcomes
<1>7. QED
  BY <1>1, <1>2, <1>3, <1>4, <1>5, <1>6 DEF Step

LEMMA DaemonCover == ASSUME LockInv, CoverInv, Daemon PROVE CoverInv'
<1>1. client \in Gens
  BY DEF Daemon, DaemonCommits, DaemonFails, LockInv, TypeOK, Gens
<1>2. CASE DaemonCommits
  <2>1. /\ UNCHANGED <<reqVars, lockVars, runVars>>
        /\ \A h \in Gens :
             \/ pc'[h] = pc[h]
             \/ pc[h] = "client" /\ pc'[h] = "answered"
    BY <1>1, <1>2 DEF DaemonCommits, Goto, LockInv, TypeOK
  <2>2. generation = 0 \/ generation \in Gens
    BY DbSyncAssumption DEF LockInv, TypeOK, Gens
  <2>3. QED
    BY <2>1, <2>2 DEF CoverInv, NoLoss, LatestCovers, reqVars, lockVars,
                      runVars, Running
<1>3. CASE DaemonFails
  <2>1. CASE pc[client] = "client"
    BY <1>1, <1>3, <2>1, FallbackCover DEF DaemonFails, Running
  <2>2. CASE pc[client] # "client"
    BY <1>3, <2>2 DEF DaemonFails, CoverInv, NoLoss, LatestCovers,
                      reqVars, lockVars, runVars
  <2>3. QED BY <2>1, <2>2
<1>4. QED BY <1>2, <1>3 DEF Daemon

LEMMA LandCover == ASSUME LockInv, LandWrite PROVE NoLoss'
BY DEF LandWrite, LockInv, TypeOK, NoLoss

LEMMA ScheduleCover == ASSUME LockInv, CoverInv, Schedule PROVE CoverInv'
<1>1. generation + 1 \in Gens
  BY DbSyncAssumption DEF Schedule, LockInv, TypeOK, Gens
<1>2. /\ generation' = generation + 1 /\ generation' # 0
      /\ kind'[generation'] = "debounce" /\ pc'[generation'] = "sleeping"
      /\ \A g \in Gens : g # generation' => kind'[g] = kind[g] /\ pc'[g] = pc[g]
  BY <1>1 DEF Schedule, NewTask, Goto, LockInv, TypeOK, Gens
<1>3. NoLoss'
  BY <1>2 DEF NoLoss, LatestCovers
<1>4. QED BY <1>2, <1>3 DEF CoverInv

LEMMA NextCover ==
  ForcedKinds = {} /\ LockInv /\ CoverInv /\ [Next]_vars => CoverInv'
<1> SUFFICES ASSUME ForcedKinds = {}, LockInv, CoverInv, [Next]_vars
             PROVE  CoverInv'
  OBVIOUS
<1>1. CASE LandWrite
  BY <1>1, LandCover DEF LandWrite, CoverInv, lockVars
<1>2. CASE Schedule
  BY <1>2, ScheduleCover
<1>3. ASSUME NEW g \in Gens, Step(g) PROVE CoverInv'
  BY <1>3, StepCover
<1>4. ASSUME NEW g \in Gens, GiveUp(g) PROVE FALSE
  BY <1>4 DEF GiveUp, CoverInv
<1>5. CASE Daemon
  BY <1>5, DaemonCover
<1>6. CASE UNCHANGED vars
  BY <1>6 DEF CoverInv, NoLoss, LatestCovers, vars, reqVars, lockVars,
              runVars
<1>7. QED
  BY <1>1, <1>2, <1>3, <1>4, <1>5, <1>6 DEF Next, Idle

LEMMA SettingFixed == [Next]_vars => setting' = setting
<1> SUFFICES ASSUME [Next]_vars PROVE setting' = setting
  OBVIOUS
<1>1. ASSUME NEW g \in Gens, Step(g) PROVE setting' = setting
  BY <1>1 DEF Step, Wake, AcquireInVain, AcquireAndRun, RunDisabled,
              ProbeFails, SendToDaemon, ClientTimesOut, ClientSucceeds,
              BatchSucceeds, BatchFails, reqVars
<1>2. QED
  BY <1>1 DEF Next, LandWrite, Schedule, ForceSync, GiveUp, Daemon,
              DaemonCommits, DaemonFails, Idle, vars, reqVars

(* As long as nobody forces a sync, debouncing loses no write: each landed *)
(* write has been seen by a finished run, or one that will see it is due.  *)
THEOREM NoWriteLost == Spec => []NoLostWrite
<1> DEFINE Covered == ForcedKinds = {} => CoverInv
<1>1. Init => Covered BY InitCover
<1>2. LockInv /\ Covered /\ [Next]_vars => Covered'
  BY NextCover, SettingFixed DEF ForcedKinds
<1>3. Covered => NoLostWrite BY DEF CoverInv, NoLoss, NoLostWrite
<1> HIDE DEF Covered
<1>4. QED BY <1>1, <1>2, <1>3, LockInvariant, PTL DEF Spec

-----------------------------------------------------------------------------
(* While no emacsclient is killed, the daemon evaluates for the task that  *)
(* waits for it, and that task has the run lock: nobody is in a batch run. *)
Unkilled == "timeout" \notin EmacsFailures /\ "blocking" \notin ForcedKinds

Attended ==
  /\ \A g \in Gens : kind[g] # "blocking"
  /\ client # 0 => pc[client] = "client"

LEMMA StepAttended ==
  ASSUME LockInv, Attended, Unkilled, NEW g \in Gens, Step(g)
  PROVE  Attended'
<1>1. CASE SendToDaemon(g)
  BY <1>1 DEF SendToDaemon, Goto, Attended, LockInv, TypeOK, reqVars
<1>2. CASE ~ SendToDaemon(g)
  <2>1. ~ ClientTimesOut(g)
    BY DEF ClientTimesOut, Unkilled
  <2>2. client' = client /\ kind' = kind /\ pc[g] # "client"
    BY <1>2, <2>1 DEF Step, Wake, AcquireInVain, FirstInLine, AcquireAndRun,
       RunDisabled, ProbeFails, ClientSucceeds, BatchSucceeds, BatchFails,
       reqVars, emacsVars
  <2>3. \A h \in Gens : h # g => pc'[h] = pc[h]
    BY <1>2, <2>1 DEF Step, Wake, AcquireInVain, AcquireAndRun, RunDisabled,
       ProbeFails, ClientSucceeds, BatchSucceeds, BatchFails, Fallback, Finish,
       Goto, LockInv, TypeOK
  <2>4. client = 0 \/ client \in Gens
    BY DbSyncAssumption DEF LockInv, TypeOK, Gens
  <2>5. QED
    BY <2>2, <2>3, <2>4 DEF Attended
<1>3. QED BY <1>1, <1>2

LEMMA NewTaskAttended ==
  ASSUME LockInv, Attended, Unkilled, NEW k \in Kinds \ {"blocking"},
         NEW label \in PC, generation + 1 \in Gens, NewTask(k, label),
         client' = client
  PROVE  Attended'
<1>1. client # generation + 1 \/ client = 0
  BY DEF LockInv, Unborn, Attended, TypeOK
<1>2. \A g \in Gens : g # generation + 1 => pc'[g] = pc[g] /\ kind'[g] = kind[g]
  BY DEF NewTask, Goto, LockInv, TypeOK
<1>3. client = 0 \/ client \in Gens
  BY DbSyncAssumption DEF LockInv, TypeOK, Gens
<1>4. kind'[generation + 1] = k
  BY DEF NewTask, LockInv, TypeOK
<1>5. QED BY <1>1, <1>2, <1>3, <1>4 DEF Attended

LEMMA NextAttended ==
  Unkilled /\ LockInv /\ Attended /\ [Next]_vars => Attended'
<1> SUFFICES ASSUME Unkilled, LockInv, Attended, [Next]_vars PROVE Attended'
  OBVIOUS
<1>1. CASE LandWrite \/ UNCHANGED vars
  BY <1>1 DEF LandWrite, vars, reqVars, emacsVars, Attended
<1>2. CASE Schedule
  <2>1. generation + 1 \in Gens /\ client' = client
    BY <1>2, DbSyncAssumption DEF Schedule, LockInv, TypeOK, Gens, emacsVars
  <2>2. QED
    BY <1>2, <2>1, NewTaskAttended DEF Schedule, Kinds, PC
<1>3. ASSUME NEW k \in ForcedKinds, ForceSync(k) PROVE Attended'
  <2>1. generation + 1 \in Gens /\ client' = client
    BY <1>3, DbSyncAssumption DEF ForceSync, LockInv, TypeOK, Gens, emacsVars
  <2>2. k \in Kinds \ {"blocking"}
    BY DbSyncAssumption DEF Unkilled, ForcedKinds, LockInv, TypeOK, Setting, Kinds
  <2>3. QED
    BY <1>3, <2>1, <2>2, NewTaskAttended DEF ForceSync, PC
<1>4. ASSUME NEW g \in Gens, Step(g) PROVE Attended'
  BY <1>4, StepAttended
<1>5. ASSUME NEW g \in Gens, GiveUp(g) PROVE FALSE
  BY <1>5 DEF GiveUp, Attended
<1>6. CASE Daemon
  BY <1>6 DEF Daemon, DaemonCommits, DaemonFails, Attended, reqVars
<1>7. QED
  BY <1>1, <1>2, <1>3, <1>4, <1>5, <1>6 DEF Next, Idle

(* As long as no emacsclient is killed, for its timeout or its caller's,   *)
(* the daemon and a headless Emacs never write the database together.      *)
THEOREM OneWriterAtATime == Spec => []OneDbWriterIfNoneIsKilled
<1> DEFINE Inv == Unkilled => Attended
<1>1. Init => Inv
  BY DEF Init, Attended, Gens
<1>2. LockInv /\ Inv /\ [Next]_vars => Inv'
  BY NextAttended, SettingFixed DEF Unkilled, EmacsFailures, ForcedKinds
<1>3. LockInv /\ Inv => OneDbWriterIfNoneIsKilled
  <2> SUFFICES ASSUME LockInv, Unkilled, Attended, client # 0,
                      NEW g \in Gens, pc[g] = "batch"
               PROVE  FALSE
    BY DEF OneDbWriterIfNoneIsKilled, OneDbWriter, Unkilled
  <2>1. client \in Gens /\ pc[client] = "client"
    BY DbSyncAssumption DEF Attended, LockInv, TypeOK, Gens
  <2>2. QED
    BY <2>1 DEF LockInv, LockDiscipline, Running
<1> HIDE DEF Inv
<1>4. QED BY <1>1, <1>2, <1>3, LockInvariant, PTL DEF Spec

-----------------------------------------------------------------------------
(* Refinement: every step of the syncer is a step of SyncPromise or none.  *)
(* A caller that gives up abandons the run it holds the lock for.          *)
LEMMA FinishEnds ==
  ASSUME LockInv, NEW g \in Gens, NEW out \in Outcomes, pc[g] \in Running,
         Finish(g, out), vault' = vault
  PROVE  Promise!End
<1>1. holder = g /\ g # 0
  BY DEF LockInv, LockDiscipline, Gens
<1>2. QED BY <1>1 DEF Finish, Promise!End

LEMMA FallbackEnds ==
  ASSUME LockInv, NEW g \in Gens, pc[g] \in Running, Fallback(g),
         vault' = vault
  PROVE  Promise!End \/ UNCHANGED Promise!vars
BY FinishEnds DEF Fallback, Outcomes, Promise!vars, lockVars, runVars

LEMMA StepKeepsPromise ==
  ASSUME LockInv, NEW g \in Gens, Step(g)
  PROVE  [Promise!Next]_(Promise!vars)
<1> USE DEF Running
<1>1. CASE Wake(g) \/ AcquireInVain(g) \/ SendToDaemon(g)
  BY <1>1 DEF Wake, Enqueue, AcquireInVain, SendToDaemon, Promise!vars,
              reqVars, lockVars, runVars
<1>2. CASE AcquireAndRun(g)
  BY <1>2 DEF AcquireAndRun, FirstInLine, Promise!Begin, Promise!Next,
              reqVars, Gens
<1>3. CASE ProbeFails(g) \/ ClientTimesOut(g)
  BY <1>3, FallbackEnds DEF ProbeFails, ClientTimesOut, reqVars, Promise!Next
<1>4. CASE RunDisabled(g) \/ ClientSucceeds(g) \/ BatchSucceeds(g) \/ BatchFails(g)
  BY <1>4, FinishEnds
     DEF RunDisabled, ClientSucceeds, BatchSucceeds, BatchFails, reqVars,
         Outcomes, Promise!Next
<1>5. QED BY <1>1, <1>2, <1>3, <1>4 DEF Step

LEMMA DaemonKeepsPromise ==
  ASSUME LockInv, Daemon PROVE [Promise!Next]_(Promise!vars)
<1>1. client \in Gens
  BY DEF Daemon, DaemonCommits, DaemonFails, LockInv, TypeOK, Gens
<1>2. CASE DaemonCommits
  BY <1>2 DEF DaemonCommits, Promise!vars, reqVars, lockVars, runVars
<1>3. CASE DaemonFails /\ pc[client] = "client"
  BY <1>1, <1>3, FallbackEnds DEF DaemonFails, reqVars, Running, Promise!Next
<1>4. CASE DaemonFails /\ pc[client] # "client"
  BY <1>4 DEF DaemonFails, Promise!vars, reqVars, lockVars, runVars
<1>5. QED BY <1>2, <1>3, <1>4 DEF Daemon

LEMMA NextKeepsPromise ==
  LockInv /\ [Next]_vars => [Promise!Next]_(Promise!vars)
<1> SUFFICES ASSUME LockInv, [Next]_vars
             PROVE  [Promise!Next]_(Promise!vars)
  OBVIOUS
<1>1. CASE LandWrite
  BY <1>1 DEF LandWrite, lockVars, runVars, Promise!Land, Promise!Next
<1>2. CASE Schedule \/ UNCHANGED vars
  BY <1>2 DEF Schedule, vars, reqVars, lockVars, runVars, Promise!vars
<1>3. ASSUME NEW k \in ForcedKinds, ForceSync(k)
      PROVE  [Promise!Next]_(Promise!vars)
  BY <1>3 DEF ForceSync, Enqueue, runVars, Promise!vars
<1>4. ASSUME NEW g \in Gens, Step(g) PROVE [Promise!Next]_(Promise!vars)
  BY <1>4, StepKeepsPromise
<1>5. ASSUME NEW g \in Gens, GiveUp(g) PROVE [Promise!Next]_(Promise!vars)
  BY <1>5 DEF GiveUp, reqVars, runVars, Gens, Promise!Abandon, Promise!Next,
              Promise!vars
<1>6. CASE Daemon
  BY <1>6, DaemonKeepsPromise
<1>7. QED
  BY <1>1, <1>2, <1>3, <1>4, <1>5, <1>6 DEF Next, Idle

(* Runs never overlap and none is recorded as having seen a write it did   *)
(* not start after, with any mix of writes, forced syncs and Emacs faults. *)
THEOREM KeepsPromise == Spec => PromiseKept
<1>1. Init => Promise!Init
  BY DEF Init, Promise!Init
<1>2. LockInv /\ [Next]_vars => [Promise!Next]_(Promise!vars)
  BY NextKeepsPromise
<1>3. QED
  BY <1>1, <1>2, LockInvariant, PTL DEF Spec, PromiseKept, Promise!Spec
=============================================================================
