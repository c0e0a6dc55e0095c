------------------------------- MODULE Server -------------------------------
(***************************************************************************)
(* RoamServer put together (src/src/server.rs): the index that reads are   *)
(* served from, the database they may come from, and the synchroniser that *)
(* every write is announced to.  The synchroniser is taken at its word,    *)
(* SyncPromise, which DbSync implements: a run begins after every write    *)
(* and org-roam.db then reflects the vault as it was at some moment of the *)
(* run.  As where DbSync keeps its promise of progress, no client forces a *)
(* run and gives up on it, and Emacs answers; a server without it has no   *)
(* `synced'.                                                               *)
(***************************************************************************)
EXTENDS IndexCell

VARIABLES
  busy,  \* whether a run of org-roam-db-sync is under way
  from,  \* number of writes landed when the latest one began
  seen   \* number of writes the latest finished one was bound to see

syncVars == <<busy, from, seen>>
allVars  == <<vars, syncVars>>

(* With a synchroniser, the writes of its clients are all that the vault's *)
(* version counts; a server that is killed forgets its pending run.        *)
ASSUME ServerAssumption ==
  \A s \in Servers : s.synced => s.maxEdits = 0 /\ s.maxRestarts = 0

Synced  == server.synced
promise == INSTANCE SyncPromise WITH landed <- vault

ServerTypeOK ==
  /\ TypeOK
  /\ busy \in BOOLEAN /\ from \in 0..vault /\ seen \in 0..from

ServerInit == Init /\ busy = FALSE /\ from = 0 /\ seen = 0

SyncBegins ==
  /\ Synced /\ promise!Begin
  /\ UNCHANGED vars

(* Emacs has read the vault while the run was under way. *)
SyncEnds ==
  /\ busy
  /\ \E version \in from..vault : Reflect(version)
  /\ UNCHANGED <<server, vault, edits, syncs, restarts, cellVars, clientVars, pc>>
  /\ promise!End

ServerNext ==
  \/ Step /\ UNCHANGED syncVars
  \/ SyncBegins \/ SyncEnds
  \/ Idle /\ UNCHANGED syncVars

(* SyncPromise!Progress, of a server that has a synchroniser. *)
Progress == WF_allVars(seen < vault /\ SyncBegins) /\ WF_allVars(SyncEnds)

ServerSpec ==
  /\ ServerInit /\ [][ServerNext]_allVars
  /\ Fairness /\ Progress
-----------------------------------------------------------------------------
(* A change of the database gets to the readers: the watcher sees it, or   *)
(* the database is the one they have always read.                          *)
DbFollowed == DbWatched \/ (server.firstDb = {1} /\ Requests \subseteq {"write"})

(* What a session writes is read by everybody, in the end and from then on: *)
(* from its own scan while there is no database, and otherwise from the    *)
(* database, once the synchroniser has brought it up to date and, if it is *)
(* a new file, the watcher has reopened the index.  A database out of the  *)
(* watcher's sight has to be there from the start, to be only updated in   *)
(* place, and never to be left for a scan.  One made before the watcher    *)
(* had come up is noticed when it changes again.                           *)
WritesReachReaders ==
  \A v \in Versions :
    (Synced /\ OneClient /\ DbFollowed /\ vault >= v)
      ~> [](Served >= v \/ "db" \in missed)
=============================================================================
