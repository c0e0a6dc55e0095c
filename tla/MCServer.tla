------------------------------ MODULE MCServer ------------------------------
(***************************************************************************)
(* Small instances of Server: one session and the watcher.                 *)
(***************************************************************************)
EXTENDS Server

Scanner(requests, maxRequests, maxEdits, maxRestarts) ==
  [requests |-> requests, maxRequests |-> maxRequests, maxEdits |-> maxEdits,
   maxSyncs |-> 1, maxRestarts |-> maxRestarts, noDb |-> TRUE,
   firstDb |-> {0, 1}, dbWatched |-> TRUE, overwrite |-> FALSE, synced |-> FALSE]

Database(maxRequests, overwrite, maxSyncs, maxRestarts) ==
  [requests |-> {"create"}, maxRequests |-> maxRequests, maxEdits |-> 1,
   maxSyncs |-> maxSyncs, maxRestarts |-> maxRestarts, noDb |-> FALSE,
   firstDb |-> {0, 1}, dbWatched |-> TRUE, overwrite |-> overwrite,
   synced |-> FALSE]

Writer(requests, maxRequests, maxSyncs, firstDb, dbWatched) ==
  [requests |-> requests, maxRequests |-> maxRequests, maxEdits |-> 0,
   maxSyncs |-> maxSyncs, maxRestarts |-> 0, noDb |-> FALSE,
   firstDb |-> firstDb, dbWatched |-> dbWatched, overwrite |-> TRUE,
   synced |-> TRUE]

(* The watcher alone; one session's writes and rebuilds, which the watcher  *)
(* sees too; a database made and replaced by create_database and by Emacs; *)
(* writes announced to the synchroniser, whose database is watched and may *)
(* have to be made, or is there from the start, out of the watcher's sight. *)
MCServers == {
  Scanner({}, 0, 3, 1),
  Scanner({"write", "rebuild"}, 3, 0, 0),
  Database(2, TRUE, 2, 0),
  Database(1, TRUE, 1, 1),
  Database(2, FALSE, 1, 0),
  Writer({"write", "rebuild"}, 2, 0, {0, 1}, TRUE),
  Writer({"write", "create"}, 2, 0, {1}, TRUE),
  Writer({"write"}, 3, 1, {1}, FALSE) }
=============================================================================
