----------------------------- MODULE IndexCell ------------------------------
(***************************************************************************)
(* The index that reads are served from: RoamServer.index_cell, swapped by *)
(* the write tools, by sync_database {force, backend: scanner}, by         *)
(* create_database and by the file watcher (src/src/server.rs), each after *)
(* opening an index outside the lock (index::open, src/src/index/mod.rs);  *)
(* org-roam.db as create_database replaces it (index/populate.rs); and the *)
(* server's process, which may be killed at any point and started again.   *)
(*                                                                         *)
(* The vault is a version number.  A scan is a snapshot, the version it    *)
(* reports; a SqliteIndex is bound to the file it opened and reads what    *)
(* that file holds now, also when org-roam.db has since been replaced.     *)
(* Files of the name org-roam.db are numbered as they are made; `db' is    *)
(* the one that has the name now.                                          *)
(*                                                                         *)
(* A definition introduced as a faulty variant is used by no action: it is *)
(* what a plausible mistake would make of the definition after it, and     *)
(* shows that the properties can tell the two apart.                       *)
(***************************************************************************)
EXTENDS Naturals

CONSTANTS
  Clients,  \* sessions, each issuing one request at a time
  Watcher,  \* the watcher task
  MaxDbs,   \* bound on the database files ever made
  Servers   \* the servers considered: how each is configured and used

(* The tools its clients call and how often each may call one; bounds on    *)
(* the changes made to the vault outside the server, on the runs of        *)
(* org-roam-db-sync and on the times the server is killed; Config.no_db;    *)
(* whether there may be, or may not be, a database at first; whether        *)
(* org-roam.db is below roam_dir, which is watched; the overwrite argument  *)
(* of create_database; whether the server's own synchroniser has an Emacs.  *)
Server == [requests: SUBSET {"write", "rebuild", "create"}, maxRequests: Nat,
           maxEdits: Nat, maxSyncs: Nat, maxRestarts: Nat,
           noDb: BOOLEAN, firstDb: SUBSET {0, 1}, dbWatched: BOOLEAN,
           overwrite: BOOLEAN, synced: BOOLEAN]

ASSUME IndexCellAssumption ==
  /\ Watcher \notin Clients
  /\ MaxDbs \in Nat \ {0}
  /\ Servers \subseteq Server

VARIABLES
  server,     \* the server this behaviour is one of; it never changes
  vault,      \* version of the vault's notes
  db,         \* the file named org-roam.db, 0 if there is none
  made,       \* number of database files made so far
  holds,      \* vault version each database file reflects
  cell,       \* the index in index_cell
  pc,         \* where each client's request, and the watcher, is
  opened,     \* the index it has opened and not swapped in yet
  building,   \* the database file a create_database has built
  asked,      \* number of requests of each client so far
  events,     \* kinds of file events queued for the watcher
  missed,     \* kinds last changed before the watcher had come up
  edits, syncs, restarts  \* counts, for the bounds

fileVars  == <<server, vault, db, made, holds, edits, syncs, restarts>>
cellVars  == <<cell, opened>>
clientVars == <<building, asked>>
eventVars == <<events, missed>>
vars == <<fileVars, cellVars, clientVars, pc, eventVars>>

Requests    == server.requests
MaxRequests == server.maxRequests
MaxEdits    == server.maxEdits
MaxSyncs    == server.maxSyncs
MaxRestarts == server.maxRestarts
NoDb        == server.noDb
DbWatched   == server.dbWatched
Overwrite   == server.overwrite

Openers == Clients \cup {Watcher}
Dbs     == 1..MaxDbs
Index   == [kind: {"scan", "sql"}, at: Nat]   \* a version, or a database file
Labels  == {"boot", "idle", "refresh", "pick", "scan", "opensql", "swap",
            "exists", "walk", "build", "lookaside", "setaside", "install"}

HasDb     == ~ NoDb /\ db # 0
Scan      == [kind |-> "scan", at |-> vault]
Sql(d)    == [kind |-> "sql", at |-> d]
Served    == IF cell.kind = "scan" THEN cell.at ELSE holds[cell.at]

TypeOK ==
  /\ server \in Servers
  /\ vault \in Nat /\ edits \in 0..MaxEdits /\ syncs \in 0..MaxSyncs
  /\ restarts \in 0..MaxRestarts
  /\ made \in 0..MaxDbs /\ db \in 0..made
  /\ holds \in [Dbs -> Nat] /\ \A d \in Dbs : holds[d] <= vault
  /\ cell \in Index /\ opened \in [Openers -> Index]
  /\ \A x \in {cell} \cup {opened[o] : o \in Openers} :
       x.at \in IF x.kind = "scan" THEN 0..vault ELSE 1..made
  /\ pc \in [Openers -> Labels]
  /\ building \in [Clients -> 0..made]
  /\ asked \in [Clients -> 0..MaxRequests]
  /\ events \subseteq {"org", "db"} /\ missed \subseteq {"org", "db"}

Started == [o \in Openers |-> IF o = Watcher THEN "boot" ELSE "idle"]

(* RoamServer::new opens an index, with or without a database on disk, and *)
(* spawns the watcher.                                                     *)
Init ==
  /\ server \in Servers
  /\ vault = 0 /\ edits = 0 /\ syncs = 0 /\ restarts = 0
  /\ db \in server.firstDb /\ made = db
  /\ holds = [d \in Dbs |-> 0]
  /\ cell = IF HasDb THEN Sql(db) ELSE Scan
  /\ opened = [o \in Openers |-> Scan]
  /\ pc = Started
  /\ building = [c \in Clients |-> 0]
  /\ asked = [c \in Clients |-> 0]
  /\ events = {} /\ missed = {}

Goto(o, label) == pc' = [pc EXCEPT ![o] = label]

(* A change of that kind of file is reported, if it is in a watched place  *)
(* and the watcher is up.                                                  *)
Notice(kind) ==
  LET up == pc[Watcher] # "boot" IN
  /\ events' = IF up /\ (kind = "org" \/ DbWatched) THEN events \cup {kind} ELSE events
  /\ missed' = IF up THEN missed \ {kind} ELSE missed \cup {kind}

-----------------------------------------------------------------------------
(* index::open, then the swap under the write lock                         *)

(* config.has_db() chooses the backend. *)
Pick(o) ==
  /\ pc[o] = "pick"
  /\ Goto(o, IF HasDb THEN "opensql" ELSE "scan")
  /\ UNCHANGED <<fileVars, cellVars, clientVars, eventVars>>

OpenScan(o) ==
  /\ pc[o] = "scan"
  /\ opened' = [opened EXCEPT ![o] = Scan]
  /\ Goto(o, "swap")
  /\ UNCHANGED <<fileVars, cell, clientVars, eventVars>>

(* Faulty variant: the database is opened read-write, and made if missing. *)
OpenOrMake(o) ==
  /\ pc[o] = "opensql"
  /\ opened' = [opened EXCEPT ![o] = Sql(db)]
  /\ Goto(o, "swap")
  /\ UNCHANGED <<fileVars, cell, clientVars, eventVars>>

(* SqliteIndex::open; the file may be gone again, and the index is kept. *)
OpenSql(o) ==
  /\ pc[o] = "opensql"
  /\ IF db = 0
     THEN Goto(o, "idle") /\ UNCHANGED opened
     ELSE opened' = [opened EXCEPT ![o] = Sql(db)] /\ Goto(o, "swap")
  /\ UNCHANGED <<fileVars, cell, clientVars, eventVars>>

(* Faulty variant: the events of the burst are cleared after the reload. *)
SwapAndClear(o) ==
  /\ pc[o] = "swap"
  /\ cell' = opened[o]
  /\ Goto(o, "idle")
  /\ events' = IF o = Watcher THEN {} ELSE events
  /\ UNCHANGED <<fileVars, opened, clientVars, missed>>

Swap(o) ==
  /\ pc[o] = "swap"
  /\ cell' = opened[o]
  /\ Goto(o, "idle")
  /\ UNCHANGED <<fileVars, opened, clientVars, eventVars>>

-----------------------------------------------------------------------------
(* Requests                                                                *)

Ask(c, tool) ==
  /\ pc[c] = "idle" /\ tool \in Requests /\ asked[c] < MaxRequests
  /\ asked' = [asked EXCEPT ![c] = @ + 1]

(* A write tool has changed the vault. *)
Write(c) ==
  /\ Ask(c, "write")
  /\ vault' = vault + 1
  /\ Notice("org")
  /\ Goto(c, "refresh")
  /\ UNCHANGED <<server, db, made, holds, edits, syncs, restarts, cellVars, building>>

(* refresh_index_after_write. *)
Refresh(c) ==
  /\ pc[c] = "refresh"
  /\ Goto(c, IF HasDb THEN "idle" ELSE "pick")
  /\ UNCHANGED <<fileVars, cellVars, clientVars, eventVars>>

(* sync_database {force: true} on the scanner: rebuild_scanner_index. *)
Rebuild(c) ==
  /\ Ask(c, "rebuild")
  /\ Goto(c, "scan")
  /\ UNCHANGED <<fileVars, cellVars, building, eventVars>>

(* create_database, to the configured path. *)
Create(c) ==
  /\ Ask(c, "create")
  /\ Goto(c, "exists")
  /\ UNCHANGED <<fileVars, cellVars, building, eventVars>>

LookExists(c) ==
  /\ pc[c] = "exists"
  /\ Goto(c, IF db # 0 /\ ~ Overwrite THEN "idle" ELSE "walk")
  /\ UNCHANGED <<fileVars, cellVars, clientVars, eventVars>>

(* Walk the vault for a database to be built under a temporary name. *)
Walk(c) ==
  /\ pc[c] = "walk" /\ made < MaxDbs
  /\ made' = made + 1
  /\ holds' = [holds EXCEPT ![made + 1] = vault]
  /\ building' = [building EXCEPT ![c] = made + 1]
  /\ Goto(c, "build")
  /\ UNCHANGED <<server, vault, db, edits, syncs, restarts, cellVars, asked, eventVars>>

(* Build it.  A note deleted since the walk cannot be hashed, and the call  *)
(* fails; the temporary file stays.                                        *)
Build(c) ==
  /\ pc[c] = "build"
  /\ \/ Goto(c, "lookaside")
     \/ vault > holds[building[c]] /\ Goto(c, "idle")
  /\ UNCHANGED <<fileVars, cellVars, clientVars, eventVars>>

(* Faulty variant: the old database is renamed before the new one is built. *)
LookAsideFirst(c) ==
  /\ pc[c] \in {"build", "lookaside"}
  /\ IF pc[c] = "build" /\ db # 0
     THEN db' = 0 /\ Notice("db") /\ UNCHANGED pc
     ELSE pc[c] = "lookaside" /\ Goto(c, "install") /\ UNCHANGED <<db, eventVars>>
  /\ UNCHANGED <<server, vault, made, holds, edits, syncs, restarts, cellVars, clientVars>>

LookAside(c) ==
  /\ pc[c] = "lookaside"
  /\ Goto(c, IF db # 0 THEN "setaside" ELSE "install")
  /\ UNCHANGED <<fileVars, cellVars, clientVars, eventVars>>

(* Rename the old database to its backup name. *)
SetAside(c) ==
  /\ pc[c] = "setaside"
  /\ IF db = 0
     THEN Goto(c, "idle") /\ UNCHANGED <<db, eventVars>>
     ELSE db' = 0 /\ Notice("db") /\ Goto(c, "install")
  /\ UNCHANGED <<server, vault, made, holds, edits, syncs, restarts, cellVars, clientVars>>

(* Rename the new one into place and go on to reload the index. *)
Install(c) ==
  /\ pc[c] = "install"
  /\ db' = building[c]
  /\ Notice("db")
  /\ Goto(c, "pick")
  /\ UNCHANGED <<server, vault, made, holds, edits, syncs, restarts, cellVars, clientVars>>

-----------------------------------------------------------------------------
(* The watcher                                                             *)

(* Faulty variant: the database's events are not looked at. *)
NeedsRescan(batch) == "org" \in batch /\ ~ HasDb

(* Faulty variant: only the database's events are looked at. *)
NeedsReopen(batch) == "db" \in batch

(* A burst of events is drained.  Whether it calls for a reload is decided *)
(* from the batch and, for notes, from has_db() at that moment.            *)
NeedsReload(batch) == "db" \in batch \/ ("org" \in batch /\ ~ HasDb)

(* The spawned task has begun to watch roam_dir; what changed since the    *)
(* index was opened has raised no event.                                   *)
StartWatch ==
  /\ pc[Watcher] = "boot"
  /\ Goto(Watcher, "idle")
  /\ UNCHANGED <<fileVars, cellVars, clientVars, eventVars>>

Drain ==
  /\ pc[Watcher] = "idle" /\ events # {}
  /\ events' = {}
  /\ Goto(Watcher, IF NeedsReload(events) THEN "pick" ELSE "idle")
  /\ UNCHANGED <<fileVars, cellVars, clientVars, missed>>

-----------------------------------------------------------------------------
(* Emacs and the user                                                      *)

Edit ==
  /\ edits < MaxEdits
  /\ edits' = edits + 1
  /\ vault' = vault + 1
  /\ Notice("org")
  /\ UNCHANGED <<server, db, made, holds, syncs, restarts, cellVars, clientVars, pc>>

(* org-roam-db-sync makes org-roam.db reflect that version of the vault:   *)
(* it makes the database, or updates it in place if there is a change.     *)
Reflect(version) ==
  /\ IF db # 0
     THEN /\ holds' = [holds EXCEPT ![db] = version]
          /\ UNCHANGED <<db, made>>
     ELSE /\ made < MaxDbs
          /\ made' = made + 1 /\ db' = made + 1
          /\ holds' = [holds EXCEPT ![made + 1] = version]
  /\ IF db' = db /\ holds' = holds THEN UNCHANGED eventVars ELSE Notice("db")

(* The user runs it, outside the server. *)
DbSync ==
  /\ syncs < MaxSyncs
  /\ syncs' = syncs + 1
  /\ Reflect(vault)
  /\ UNCHANGED <<server, vault, edits, restarts, cellVars, clientVars, pc>>

-----------------------------------------------------------------------------
(* The process                                                             *)

(* It is killed and started again: what the vault and org-roam.db hold     *)
(* stays, and everything else is as RoamServer::new makes it.              *)
Restart ==
  /\ restarts < MaxRestarts
  /\ restarts' = restarts + 1
  /\ cell' = IF HasDb THEN Sql(db) ELSE Scan
  /\ pc' = Started
  /\ opened' = [o \in Openers |-> Scan]
  /\ building' = [c \in Clients |-> 0]
  /\ events' = {} /\ missed' = {}
  /\ UNCHANGED <<server, vault, db, made, holds, edits, syncs, asked>>

-----------------------------------------------------------------------------
Open(o) == Pick(o) \/ OpenScan(o) \/ OpenSql(o) \/ Swap(o)

Serve(c) ==
  \/ Refresh(c)
  \/ LookExists(c) \/ Walk(c) \/ Build(c) \/ LookAside(c) \/ SetAside(c) \/ Install(c)
  \/ Open(c)

Watch == StartWatch \/ Drain \/ Open(Watcher)

(* All is quiet: the server waits for the next request or event. *)
Idle ==
  /\ \A o \in Openers : pc[o] = "idle"
  /\ events = {}
  /\ UNCHANGED vars

Step ==
  \/ \E c \in Clients : Write(c) \/ Rebuild(c) \/ Create(c) \/ Serve(c)
  \/ Watch
  \/ Edit
  \/ DbSync
  \/ Restart

Next == Step \/ Idle

(* Handlers and the watcher are tasks the runtime keeps polling.  Nobody   *)
(* has to ask for anything, to edit a note or to synchronise.              *)
Fairness == WF_vars(Watch) /\ \A c \in Clients : WF_vars(Serve(c))

Spec == Init /\ [][Next]_vars /\ Fairness
-----------------------------------------------------------------------------
(* Properties                                                              *)

Versions == 1..5   \* of the vault: enough for the bounds of the servers

OneClient == \A c, d \in Clients : c = d

(* In scanner mode, no change to the vault stays invisible to reads for    *)
(* ever, while changes come from one side: from edits that only the        *)
(* watcher sees, or from one session's writes, followed by its own scans.  *)
(* A change made before the watcher had come up may stay unseen until the  *)
(* next one, and nothing is lost when the server is killed.                *)
OneSidedEditsVisible ==
  \A v \in Versions :
    (NoDb /\ (Requests = {} \/ (MaxEdits = 0 /\ OneClient)) /\ vault >= v)
      ~> (Served >= v \/ "org" \in missed)

(* Once databases stop being made and replaced, reads come from the one    *)
(* that org-roam.db names, not from a scan or a database set aside: the    *)
(* watcher reloads the index when org-roam.db changes.  That is so of a    *)
(* watched database made by Emacs and by one session's create_database, if *)
(* no scan of a write or of a rebuild is in the race and the watcher has   *)
(* come up; of two sessions that both replace it, the one that opened the  *)
(* first of the new ones may be the last to swap.  And, unless the server  *)
(* is killed between the two renames, create_database never leaves a vault *)
(* that had a database without one, though it fails when a note is deleted *)
(* under it.                                                               *)
EndsOnWatchedDb ==
  /\ <>[](DbWatched /\ Requests \subseteq {"create"} /\ OneClient
               /\ "db" \notin missed /\ HasDb
             => cell = Sql(db))
  /\ <>(MaxRestarts = 0 /\ HasDb) => <>[]HasDb
=============================================================================
