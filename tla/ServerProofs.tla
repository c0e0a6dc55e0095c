---------------------------- MODULE ServerProofs ----------------------------
(***************************************************************************)
(* Proofs about Server and the index cell in it, for every set of servers  *)
(* and, unless a property says so, every number of sessions.               *)
(*                                                                         *)
(* That the watcher and the handlers go on is left to fairness, and to TLC; *)
(* what they have brought about when the watcher has nothing left to do is *)
(* an invariant, and is proved here.                                       *)
(***************************************************************************)
EXTENDS Server, TLAPS

-----------------------------------------------------------------------------
(* What is true when the watcher is at rest                                *)

AtRest(kind) == pc[Watcher] \in {"boot", "idle"} /\ kind \notin events \cup missed

(* Changes come from one side: from edits that only the watcher sees, or   *)
(* from one session's writes, followed by its own scans.                   *)
OneSided == NoDb /\ (Requests = {} \/ (MaxEdits = 0 /\ OneClient))

(* The scan that reads are served from is of the vault as it is.           *)
ScanIsFresh == OneSided /\ AtRest("org") => Served = vault

(* Databases are made by Emacs and by one session's create_database.       *)
OneMaker == DbWatched /\ Requests \subseteq {"create"} /\ OneClient

(* The database that reads are served from is the one named org-roam.db.   *)
DbIsServed == OneMaker /\ AtRest("db") /\ HasDb => cell = Sql(db)

(* One session writes, and the synchroniser keeps a watched database, which *)
(* nobody replaces.                                                        *)
OneWriter ==
  Synced /\ ~ NoDb /\ DbWatched /\ "create" \notin Requests /\ OneClient

(* What has been synchronised is what reads are served from.               *)
SyncedIsServed ==
  OneWriter /\ AtRest("db") /\ (\A c \in Clients : pc[c] = "idle") /\ seen = vault
    => Served = vault

(* Sessions write, and the synchroniser keeps the database that was there   *)
(* when the server started, out of the watcher's sight.                    *)
Unwatched ==
  Synced /\ ~ NoDb /\ ~ DbWatched /\ server.firstDb = {1} /\ Requests \subseteq {"write"}

(* Reads are served no less than what has been synchronised. *)
SeenIsServed == Unwatched => Served >= seen

(* Unless the server is killed, a vault that has a database is without it   *)
(* only while a call is about to put a new one in its place.               *)
DbComesBack ==
  [][MaxRestarts = 0 /\ (HasDb \/ \E c \in Clients : pc[c] = "install" /\ ~ NoDb)
       => HasDb' \/ \E c \in Clients : pc'[c] = "install"]_allVars

-----------------------------------------------------------------------------
(* The invariant                                                           *)

(* The watcher makes no requests, and a call that puts a database in place *)
(* has built it.                                                           *)
Places ==
  /\ pc[Watcher] \in {"boot", "idle", "pick", "scan", "opensql", "swap"}
  /\ \A c \in Clients :
       /\ pc[c] # "boot"
       /\ pc[c] \in {"build", "lookaside", "setaside", "install"} => building[c] # 0

(* The maker of a database reloads it while it is in place; a watcher that  *)
(* has opened something else has an event to come; and so has one that is  *)
(* not about to swap, as long as reads come from something else.           *)
DbOnItsWay ==
  /\ \A c \in Clients :
       /\ pc[c] \notin {"refresh", "scan"}
       /\ pc[c] \in {"pick", "opensql", "swap"} => db # 0
       /\ pc[c] = "swap" => opened[c] = Sql(db)
  /\ pc[Watcher] = "scan" /\ db # 0 => "db" \in events
  /\ pc[Watcher] = "swap" /\ db # 0 => opened[Watcher] = Sql(db) \/ "db" \in events
  /\ db # 0 /\ cell # Sql(db) =>
       \/ "db" \in events \cup missed
       \/ pc[Watcher] \in {"pick", "opensql"}
       \/ pc[Watcher] = "swap" /\ opened[Watcher] = Sql(db)

DbComing == OneMaker /\ ~ NoDb => DbOnItsWay

(* The same of scans of the vault, where no database is used. *)
ScanOnItsWay ==
  /\ \A o \in Openers : pc[o] # "opensql"
  /\ \A c \in Clients :
       /\ Requests = {} => pc[c] = "idle"
       /\ pc[c] = "swap" => opened[c] = Scan
  /\ pc[Watcher] = "swap" => opened[Watcher] = Scan \/ "org" \in events
  /\ opened[Watcher].kind = "scan" /\ cell.kind = "scan"
  /\ cell # Scan =>
       \/ "org" \in events \cup missed
       \/ pc[Watcher] \in {"pick", "scan"}
       \/ pc[Watcher] = "swap" /\ opened[Watcher] = Scan

ScanComing == OneSided => ScanOnItsWay

(* The database holds what has been synchronised.  A scan that a session    *)
(* is about to swap in is of the vault as it is; once reads come from an   *)
(* older one, the watcher will reopen the database for them, at the latest *)
(* when it has changed to hold what they lack.                             *)
SyncOnItsWay ==
  /\ seen <= IF db = 0 THEN 0 ELSE holds[db]
  /\ cell.kind = "sql" => db # 0 /\ cell = Sql(db)
  /\ \A o \in Openers : opened[o].kind = "sql" => db # 0 /\ opened[o] = Sql(db)
  /\ \A c \in Clients :
       /\ pc[c] \in {"idle", "refresh", "pick", "scan", "opensql", "swap"}
       /\ pc[c] = "swap" => opened[c].kind = "sql" \/ opened[c] = Scan
  /\ pc[Watcher] = "scan" /\ db # 0 => "db" \in events
  /\ pc[Watcher] = "swap" /\ db # 0 => opened[Watcher] = Sql(db) \/ "db" \in events
  /\ db # 0 /\ holds[db] = vault /\ cell # Sql(db) /\ cell # Scan =>
       \/ "db" \in events \cup missed
       \/ pc[Watcher] \in {"pick", "opensql"}
       \/ pc[Watcher] = "swap" /\ opened[Watcher] = Sql(db)

SyncComing == OneWriter => SyncOnItsWay

(* Reads never leave the first database, which is only updated in place:    *)
(* no event of it comes, and nobody opens anything else.                   *)
StaysOnFirst ==
  /\ db = 1 /\ cell = Sql(1) /\ seen <= holds[1]
  /\ \A o \in Openers : pc[o] \in {"boot", "idle", "refresh"}
  /\ "db" \notin events

InPlace == Unwatched => StaysOnFirst

Inv == ServerTypeOK /\ Places /\ DbComing /\ ScanComing /\ SyncComing /\ InPlace

-----------------------------------------------------------------------------
(* Types                                                                   *)

(* An index that can have been opened by then. *)
Bounded(x, version, number) ==
  /\ x \in Index
  /\ x.at \in IF x.kind = "scan" THEN 0..version ELSE 1..number

(* TypeOK, an index at a time. *)
Types ==
  /\ server \in Servers
  /\ vault \in Nat /\ edits \in 0..MaxEdits /\ syncs \in 0..MaxSyncs
  /\ restarts \in 0..MaxRestarts
  /\ made \in 0..MaxDbs /\ db \in 0..made
  /\ holds \in [Dbs -> Nat] /\ \A d \in Dbs : holds[d] <= vault
  /\ Bounded(cell, vault, made)
  /\ opened \in [Openers -> Index]
  /\ \A o \in Openers : Bounded(opened[o], vault, made)
  /\ pc \in [Openers -> Labels]
  /\ building \in [Clients -> 0..made]
  /\ asked \in [Clients -> 0..MaxRequests]
  /\ events \subseteq {"org", "db"} /\ missed \subseteq {"org", "db"}

(* The type invariant says the same of cell and of every opened index. *)
LEMMA TypesAreTypeOK == TypeOK <=> Types
<1>1. ASSUME TypeOK PROVE Types
  BY <1>1 DEF TypeOK, Types, Bounded
<1>2. ASSUME Types PROVE TypeOK
  BY <1>2 DEF TypeOK, Types, Bounded
<1> QED BY <1>1, <1>2

(* What is bounded stays bounded as the vault and the databases grow. *)
LEMMA BoundedGrows ==
  ASSUME NEW x, NEW v \in Nat, NEW w \in Nat, NEW m \in Nat, NEW n \in Nat,
         v <= w, m <= n, Bounded(x, v, m)
  PROVE  Bounded(x, w, n)
BY DEF Bounded, Index

(* A scan of the vault, and the database in place, are bounded. *)
LEMMA FreshIsBounded ==
  ASSUME Types
  PROVE  Bounded(Scan, vault, made) /\ (db # 0 => Bounded(Sql(db), vault, made))
BY IndexCellAssumption DEF Types, Bounded, Scan, Sql, Index

(* The bounds of a server are numbers. *)
LEMMA ServerBounds ==
  ASSUME server \in Servers
  PROVE  /\ MaxRequests \in Nat /\ MaxEdits \in Nat /\ MaxSyncs \in Nat
         /\ MaxRestarts \in Nat
BY IndexCellAssumption DEF Server, MaxRequests, MaxEdits, MaxSyncs, MaxRestarts

(* The index cell starts within its types. *)
LEMMA TypesInit == Init => Types
<1> SUFFICES ASSUME Init PROVE Types
  OBVIOUS
<1>1. server \in Server
  BY IndexCellAssumption DEF Init
<1>2. /\ MaxRequests \in Nat /\ MaxEdits \in Nat /\ MaxSyncs \in Nat
      /\ MaxRestarts \in Nat
  BY ServerBounds DEF Init
<1>3. db \in {0, 1} /\ made = db /\ vault = 0
  BY <1>1 DEF Init, Server
<1>4. made \in 0..MaxDbs /\ db \in 0..made
  BY <1>3, IndexCellAssumption
<1>5. holds \in [Dbs -> Nat] /\ \A d \in Dbs : holds[d] <= vault
  BY <1>3 DEF Init
<1>6. Bounded(Scan, vault, made) /\ (db # 0 => Bounded(Sql(db), vault, made))
  BY <1>3 DEF Bounded, Scan, Sql, Index
<1>7. Bounded(cell, vault, made)
  BY <1>6 DEF Init, HasDb
<1>8. /\ opened \in [Openers -> Index]
      /\ \A o \in Openers : Bounded(opened[o], vault, made)
  BY <1>6 DEF Init, Bounded
<1>9. pc \in [Openers -> Labels]
  BY DEF Init, Started, Labels
<1>10. /\ building \in [Clients -> 0..made]
       /\ asked \in [Clients -> 0..MaxRequests]
  BY <1>2, <1>3 DEF Init
<1> QED BY <1>2, <1>3, <1>4, <1>5, <1>7, <1>8, <1>9, <1>10 DEF Types, Init

(* Notice queues events of the two kinds. *)
LEMMA NoticeTypes ==
  ASSUME Types, NEW kind \in {"org", "db"}, Notice(kind)
  PROVE  events' \subseteq {"org", "db"} /\ missed' \subseteq {"org", "db"}
BY DEF Types, Notice

(* A step of opening an index keeps the types. *)
LEMMA OpenTypes ==
  ASSUME Types, NEW o \in Openers, Open(o)
  PROVE  Types'
<1>1. CASE Pick(o)
  BY <1>1 DEF Types, Pick, Goto, Labels, fileVars, cellVars, clientVars, eventVars,
     MaxRequests, MaxEdits, MaxSyncs, MaxRestarts
<1>2. CASE OpenScan(o)
  <2>1. Bounded(Scan, vault, made)
    BY FreshIsBounded
  <2> QED BY <1>2, <2>1 DEF Types, OpenScan, Goto, Labels, fileVars, clientVars,
          eventVars, MaxRequests, MaxEdits, MaxSyncs, MaxRestarts, Bounded
<1>3. CASE OpenSql(o)
  <2>1. db # 0 => Bounded(Sql(db), vault, made)
    BY FreshIsBounded
  <2> QED BY <1>3, <2>1 DEF Types, OpenSql, Goto, Labels, fileVars, clientVars,
          eventVars, MaxRequests, MaxEdits, MaxSyncs, MaxRestarts, Bounded
<1>4. CASE Swap(o)
  BY <1>4 DEF Types, Swap, Goto, Labels, fileVars, clientVars, eventVars,
     MaxRequests, MaxEdits, MaxSyncs, MaxRestarts
<1> QED BY <1>1, <1>2, <1>3, <1>4 DEF Open

(* A step of a request keeps the types. *)
LEMMA RequestTypes ==
  ASSUME Types, NEW c \in Clients,
         Write(c) \/ Rebuild(c) \/ Create(c) \/ Serve(c)
  PROVE  Types'
<1> USE DEF Types, Goto, Labels, Openers, fileVars, cellVars, clientVars, eventVars,
            MaxRequests, MaxEdits, MaxSyncs, MaxRestarts
<1>0. c \in Openers /\ MaxRequests \in Nat /\ MaxDbs \in Nat
  BY ServerBounds, IndexCellAssumption
<1>1. ASSUME NEW tool, Ask(c, tool) PROVE asked' \in [Clients -> 0..MaxRequests]
  BY <1>0, <1>1 DEF Ask
<1>2. CASE Write(c)
  <2>1. vault' \in Nat /\ vault <= vault' /\ made' = made /\ opened' = opened
        /\ holds' = holds /\ cell' = cell
    BY <1>2 DEF Write
  <2>2. Bounded(cell, vault', made') /\ \A o \in Openers : Bounded(opened[o], vault', made')
    BY <2>1, BoundedGrows, <1>0
  <2>3. \A d \in Dbs : holds'[d] <= vault'
    BY <2>1
  <2>4. events' \subseteq {"org", "db"} /\ missed' \subseteq {"org", "db"}
    BY <1>2, NoticeTypes DEF Write
  <2>5. Bounded(cell', vault', made') /\ \A o \in Openers : Bounded(opened'[o], vault', made')
    BY <2>1, <2>2
  <2>6. asked' \in [Clients -> 0..MaxRequests]
    BY <1>1, <1>2 DEF Write
  <2> QED BY <1>2, <2>1, <2>3, <2>4, <2>5, <2>6 DEF Write
<1>3. CASE Refresh(c)
  BY <1>3 DEF Refresh
<1>4. CASE Rebuild(c)
  <2>1. asked' \in [Clients -> 0..MaxRequests]
    BY <1>1, <1>4 DEF Rebuild
  <2> QED BY <1>4, <2>1 DEF Rebuild
<1>5. CASE Create(c)
  <2>1. asked' \in [Clients -> 0..MaxRequests]
    BY <1>1, <1>5 DEF Create
  <2> QED BY <1>5, <2>1 DEF Create
<1>6. CASE LookExists(c)
  BY <1>6 DEF LookExists
<1>7. CASE Walk(c)
  <2>1. made' = made + 1 /\ made' \in 0..MaxDbs /\ db' \in 0..made' /\ made \in Nat
        /\ vault' = vault /\ opened' = opened /\ cell' = cell
    BY <1>0, <1>7 DEF Walk
  <2>2. Bounded(cell, vault, made') /\ \A o \in Openers : Bounded(opened[o], vault, made')
    BY <2>1, BoundedGrows
  <2>3. building' \in [Clients -> 0..made']
    BY <1>7, <2>1 DEF Walk
  <2>4. holds' \in [Dbs -> Nat] /\ \A d \in Dbs : holds'[d] <= vault
    <3>1. /\ holds' = [holds EXCEPT ![made + 1] = vault] /\ vault \in Nat
          /\ holds \in [Dbs -> Nat] /\ \A d \in Dbs : holds[d] <= vault
      BY <1>7 DEF Walk
    <3>2. ASSUME NEW d \in Dbs PROVE holds'[d] \in {vault, holds[d]}
      BY <3>1
    <3>3. holds' \in [Dbs -> Nat]
      BY <3>1
    <3> QED BY <3>1, <3>2, <3>3
  <2> QED BY <1>7, <2>1, <2>2, <2>3, <2>4 DEF Walk
<1>8. CASE Build(c)
  BY <1>8 DEF Build
<1>9. CASE LookAside(c)
  BY <1>9 DEF LookAside
<1>10. CASE SetAside(c)
  <2>1. events' \subseteq {"org", "db"} /\ missed' \subseteq {"org", "db"}
    BY <1>10, NoticeTypes DEF SetAside
  <2>2. db' \in 0..made
    BY <1>10 DEF SetAside
  <2>3. pc' \in [Openers -> Labels]
    BY <1>10 DEF SetAside
  <2> QED BY <1>10, <2>1, <2>2, <2>3 DEF SetAside
<1>11. CASE Install(c)
  <2>1. events' \subseteq {"org", "db"} /\ missed' \subseteq {"org", "db"}
    BY <1>11, NoticeTypes DEF Install
  <2> QED BY <1>11, <2>1 DEF Install
<1>12. CASE Open(c)
  BY <1>0, <1>12, OpenTypes
<1> QED BY <1>2, <1>3, <1>4, <1>5, <1>6, <1>7, <1>8, <1>9, <1>10, <1>11, <1>12
        DEF Serve

(* What a run of org-roam-db-sync does to the database keeps the types. *)
LEMMA ReflectTypes ==
  ASSUME Types, NEW version \in 0..vault, Reflect(version)
  PROVE  /\ made' \in 0..MaxDbs /\ db' \in 1..made' /\ made <= made'
         /\ holds' \in [Dbs -> Nat] /\ \A d \in Dbs : holds'[d] <= vault
         /\ events' \subseteq {"org", "db"} /\ missed' \subseteq {"org", "db"}
<1> USE DEF Types
<1>1. MaxDbs \in Nat
  BY IndexCellAssumption
<1>2. events' \subseteq {"org", "db"} /\ missed' \subseteq {"org", "db"}
  BY NoticeTypes DEF Reflect, eventVars
<1>3. CASE db # 0
  BY <1>1, <1>2, <1>3 DEF Reflect
<1>4. CASE db = 0
  BY <1>1, <1>2, <1>4 DEF Reflect
<1> QED BY <1>3, <1>4

(* A step of the index cell keeps the types. *)
LEMMA StepTypes ==
  ASSUME Types, Step
  PROVE  Types'
<1>0. Watcher \in Openers /\ MaxRequests \in Nat /\ MaxEdits \in Nat /\ MaxSyncs \in Nat
      /\ MaxRestarts \in Nat
  BY ServerBounds DEF Types, Openers
<1>1. ASSUME NEW c \in Clients, Write(c) \/ Rebuild(c) \/ Create(c) \/ Serve(c)
      PROVE  Types'
  BY <1>1, RequestTypes
<1>2. CASE Open(Watcher)
  BY <1>0, <1>2, OpenTypes
<1> USE DEF Types, Goto, Labels, Openers, fileVars, cellVars, clientVars, eventVars,
            MaxRequests, MaxEdits, MaxSyncs, MaxRestarts
<1>3. CASE StartWatch
  BY <1>3 DEF StartWatch
<1>4. CASE Drain
  BY <1>4 DEF Drain
<1>5. CASE Edit
  <2>1. vault' \in Nat /\ vault <= vault' /\ made' = made /\ opened' = opened
        /\ holds' = holds /\ cell' = cell
    BY <1>5 DEF Edit
  <2>2. Bounded(cell, vault', made') /\ \A o \in Openers : Bounded(opened[o], vault', made')
    BY <2>1, BoundedGrows
  <2>3. \A d \in Dbs : holds'[d] <= vault'
    BY <2>1
  <2>4. events' \subseteq {"org", "db"} /\ missed' \subseteq {"org", "db"}
    BY <1>5, NoticeTypes DEF Edit
  <2>5. edits' \in 0..MaxEdits
    BY <1>0, <1>5 DEF Edit
  <2> QED BY <1>5, <2>1, <2>2, <2>3, <2>4, <2>5 DEF Edit
<1>6. CASE DbSync
  <2>1. /\ made' \in 0..MaxDbs /\ db' \in 1..made' /\ made <= made'
        /\ holds' \in [Dbs -> Nat] /\ \A d \in Dbs : holds'[d] <= vault
        /\ events' \subseteq {"org", "db"} /\ missed' \subseteq {"org", "db"}
    BY <1>6, ReflectTypes DEF DbSync
  <2>2. Bounded(cell, vault, made') /\ \A o \in Openers : Bounded(opened[o], vault, made')
    BY <2>1, BoundedGrows
  <2>3. syncs' \in 0..MaxSyncs
    BY <1>0, <1>6 DEF DbSync
  <2>4. building \in [Clients -> 0..made']
    BY <2>1
  <2> QED BY <1>6, <2>1, <2>2, <2>3, <2>4 DEF DbSync
<1>7. CASE Restart
  <2>1. Bounded(Scan, vault, made) /\ (db # 0 => Bounded(Sql(db), vault, made))
    BY FreshIsBounded
  <2>2. /\ opened' \in [Openers -> Index]
        /\ \A o \in Openers : Bounded(opened'[o], vault, made)
    BY <1>7, <2>1 DEF Restart, Bounded
  <2>3. Bounded(cell', vault, made)
    BY <1>7, <2>1 DEF Restart, HasDb
  <2>4. restarts' \in 0..MaxRestarts
    BY <1>0, <1>7 DEF Restart
  <2>5. pc' \in [Openers -> Labels]
    BY <1>7 DEF Restart, Started
  <2> QED BY <1>7, <2>1, <2>2, <2>3, <2>4, <2>5 DEF Restart
<1> QED BY <1>1, <1>2, <1>3, <1>4, <1>5, <1>6, <1>7 DEF Step, Watch

(* So does a step of the whole server. *)
LEMMA ServerTypesStep ==
  ASSUME ServerTypeOK, [ServerNext]_allVars
  PROVE  ServerTypeOK'
<1> USE DEF ServerTypeOK
<1>0. Types
  BY TypesAreTypeOK
<1>1. TypeOK' <=> Types'
  BY TypesAreTypeOK, PTL
<1>2. CASE Step /\ UNCHANGED syncVars
  <2>1. Types'
    BY <1>0, <1>2, StepTypes
  <2>2. vault' \in Nat /\ vault <= vault'
    BY <1>0, <1>2 DEF Types, Step, Watch, Open, Serve, Pick, OpenScan, OpenSql, Swap,
       Write, Refresh, Rebuild, Create, LookExists, Walk, Build, LookAside, SetAside,
       Install, StartWatch, Drain, Edit, DbSync, Restart, fileVars
  <2> QED BY <1>0, <1>1, <1>2, <2>1, <2>2 DEF syncVars, Types
<1>3. CASE SyncBegins
  <2>1. busy' \in BOOLEAN /\ from' \in 0..vault' /\ seen' \in 0..from'
    BY <1>0, <1>3 DEF Types, SyncBegins, promise!Begin, vars, fileVars
  <2>2. Types'
    BY <1>0, <1>3 DEF Types, SyncBegins, vars, fileVars, cellVars, clientVars, eventVars,
       MaxRequests, MaxEdits, MaxSyncs, MaxRestarts
  <2> QED BY <1>1, <2>1, <2>2
<1>4. CASE SyncEnds
  <2>1. PICK version \in from..vault : Reflect(version)
    BY <1>4 DEF SyncEnds
  <2>2. version \in 0..vault
    BY <1>0 DEF Types
  <2>3. /\ made' \in 0..MaxDbs /\ db' \in 1..made' /\ made <= made'
        /\ holds' \in [Dbs -> Nat] /\ \A d \in Dbs : holds'[d] <= vault
        /\ events' \subseteq {"org", "db"} /\ missed' \subseteq {"org", "db"}
    BY <1>0, <2>1, <2>2, ReflectTypes
  <2>4. Bounded(cell, vault, made') /\ \A o \in Openers : Bounded(opened[o], vault, made')
    BY <1>0, <2>3, BoundedGrows DEF Types
  <2>5. building \in [Clients -> 0..made']
    BY <1>0, <2>3 DEF Types
  <2>6. UNCHANGED <<server, vault, edits, syncs, restarts, cell, opened, building, asked, pc>>
    BY <1>4 DEF SyncEnds, cellVars, clientVars
  <2>7. Types'
    BY <1>0, <2>3, <2>4, <2>5, <2>6 DEF Types, MaxRequests, MaxEdits, MaxSyncs, MaxRestarts
  <2>8. busy' \in BOOLEAN /\ from' \in 0..vault' /\ seen' \in 0..from'
    <3>1. busy' = FALSE /\ seen' = from /\ from' = from /\ vault' = vault
      BY <1>4 DEF SyncEnds, promise!End
    <3>2. from \in 0..vault /\ vault \in Nat
      BY <1>0 DEF Types
    <3>3. busy' \in BOOLEAN
      BY <3>1
    <3>4. from' \in 0..vault' /\ seen' \in 0..from'
      BY <3>1, <3>2
    <3> QED BY <3>3, <3>4
  <2> QED BY <1>1, <2>7, <2>8
<1>5. CASE UNCHANGED allVars \/ (Idle /\ UNCHANGED syncVars)
  <2>1. UNCHANGED <<vars, syncVars>>
    BY <1>5 DEF Idle, allVars
  <2>2. Types'
    BY <1>0, <2>1 DEF Types, vars, fileVars, cellVars, clientVars, eventVars,
       MaxRequests, MaxEdits, MaxSyncs, MaxRestarts
  <2> QED BY <1>1, <2>1, <2>2 DEF syncVars, vars, fileVars
<1> QED BY <1>2, <1>3, <1>4, <1>5 DEF ServerNext

(* A server starts within its types. *)
LEMMA ServerTypesInit == ServerInit => ServerTypeOK
<1> SUFFICES ASSUME ServerInit PROVE ServerTypeOK
  OBVIOUS
<1>1. Types /\ TypeOK
  BY TypesInit, TypesAreTypeOK DEF ServerInit
<1>2. busy = FALSE /\ from = 0 /\ seen = 0 /\ vault \in Nat
  BY <1>1 DEF ServerInit, Types
<1>3. busy \in BOOLEAN
  BY <1>2
<1>4. from \in 0..vault /\ seen \in 0..from
  BY <1>2
<1> QED BY <1>1, <1>3, <1>4 DEF ServerTypeOK

(* Every index served or opened is a scan of a version the vault has had,  *)
(* or of a database that has been made; and every variable has its type.   *)
THEOREM ServerTypeCorrect == ServerSpec => []ServerTypeOK
<1>1. ServerInit => ServerTypeOK
  BY ServerTypesInit
<1>2. ServerTypeOK /\ [ServerNext]_allVars => ServerTypeOK'
  BY ServerTypesStep
<1> QED BY <1>1, <1>2, PTL DEF ServerSpec

-----------------------------------------------------------------------------
(* The invariant holds                                                     *)

(* A run of org-roam-db-sync, the user's or the synchroniser's. *)
Reflected ==
  /\ \E version \in 0..vault : Reflect(version)
  /\ UNCHANGED <<server, vault, cell, opened, building, pc>>

(* The steps of a server: its synchroniser's are those of any other run, or *)
(* change nothing that the index cell knows of.                            *)
LEMMA ServerSteps ==
  ASSUME ServerTypeOK, [ServerNext]_allVars
  PROVE  \/ \E c \in Clients : Write(c) \/ Rebuild(c) \/ Create(c) \/ Serve(c)
         \/ StartWatch \/ Drain \/ Open(Watcher) \/ Edit \/ Reflected \/ Restart
         \/ UNCHANGED vars
<1>0. Types /\ from \in 0..vault
  BY TypesAreTypeOK DEF ServerTypeOK
<1>1. CASE Step
  <2>1. CASE DbSync
    <3>1. vault \in 0..vault
      BY <1>0 DEF Types
    <3>2. Reflected
      BY <2>1, <3>1 DEF DbSync, Reflected, cellVars, clientVars
    <3> QED BY <3>2
  <2> QED BY <1>1, <2>1 DEF Step, Watch
<1>2. CASE SyncBegins
  BY <1>2 DEF SyncBegins
<1>3. CASE SyncEnds
  <2>1. PICK version \in from..vault : Reflect(version)
    BY <1>3 DEF SyncEnds
  <2>2. version \in 0..vault
    BY <1>0 DEF Types
  <2>3. Reflected
    BY <1>3, <2>1, <2>2 DEF SyncEnds, Reflected, cellVars, clientVars
  <2> QED BY <2>3
<1>4. CASE Idle \/ UNCHANGED allVars
  BY <1>4 DEF Idle, allVars
<1> QED BY <1>1, <1>2, <1>3, <1>4 DEF ServerNext

(* How a server is configured and used does not change. *)
LEMMA ServerFixed ==
  ASSUME ServerTypeOK, [ServerNext]_allVars
  PROVE  server' = server
BY ServerSteps DEF Serve, Open, Pick, OpenScan, OpenSql, Swap, Write, Refresh, Rebuild,
   Create, LookExists, Walk, Build, LookAside, SetAside, Install, StartWatch, Drain,
   Edit, Reflected, Restart, fileVars, vars

(* A session is not the watcher. *)
LEMMA WatcherApart ==
  /\ Watcher \in Openers
  /\ \A c \in Clients : c \in Openers /\ c # Watcher
BY IndexCellAssumption DEF Openers

(* Everybody goes through the steps of what he is doing. *)
LEMMA PlacesStep ==
  ASSUME Inv, [ServerNext]_allVars
  PROVE  Places'
<1> USE DEF Places, Goto
<1>0. Types /\ Places
  BY TypesAreTypeOK DEF Inv, ServerTypeOK
<1>1. /\ pc \in [Openers -> Labels] /\ building \in [Clients -> 0..made]
      /\ made \in Nat
  BY <1>0, IndexCellAssumption DEF Types
<1>2. ASSUME NEW o \in Openers, Open(o) PROVE Places'
  <2>1. /\ building' = building
        /\ \E l \in {"scan", "opensql", "swap", "idle"} : pc' = [pc EXCEPT ![o] = l]
    BY <1>2 DEF Open, Pick, OpenScan, OpenSql, Swap, clientVars
  <2> QED BY <1>0, <1>1, <2>1, WatcherApart
<1>3. ASSUME NEW c \in Clients, Write(c) \/ Rebuild(c) \/ Create(c) \/ Serve(c)
      PROVE  Places'
  <2>1. CASE Open(c)
    BY <1>2, <2>1, WatcherApart
  <2>2. CASE Walk(c)
    <3>1. /\ building' = [building EXCEPT ![c] = made + 1]
          /\ pc' = [pc EXCEPT ![c] = "build"]
      BY <2>2 DEF Walk
    <3> QED BY <1>0, <1>1, <3>1, WatcherApart
  <2>3. CASE Write(c) \/ Rebuild(c) \/ Create(c) \/ Refresh(c) \/ LookExists(c)
             \/ Install(c)
    <3>1. /\ building' = building
          /\ \E l \in {"refresh", "scan", "exists", "idle", "pick", "walk"} :
               pc' = [pc EXCEPT ![c] = l]
      BY <2>3 DEF Write, Rebuild, Create, Refresh, LookExists, Install, clientVars
    <3> QED BY <1>0, <1>1, <3>1, WatcherApart
  <2>4. CASE Build(c) \/ LookAside(c) \/ SetAside(c)
    <3>1. /\ building' = building /\ pc[c] \in {"build", "lookaside", "setaside"}
          /\ \E l \in {"lookaside", "idle", "setaside", "install"} :
               pc' = [pc EXCEPT ![c] = l]
      BY <2>4 DEF Build, LookAside, SetAside, clientVars
    <3> QED BY <1>0, <1>1, <3>1, WatcherApart
  <2> QED BY <1>3, <2>1, <2>2, <2>3, <2>4 DEF Serve
<1>4. CASE StartWatch \/ Drain
  <2>1. /\ building' = building
        /\ \E l \in {"pick", "idle"} : pc' = [pc EXCEPT ![Watcher] = l]
    BY <1>4 DEF StartWatch, Drain, clientVars
  <2> QED BY <1>0, <1>1, <2>1, WatcherApart
<1>5. CASE Edit \/ Reflected \/ UNCHANGED vars
  <2>1. pc' = pc /\ building' = building
    BY <1>5 DEF Edit, Reflected, vars, clientVars
  <2> QED BY <1>0, <2>1
<1>6. CASE Restart
  BY <1>6, WatcherApart DEF Restart, Started
<1> QED BY <1>2, <1>3, <1>4, <1>5, <1>6, ServerSteps, WatcherApart DEF Inv

(* A change of a watched kind is noticed, or missed by a watcher that has  *)
(* yet to come up; nothing that was noticed or missed is forgotten.        *)
LEMMA NoticeKeeps ==
  ASSUME NEW kind, Notice(kind), kind = "org" \/ DbWatched
  PROVE  /\ events \subseteq events' /\ events \cup missed \subseteq events' \cup missed'
         /\ kind \in events' \cup missed'
         /\ pc[Watcher] # "boot" => kind \in events'
BY DEF Notice

(* A database is on its way to the readers after every step of a server    *)
(* whose databases one session makes.                                      *)
LEMMA DbComingStep ==
  ASSUME Inv, [ServerNext]_allVars
  PROVE  DbComing'
<1>0. Types /\ Places
  BY TypesAreTypeOK DEF Inv, ServerTypeOK
<1>1. server' = server
  BY ServerFixed DEF Inv
<1> SUFFICES ASSUME OneMaker, ~ NoDb PROVE DbOnItsWay'
  BY <1>1 DEF DbComing, OneMaker, NoDb, DbWatched, Requests
<1>2. DbOnItsWay /\ DbWatched /\ (\A c, d \in Clients : c = d)
  BY DEF Inv, DbComing, OneMaker, OneClient
<1>3. pc \in [Openers -> Labels] /\ opened \in [Openers -> Index]
  BY <1>0 DEF Types
<1>4. "write" \notin Requests /\ "rebuild" \notin Requests
  BY DEF OneMaker
<1>5. ASSUME UNCHANGED <<db, cell, opened, pc, eventVars>> PROVE DbOnItsWay'
  BY <1>2, <1>5 DEF DbOnItsWay, eventVars, Sql
<1>6. ASSUME NEW o \in Openers, Pick(o) PROVE DbOnItsWay'
  BY <1>2, <1>3, <1>6, WatcherApart
     DEF DbOnItsWay, Pick, Goto, HasDb, Sql, fileVars, cellVars, eventVars
<1>7. ASSUME NEW o \in Openers, OpenScan(o) PROVE DbOnItsWay'
  BY <1>2, <1>3, <1>7, WatcherApart
     DEF DbOnItsWay, OpenScan, Goto, Sql, fileVars, eventVars
<1>8. ASSUME NEW o \in Openers, OpenSql(o) PROVE DbOnItsWay'
  BY <1>2, <1>3, <1>8, WatcherApart
     DEF DbOnItsWay, OpenSql, Goto, Sql, fileVars, eventVars
<1>9. ASSUME NEW o \in Openers, Swap(o) PROVE DbOnItsWay'
  <2>1. /\ pc[o] = "swap" /\ pc' = [pc EXCEPT ![o] = "idle"] /\ cell' = opened[o]
        /\ UNCHANGED <<db, opened, events, missed>>
    BY <1>9 DEF Swap, Goto, fileVars, eventVars
  <2>2. CASE o = Watcher
    BY <1>2, <1>3, <2>1, <2>2, WatcherApart DEF DbOnItsWay, Sql
  <2>3. CASE o \in Clients
    <3>1. cell' = Sql(db)'
      BY <1>2, <2>1, <2>3 DEF DbOnItsWay, Sql
    <3> QED BY <1>2, <1>3, <2>1, <2>3, <3>1, WatcherApart DEF DbOnItsWay, Sql
  <2> QED BY <2>2, <2>3 DEF Openers
<1>10. ASSUME NEW c \in Clients, Create(c) \/ LookExists(c) \/ Walk(c) \/ Build(c)
                                   \/ LookAside(c)
       PROVE  DbOnItsWay'
  <2>1. /\ UNCHANGED <<db, cell, opened, events, missed>>
        /\ \E l \in {"exists", "idle", "walk", "build", "lookaside", "setaside", "install"} :
             pc' = [pc EXCEPT ![c] = l]
    BY <1>10 DEF Create, LookExists, Walk, Build, LookAside, Goto, fileVars, cellVars,
       eventVars
  <2> QED BY <1>2, <1>3, <2>1, WatcherApart DEF DbOnItsWay, Sql
<1>11. ASSUME NEW c \in Clients, SetAside(c) PROVE DbOnItsWay'
  <2>1. CASE db = 0
    BY <1>2, <1>3, <1>11, <2>1, WatcherApart
       DEF DbOnItsWay, SetAside, Goto, Sql, cellVars, eventVars
  <2>2. CASE db # 0
    <3>1. db' = 0 /\ pc' = [pc EXCEPT ![c] = "install"]
      BY <1>11, <2>2 DEF SetAside, Goto
    <3>2. \A d \in Clients : pc'[d] = "install"
      BY <1>2, <1>3, <3>1, WatcherApart
    <3> QED BY <3>1, <3>2 DEF DbOnItsWay
  <2> QED BY <2>1, <2>2
<1>12. ASSUME NEW c \in Clients, Install(c) PROVE DbOnItsWay'
  <2>1. /\ pc' = [pc EXCEPT ![c] = "pick"] /\ db' = building[c] /\ building[c] # 0
        /\ cell' = cell /\ opened' = opened
    BY <1>0, <1>12 DEF Install, Goto, Places, cellVars
  <2>2. \A d \in Clients : pc'[d] = "pick"
    BY <1>2, <1>3, <2>1, WatcherApart
  <2>3. pc'[Watcher] = pc[Watcher]
    BY <1>3, <2>1, WatcherApart
  <2>4. "db" \in events' \cup missed' /\ (pc[Watcher] # "boot" => "db" \in events')
    BY <1>2, <1>12, NoticeKeeps DEF Install
  <2> QED BY <2>1, <2>2, <2>3, <2>4 DEF DbOnItsWay
<1>13. ASSUME NEW c \in Clients, Write(c) \/ Rebuild(c) \/ Refresh(c) PROVE FALSE
  BY <1>2, <1>4, <1>13 DEF Write, Rebuild, Refresh, Ask, DbOnItsWay
<1>14. CASE StartWatch
  BY <1>2, <1>3, <1>14, WatcherApart
     DEF DbOnItsWay, StartWatch, Goto, Sql, fileVars, cellVars, eventVars
<1>15. CASE Drain
  BY <1>2, <1>3, <1>15, WatcherApart
     DEF DbOnItsWay, Drain, NeedsReload, Goto, Sql, fileVars, cellVars
<1>16. CASE Edit
  <2>1. UNCHANGED <<db, cell, opened, pc>>
    BY <1>16 DEF Edit, cellVars
  <2>2. events \subseteq events' /\ events \cup missed \subseteq events' \cup missed'
    BY <1>16, NoticeKeeps DEF Edit
  <2> QED BY <1>2, <2>1, <2>2 DEF DbOnItsWay, Sql
<1>17. CASE Reflected
  <2>1. UNCHANGED <<cell, opened, pc>>
    BY <1>17 DEF Reflected
  <2>2. PICK version \in 0..vault : Reflect(version)
    BY <1>17 DEF Reflected
  <2>3. db' # 0
    BY <1>0, <2>2, ReflectTypes
  <2>4. CASE UNCHANGED <<db, eventVars>>
    BY <1>5, <2>1, <2>4
  <2>5. CASE Notice("db")
    <3>1. "db" \in events' \cup missed' /\ (pc[Watcher] # "boot" => "db" \in events')
      BY <1>2, <2>5, NoticeKeeps
    <3>2. db # 0 => db' = db
      BY <2>2 DEF Reflect
    <3> QED BY <1>2, <2>1, <2>3, <3>1, <3>2 DEF DbOnItsWay
  <2> QED BY <2>2, <2>4, <2>5 DEF Reflect
<1>18. CASE Restart
  <2>1. cell' = (IF db # 0 THEN Sql(db) ELSE Scan) /\ db' = db
    BY <1>18 DEF Restart, HasDb
  <2>2. \A o \in Openers : pc'[o] = (IF o = Watcher THEN "boot" ELSE "idle")
    BY <1>18 DEF Restart, Started
  <2> QED BY <2>1, <2>2, WatcherApart DEF DbOnItsWay, Sql
<1>19. CASE UNCHANGED vars
  BY <1>5, <1>19 DEF vars, fileVars, cellVars
<1> QED BY <1>6, <1>7, <1>8, <1>9, <1>10, <1>11, <1>12, <1>13, <1>14, <1>15, <1>16,
           <1>17, <1>18, <1>19, ServerSteps, WatcherApart DEF Inv, Serve, Open

(* A change of one kind leaves the events of the other as they are. *)
LEMMA NoticeKeepsOther ==
  ASSUME NEW kind, NEW other, other # kind, Notice(kind)
  PROVE  /\ other \in events => other \in events'
         /\ other \in missed => other \in missed'
BY DEF Notice

(* A scan is on its way to the readers after every step of a server that   *)
(* has no database and is changed from one side.                           *)
LEMMA ScanComingStep ==
  ASSUME Inv, [ServerNext]_allVars
  PROVE  ScanComing'
<1>0. Types
  BY TypesAreTypeOK DEF Inv, ServerTypeOK
<1>1. server' = server
  BY ServerFixed DEF Inv
<1> SUFFICES ASSUME OneSided PROVE ScanOnItsWay'
  BY <1>1 DEF ScanComing, OneSided, NoDb, Requests, MaxEdits
<1>2. ScanOnItsWay /\ Requests' = Requests
  BY <1>1 DEF Inv, ScanComing, Requests
<1>3. /\ pc \in [Openers -> Labels] /\ opened \in [Openers -> Index] /\ vault \in Nat
      /\ \A o \in Openers : pc[o] # "opensql"
      /\ ~ HasDb
  BY <1>0, <1>2 DEF Types, ScanOnItsWay, OneSided, HasDb
<1>4. ASSUME Requests # {} PROVE MaxEdits = 0 /\ \A c, d \in Clients : c = d
  BY <1>4 DEF OneSided, OneClient
<1>5. ASSUME UNCHANGED <<vault, cell, opened, pc>>,
             "org" \in events => "org" \in events', "org" \in missed => "org" \in missed'
      PROVE  ScanOnItsWay'
  BY <1>2, <1>5 DEF ScanOnItsWay, Scan
<1>6. ASSUME NEW o \in Openers, Pick(o) PROVE ScanOnItsWay'
  BY <1>2, <1>3, <1>6, WatcherApart
     DEF ScanOnItsWay, Pick, Goto, Scan, fileVars, cellVars, eventVars
<1>7. ASSUME NEW o \in Openers, OpenScan(o) PROVE ScanOnItsWay'
  BY <1>2, <1>3, <1>7, WatcherApart
     DEF ScanOnItsWay, OpenScan, Goto, Scan, fileVars, eventVars
<1>8. ASSUME NEW o \in Openers, OpenSql(o) PROVE FALSE
  BY <1>3, <1>8 DEF OpenSql
<1>9. ASSUME NEW o \in Openers, Swap(o) PROVE ScanOnItsWay'
  <2>1. /\ pc[o] = "swap" /\ pc' = [pc EXCEPT ![o] = "idle"] /\ cell' = opened[o]
        /\ UNCHANGED <<vault, opened, events, missed>>
    BY <1>9 DEF Swap, Goto, fileVars, eventVars
  <2>2. CASE o = Watcher
    BY <1>2, <1>3, <2>1, <2>2, WatcherApart DEF ScanOnItsWay, Scan
  <2>3. CASE o \in Clients
    <3>1. cell' = Scan' /\ cell'.kind = "scan"
      BY <1>2, <2>1, <2>3 DEF ScanOnItsWay, Scan
    <3> QED BY <1>2, <1>3, <2>1, <2>3, <3>1, WatcherApart DEF ScanOnItsWay, Scan
  <2> QED BY <2>2, <2>3 DEF Openers
<1>10. ASSUME NEW c \in Clients, Write(c) PROVE ScanOnItsWay'
  <2>1. /\ Requests # {} /\ pc' = [pc EXCEPT ![c] = "refresh"]
        /\ vault' = vault + 1 /\ UNCHANGED <<cell, opened>>
    BY <1>10 DEF Write, Ask, Goto, cellVars
  <2>2. \A d \in Clients : pc'[d] = "refresh"
    BY <1>3, <1>4, <2>1, WatcherApart
  <2>3. pc'[Watcher] = pc[Watcher]
    BY <1>3, <2>1, WatcherApart
  <2>4. "org" \in events' \cup missed' /\ (pc[Watcher] # "boot" => "org" \in events')
    BY <1>10, NoticeKeeps DEF Write
  <2>5. \A o \in Openers : pc'[o] # "opensql"
    BY <1>3, <2>2, <2>3 DEF Openers
  <2> QED BY <1>2, <2>1, <2>2, <2>3, <2>4, <2>5 DEF ScanOnItsWay
<1>11. ASSUME NEW c \in Clients,
              \/ Refresh(c) \/ Rebuild(c) \/ Create(c) \/ LookExists(c) \/ Walk(c)
              \/ Build(c) \/ LookAside(c) \/ SetAside(c) \/ Install(c)
       PROVE  ScanOnItsWay'
  <2>1. /\ UNCHANGED <<vault, cell, opened>>
        /\ \E l \in Labels \ {"opensql", "swap"} : pc' = [pc EXCEPT ![c] = l]
    BY <1>3, <1>11 DEF Refresh, Rebuild, Create, LookExists, Walk, Build, LookAside,
       SetAside, Install, Goto, Labels, fileVars, cellVars
  <2>2. Requests # {}
    BY <1>2, <1>11 DEF ScanOnItsWay, Refresh, Rebuild, Create, Ask, LookExists, Walk,
       Build, LookAside, SetAside, Install
  <2>3. UNCHANGED eventVars \/ Notice("db")
    BY <1>11 DEF Refresh, Rebuild, Create, LookExists, Walk, Build, LookAside,
       SetAside, Install
  <2>4. /\ "org" \in events => "org" \in events'
        /\ "org" \in missed => "org" \in missed'
    <3>1. CASE UNCHANGED eventVars
      BY <3>1 DEF eventVars
    <3>2. CASE Notice("db")
      BY <3>2, NoticeKeepsOther
    <3> QED BY <2>3, <3>1, <3>2
  <2>5. \A o \in Openers : pc'[o] # "opensql"
    BY <1>3, <2>1
  <2>6. pc'[Watcher] = pc[Watcher] /\ pc'[c] # "swap"
        /\ \A d \in Clients \ {c} : pc'[d] = pc[d]
    BY <1>3, <2>1, WatcherApart
  <2> QED BY <1>2, <2>1, <2>2, <2>4, <2>5, <2>6 DEF ScanOnItsWay, Scan
<1>12. CASE StartWatch
  BY <1>2, <1>3, <1>12, WatcherApart
     DEF ScanOnItsWay, StartWatch, Goto, Scan, fileVars, cellVars, eventVars
<1>13. CASE Drain
  BY <1>2, <1>3, <1>13, WatcherApart
     DEF ScanOnItsWay, Drain, NeedsReload, Goto, Scan, fileVars, cellVars
<1>14. CASE Edit
  <2>1. Requests = {}
    BY <1>0, <1>4, <1>14, ServerBounds DEF Edit, Types
  <2>2. \A c \in Clients : pc[c] = "idle"
    BY <1>2, <2>1 DEF ScanOnItsWay
  <2>3. UNCHANGED <<cell, opened, pc>>
    BY <1>14 DEF Edit, cellVars
  <2>4. "org" \in events' \cup missed' /\ (pc[Watcher] # "boot" => "org" \in events')
    BY <1>14, NoticeKeeps DEF Edit
  <2> QED BY <1>2, <2>2, <2>3, <2>4 DEF ScanOnItsWay
<1>15. CASE Reflected
  <2>1. UNCHANGED <<vault, cell, opened, pc>>
    BY <1>15 DEF Reflected
  <2>2. UNCHANGED eventVars \/ Notice("db")
    BY <1>15 DEF Reflected, Reflect
  <2>3. CASE UNCHANGED eventVars
    BY <1>5, <2>1, <2>3 DEF eventVars
  <2>4. CASE Notice("db")
    <3>1. /\ "org" \in events => "org" \in events'
          /\ "org" \in missed => "org" \in missed'
      BY <2>4, NoticeKeepsOther
    <3> QED BY <1>5, <2>1, <3>1
  <2> QED BY <2>2, <2>3, <2>4
<1>16. CASE Restart
  <2>1. /\ cell' = Scan /\ vault' = vault /\ opened' = [o \in Openers |-> Scan]
        /\ pc' = [o \in Openers |-> IF o = Watcher THEN "boot" ELSE "idle"]
    BY <1>3, <1>16 DEF Restart, Started
  <2> QED BY <1>2, <2>1, WatcherApart DEF ScanOnItsWay, Scan
<1>17. CASE UNCHANGED vars
  BY <1>5, <1>17 DEF vars, fileVars, cellVars, eventVars
<1> QED BY <1>6, <1>7, <1>8, <1>9, <1>10, <1>11, <1>12, <1>13, <1>14, <1>15, <1>16,
           <1>17, ServerSteps, WatcherApart DEF Inv, Serve, Open

(* No session of such a server replaces the database. *)
LEMMA NobodyCreates ==
  ASSUME OneWriter, SyncOnItsWay, NEW c \in Clients,
         \/ Create(c) \/ LookExists(c) \/ Walk(c) \/ Build(c) \/ LookAside(c)
         \/ SetAside(c) \/ Install(c)
  PROVE  FALSE
BY DEF OneWriter, SyncOnItsWay, Create, Ask, LookExists, Walk, Build, LookAside,
   SetAside, Install

(* After a run of org-roam-db-sync, the database is the one that was there, *)
(* or the first, and it holds the version that the run has read.           *)
LEMMA ReflectHolds ==
  ASSUME Types, NEW version \in 0..vault, Reflect(version)
  PROVE  /\ db' # 0 /\ db' \in Dbs /\ holds'[db'] = version
         /\ db # 0 => db' = db
         /\ Notice("db") \/ UNCHANGED <<db, holds, eventVars>>
<1>1. db' \in 1..made' /\ made' \in 0..MaxDbs
  BY ReflectTypes
<1>2. db' # 0 /\ db' \in Dbs
  BY <1>1, IndexCellAssumption DEF Dbs
<1>3. holds \in [Dbs -> Nat]
  BY DEF Types
<1>4. holds' = [holds EXCEPT ![db'] = version] /\ (db # 0 => db' = db)
  BY DEF Reflect
<1> QED BY <1>2, <1>3, <1>4 DEF Reflect

(* The database holds what has been synchronised, after every step. *)
LEMMA SeenIsHeld ==
  ASSUME Inv, [ServerNext]_allVars, OneWriter
  PROVE  seen' <= IF db' = 0 THEN 0 ELSE holds'[db']
<1>0. Types /\ from \in 0..vault /\ seen \in 0..from
  BY TypesAreTypeOK DEF Inv, ServerTypeOK
<1>1. SyncOnItsWay
  BY DEF Inv, SyncComing
<1>2. ASSUME UNCHANGED <<db, holds, seen>>
      PROVE  seen' <= IF db' = 0 THEN 0 ELSE holds'[db']
  BY <1>1, <1>2 DEF SyncOnItsWay
<1>3. ASSUME NEW version \in from..vault, Reflect(version), seen' \in {seen, from}
      PROVE  seen' <= IF db' = 0 THEN 0 ELSE holds'[db']
  <2>1. version \in 0..vault
    BY <1>0 DEF Types
  <2>2. db' # 0 /\ holds'[db'] = version
    BY <1>0, <1>3, <2>1, ReflectHolds
  <2>3. seen' <= version
    BY <1>0, <1>3 DEF Types
  <2> QED BY <2>2, <2>3
<1>4. CASE Step /\ UNCHANGED syncVars
  <2>1. seen' = seen
    BY <1>4 DEF syncVars
  <2>2. CASE DbSync
    <3>1. vault \in from..vault /\ Reflect(vault)
      BY <1>0, <2>2 DEF Types, DbSync
    <3> QED BY <1>3, <2>1, <3>1
  <2>3. CASE ~ DbSync
    <3>1. UNCHANGED <<db, holds>>
      BY <1>1, <1>4, <2>3, NobodyCreates DEF Step, Watch, Serve, Open, Pick, OpenScan,
         OpenSql, Swap, Write, Refresh, Rebuild, StartWatch, Drain, Edit, Restart, fileVars
    <3> QED BY <1>2, <2>1, <3>1
  <2> QED BY <2>2, <2>3
<1>5. CASE SyncBegins
  BY <1>2, <1>5 DEF SyncBegins, promise!Begin, vars, fileVars
<1>6. CASE SyncEnds
  BY <1>3, <1>6 DEF SyncEnds, promise!End
<1>7. CASE UNCHANGED allVars \/ (Idle /\ UNCHANGED syncVars)
  BY <1>2, <1>7 DEF Idle, allVars, vars, fileVars, syncVars
<1> QED BY <1>4, <1>5, <1>6, <1>7 DEF ServerNext

(* What has been synchronised is on its way to the readers after every     *)
(* step of a server with one session that writes.                          *)
LEMMA SyncComingStep ==
  ASSUME Inv, [ServerNext]_allVars
  PROVE  SyncComing'
<1>0. Types
  BY TypesAreTypeOK DEF Inv, ServerTypeOK
<1>1. server' = server
  BY ServerFixed DEF Inv
<1> SUFFICES ASSUME OneWriter PROVE SyncOnItsWay'
  BY <1>1 DEF SyncComing, OneWriter, Synced, NoDb, DbWatched, Requests
<1>2. SyncOnItsWay /\ DbWatched /\ ~ NoDb /\ (\A c, d \in Clients : c = d)
  BY DEF Inv, SyncComing, OneWriter, OneClient
<1>3. /\ pc \in [Openers -> Labels] /\ opened \in [Openers -> Index]
      /\ cell \in Index /\ vault \in Nat /\ holds \in [Dbs -> Nat]
      /\ \A d \in Dbs : holds[d] <= vault
  BY <1>0 DEF Types, Bounded
<1>4. seen' <= IF db' = 0 THEN 0 ELSE holds'[db']
  BY SeenIsHeld
<1>5. ASSUME UNCHANGED <<db, holds, vault, cell, opened, pc, eventVars>>
      PROVE  SyncOnItsWay'
  BY <1>2, <1>4, <1>5 DEF SyncOnItsWay, eventVars, Sql, Scan
<1>6. ASSUME NEW o \in Openers, Pick(o) PROVE SyncOnItsWay'
  BY <1>2, <1>3, <1>4, <1>6, WatcherApart
     DEF SyncOnItsWay, Pick, Goto, HasDb, Sql, Scan, fileVars, cellVars, eventVars
<1>7. ASSUME NEW o \in Openers, OpenScan(o) PROVE SyncOnItsWay'
  BY <1>2, <1>3, <1>4, <1>7, WatcherApart
     DEF SyncOnItsWay, OpenScan, Goto, Sql, Scan, fileVars, eventVars
<1>8. ASSUME NEW o \in Openers, OpenSql(o) PROVE SyncOnItsWay'
  BY <1>2, <1>3, <1>4, <1>8, WatcherApart
     DEF SyncOnItsWay, OpenSql, Goto, Sql, Scan, fileVars, eventVars
<1>9. ASSUME NEW o \in Openers, Swap(o) PROVE SyncOnItsWay'
  <2>1. /\ pc[o] = "swap" /\ pc' = [pc EXCEPT ![o] = "idle"] /\ cell' = opened[o]
        /\ UNCHANGED <<db, holds, vault, opened, events, missed>>
    BY <1>9 DEF Swap, Goto, fileVars, eventVars
  <2>2. CASE o = Watcher
    BY <1>2, <1>3, <1>4, <2>1, <2>2, WatcherApart DEF SyncOnItsWay, Sql, Scan
  <2>3. CASE o \in Clients
    <3>1. cell' = Sql(db)' \/ cell' = Scan'
      BY <1>2, <1>3, <2>1, <2>3 DEF SyncOnItsWay, Sql, Scan, Index
    <3> QED BY <1>2, <1>3, <1>4, <2>1, <2>3, <3>1, WatcherApart
            DEF SyncOnItsWay, Sql, Scan
  <2> QED BY <2>2, <2>3 DEF Openers
<1>10. ASSUME NEW c \in Clients, Write(c) PROVE SyncOnItsWay'
  <2>1. /\ pc' = [pc EXCEPT ![c] = "refresh"]
        /\ vault' = vault + 1 /\ UNCHANGED <<db, holds, cell, opened>>
    BY <1>10 DEF Write, Goto, cellVars
  <2>2. \A d \in Clients : pc'[d] = "refresh"
    BY <1>2, <1>3, <2>1, WatcherApart
  <2>3. pc'[Watcher] = pc[Watcher]
    BY <1>3, <2>1, WatcherApart
  <2>4. db # 0 => holds'[db'] # vault'
    <3>1. db # 0 => db \in Dbs
      BY <1>0, IndexCellAssumption DEF Types, Dbs
    <3> QED BY <1>3, <2>1, <3>1
  <2>5. events \subseteq events'
    BY <1>10, NoticeKeeps DEF Write
  <2> QED BY <1>2, <1>4, <2>1, <2>2, <2>3, <2>4, <2>5 DEF SyncOnItsWay, Sql
<1>11. ASSUME NEW c \in Clients, Refresh(c) \/ Rebuild(c) PROVE SyncOnItsWay'
  <2>1. /\ UNCHANGED <<db, holds, vault, cell, opened, events, missed>>
        /\ \E l \in {"idle", "pick", "scan"} : pc' = [pc EXCEPT ![c] = l]
    BY <1>11 DEF Refresh, Rebuild, Goto, fileVars, cellVars, eventVars
  <2> QED BY <1>2, <1>3, <1>4, <2>1, WatcherApart DEF SyncOnItsWay, Sql, Scan
<1>12. CASE StartWatch
  BY <1>2, <1>3, <1>4, <1>12, WatcherApart
     DEF SyncOnItsWay, StartWatch, Goto, Sql, Scan, fileVars, cellVars, eventVars
<1>13. CASE Drain
  BY <1>2, <1>3, <1>4, <1>13, WatcherApart
     DEF SyncOnItsWay, Drain, NeedsReload, Goto, Sql, Scan, fileVars, cellVars
<1>14. CASE Edit \/ Restart
  BY <1>0, <1>14, ServerAssumption, ServerBounds
     DEF Edit, Restart, Types, OneWriter, Synced, MaxEdits, MaxRestarts
<1>15. CASE Reflected
  <2>1. UNCHANGED <<vault, cell, opened, pc>>
    BY <1>15 DEF Reflected
  <2>2. PICK version \in 0..vault : Reflect(version)
    BY <1>15 DEF Reflected
  <2>3. /\ db' # 0 /\ db # 0 => db' = db
        /\ Notice("db") \/ UNCHANGED <<db, holds, eventVars>>
    BY <1>0, <2>2, ReflectHolds
  <2>4. CASE UNCHANGED <<db, holds, eventVars>>
    BY <1>5, <2>1, <2>4
  <2>5. CASE Notice("db")
    <3>1. "db" \in events' \cup missed' /\ (pc[Watcher] # "boot" => "db" \in events')
      BY <1>2, <2>5, NoticeKeeps
    <3>2. db' # 0 /\ (db # 0 => Sql(db)' = Sql(db))
      BY <1>0, <2>2, ReflectHolds DEF Sql
    <3> QED BY <1>2, <1>4, <2>1, <3>1, <3>2 DEF SyncOnItsWay, Scan
  <2> QED BY <2>3, <2>4, <2>5
<1>16. CASE UNCHANGED vars
  BY <1>5, <1>16 DEF vars, fileVars, cellVars
<1> QED BY <1>2, <1>6, <1>7, <1>8, <1>9, <1>10, <1>11, <1>12, <1>13, <1>14, <1>15,
           <1>16, ServerSteps, WatcherApart, NobodyCreates DEF Inv, Serve, Open

(* Reads stay on the first database after every step of a server whose      *)
(* sessions only write and whose watcher does not see the database.        *)
LEMMA InPlaceStep ==
  ASSUME Inv, [ServerNext]_allVars
  PROVE  InPlace'
<1>0. Types /\ from \in 0..vault /\ seen \in 0..from
  BY TypesAreTypeOK DEF Inv, ServerTypeOK
<1>1. server' = server
  BY ServerFixed DEF Inv
<1> SUFFICES ASSUME Unwatched PROVE StaysOnFirst'
  BY <1>1 DEF InPlace, Unwatched, Synced, NoDb, DbWatched, Requests
<1>2. /\ StaysOnFirst /\ HasDb /\ ~ DbWatched /\ Requests \subseteq {"write"}
      /\ pc \in [Openers -> Labels] /\ holds \in [Dbs -> Nat] /\ 1 \in Dbs
  BY <1>0, IndexCellAssumption DEF Inv, InPlace, Unwatched, StaysOnFirst, HasDb, Types, Dbs
<1>3. ASSUME UNCHANGED <<db, holds, cell, seen>>,
             \A o \in Openers : pc'[o] \in {pc[o], "idle", "refresh"},
             "db" \notin events'
      PROVE  StaysOnFirst'
  BY <1>2, <1>3 DEF StaysOnFirst, Sql
<1>4. ASSUME NEW version \in from..vault, Reflect(version), seen' \in {seen, from},
             UNCHANGED <<cell, pc>>
      PROVE  StaysOnFirst'
  <2>1. version \in 0..vault /\ seen' <= version
    BY <1>0, <1>4 DEF Types
  <2>2. db' = 1 /\ holds'[1] = version
    BY <1>0, <1>2, <1>4, <2>1, ReflectHolds DEF StaysOnFirst
  <2>3. events' = events
    BY <1>0, <1>2, <1>4, <2>1, ReflectHolds DEF Notice, eventVars
  <2> QED BY <1>2, <1>4, <2>1, <2>2, <2>3 DEF StaysOnFirst, Sql
<1>5. CASE Step /\ UNCHANGED syncVars
  <2>1. seen' = seen
    BY <1>5 DEF syncVars
  <2>2. ASSUME NEW o \in Openers, Open(o) PROVE FALSE
    BY <1>2, <2>2 DEF StaysOnFirst, Open, Pick, OpenScan, OpenSql, Swap
  <2>3. ASSUME NEW c \in Clients,
               \/ Rebuild(c) \/ Create(c) \/ LookExists(c) \/ Walk(c) \/ Build(c)
               \/ LookAside(c) \/ SetAside(c) \/ Install(c)
        PROVE  FALSE
    BY <1>2, <2>3, WatcherApart
       DEF StaysOnFirst, Rebuild, Create, Ask, LookExists, Walk, Build, LookAside,
           SetAside, Install
  <2>4. ASSUME NEW c \in Clients, Write(c) PROVE StaysOnFirst'
    <3>1. /\ UNCHANGED <<db, holds, cell>> /\ pc' = [pc EXCEPT ![c] = "refresh"]
          /\ events' \subseteq events \cup {"org"}
      BY <2>4 DEF Write, Goto, Notice, cellVars
    <3> QED BY <1>2, <1>3, <2>1, <3>1 DEF StaysOnFirst
  <2>5. ASSUME NEW c \in Clients, Refresh(c) PROVE StaysOnFirst'
    <3>1. /\ UNCHANGED <<db, holds, cell, events>> /\ pc' = [pc EXCEPT ![c] = "idle"]
      BY <1>2, <2>5 DEF Refresh, Goto, fileVars, cellVars, eventVars
    <3> QED BY <1>2, <1>3, <2>1, <3>1 DEF StaysOnFirst
  <2>6. CASE StartWatch
    <3>1. /\ UNCHANGED <<db, holds, cell, events>> /\ pc' = [pc EXCEPT ![Watcher] = "idle"]
      BY <2>6 DEF StartWatch, Goto, fileVars, cellVars, eventVars
    <3> QED BY <1>2, <1>3, <2>1, <3>1 DEF StaysOnFirst
  <2>7. CASE Drain
    <3>1. ~ NeedsReload(events)
      BY <1>2 DEF NeedsReload, StaysOnFirst
    <3>2. /\ UNCHANGED <<db, holds, cell>> /\ pc' = [pc EXCEPT ![Watcher] = "idle"]
          /\ events' = {}
      BY <2>7, <3>1 DEF Drain, Goto, fileVars, cellVars
    <3> QED BY <1>2, <1>3, <2>1, <3>2
  <2>8. CASE Edit \/ Restart
    BY <1>0, <2>8, ServerAssumption, ServerBounds
       DEF Edit, Restart, Types, Unwatched, Synced, MaxEdits, MaxRestarts
  <2>9. CASE DbSync
    <3>1. vault \in from..vault /\ Reflect(vault) /\ UNCHANGED <<cell, pc>>
      BY <1>0, <2>9 DEF Types, DbSync, cellVars
    <3> QED BY <1>4, <2>1, <3>1
  <2> QED BY <1>5, <2>2, <2>3, <2>4, <2>5, <2>6, <2>7, <2>8, <2>9, WatcherApart
          DEF Step, Watch, Serve
<1>6. CASE SyncBegins
  BY <1>2, <1>3, <1>6
     DEF SyncBegins, promise!Begin, vars, fileVars, cellVars, eventVars, StaysOnFirst
<1>7. CASE SyncEnds
  BY <1>4, <1>7 DEF SyncEnds, promise!End, cellVars
<1>8. CASE UNCHANGED allVars \/ (Idle /\ UNCHANGED syncVars)
  BY <1>2, <1>3, <1>8
     DEF Idle, allVars, vars, fileVars, cellVars, eventVars, syncVars, StaysOnFirst
<1> QED BY <1>5, <1>6, <1>7, <1>8 DEF ServerNext

(* It all holds of a server that starts. *)
LEMMA InvInit == ServerInit => Inv
<1> SUFFICES ASSUME ServerInit PROVE Inv
  OBVIOUS
<1>1. ServerTypeOK
  BY ServerTypesInit
<1>2. \A o \in Openers : pc[o] = (IF o = Watcher THEN "boot" ELSE "idle")
  BY DEF ServerInit, Init, Started
<1>3. cell = (IF HasDb THEN Sql(db) ELSE Scan) /\ opened = [o \in Openers |-> Scan]
  BY DEF ServerInit, Init
<1>4. Places
  BY <1>2, WatcherApart DEF Places
<1>5. DbComing
  BY <1>2, <1>3, WatcherApart DEF DbComing, DbOnItsWay, HasDb
<1>6. ScanComing
  BY <1>2, <1>3, WatcherApart DEF ScanComing, ScanOnItsWay, OneSided, HasDb, Scan
<1>7. SyncComing
  <2>1. cell.kind = "sql" => db # 0 /\ cell = Sql(db)
    BY <1>3 DEF HasDb, Scan, Sql
  <2>2. \A o \in Openers : opened[o].kind = "scan"
    BY <1>3 DEF Scan
  <2>3. cell = Sql(db) \/ cell = Scan
    BY <1>3
  <2>4. seen <= IF db = 0 THEN 0 ELSE holds[db]
    <3>1. seen = 0 /\ Types
      BY TypesInit DEF ServerInit
    <3>2. db # 0 => db \in Dbs /\ holds[db] \in Nat
      BY <3>1, IndexCellAssumption DEF Types, Dbs
    <3> QED BY <3>1, <3>2
  <2> QED BY <1>2, <2>1, <2>2, <2>3, <2>4, WatcherApart DEF SyncComing, SyncOnItsWay
<1>8. InPlace
  <2> SUFFICES ASSUME Unwatched PROVE StaysOnFirst
    BY DEF InPlace
  <2>1. db = 1 /\ cell = Sql(1)
    BY <1>3 DEF ServerInit, Init, HasDb, Unwatched, NoDb
  <2>2. seen = 0 /\ holds[1] = 0 /\ events = {}
    BY IndexCellAssumption DEF ServerInit, Init, Dbs
  <2> QED BY <1>2, <2>1, <2>2 DEF StaysOnFirst
<1> QED BY <1>1, <1>4, <1>5, <1>6, <1>7, <1>8 DEF Inv

(* The invariant holds of every server. *)
THEOREM InvHolds == ServerSpec => []Inv
<1>1. Inv /\ [ServerNext]_allVars => Inv'
  <2> SUFFICES ASSUME Inv, [ServerNext]_allVars PROVE Inv'
    OBVIOUS
  <2>1. ServerTypeOK'
    BY ServerTypesStep DEF Inv
  <2> QED BY <2>1, PlacesStep, DbComingStep, ScanComingStep, SyncComingStep, InPlaceStep
          DEF Inv
<1> QED BY <1>1, InvInit, PTL DEF ServerSpec

-----------------------------------------------------------------------------
(* What follows                                                            *)

(* In scanner mode, while changes come from one side, a watcher at rest has *)
(* no change to the vault left that reads do not show, but those made      *)
(* before it had come up.                                                  *)
THEOREM ScansAreFresh == ServerSpec => []ScanIsFresh
<1>1. Inv => ScanIsFresh
  BY DEF Inv, ScanComing, ScanOnItsWay, ScanIsFresh, AtRest, Served, Scan
<1> QED BY <1>1, InvHolds, PTL

(* With a watched database made by Emacs and by one session, reads come    *)
(* from the one that org-roam.db names whenever the watcher is at rest.    *)
THEOREM WatchedDbServed == ServerSpec => []DbIsServed
<1>1. Inv => DbIsServed
  BY DEF Inv, DbComing, DbOnItsWay, DbIsServed, AtRest, HasDb
<1> QED BY <1>1, InvHolds, PTL

(* What one session has written and the synchroniser has brought into the   *)
(* database is what reads are served from, as soon as nothing is under way; *)
(* but for a database made before the watcher had come up.                 *)
THEOREM SyncedWritesServed == ServerSpec => []SyncedIsServed
<1>1. Inv => SyncedIsServed
  <2> SUFFICES ASSUME Inv, OneWriter, AtRest("db"), \A c \in Clients : pc[c] = "idle",
                      seen = vault
               PROVE  Served = vault
    BY DEF SyncedIsServed
  <2>0. Types /\ SyncOnItsWay
    BY TypesAreTypeOK DEF Inv, ServerTypeOK, SyncComing
  <2>1. CASE db = 0
    <3>1. vault = 0
      BY <2>0, <2>1 DEF Types, SyncOnItsWay
    <3>2. cell.kind = "scan" /\ cell.at \in 0..vault
      BY <2>0, <2>1 DEF Types, Bounded, Index, SyncOnItsWay
    <3> QED BY <3>1, <3>2 DEF Served
  <2>2. CASE db # 0
    <3>1. db \in Dbs
      BY <2>0, <2>2, IndexCellAssumption DEF Types, Dbs
    <3>2. holds[db] = vault
      BY <2>0, <2>2, <3>1 DEF Types, SyncOnItsWay
    <3>3. cell = Sql(db) \/ cell = Scan
      BY <2>0, <2>2, <3>2 DEF SyncOnItsWay, AtRest
    <3> QED BY <3>2, <3>3 DEF Served, Sql, Scan
  <2> QED BY <2>1, <2>2
<1> QED BY <1>1, InvHolds, PTL

(* Out of the watcher's sight, reads are always served at least what the    *)
(* synchroniser has seen: the first database, however many sessions write. *)
THEOREM UnwatchedWritesServed == ServerSpec => []SeenIsServed
<1>1. Inv => SeenIsServed
  <2> SUFFICES ASSUME Inv, Unwatched PROVE Served >= seen
    BY DEF SeenIsServed
  <2>1. cell = Sql(1) /\ seen <= holds[1]
    BY DEF Inv, InPlace, StaysOnFirst
  <2> QED BY <2>1 DEF Served, Sql
<1> QED BY <1>1, InvHolds, PTL

(* However many sessions make databases, none leaves the vault without one. *)
THEOREM NoVaultLeftWithoutDb == ServerSpec => DbComesBack
<1>1. Inv /\ [ServerNext]_allVars =>
        [MaxRestarts = 0 /\ (HasDb \/ \E c \in Clients : pc[c] = "install" /\ ~ NoDb)
           => HasDb' \/ \E c \in Clients : pc'[c] = "install"]_allVars
  <2> SUFFICES ASSUME Inv, [ServerNext]_allVars
               PROVE  MaxRestarts = 0 /\ (HasDb \/ \E c \in Clients : pc[c] = "install" /\ ~ NoDb)
                        => HasDb' \/ \E c \in Clients : pc'[c] = "install"
    OBVIOUS
  <2>a. NoDb' = NoDb
    BY ServerFixed DEF Inv, NoDb
  <2> SUFFICES ASSUME MaxRestarts = 0, ~ NoDb,
                      db # 0 \/ \E c \in Clients : pc[c] = "install",
                      ~ \E c \in Clients : pc'[c] = "install"
               PROVE  db' # 0
    BY <2>a DEF HasDb
  <2>0. Types /\ Places
    BY TypesAreTypeOK DEF Inv, ServerTypeOK
  <2>1. pc \in [Openers -> Labels]
    BY <2>0 DEF Types
  <2>2. ASSUME NEW o \in Openers, Open(o) PROVE db' # 0
    <3>1. db' = db /\ pc[o] # "install"
          /\ \E l \in Labels : pc' = [pc EXCEPT ![o] = l]
      BY <2>2 DEF Open, Pick, OpenScan, OpenSql, Swap, Goto, Labels, fileVars
    <3>2. \A c \in Clients : pc[c] = "install" => pc'[c] = "install"
      BY <2>1, <3>1, WatcherApart
    <3> QED BY <3>1, <3>2
  <2>3. ASSUME NEW c \in Clients, Install(c) PROVE db' # 0
    BY <2>0, <2>3 DEF Install, Places
  <2>4. ASSUME NEW c \in Clients, SetAside(c) PROVE db' # 0
    <3>1. CASE db # 0
      <4>1. pc'[c] = "install"
        BY <2>1, <2>4, <3>1, WatcherApart DEF SetAside, Goto
      <4> QED BY <4>1
    <3>2. CASE db = 0
      BY <2>1, <2>4, <3>2, WatcherApart DEF SetAside, Goto
    <3> QED BY <3>1, <3>2
  <2>5. ASSUME NEW c \in Clients,
               \/ Write(c) \/ Refresh(c) \/ Rebuild(c) \/ Create(c) \/ LookExists(c)
               \/ Walk(c) \/ Build(c) \/ LookAside(c)
        PROVE  db' # 0
    <3>1. db' = db /\ pc[c] # "install"
          /\ \E l \in Labels : pc' = [pc EXCEPT ![c] = l]
      BY <2>5 DEF Write, Refresh, Rebuild, Create, Ask, LookExists, Walk, Build,
         LookAside, Goto, Labels, fileVars
    <3>2. \A d \in Clients : pc[d] = "install" => pc'[d] = "install"
      BY <2>1, <3>1, WatcherApart
    <3> QED BY <3>1, <3>2
  <2>6. CASE StartWatch \/ Drain
    <3>1. db' = db /\ \E l \in Labels : pc' = [pc EXCEPT ![Watcher] = l]
      BY <2>6 DEF StartWatch, Drain, Goto, Labels, fileVars
    <3>2. \A d \in Clients : pc'[d] = pc[d]
      BY <2>1, <3>1, WatcherApart
    <3> QED BY <3>1, <3>2
  <2>7. CASE Edit \/ UNCHANGED vars
    BY <2>7 DEF Edit, vars, fileVars
  <2>8. CASE Reflected
    BY <2>0, <2>8, ReflectTypes DEF Reflected
  <2>9. CASE Restart
    BY <2>0, <2>9, ServerBounds DEF Restart, Types
  <2> QED BY <2>2, <2>3, <2>4, <2>5, <2>6, <2>7, <2>8, <2>9, ServerSteps, WatcherApart
          DEF Inv, Serve
<1> QED BY <1>1, InvHolds, PTL DEF ServerSpec, DbComesBack

(* Of a server with a synchroniser every step is one that SyncPromise knows *)
(* or does not see: each write it counts is one the vault has had, and what *)
(* else the server does, a kill and a restart too, neither starts nor ends *)
(* a run.  DbSyncProofs shows the same of the synchroniser itself.         *)
THEOREM ServerKeepsPromise == ServerSpec => promise!Spec
<1>1. ServerInit => promise!Init
  BY DEF ServerInit, Init, promise!Init
<1>2. ASSUME [ServerNext]_allVars PROVE [promise!Next]_(promise!vars)
  <2>1. CASE Step /\ UNCHANGED syncVars
    <3>1. vault' = vault \/ vault' = vault + 1
      BY <2>1 DEF Step, Watch, Open, Serve, Pick, OpenScan, OpenSql, Swap, Write, Refresh,
         Rebuild, Create, LookExists, Walk, Build, LookAside, SetAside, Install, StartWatch,
         Drain, Edit, DbSync, Restart, fileVars
    <3>2. busy' = busy /\ from' = from /\ seen' = seen
      BY <2>1 DEF syncVars
    <3> QED BY <3>1, <3>2 DEF promise!Next, promise!Land, promise!vars
  <2>2. CASE SyncBegins
    BY <2>2 DEF SyncBegins, promise!Next
  <2>3. CASE SyncEnds
    BY <2>3 DEF SyncEnds, promise!Next
  <2>4. CASE UNCHANGED allVars \/ (Idle /\ UNCHANGED syncVars)
    BY <2>4 DEF Idle, allVars, vars, fileVars, syncVars, promise!vars
  <2> QED BY <1>2, <2>1, <2>2, <2>3, <2>4 DEF ServerNext
<1> QED BY <1>1, <1>2, PTL DEF ServerSpec, promise!Spec
=============================================================================
