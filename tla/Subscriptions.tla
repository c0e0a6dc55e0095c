--------------------------- MODULE Subscriptions ----------------------------
(***************************************************************************)
(* Resource subscriptions (src/src/server.rs): sessions subscribe to the   *)
(* URIs of nodes; the watcher turns a burst of file events into            *)
(* notifications, by looking up in the index, for each changed path, which *)
(* of the subscribed nodes is in that file.                                *)
(*                                                                         *)
(* The subscriptions are a set of pairs <<uri, session>>.  A session that  *)
(* is closed does not come back: a new one has a new session_id.  Each     *)
(* notification ends, delivered or with an error.  The content of notes,   *)
(* and how the index is picked (IndexCell), are left out: an index here is *)
(* the file it gives each node.                                            *)
(***************************************************************************)
EXTENDS Integers, FiniteSets, FiniteSetsExt

CONSTANTS
  Ids,        \* nodes
  Nowhere,    \* the file of a node that does not exist
  Paths,      \* note files, numbered as their names are sorted
  Places,     \* the file of each node, at first
  NodeOf,     \* of each URI the node it names, with or without an #anchor
  Sessions,   \* sessions ever opened
  NoUri,      \* no URI
  MaxChanges, \* bound on the changes of notes
  MaxAsks,    \* bound on what sessions do: subscribe, unsubscribe, end
  Servers     \* the servers considered

(* Whether it reads org-roam.db, and whether its own write tools swap scans *)
(* in as well as the watcher.                                              *)
Server == [db: BOOLEAN, writes: BOOLEAN]

ASSUME SubscriptionsAssumption ==
  /\ Paths \subseteq Nat /\ Nowhere \notin Paths
  /\ NoUri \notin DOMAIN NodeOf /\ \A uri \in DOMAIN NodeOf : NodeOf[uri] \in Ids
  /\ Places \subseteq [Ids -> Paths \cup {Nowhere}]
  /\ MaxChanges \in Nat /\ MaxAsks \in Nat
  /\ Servers \subseteq Server

VARIABLES
  server,   \* the server this behaviour is one of; it never changes
  place,    \* the file each node is in
  index,    \* the file index_cell gives for it
  scans,    \* indexes opened and not swapped in yet: the watcher's, a handler's
  events,   \* paths of queued events
  pc,       \* what the watcher does
  batch,    \* paths of the burst it has not come to yet
  todo,     \* notifications of a path not sent yet
  uri,      \* the URI it is sending them for
  dead,     \* sessions it could not reach for that URI
  subs,     \* the subscriptions
  closed,   \* sessions that have ended
  changes, asks,  \* counts, for the bounds
  moved,    \* history: nodes that have changed files, come or gone
  unread,   \* history: nodes the database could not be asked for
  owed      \* history: subscriptions whose node has changed since they last heard

fileVars == <<server, place, moved, changes>>
sendVars == <<batch, todo, uri, dead, unread>>
subsVars == <<subs, closed, asks>>
vars == <<fileVars, index, scans, events, pc, sendVars, subsVars, owed>>

Uris   == DOMAIN NodeOf
Where  == [Ids -> Paths \cup {Nowhere}]
Openers == {"watcher", "handler"}
NoScan == [i \in Ids |-> NoUri]

(* A scanner whose only reloads are the watcher's. *)
Alone == ~server.db /\ ~server.writes

TypeOK ==
  /\ server \in Servers
  /\ place \in Where /\ index \in Where /\ moved \subseteq Ids /\ unread \subseteq Ids
  /\ scans \in [Openers -> Where \cup {NoScan}]
  /\ events \subseteq Paths /\ batch \subseteq Paths
  /\ pc \in {"idle", "open", "swap", "paths"}
  /\ subs \subseteq Uris \X Sessions /\ owed \subseteq subs
  /\ todo \subseteq Uris \X Sessions
  /\ uri \in Uris \cup {NoUri}
  /\ uri = NoUri => dead = {}
  /\ dead \subseteq closed /\ closed \subseteq Sessions
  /\ changes \in 0..MaxChanges /\ asks \in 0..MaxAsks

Init ==
  /\ server \in Servers
  /\ place \in Places /\ index = place /\ moved = {} /\ unread = {}
  /\ scans = [o \in Openers |-> NoScan]
  /\ events = {} /\ batch = {} /\ todo = {} /\ dead = {}
  /\ pc = "idle" /\ uri = NoUri
  /\ subs = {} /\ closed = {} /\ owed = {}
  /\ changes = 0 /\ asks = 0

-----------------------------------------------------------------------------
(* Sessions                                                                *)

Subscribe(u, s) ==
  /\ s \notin closed /\ <<u, s>> \notin subs /\ asks < MaxAsks
  /\ subs' = subs \cup {<<u, s>>}
  /\ asks' = asks + 1
  /\ UNCHANGED <<fileVars, index, scans, events, pc, sendVars, closed, owed>>

(* Faulty variant: the URI is forgotten, whoever subscribed to it. *)
UnsubscribeAll(u, s) ==
  /\ s \notin closed /\ asks < MaxAsks
  /\ subs' = {x \in subs : x[1] # u}
  /\ owed' = {x \in owed : x[1] # u}
  /\ asks' = asks + 1
  /\ UNCHANGED <<fileVars, index, scans, events, pc, sendVars, closed>>

Unsubscribe(u, s) ==
  /\ s \notin closed /\ <<u, s>> \in subs /\ asks < MaxAsks
  /\ subs' = subs \ {<<u, s>>}
  /\ owed' = owed \ {<<u, s>>}
  /\ asks' = asks + 1
  /\ UNCHANGED <<fileVars, index, scans, events, pc, sendVars, closed>>

(* A session ends without a word. *)
Close(s) ==
  /\ s \notin closed /\ asks < MaxAsks
  /\ closed' = closed \cup {s}
  /\ asks' = asks + 1
  /\ UNCHANGED <<fileVars, index, scans, events, pc, sendVars, subs, owed>>

-----------------------------------------------------------------------------
(* Changes of notes, by whoever makes them                                 *)

SubsOf(nodes) == {x \in subs : NodeOf[x[1]] \in nodes}

Change(f) ==
  /\ changes < MaxChanges /\ \E i \in Ids : place[i] = f
  /\ changes' = changes + 1
  /\ events' = events \cup {f}
  /\ owed' = owed \cup SubsOf({i \in Ids : place[i] = f})
  /\ UNCHANGED <<server, place, moved, index, scans, pc, sendVars, subsVars>>

(* A node goes to another file, comes or goes.  Nobody hears that it went:  *)
(* no file in the index is its file.                                       *)
Move(i, f) ==
  /\ changes < MaxChanges /\ f # place[i]
  /\ changes' = changes + 1
  /\ place' = [place EXCEPT ![i] = f] /\ moved' = moved \cup {i}
  /\ events' = events \cup ({f, place[i]} \ {Nowhere})
  /\ owed' = IF f = Nowhere THEN owed \ SubsOf({i}) ELSE owed \cup SubsOf({i})
  /\ UNCHANGED <<server, index, scans, pc, sendVars, subsVars>>

(* Emacs brings org-roam.db, which the index reads, up to date. *)
SyncDb ==
  /\ server.db /\ index # place
  /\ index' = place
  /\ UNCHANGED <<fileVars, scans, events, pc, sendVars, subsVars, owed>>

-----------------------------------------------------------------------------
(* Reloads                                                                 *)

Open(o)   == scans' = [scans EXCEPT ![o] = place]
SwapIn(o) == index' = scans[o] /\ scans' = [scans EXCEPT ![o] = NoScan]

(* A write tool's refresh_index_after_write: it has changed a note. *)
Refresh ==
  /\ server.writes /\ ~server.db /\ changes > 0
  /\ IF scans["handler"] = NoScan THEN Open("handler") /\ UNCHANGED index ELSE SwapIn("handler")
  /\ UNCHANGED <<fileVars, events, pc, sendVars, subsVars, owed>>

(* Faulty variant: subscribers are notified before the reload. *)
DrainAndNotify ==
  /\ pc = "idle" /\ events # {}
  /\ batch' = events /\ events' = {}
  /\ pc' = "paths"
  /\ UNCHANGED <<fileVars, index, scans, todo, uri, dead, unread, subsVars, owed>>

(* A burst is drained; only the scanner is reloaded for notes. *)
Drain ==
  /\ pc = "idle" /\ events # {}
  /\ batch' = events /\ events' = {}
  /\ pc' = IF server.db THEN "paths" ELSE "open"
  /\ UNCHANGED <<fileVars, index, scans, todo, uri, dead, unread, subsVars, owed>>

Reload ==
  /\ \/ pc = "open" /\ Open("watcher") /\ pc' = "swap" /\ UNCHANGED index
     \/ pc = "swap" /\ SwapIn("watcher") /\ pc' = "paths"
  /\ UNCHANGED <<fileVars, events, sendVars, subsVars, owed>>

-----------------------------------------------------------------------------
(* Notifications                                                           *)

(* The next path, in order: who is subscribed to the nodes in that file.   *)
(* A node the database fails to answer for is passed over.                 *)
Collect ==
  LET here == {i \in {NodeOf[x[1]] : x \in subs} : index[i] = Min(batch)} IN
  /\ pc = "paths" /\ todo = {} /\ uri = NoUri /\ batch # {}
  /\ \E lost \in IF server.db THEN SUBSET here ELSE {{}} :
       todo' = SubsOf(here \ lost) /\ unread' = unread \cup lost
  /\ batch' = batch \ {Min(batch)}
  /\ UNCHANGED <<fileVars, index, scans, events, pc, uri, dead, subsVars, owed>>

(* One peer after the other, URI by URI. *)
Notify(u, s) ==
  /\ <<u, s>> \in todo /\ uri \in {u, NoUri}
  /\ uri' = u
  /\ todo' = todo \ {<<u, s>>}
  /\ IF s \in closed
     THEN dead' = dead \cup {s} /\ UNCHANGED owed
     ELSE owed' = owed \ {<<u, s>>} /\ UNCHANGED dead
  /\ UNCHANGED <<fileVars, index, scans, events, pc, batch, unread, subsVars>>

(* Faulty variant: the list of the dead is kept, and nobody is forgotten. *)
ForgetNone ==
  /\ uri # NoUri /\ ~\E s \in Sessions : <<uri, s>> \in todo
  /\ uri' = NoUri
  /\ UNCHANGED <<fileVars, index, scans, events, pc, batch, todo, dead, unread, subsVars, owed>>

(* remove_dead_peers_for_uri, when all peers of a URI have been tried. *)
Forget ==
  /\ uri # NoUri /\ ~\E s \in Sessions : <<uri, s>> \in todo
  /\ subs' = subs \ ({uri} \X dead)
  /\ owed' = owed \ ({uri} \X dead)
  /\ uri' = NoUri /\ dead' = {}
  /\ UNCHANGED <<fileVars, index, scans, events, pc, batch, todo, unread, closed, asks>>

Finish ==
  /\ pc = "paths" /\ todo = {} /\ uri = NoUri /\ batch = {}
  /\ pc' = "idle"
  /\ UNCHANGED <<fileVars, index, scans, events, sendVars, subsVars, owed>>

Watch ==
  \/ Drain \/ Reload \/ Collect \/ Forget \/ Finish
  \/ \E u \in Uris, s \in Sessions : Notify(u, s)

-----------------------------------------------------------------------------
Next ==
  \/ Watch
  \/ \E u \in Uris, s \in Sessions : Subscribe(u, s) \/ Unsubscribe(u, s)
  \/ \E s \in Sessions : Close(s)
  \/ \E f \in Paths : Change(f)
  \/ \E i \in Ids, f \in Paths \cup {Nowhere} : Move(i, f)
  \/ SyncDb
  \/ Refresh

(* The watcher is a task the runtime keeps polling. *)
Spec == Init /\ [][Next]_vars /\ WF_vars(Watch)
-----------------------------------------------------------------------------
(* Properties                                                              *)

(* "A resource-updated notification for the URI on any .org change to the   *)
(* corresponding file": whoever was subscribed at the change is told after *)
(* it, or found to be gone and forgotten, of a node that stays in its file *)
(* and that the database answers for, and of any node on a server that     *)
(* reloads by its watcher alone.                                           *)
ChangesAnnounced ==
  \A u \in Uris, s \in Sessions :
    (<<u, s>> \in owed)
      ~> (<<u, s>> \notin owed \/ (~Alone /\ NodeOf[u] \in moved \cup unread))

(* "One session unsubscribing must not evict another": a step that ends the *)
(* subscription of an open session is a request, and ends that one alone,  *)
(* whoever else leaves or is found dead.                                   *)
OnlyOneselfLeaves ==
  [][LET left == {x \in subs \ subs' : x[2] \notin closed}
     IN left # {} => Cardinality(left) = 1 /\ asks' = asks + 1]_vars

(* A client that is told of a change reads the index of after it: the index *)
(* gives its node the file it is in, or a further change is queued.        *)
ToldAfterReload ==
  [][\A u \in Uris, s \in Sessions :
       Alone /\ Notify(u, s) =>
         LET i == NodeOf[u] IN
         index[i] = place[i] \/ {place[i], index[i]} \cap events # {}]_vars
=============================================================================
