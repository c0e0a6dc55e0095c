------------------------ MODULE SubscriptionsProofs -------------------------
(***************************************************************************)
(* Proofs about Subscriptions, for every set of nodes, files, sessions and *)
(* URIs and every number of changes and requests.                          *)
(*                                                                         *)
(* That the watcher's next step comes is left to fairness, and to TLC; that *)
(* nothing is lost on the way is an invariant, and is proved here: what a  *)
(* subscriber is owed is queued, in the burst, being sent or about to be   *)
(* forgotten with its session.                                             *)
(***************************************************************************)
EXTENDS Subscriptions, FiniteSetTheorems, TLAPS

-----------------------------------------------------------------------------
(* The invariant                                                           *)

(* What the watcher holds at each of its labels. *)
Phases ==
  /\ pc \in {"idle", "open", "swap"} => todo = {} /\ uri = NoUri
  /\ pc = "idle" => batch = {}
  /\ pc = "swap" => scans["watcher"] \in Where

(* The files of the nodes that x has in the wrong place are to be told.    *)
Queued(x) ==
  \A i \in Ids : x[i] # place[i] => {place[i], x[i]} \ {Nowhere} \subseteq events

(* A scan taken after the burst was drained lags behind what is queued.    *)
LagsBehindEvents ==
  Alone => /\ pc = "swap" => Queued(scans["watcher"])
           /\ pc = "paths" => Queued(index)

(* Nobody has a node that has not moved in the wrong place. *)
SettledInPlace ==
  \A i \in Ids \ moved :
    /\ index[i] = place[i]
    /\ \A o \in Openers : scans[o] # NoScan => scans[o][i] = place[i]
    /\ pc = "swap" => scans["watcher"][i] = place[i]

(* The notifications that are sure to come: those of nodes that stay in     *)
(* their files and that the database answers for, and all of a server that *)
(* reloads by its watcher alone.                                           *)
Promised == {x \in owed : Alone \/ NodeOf[x[1]] \notin moved \cup unread}

OnItsWay ==
  \A x \in Promised :
    LET i == NodeOf[x[1]] IN
    /\ place[i] # Nowhere
    /\ \/ place[i] \in events \cup batch
       \/ x \in todo
       \/ x[1] = uri /\ x[2] \in dead

Inv == TypeOK /\ Phases /\ LagsBehindEvents /\ SettledInPlace /\ OnItsWay

(* When the watcher is at rest, no notification is outstanding but of nodes *)
(* that have moved on a server whose index others reload too, or that its   *)
(* database could not be asked for.                                        *)
NothingOwedAtRest ==
  pc = "idle" /\ events = {} =>
    \A x \in owed : ~ Alone /\ NodeOf[x[1]] \in moved \cup unread

-----------------------------------------------------------------------------
(* The invariant holds                                                     *)

(* It holds of every server that starts, with no subscription yet.         *)
LEMMA InvInit == Init => Inv
<1> SUFFICES ASSUME Init PROVE Inv
  OBVIOUS
<1>1. server \in Servers /\ place \in Where /\ index = place /\ owed = {}
  BY SubscriptionsAssumption DEF Init, Where
<1>2. TypeOK
  BY <1>1, SubscriptionsAssumption DEF Init, TypeOK
<1>3. Phases /\ LagsBehindEvents
  BY DEF Init, Phases, LagsBehindEvents
<1>4. SettledInPlace
  BY DEF Init, SettledInPlace
<1>5. OnItsWay
  BY <1>1 DEF OnItsWay, Promised
<1> QED BY <1>2, <1>3, <1>4, <1>5 DEF Inv

(* The types, step by step. *)
LEMMA TypeStep ==
  ASSUME Inv, [Next]_vars
  PROVE  TypeOK'
<1> USE DEF Inv, TypeOK
<1>1. ASSUME NEW u \in Uris, NEW s \in Sessions, Subscribe(u, s) \/ Unsubscribe(u, s)
      PROVE  TypeOK'
  <2>1. /\ subs' \subseteq Uris \X Sessions /\ owed' \subseteq subs'
        /\ asks' = asks + 1 /\ asks < MaxAsks
        /\ UNCHANGED <<fileVars, index, scans, events, pc, sendVars, closed>>
    BY <1>1 DEF Subscribe, Unsubscribe
  <2>2. asks' \in 0..MaxAsks
    BY <2>1, SubscriptionsAssumption
  <2> QED BY <2>1, <2>2 DEF fileVars, sendVars
<1>2. ASSUME NEW s \in Sessions, Close(s) PROVE TypeOK'
  BY <1>2, SubscriptionsAssumption DEF Close, fileVars, sendVars
<1>3. ASSUME NEW f \in Paths, Change(f) PROVE TypeOK'
  BY <1>3, SubscriptionsAssumption DEF Change, SubsOf, sendVars, subsVars
<1>4. ASSUME NEW i \in Ids, NEW f \in Paths \cup {Nowhere}, Move(i, f) PROVE TypeOK'
  <2>1. place' \in Where
    BY <1>4 DEF Move, Where
  <2>2. events' \subseteq Paths
    BY <1>4 DEF Move, Where
  <2>3. owed' \subseteq subs
    BY <1>4 DEF Move, SubsOf
  <2>4. /\ moved' \subseteq Ids /\ changes' = changes + 1 /\ changes < MaxChanges
        /\ UNCHANGED <<server, index, scans, pc, sendVars, subsVars>>
    BY <1>4 DEF Move
  <2>5. changes' \in 0..MaxChanges
    BY <2>4, SubscriptionsAssumption
  <2> QED BY <2>1, <2>2, <2>3, <2>4, <2>5 DEF sendVars, subsVars
<1>5. CASE SyncDb
  BY <1>5 DEF SyncDb, fileVars, sendVars, subsVars
<1>6. CASE Refresh
  BY <1>6 DEF Refresh, Open, SwapIn, Openers, fileVars, sendVars, subsVars
<1>7. CASE Drain
  BY <1>7 DEF Drain, fileVars, subsVars
<1>8. CASE Reload
  BY <1>8 DEF Phases, Reload, Open, SwapIn, Openers, fileVars, sendVars, subsVars
<1>9. CASE Collect
  <2>1. {NodeOf[x[1]] : x \in subs} \subseteq Ids
    BY SubscriptionsAssumption DEF Uris
  <2>2. todo' \subseteq subs /\ unread' \subseteq Ids
    BY <1>9, <2>1 DEF Collect, SubsOf
  <2> QED BY <1>9, <2>2 DEF Collect, fileVars, subsVars
<1>10. ASSUME NEW u \in Uris, NEW s \in Sessions, Notify(u, s) PROVE TypeOK'
  BY <1>10, SubscriptionsAssumption DEF Notify, Uris, fileVars, subsVars
<1>11. CASE Forget
  BY <1>11 DEF Forget, fileVars
<1>12. CASE Finish
  BY <1>12 DEF Finish, fileVars, sendVars, subsVars
<1>13. CASE UNCHANGED vars
  BY <1>13 DEF vars, fileVars, sendVars, subsVars
<1> QED BY <1>1, <1>2, <1>3, <1>4, <1>5, <1>6, <1>7, <1>8, <1>9, <1>10, <1>11,
           <1>12, <1>13 DEF Next, Watch

(* Only the watcher changes what it does, and a scan it holds. *)
LEMMA PhasesStep ==
  ASSUME Inv, [Next]_vars
  PROVE  Phases'
<1> USE DEF Inv, Phases
<1>1. NoUri \notin Uris
  BY SubscriptionsAssumption DEF Uris
<1>2. ASSUME UNCHANGED <<pc, sendVars, scans>> PROVE Phases'
  BY <1>2 DEF sendVars
<1>3. CASE SyncDb \/ UNCHANGED vars
  BY <1>2, <1>3 DEF SyncDb, vars
<1>4. ASSUME NEW u \in Uris, NEW s \in Sessions,
             Subscribe(u, s) \/ Unsubscribe(u, s)
      PROVE  Phases'
  BY <1>2, <1>4 DEF Subscribe, Unsubscribe
<1>5. CASE \/ \E s \in Sessions : Close(s)
           \/ \E f \in Paths : Change(f)
           \/ \E i \in Ids, f \in Paths \cup {Nowhere} : Move(i, f)
  BY <1>2, <1>5 DEF Close, Change, Move
<1>6. CASE Refresh
  <2>1. scans'["watcher"] = scans["watcher"]
    BY <1>6 DEF Refresh, Open, SwapIn, TypeOK, Openers
  <2> QED BY <1>6, <2>1 DEF Refresh, sendVars
<1>7. CASE Drain
  BY <1>7 DEF Drain
<1>8. CASE Reload
  <2>1. pc = "open" => scans'["watcher"] \in Where
    BY <1>8 DEF Reload, Open, TypeOK, Openers
  <2> QED BY <1>8, <2>1 DEF Reload, sendVars
<1>9. CASE Collect \/ Finish
  BY <1>9 DEF Collect, Finish, sendVars
<1>10. ASSUME NEW u \in Uris, NEW s \in Sessions, Notify(u, s) PROVE Phases'
  BY <1>10 DEF Notify, TypeOK
<1>11. CASE Forget
  <2>1. pc = "paths" /\ UNCHANGED <<pc, batch, scans>>
    BY <1>11 DEF Forget, TypeOK
  <2> QED BY <2>1
<1> QED BY <1>3, <1>4, <1>5, <1>6, <1>7, <1>8, <1>9, <1>10, <1>11 DEF Next, Watch

(* An index lags behind the notes only by what is queued.  On a server      *)
(* whose only reloads are the watcher's, the watcher alone swaps indexes   *)
(* and takes events off the queue.                                         *)
LEMMA LagStep ==
  ASSUME Inv, [Next]_vars
  PROVE  LagsBehindEvents'
<1> SUFFICES ASSUME Alone'
             PROVE  /\ pc' = "swap" => Queued(scans["watcher"])'
                    /\ pc' = "paths" => Queued(index)'
  BY DEF LagsBehindEvents
<1>1. UNCHANGED server /\ Alone
  BY DEF Next, Watch, Drain, Reload, Collect, Forget, Finish, Notify, Subscribe,
         Unsubscribe, Close, Change, Move, SyncDb, Refresh, vars, fileVars, Alone
<1>2. /\ pc = "swap" => Queued(scans["watcher"])
      /\ pc = "paths" => Queued(index)
  BY <1>1 DEF Inv, LagsBehindEvents
<1>3. CASE UNCHANGED <<place, index, scans, events, pc>>
  BY <1>2, <1>3 DEF Queued
<1>4. ASSUME NEW i \in Ids, NEW f \in Paths \cup {Nowhere}, Move(i, f)
      PROVE  /\ pc' = "swap" => Queued(scans["watcher"])'
             /\ pc' = "paths" => Queued(index)'
  <2>1. /\ place' = [place EXCEPT ![i] = f]
        /\ events' = events \cup ({f, place[i]} \ {Nowhere})
        /\ UNCHANGED <<index, scans, pc>>
    BY <1>4 DEF Move
  <2>2. place \in Where
    BY DEF Inv, TypeOK
  <2>3. ASSUME NEW x, Queued(x) PROVE Queued(x)'
    <3> SUFFICES ASSUME NEW j \in Ids, x[j] # place'[j]
                 PROVE  {place'[j], x[j]} \ {Nowhere} \subseteq events'
      BY <2>3 DEF Queued
    <3>1. CASE j = i
      <4>1. place'[j] = f
        BY <2>1, <2>2, <3>1 DEF Where
      <4>2. x[j] = place[j] \/ {x[j]} \ {Nowhere} \subseteq events
        BY <2>3 DEF Queued
      <4> QED BY <2>1, <3>1, <4>1, <4>2
    <3>2. CASE j # i
      <4>1. place'[j] = place[j]
        BY <2>1, <2>2, <3>2 DEF Where
      <4> QED BY <2>1, <2>3, <4>1 DEF Queued
    <3> QED BY <3>1, <3>2
  <2> QED BY <1>2, <2>1, <2>3
<1>5. ASSUME NEW f \in Paths, Change(f)
      PROVE  /\ pc' = "swap" => Queued(scans["watcher"])'
             /\ pc' = "paths" => Queued(index)'
  BY <1>2, <1>5 DEF Change, Queued
<1>6. ~ SyncDb /\ ~ Refresh
  BY <1>1 DEF SyncDb, Refresh, Alone
<1>7. CASE Drain
  BY <1>1, <1>7 DEF Drain, Alone
<1>8. CASE Reload
  <2>1. UNCHANGED <<place, events>>
    BY <1>8 DEF Reload, fileVars
  <2>2. CASE pc = "open"
    <3>1. scans'["watcher"] = place /\ pc' = "swap"
      BY <1>8, <2>2 DEF Reload, Open, Openers, Inv, TypeOK
    <3> QED BY <2>1, <3>1 DEF Queued
  <2>3. CASE pc = "swap"
    <3>1. index' = scans["watcher"] /\ pc' = "paths"
      BY <1>8, <2>3 DEF Reload, SwapIn
    <3> QED BY <1>2, <2>1, <2>3, <3>1 DEF Queued
  <2> QED BY <1>8, <2>2, <2>3 DEF Reload
<1>9. CASE Finish
  BY <1>9 DEF Finish
<1>10. CASE Collect \/ Forget \/ \E u \in Uris, s \in Sessions : Notify(u, s)
  BY <1>3, <1>10 DEF Collect, Forget, Notify, fileVars
<1>11. CASE \/ \E u \in Uris, s \in Sessions : Subscribe(u, s) \/ Unsubscribe(u, s)
            \/ \E s \in Sessions : Close(s)
            \/ UNCHANGED vars
  BY <1>3, <1>11 DEF Subscribe, Unsubscribe, Close, vars, fileVars
<1> QED BY <1>4, <1>5, <1>6, <1>7, <1>8, <1>9, <1>10, <1>11 DEF Next, Watch

(* A node that has not moved is in the same file in every index. *)
LEMMA SettledStep ==
  ASSUME Inv, [Next]_vars
  PROVE  SettledInPlace'
<1> SUFFICES ASSUME NEW i \in Ids \ moved'
             PROVE  /\ index'[i] = place'[i]
                    /\ \A o \in Openers : scans'[o] # NoScan => scans'[o][i] = place'[i]
                    /\ pc' = "swap" => scans'["watcher"][i] = place'[i]
  BY DEF SettledInPlace, NoScan
<1>1. scans \in [Openers -> Where \cup {NoScan}] /\ place \in Where
  BY DEF Inv, TypeOK
<1>2. i \notin moved => /\ index[i] = place[i]
                        /\ \A o \in Openers : scans[o] # NoScan => scans[o][i] = place[i]
                        /\ pc = "swap" => scans["watcher"][i] = place[i]
  BY DEF Inv, SettledInPlace
<1>3. CASE UNCHANGED <<place, moved, index, scans, pc>>
  BY <1>2, <1>3
<1>4. CASE \E j \in Ids, f \in Paths \cup {Nowhere} : Move(j, f)
  <2>1. PICK j \in Ids, f \in Paths \cup {Nowhere} : Move(j, f)
    BY <1>4
  <2>2. i \notin moved /\ i # j /\ UNCHANGED <<index, scans, pc>>
    BY <2>1 DEF Move
  <2>3. place'[i] = place[i]
    BY <1>1, <2>1, <2>2 DEF Move, Where
  <2> QED BY <1>2, <2>2, <2>3
<1>5. CASE \/ \E f \in Paths : Change(f)
           \/ Collect \/ Forget \/ \E u \in Uris, s \in Sessions : Notify(u, s)
           \/ \E u \in Uris, s \in Sessions : Subscribe(u, s) \/ Unsubscribe(u, s)
           \/ \E s \in Sessions : Close(s)
           \/ UNCHANGED vars
  BY <1>3, <1>5 DEF Change, Collect, Forget, Notify, Subscribe, Unsubscribe, Close,
                    vars, fileVars
<1>6. CASE SyncDb
  BY <1>2, <1>6 DEF SyncDb, fileVars
<1>7. CASE Drain \/ Finish
  BY <1>2, <1>7 DEF Drain, Finish, fileVars
<1>8. CASE Refresh
  <2>1. UNCHANGED <<place, moved, pc>> /\ i \notin moved
    BY <1>8 DEF Refresh, fileVars
  <2>2. CASE scans["handler"] = NoScan
    <3>1. UNCHANGED index /\ scans' = [scans EXCEPT !["handler"] = place]
      BY <1>8, <2>2 DEF Refresh, Open
    <3>2. /\ scans'["handler"] = place
          /\ scans'["watcher"] = scans["watcher"]
      BY <1>1, <3>1 DEF Openers
    <3> QED BY <1>2, <2>1, <3>1, <3>2 DEF Openers
  <2>3. CASE scans["handler"] # NoScan
    <3>1. index' = scans["handler"] /\ scans' = [scans EXCEPT !["handler"] = NoScan]
      BY <1>8, <2>3 DEF Refresh, SwapIn
    <3>2. /\ scans'["handler"] = NoScan
          /\ scans'["watcher"] = scans["watcher"]
      BY <1>1, <3>1 DEF Openers
    <3> QED BY <1>2, <2>1, <2>3, <3>1, <3>2 DEF Openers
  <2> QED BY <2>2, <2>3
<1>9. CASE Reload
  <2>1. UNCHANGED <<place, moved>> /\ i \notin moved
    BY <1>9 DEF Reload, fileVars
  <2>2. CASE pc = "open"
    <3>1. /\ UNCHANGED index /\ scans' = [scans EXCEPT !["watcher"] = place]
          /\ pc' = "swap"
      BY <1>9, <2>2 DEF Reload, Open
    <3>2. /\ scans'["watcher"] = place
          /\ scans'["handler"] = scans["handler"]
      BY <1>1, <3>1 DEF Openers
    <3> QED BY <1>2, <2>1, <3>1, <3>2 DEF Openers
  <2>3. CASE pc = "swap"
    <3>1. /\ index' = scans["watcher"] /\ scans' = [scans EXCEPT !["watcher"] = NoScan]
          /\ pc' = "paths"
      BY <1>9, <2>3 DEF Reload, SwapIn
    <3>2. /\ scans'["watcher"] = NoScan
          /\ scans'["handler"] = scans["handler"]
      BY <1>1, <3>1 DEF Openers
    <3> QED BY <1>2, <2>1, <2>3, <3>1, <3>2 DEF Openers
  <2> QED BY <1>9, <2>2, <2>3 DEF Reload
<1> QED BY <1>4, <1>5, <1>6, <1>7, <1>8, <1>9 DEF Next, Watch

(* What is on its way stays so until it has been sent. *)
LEMMA OnItsWayStep ==
  ASSUME Inv, [Next]_vars
  PROVE  OnItsWay'
<1> SUFFICES ASSUME NEW x \in Promised'
             PROVE  /\ place'[NodeOf[x[1]]] # Nowhere
                    /\ \/ place'[NodeOf[x[1]]] \in events' \cup batch'
                       \/ x \in todo'
                       \/ x[1] = uri' /\ x[2] \in dead'
  BY DEF OnItsWay
<1>0. PICK i : i = NodeOf[x[1]]
  OBVIOUS
<1>1. UNCHANGED server
  BY DEF Next, Watch, Drain, Reload, Collect, Forget, Finish, Notify, Subscribe,
         Unsubscribe, Close, Change, Move, SyncDb, Refresh, vars, fileVars
<1>2. /\ x \in subs' /\ x \in owed' /\ (Alone \/ i \notin moved' \cup unread')
      /\ subs' \subseteq Uris \X Sessions
  BY <1>0, <1>1, TypeStep DEF Promised, TypeOK, Alone
<1>3. /\ x[1] \in Uris /\ x[2] \in Sessions /\ i \in Ids
  BY <1>0, <1>2, SubscriptionsAssumption DEF Uris
<1>4. place \in Where /\ Nowhere \notin Paths /\ TypeOK
  BY SubscriptionsAssumption DEF Inv, TypeOK
<1>5. x \in owed /\ (Alone \/ i \notin moved \cup unread) =>
        /\ place[i] # Nowhere
        /\ place[i] \in events \cup batch \/ x \in todo \/ (x[1] = uri /\ x[2] \in dead)
  BY <1>0 DEF Inv, OnItsWay, Promised
<1> SUFFICES /\ place'[i] # Nowhere
             /\ \/ place'[i] \in events' \cup batch'
                \/ x \in todo'
                \/ x[1] = uri' /\ x[2] \in dead'
  BY <1>0
<1>6. CASE UNCHANGED <<place, moved, events, sendVars>> /\ owed' \subseteq owed
  BY <1>2, <1>5, <1>6 DEF sendVars
<1>7. CASE \/ \E u \in Uris, s \in Sessions : Subscribe(u, s) \/ Unsubscribe(u, s)
           \/ \E s \in Sessions : Close(s)
           \/ SyncDb \/ Refresh \/ Reload \/ UNCHANGED vars
  BY <1>6, <1>7 DEF Subscribe, Unsubscribe, Close, SyncDb, Refresh, Reload, vars,
                    fileVars
<1>8. CASE \E f \in Paths : Change(f)
  <2>1. PICK f \in Paths : Change(f)
    BY <1>8
  <2>2. /\ events' = events \cup {f} /\ owed' = owed \cup SubsOf({j \in Ids : place[j] = f})
        /\ UNCHANGED <<place, moved, sendVars>>
    BY <2>1 DEF Change
  <2>3. x \in owed \/ place[i] = f
    BY <1>0, <1>2, <2>2 DEF SubsOf
  <2> QED BY <1>2, <1>4, <1>5, <2>2, <2>3 DEF sendVars
<1>9. CASE \E j \in Ids, f \in Paths \cup {Nowhere} : Move(j, f)
  <2>1. PICK j \in Ids, f \in Paths \cup {Nowhere} : Move(j, f)
    BY <1>9
  <2>2. /\ place' = [place EXCEPT ![j] = f] /\ moved' = moved \cup {j}
        /\ events' = events \cup ({f, place[j]} \ {Nowhere})
        /\ owed' = IF f = Nowhere THEN owed \ SubsOf({j}) ELSE owed \cup SubsOf({j})
        /\ UNCHANGED <<sendVars, subs>>
    BY <2>1 DEF Move, subsVars
  <2>3. CASE i = j
    <3>1. f # Nowhere
      BY <1>0, <1>2, <2>2, <2>3 DEF SubsOf
    <3>2. place'[i] = f
      BY <1>4, <2>2, <2>3 DEF Where
    <3> QED BY <2>2, <3>1, <3>2
  <2>4. CASE i # j
    <3>1. place'[i] = place[i]
      BY <1>4, <2>2, <2>4 DEF Where
    <3>2. x \in owed /\ (Alone \/ i \notin moved \cup unread)
      BY <1>0, <1>2, <2>2, <2>4 DEF SubsOf, sendVars
    <3> QED BY <1>5, <2>2, <3>1, <3>2 DEF sendVars
  <2> QED BY <2>3, <2>4
<1>10. CASE Drain
  <2>1. batch = {} /\ batch' = events /\ UNCHANGED <<place, moved, unread, owed, todo, uri, dead>>
    BY <1>10 DEF Drain, fileVars, Inv, Phases
  <2> QED BY <1>2, <1>5, <2>1
<1>11. CASE Collect
  <2> DEFINE f == Min(batch)
  <2> DEFINE here == {j \in {NodeOf[y[1]] : y \in subs} : index[j] = f}
  <2>1. PICK lost \in IF server.db THEN SUBSET here ELSE {{}} :
          /\ pc = "paths" /\ todo = {} /\ uri = NoUri
          /\ todo' = SubsOf(here \ lost) /\ batch' = batch \ {f}
          /\ unread' = unread \cup lost
          /\ UNCHANGED <<place, moved, events, uri, dead, owed, subs>>
    BY <1>11 DEF Collect, fileVars, subsVars
  <2> HIDE DEF f
  <2>a. i \notin lost /\ (Alone \/ i \notin moved \cup unread)
    BY <1>2, <2>1 DEF Alone
  <2>2. x[2] \notin dead
    <3>1. dead = {}
      BY <1>4, <2>1 DEF TypeOK
    <3> QED BY <3>1
  <2>3. place[i] # Nowhere /\ place[i] \in events \cup batch
    BY <1>2, <1>5, <2>1, <2>2, <2>a
  <2>4. place[i] \in events \/ index[i] = place[i]
    <3>1. CASE Alone
      <4>1. Queued(index)
        BY <2>1, <3>1 DEF Inv, LagsBehindEvents
      <4> QED BY <1>3, <2>3, <4>1 DEF Queued
    <3>2. CASE i \notin moved
      BY <1>3, <3>2 DEF Inv, SettledInPlace
    <3> QED BY <2>a, <3>1, <3>2
  <2>5. CASE place[i] \in events
    BY <2>1, <2>3, <2>5
  <2>6. CASE index[i] = place[i] /\ place[i] = f
    <3>1. x \in todo'
      BY <1>0, <1>2, <1>3, <2>1, <2>a, <2>6 DEF SubsOf
    <3> QED BY <2>1, <2>3, <3>1
  <2>7. CASE place[i] \notin events /\ place[i] # f
    BY <2>1, <2>3, <2>7
  <2> QED BY <2>4, <2>5, <2>6, <2>7
<1>12. CASE \E u \in Uris, s \in Sessions : Notify(u, s)
  <2>1. PICK u \in Uris, s \in Sessions : Notify(u, s)
    BY <1>12
  <2>2. /\ uri \in {u, NoUri} /\ uri' = u /\ todo' = todo \ {<<u, s>>}
        /\ IF s \in closed
           THEN dead' = dead \cup {s} /\ UNCHANGED owed
           ELSE owed' = owed \ {<<u, s>>} /\ UNCHANGED dead
        /\ UNCHANGED <<place, moved, unread, events, batch>>
    BY <2>1 DEF Notify, fileVars
  <2>3. x \in owed /\ (Alone \/ i \notin moved \cup unread)
    BY <1>2, <2>2
  <2>4. x[1] = uri /\ x[2] \in dead => x[1] = uri' /\ x[2] \in dead'
    <3>1. uri = NoUri => dead = {}
      BY <1>4 DEF TypeOK
    <3> QED BY <2>2, <3>1
  <2>5. x \in todo => x \in todo' \/ (x[1] = uri' /\ x[2] \in dead')
    <3>1. CASE x # <<u, s>>
      BY <2>2, <3>1
    <3>2. CASE x = <<u, s>>
      BY <1>2, <2>2, <3>2
    <3> QED BY <3>1, <3>2
  <2> QED BY <1>5, <2>2, <2>3, <2>4, <2>5
<1>13. CASE Forget
  <2>1. /\ owed' = owed \ ({uri} \X dead)
        /\ UNCHANGED <<place, moved, unread, events, batch, todo>>
    BY <1>13 DEF Forget, fileVars
  <2> QED BY <1>2, <1>5, <2>1
<1>14. CASE Finish
  BY <1>6, <1>14 DEF Finish, fileVars
<1> QED BY <1>7, <1>8, <1>9, <1>10, <1>11, <1>12, <1>13, <1>14 DEF Next, Watch

(* Every step keeps it.                                                    *)
LEMMA InvNext == Inv /\ [Next]_vars => Inv'
  BY TypeStep, PhasesStep, LagStep, SettledStep, OnItsWayStep DEF Inv

(* Wherever the watcher is in a burst, what is owed and not yet collected   *)
(* is an event queued, a path of the burst, or a peer still to be notified. *)
THEOREM InvHolds == Spec => []Inv
  BY InvInit, InvNext, PTL DEF Spec

(* The state of the watcher, of the subscriptions and of the indexes keeps  *)
(* its type: what is owed, is owed to a subscription, and only sessions     *)
(* that have ended are found dead.                                         *)
THEOREM TypeCorrect == Spec => []TypeOK
<1>1. Inv => TypeOK
  BY DEF Inv
<1> QED BY <1>1, InvHolds, PTL

(* A client that is told of a change reads the index of after it, on a      *)
(* server whose index only the watcher reloads, or the node's further      *)
(* change is queued.                                                       *)
THEOREM ToldOfWhatIsThere == Spec => ToldAfterReload
<1> DEFINE Told ==
      \A u \in Uris, s \in Sessions :
        Alone /\ Notify(u, s) =>
          LET i == NodeOf[u] IN
          index[i] = place[i] \/ {place[i], index[i]} \cap events # {}
<1>1. Inv => Told
  <2> SUFFICES ASSUME Inv, NEW u \in Uris, NEW s \in Sessions, Alone, Notify(u, s),
                      index[NodeOf[u]] # place[NodeOf[u]]
               PROVE  {place[NodeOf[u]], index[NodeOf[u]]} \cap events # {}
    OBVIOUS
  <2>1. NodeOf[u] \in Ids
    BY SubscriptionsAssumption DEF Uris
  <2>2. todo # {}
    BY DEF Notify
  <2>3. pc = "paths"
    BY <2>2 DEF Inv, Phases, TypeOK
  <2>4. Queued(index)
    BY <2>3 DEF Inv, LagsBehindEvents
  <2> QED BY <2>1, <2>4 DEF Queued
<1> HIDE DEF Told
<1>2. Spec => [][Told]_vars
  BY <1>1, InvHolds, PTL
<1> QED BY <1>2 DEF Told, ToldAfterReload

(* A subscription of a session that is open ends by a request of its own,   *)
(* which ends no other: whoever is forgotten was found to have ended.      *)
THEOREM NobodyElseLeaves == Spec => OnlyOneselfLeaves
<1> DEFINE Left == {x \in subs \ subs' : x[2] \notin closed}
           OneLeaves ==
             LET left == {x \in subs \ subs' : x[2] \notin closed}
             IN left # {} => Cardinality(left) = 1 /\ asks' = asks + 1
<1>1. ASSUME Inv, Next PROVE OneLeaves
  <2>1. dead \subseteq closed
    BY <1>1 DEF Inv, TypeOK
  <2>2. CASE subs \subseteq subs'
    BY <2>2
  <2>3. ASSUME NEW u \in Uris, NEW s \in Sessions, Unsubscribe(u, s) PROVE OneLeaves
    <3>1. Left = {<<u, s>>} /\ asks' = asks + 1
      BY <2>3 DEF Unsubscribe
    <3> QED BY <3>1, FS_Singleton
  <2>4. CASE Forget
    <3>1. subs' = subs \ ({uri} \X dead)
      BY <2>4 DEF Forget
    <3>2. \A x \in {uri} \X dead : x[2] \in closed
      BY <2>1
    <3>3. Left = {}
      BY <3>1, <3>2
    <3> QED BY <3>3
  <2>5. CASE \/ Drain \/ Reload \/ Collect \/ Finish \/ SyncDb \/ Refresh
             \/ \E u \in Uris, s \in Sessions : Notify(u, s) \/ Subscribe(u, s)
             \/ \E s \in Sessions : Close(s)
             \/ \E f \in Paths : Change(f)
             \/ \E i \in Ids, f \in Paths \cup {Nowhere} : Move(i, f)
    <3>1. subs \subseteq subs'
      BY <2>5 DEF Drain, Reload, Collect, Finish, SyncDb, Refresh, Notify, Subscribe,
                  Close, Change, Move, subsVars
    <3> QED BY <2>2, <3>1
  <2> HIDE DEF OneLeaves
  <2> QED BY <1>1, <2>3, <2>4, <2>5 DEF Next, Watch
<1>2. Inv /\ [Next]_vars => [OneLeaves]_vars
  BY <1>1
<1> QED BY <1>2, InvHolds, PTL DEF Spec, OnlyOneselfLeaves

(* No notification is lost: when the watcher is at rest with no event       *)
(* queued, whoever was subscribed to a changed node has been told or found  *)
(* to be gone, but for nodes that have moved on a server whose index others *)
(* reload too, or that its database could not be asked for.  This is what  *)
(* ChangesAnnounced asks, without its hurry.                               *)
THEOREM NothingIsLost == Spec => []NothingOwedAtRest
<1>1. Inv => NothingOwedAtRest
  <2> SUFFICES ASSUME Inv, pc = "idle", events = {}, NEW x \in owed,
                      Alone \/ NodeOf[x[1]] \notin moved \cup unread
               PROVE  FALSE
    BY DEF NothingOwedAtRest
  <2>1. batch = {} /\ todo = {} /\ dead = {}
    BY DEF Inv, Phases, TypeOK
  <2> QED BY <2>1 DEF Inv, OnItsWay, Promised
<1> QED BY <1>1, InvHolds, PTL
=============================================================================
