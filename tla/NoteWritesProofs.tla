-------------------------- MODULE NoteWritesProofs --------------------------
(***************************************************************************)
(* Proofs about NoteWrites, for every set of calls and of paths and every  *)
(* set of circumstances: tools used, kind of lockfile and number of saves. *)
(*                                                                         *)
(* The inductive invariant is local: what each call knows of the vault     *)
(* (CallInv), what relates the mtimes of the vault to each other (Stamps), *)
(* and that a call's own :ID: is nobody else's (NewIds).  A step of a call *)
(* is shown to keep its own CallInv; whatever changes the vault, to keep   *)
(* that of the others.                                                     *)
(***************************************************************************)
EXTENDS NoteWrites, TLAPS

-----------------------------------------------------------------------------
(* The invariant                                                           *)

(* The tools that rewrite the text of a note they have read. *)
Rewriters == TagTools \cup {"append", "daily", "rename", "update", "delete_headline"}

Writing == {"lock", "replace"}
Moving  == {"movelock", "moveexists", "move"}

(* Each tool keeps to its own part of the code. *)
OpAt(k) ==
  /\ k.pc # "idle" => k.op \in Ops
  /\ k.pc = "exists" => k.op \in {"create", "daily"}
  /\ k.pc = "readid" => k.op = "daily"
  /\ k.pc = "readtags" => k.op \in TagTools
  /\ k.pc \in {"stat", "recheck"} => k.op \in Rewriters \ {"update"}
  /\ k.pc = "read" => k.op \in Rewriters
  /\ k.pc \in Writing => k.op \in Rewriters \cup {"create"}
  /\ k.pc \in Moving => k.op = "rename" /\ k.dest # k.path
  /\ k.pc \in {"unlinklock", "unlink"} => k.op = "delete_file"

(* What is changed before the call's last step is changed by a tool that   *)
(* goes on to another step.                                                *)
Traced(k) ==
  k.wrote => /\ k.pc \notin {"idle", "exists"}
             /\ k.op \in {"rename", "daily"} \/ k.pc \in {"return", "ok"}

(* A regular lockfile would have been seen by the check. *)
Unlocked(k) ==
  LockForm = "file" /\ k.pc \in {"replace", "moveexists", "move", "unlink"} => k.lockfree

(* As long as the path has not changed since the last look, it is as the   *)
(* looks found it: free, or with the note of the first stat, which is the  *)
(* one that was read unless renames have brought it back.                  *)
Confirmed(k) ==
  IF k.fresh
  THEN ~ Exists(k.path)
  ELSE /\ files[k.path].mtime = k.stamp /\ k.stamp # 0
       /\ k.base = k.stamp \/ changed[k.path] # k.stamp

Looked(k) ==
  /\ k.stamp <= clock /\ k.base <= clock /\ k.checked <= clock
  /\ k.pc = "read" /\ k.op # "update" /\ changed[k.path] <= k.stamp =>
       files[k.path].mtime = k.stamp
  /\ k.pc = "recheck" /\ changed[k.path] <= k.stamp => k.base = k.stamp
  /\ k.pc \in Writing /\ k.op # "update" =>
       k.checked # 0 /\ (changed[k.path] > k.checked \/ Confirmed(k))

(* A draft is made from the note with the mtime `base', wherever that note *)
(* may be by now; notes of the time before the first change have not moved. *)
MadeFrom(c, k) ==
  /\ k.base # 0
  /\ \A q \in Paths :
       files[q].mtime = k.base /\ (k.base # 1 \/ q = k.path) =>
         /\ k.draft.id = files[q].id
         /\ k.op \in Inserting \cup TagTools => files[q].text \subseteq k.draft.text
  /\ k.op = "append" => c \in k.draft.text

Prepared(c, k) ==
  /\ k.fresh => /\ k.pc \in Writing /\ k.op \in {"create", "daily"} /\ ~ k.wrote
                /\ k.draft.id = c
                /\ k.op = "create" => c \in k.draft.text
  /\ k.pc \in Writing /\ k.op = "create" => k.fresh
  /\ k.pc \in {"recheck"} \cup Writing /\ ~ k.fresh => MadeFrom(c, k)

(* What is about to be moved was written by the call, or by one like it. *)
Departing(k) == k.pc \in Moving => files[k.path].mtime # 1

(* What holds of the state k of call c. *)
CallInv(c, k) ==
  /\ OpAt(k) /\ Traced(k) /\ Unlocked(k)
  /\ Looked(k) /\ Prepared(c, k) /\ Departing(k)

(* No two notes share an mtime, but for those of the time before the first *)
(* change.                                                                 *)
Stamps ==
  /\ clock > 0
  /\ \A p \in Paths :
       /\ changed[p] \in 1..clock /\ files[p].mtime <= changed[p]
       /\ files[p].mtime = 0 => files[p] = Absent
  /\ \A p, q \in Paths :
       p # q /\ files[p].mtime = files[q].mtime => files[p].mtime \in {0, 1}

(* The :ID: a call may give to a new note is not in use before it does. *)
NewIds ==
  \A c \in Calls :
    ~ call[c].wrote =>
      /\ \A p \in Paths : files[p].id # c
      /\ \A d \in Calls \ {c} : call[d].draft.id # c

Inv == TypeOK /\ Stamps /\ NewIds /\ \A c \in Calls : CallInv(c, call[c])

-----------------------------------------------------------------------------
(* Types and small facts                                                   *)

(* The notes and the call records the actions start from. *)
LEMMA AbsentIsANote == Absent \in Note /\ Absent.mtime = 0 /\ Absent.id = NoId
  BY DEF Absent, Note

(* A path without a file holds Absent, and no other path does so by having *)
(* a time of change.                                                       *)
LEMMA ExistsAt ==
  ASSUME Inv, NEW p \in Paths
  PROVE  /\ files[p] \in Note /\ files[p].mtime \in Nat
         /\ ~ Exists(p) => files[p] = Absent
         /\ Exists(p) => files[p].mtime > 0
  BY DEF Inv, TypeOK, Stamps, Exists, Note

(* The invariant is that of the initial state. *)
LEMMA InvInit == Init => Inv
<1> SUFFICES ASSUME Init PROVE Inv
  OBVIOUS
<1>1. TypeOK
  <2>1. files \in [Paths -> Note]
    BY DEF Init, FirstNote, Note, Absent, Ids, Tags, Marks
  <2>2. index \in [Ids -> Paths \cup {NoPath}]
    BY DEF Init, Scans
  <2>3. call \in [Calls -> Call]
    BY AbsentIsANote, NoteWritesAssumption DEF Init, Call, Labels, Tools, Ids
  <2>4. saves \in [Paths -> 0..MaxSaves]
    BY NoteWritesAssumption DEF Init, MaxSaves, World
  <2> QED BY <2>1, <2>2, <2>3, <2>4 DEF TypeOK, Init
<1>2. Stamps
  <2>1. \A p \in Paths : files[p] = Absent \/ files[p].mtime = 1
    BY DEF Init, FirstNote
  <2>2. clock = 1 /\ \A p \in Paths : changed[p] = 1
    BY DEF Init
  <2> QED BY <2>1, <2>2, AbsentIsANote DEF Stamps
<1>3. NewIds
  <2>1. \A p \in Paths : files[p].id \in Paths \cup {NoId}
    BY DEF Init, FirstNote, Absent
  <2>2. \A c \in Calls : call[c].draft = Absent
    BY DEF Init
  <2> QED BY <2>1, <2>2, AbsentIsANote, NoteWritesAssumption DEF NewIds
<1>4. ASSUME NEW c \in Calls PROVE CallInv(c, call[c])
  <2>1. /\ call[c].pc = "idle" /\ call[c].wrote = FALSE /\ call[c].fresh = FALSE
        /\ call[c].stamp = 0 /\ call[c].base = 0 /\ call[c].checked = 0
        /\ call[c].op = "append" /\ clock = 1
    BY DEF Init
  <2>2. OpAt(call[c])
    BY <2>1 DEF OpAt, Writing, Moving
  <2>3. Traced(call[c]) /\ Unlocked(call[c]) /\ Departing(call[c])
    BY <2>1 DEF Traced, Unlocked, Departing, Moving
  <2>4. Looked(call[c])
    BY <2>1 DEF Looked, Writing
  <2>5. Prepared(c, call[c])
    BY <2>1 DEF Prepared, Writing
  <2> QED BY <2>2, <2>3, <2>4, <2>5 DEF CallInv
<1> QED BY <1>1, <1>2, <1>3, <1>4 DEF Inv

(* A step of one call that leaves the vault alone keeps the invariant, as   *)
(* soon as what it makes of the call's state does.                         *)
LEMMA QuietStep ==
  ASSUME Inv, NEW c \in Calls, NEW k \in Call,
         call' = [call EXCEPT ![c] = k],
         UNCHANGED <<world, files, locked, clock, changed, saves, late>>,
         index' \in [Ids -> Paths \cup {NoPath}],
         CallInv(c, k),
         k.wrote = call[c].wrote,
         k.draft.id \in {NoId, c, call[c].draft.id} \cup {files[p].id : p \in Paths}
  PROVE  Inv'
<1>1. TypeOK'
  BY DEF Inv, TypeOK, MaxSaves
<1>2. Stamps'
  BY DEF Inv, Stamps, Absent
<1>3. /\ call'[c] = k
      /\ \A d \in Calls \ {c} : call'[d] = call[d]
  BY DEF Inv, TypeOK
<1>4. NewIds'
  <2> SUFFICES ASSUME NEW b \in Calls, ~ call'[b].wrote,
                      NEW d \in Calls \ {b}
               PROVE  call'[d].draft.id # b /\ \A p \in Paths : files'[p].id # b
    BY <1>3 DEF NewIds, Inv
  <2>1. ~ call[b].wrote
    BY <1>3
  <2>2. call[d].draft.id # b /\ \A p \in Paths : files[p].id # b
    BY <2>1 DEF Inv, NewIds
  <2> QED BY <1>3, <2>2, NoteWritesAssumption
<1>5. ASSUME NEW d \in Calls PROVE CallInv(d, call[d])'
  <2> DEFINE r == call'[d]
  <2>1. CallInv(d, r)
    BY <1>3 DEF Inv
  <2> HIDE DEF r
  <2>2. CallInv(d, call[d])'
    BY <2>1 DEF r, CallInv, OpAt, Traced, Unlocked, Looked, Confirmed, Prepared,
                MadeFrom, Departing, Exists, Ops, LockForm
  <2> QED BY <2>2
<1> QED BY <1>1, <1>2, <1>4, <1>5 DEF Inv

-----------------------------------------------------------------------------
(* The steps of a call that leave the vault alone                          *)

(* The end of a call. *)
LEMMA EndStep ==
  ASSUME Inv, NEW c \in Calls, NEW label \in Over, End(c, label),
         UNCHANGED <<world, files, locked, clock, changed, saves, late>>,
         index' \in [Ids -> Paths \cup {NoPath}],
         call[c].pc # "idle",
         label = "failed" /\ call[c].wrote => call[c].op \in {"rename", "daily"}
  PROVE  Inv'
<1> DEFINE k == [call[c] EXCEPT !.pc = label, !.draft = Absent, !.tags = {},
                   !.stamp = 0, !.base = 0, !.checked = 0, !.lockfree = FALSE,
                   !.fresh = FALSE]
<1>1. call[c] \in Call
  BY DEF Inv, TypeOK
<1>2. k \in Call
  BY <1>1, AbsentIsANote DEF Call, Over, Labels
<1>3. /\ k.pc = label /\ k.op = call[c].op /\ k.wrote = call[c].wrote
      /\ k.stamp = 0 /\ k.base = 0 /\ k.checked = 0 /\ k.fresh = FALSE
      /\ k.draft = Absent
  BY <1>1 DEF Call
<1>4. call' = [call EXCEPT ![c] = k]
  BY DEF End
<1> HIDE DEF k
<1>5. CallInv(c, call[c]) /\ Stamps /\ clock \in Nat
  BY DEF Inv, TypeOK
<1>6. OpAt(k) /\ Traced(k)
  BY <1>3, <1>5 DEF CallInv, OpAt, Traced, Over, Writing, Moving, Ops
<1>7. Looked(k) /\ Prepared(c, k) /\ Unlocked(k) /\ Departing(k)
  BY <1>3, <1>5 DEF Looked, Prepared, Unlocked, Departing, Stamps, Over,
                    Writing, Moving
<1> QED BY QuietStep, <1>2, <1>3, <1>4, <1>6, <1>7, AbsentIsANote DEF CallInv

(* A call that has failed had written only if it is of two steps. *)
LEMMA FailStep ==
  ASSUME Inv, NEW c \in Calls, Fail(c), UNCHANGED OnDisk,
         call[c].pc \notin Over \cup {"idle", "return"}
  PROVE  Inv'
<1>1. Traced(call[c]) /\ index \in [Ids -> Paths \cup {NoPath}]
  BY DEF Inv, CallInv, TypeOK
<1> QED BY EndStep, <1>1 DEF Fail, OnDisk, Traced, Over

(* The call goes on to a label at which nothing is expected of its looks. *)
LEMMA GotoStep ==
  ASSUME Inv, NEW c \in Calls, NEW label \in {"readid", "stat", "return"},
         Goto(c, label), UNCHANGED OnDisk,
         call[c].pc \notin Writing \cup {"idle"},
         call[c].wrote => call[c].op = "daily",
         label = "readid" => call[c].op = "daily",
         label = "stat" => call[c].op \in Rewriters \ {"update"}
  PROVE  Inv'
<1> DEFINE k == [call[c] EXCEPT !.pc = label]
<1>1. call[c] \in Call /\ index \in [Ids -> Paths \cup {NoPath}]
  BY DEF Inv, TypeOK
<1>2. k \in Call
  BY <1>1 DEF Call, Labels
<1>3. /\ k.pc = label /\ k.op = call[c].op /\ k.wrote = call[c].wrote
      /\ k.stamp = call[c].stamp /\ k.base = call[c].base
      /\ k.checked = call[c].checked /\ k.fresh = call[c].fresh
      /\ k.draft = call[c].draft
  BY <1>1 DEF Call
<1>4. call' = [call EXCEPT ![c] = k]
  BY DEF Goto
<1> HIDE DEF k
<1>5. CallInv(c, call[c])
  BY DEF Inv
<1>6. OpAt(k) /\ Traced(k)
  BY <1>3, <1>5 DEF CallInv, OpAt, Traced, Writing, Moving, Ops
<1>7. Looked(k) /\ Unlocked(k) /\ Departing(k)
  BY <1>3, <1>5 DEF CallInv, Looked, Unlocked, Departing, Writing, Moving
<1>8. Prepared(c, k)
  BY <1>3, <1>5 DEF CallInv, Prepared, Writing
<1> QED BY QuietStep, <1>1, <1>2, <1>3, <1>4, <1>6, <1>7, <1>8
        DEF CallInv, OnDisk

(* A request starts where its tool does. *)
LEMMA InvokeStep ==
  ASSUME Inv, NEW c \in Calls, NEW op \in Tools \cap Ops, NEW id \in Ids,
         NEW path \in Paths, NEW dest \in Paths, NEW under \in BOOLEAN,
         call[c].pc = "idle", Invoke(c, op, id, path, dest, under),
         UNCHANGED OnDisk
  PROVE  Inv'
<1> DEFINE k == [call[c] EXCEPT !.op = op, !.id = id, !.path = path, !.dest = dest,
                                !.under = under, !.pc = FirstLabel(op)]
<1>1. call[c] \in Call /\ index \in [Ids -> Paths \cup {NoPath}]
  BY DEF Inv, TypeOK
<1>2. FirstLabel(op) \in {"exists", "readtags", "read", "unlinklock", "stat"}
  BY DEF FirstLabel
<1>3. k \in Call
  BY <1>1, <1>2 DEF Call, Labels
<1>4. /\ k.pc = FirstLabel(op) /\ k.op = op /\ k.wrote = call[c].wrote
      /\ k.stamp = call[c].stamp /\ k.base = call[c].base
      /\ k.checked = call[c].checked /\ k.fresh = call[c].fresh
      /\ k.draft = call[c].draft /\ k.path = path
  BY <1>1 DEF Call
<1>5. call' = [call EXCEPT ![c] = k]
  BY DEF Invoke
<1> HIDE DEF k
<1>6. CallInv(c, call[c]) /\ Stamps
  BY DEF Inv
<1>7. OpAt(k) /\ Traced(k)
  BY <1>2, <1>4, <1>6 DEF CallInv, OpAt, Traced, FirstLabel, Tools, TagTools,
                          Rewriters, Writing, Moving, Ops
<1>8. Unlocked(k) /\ Departing(k) /\ Prepared(c, k)
  BY <1>2, <1>4, <1>6 DEF CallInv, Unlocked, Departing, Prepared, Writing, Moving
<1>9. Looked(k)
  BY <1>2, <1>4, <1>6 DEF CallInv, Looked, Writing, FirstLabel, TagTools, Tools
<1> QED BY QuietStep, <1>1, <1>3, <1>4, <1>5, <1>7, <1>8, <1>9
        DEF CallInv, OnDisk

(* stat: the call knows the mtime of a note that is there. *)
LEMMA StatStep ==
  ASSUME Inv, NEW c \in Calls, Stat(c)
  PROVE  Inv'
<1> DEFINE n == files[call[c].path]
           k == [call[c] EXCEPT !.stamp = n.mtime, !.pc = "read"]
<1>1. /\ call[c] \in Call /\ index \in [Ids -> Paths \cup {NoPath}]
      /\ n \in Note /\ n.mtime \in Nat /\ clock \in Nat
      /\ changed[call[c].path] \in Nat
      /\ call[c].path \in Paths /\ n.mtime <= clock
  <2>1. call[c] \in Call /\ index \in [Ids -> Paths \cup {NoPath}] /\ clock \in Nat
    BY DEF Inv, TypeOK
  <2>2. call[c].path \in Paths
    BY <2>1 DEF Call
  <2> QED BY <2>1, <2>2, ExistsAt DEF Inv, TypeOK, Stamps
<1>2. UNCHANGED OnDisk /\ call[c].pc = "stat"
  BY DEF Stat, OnFile
<1>3. CASE ~ Exists(call[c].path)
  BY <1>2, <1>3, FailStep DEF Stat, OnFile, Over
<1>4. CASE Exists(call[c].path)
  <2>1. call' = [call EXCEPT ![c] = k]
    BY <1>4 DEF Stat, OnFile
  <2>2. k \in Call
    BY <1>1 DEF Call, Labels
  <2>3. /\ k.pc = "read" /\ k.op = call[c].op /\ k.wrote = call[c].wrote
        /\ k.stamp = n.mtime /\ k.base = call[c].base
        /\ k.checked = call[c].checked /\ k.fresh = call[c].fresh
        /\ k.draft = call[c].draft /\ k.path = call[c].path
    BY <1>1 DEF Call
  <2>4. n = files[k.path]
    BY <2>3
  <2> HIDE DEF k, n
  <2>5. CallInv(c, call[c])
    BY DEF Inv
  <2>6. OpAt(k) /\ Traced(k) /\ Unlocked(k) /\ Departing(k) /\ Prepared(c, k)
    BY <1>2, <2>3, <2>5 DEF CallInv, OpAt, Traced, Unlocked, Departing, Prepared,
                            Writing, Moving
  <2>7. Looked(k)
    BY <1>1, <1>2, <2>3, <2>4, <2>5 DEF CallInv, Looked, Writing
  <2> QED BY QuietStep, <1>1, <1>2, <2>1, <2>2, <2>3, <2>6, <2>7 DEF CallInv, OnDisk
<1> QED BY <1>3, <1>4

(* An edit changes the tags or the text, and only update_node's new body    *)
(* and a headline's deletion take text away.                               *)
LEMMA EditsMade ==
  ASSUME NEW c \in Calls, call[c] \in Call, call[c].op \in Rewriters,
         NEW n \in Note, NEW d \in Edits(c, n)
  PROVE  /\ d \in Note /\ d.id = n.id /\ d.mtime = n.mtime
         /\ call[c].op \in Inserting \cup TagTools => n.text \subseteq d.text
         /\ call[c].op = "append" => c \in d.text
<1>1. /\ call[c].op = "update" => d = [n EXCEPT !.text = {c}]
      /\ call[c].op \in {"append", "daily", "rename"} => d = [n EXCEPT !.text = @ \cup {c}]
      /\ call[c].op \in TagTools => d = [n EXCEPT !.tags = call[c].tags]
      /\ call[c].op = "delete_headline" =>
           \E t \in SUBSET (n.text \ {"section"}) : d = [n EXCEPT !.text = t]
  BY DEF Edits, TagTools
<1>2. CASE call[c].op = "update"
  BY <1>1, <1>2 DEF Note, Marks, Inserting, TagTools
<1>3. CASE call[c].op \in {"append", "daily", "rename"}
  BY <1>1, <1>3 DEF Note, Marks, Inserting, TagTools
<1>4. CASE call[c].op \in TagTools
  BY <1>1, <1>4 DEF Note, Call, TagTools
<1>5. CASE call[c].op = "delete_headline"
  BY <1>1, <1>5 DEF Note, Marks, Inserting, TagTools
<1> QED BY <1>2, <1>3, <1>4, <1>5 DEF Rewriters

(* read_to_string: the draft is made from the note that is there. *)
LEMMA ReadStep ==
  ASSUME Inv, NEW c \in Calls, Read(c)
  PROVE  Inv'
<1> DEFINE n == files[call[c].path]
<1>1. /\ call[c] \in Call /\ index \in [Ids -> Paths \cup {NoPath}]
      /\ n \in Note /\ n.mtime \in Nat /\ clock \in Nat
      /\ changed[call[c].path] \in Nat
      /\ call[c].path \in Paths /\ n.mtime <= clock
  <2>1. call[c] \in Call /\ index \in [Ids -> Paths \cup {NoPath}] /\ clock \in Nat
    BY DEF Inv, TypeOK
  <2>2. call[c].path \in Paths
    BY <2>1 DEF Call
  <2> QED BY <2>1, <2>2, ExistsAt DEF Inv, TypeOK, Stamps
<1>2. UNCHANGED OnDisk /\ call[c].pc = "read"
  BY DEF Read, OnFile
<1>3. CallInv(c, call[c])
  BY DEF Inv
<1>4. call[c].op \in Rewriters /\ (call[c].wrote => call[c].op \in {"rename", "daily"})
  BY <1>2, <1>3 DEF CallInv, OpAt, Traced
<1>5. CASE Fail(c)
  BY <1>2, <1>5, FailStep DEF Over
<1>6. CASE call[c].op = "update" /\ Goto(c, "return")
  BY <1>2, <1>4, <1>6, GotoStep DEF Writing
<1>7. ASSUME Exists(call[c].path), NEW d \in Edits(c, n),
             call' = [call EXCEPT ![c].draft = d, ![c].base = n.mtime,
               ![c].pc = IF call[c].op = "update" THEN "lock" ELSE "recheck"]
      PROVE Inv'
  <2> DEFINE k == [call[c] EXCEPT !.draft = d, !.base = n.mtime,
                     !.pc = IF call[c].op = "update" THEN "lock" ELSE "recheck"]
  <2>1. /\ d \in Note /\ d.id = n.id
        /\ call[c].op \in Inserting \cup TagTools => n.text \subseteq d.text
        /\ call[c].op = "append" => c \in d.text
    BY <1>1, <1>4, EditsMade
  <2>2. call' = [call EXCEPT ![c] = k]
    BY <1>7
  <2>3. k \in Call
    BY <1>1, <2>1 DEF Call, Labels
  <2>4. /\ k.pc = IF call[c].op = "update" THEN "lock" ELSE "recheck"
        /\ k.op = call[c].op /\ k.wrote = call[c].wrote
        /\ k.stamp = call[c].stamp /\ k.base = n.mtime
        /\ k.checked = call[c].checked /\ k.fresh = call[c].fresh
        /\ k.draft = d /\ k.path = call[c].path
    BY <1>1 DEF Call
  <2>5. n = files[k.path] /\ Exists(k.path)
    BY <1>7, <2>4
  <2>6. n.mtime # 0
    BY <1>7 DEF Exists
  <2> HIDE DEF k, n
  <2>7. OpAt(k) /\ Traced(k) /\ Unlocked(k) /\ Departing(k)
    BY <1>2, <1>3, <1>4, <2>4 DEF CallInv, OpAt, Traced, Unlocked, Departing,
                            Rewriters, TagTools, Writing, Moving
  <2>8. Looked(k)
    BY <1>1, <1>2, <1>3, <2>4, <2>5 DEF CallInv, Looked, Writing
  <2>9. MadeFrom(c, k)
    <3> SUFFICES ASSUME NEW q \in Paths, files[q].mtime = k.base,
                        k.base # 1 \/ q = k.path
                 PROVE  /\ k.draft.id = files[q].id
                        /\ k.op \in Inserting \cup TagTools =>
                             files[q].text \subseteq k.draft.text
      BY <2>1, <2>4, <2>6 DEF MadeFrom
    <3>1. q = k.path
      BY <1>1, <2>4, <2>5, <2>6 DEF Inv, Stamps
    <3> QED BY <2>1, <2>4, <2>5, <3>1
  <2>10. ~ k.fresh
    BY <1>2, <1>3, <2>4 DEF CallInv, Prepared, Writing
  <2>11. Prepared(c, k)
    BY <1>4, <2>4, <2>9, <2>10 DEF Prepared, Rewriters, TagTools, Writing
  <2> QED BY QuietStep, <1>1, <1>2, <2>1, <2>2, <2>3, <2>4, <2>5, <2>7, <2>8, <2>11
          DEF CallInv, OnDisk
<1> QED BY <1>5, <1>6, <1>7 DEF Read, OnFile

(* The second stat: the path is still as the first found it. *)
LEMMA RecheckStep ==
  ASSUME Inv, NEW c \in Calls, Recheck(c)
  PROVE  Inv'
<1> DEFINE k == [call[c] EXCEPT !.checked = clock, !.pc = "lock"]
<1>1. /\ call[c] \in Call /\ index \in [Ids -> Paths \cup {NoPath}]
      /\ clock \in Nat /\ call[c].path \in Paths
  BY DEF Inv, TypeOK, Call
<1>2. UNCHANGED OnDisk /\ call[c].pc = "recheck"
  BY DEF Recheck, OnFile
<1>3. CallInv(c, call[c]) /\ Stamps /\ changed[call[c].path] \in Nat
  BY <1>1 DEF Inv, TypeOK
<1>4. CASE Fail(c)
  BY <1>2, <1>4, FailStep DEF Over
<1>5. CASE /\ Exists(call[c].path) /\ files[call[c].path].mtime = call[c].stamp
           /\ call' = [call EXCEPT ![c].checked = clock, ![c].pc = "lock"]
  <2>1. call' = [call EXCEPT ![c] = k]
    BY <1>5
  <2>2. k \in Call
    BY <1>1 DEF Call, Labels
  <2>3. /\ k.pc = "lock" /\ k.op = call[c].op /\ k.wrote = call[c].wrote
        /\ k.stamp = call[c].stamp /\ k.base = call[c].base
        /\ k.checked = clock /\ k.fresh = call[c].fresh
        /\ k.draft = call[c].draft /\ k.path = call[c].path
    BY <1>1 DEF Call
  <2>4. /\ files[k.path].mtime = k.stamp /\ k.stamp # 0
    BY <1>5, <2>3 DEF Exists
  <2> HIDE DEF k
  <2>5. OpAt(k) /\ Traced(k) /\ Unlocked(k) /\ Departing(k)
    BY <1>2, <1>3, <2>3 DEF CallInv, OpAt, Traced, Unlocked, Departing,
                            Writing, Moving
  <2>6. ~ k.fresh
    BY <1>2, <1>3, <2>3 DEF CallInv, Prepared, Writing
  <2>7. Confirmed(k)
    BY <1>2, <1>3, <2>3, <2>4, <2>6 DEF CallInv, Confirmed, Looked
  <2>8. Looked(k)
    BY <1>1, <1>2, <1>3, <2>3, <2>7 DEF CallInv, Looked, Stamps, Writing
  <2>9. Prepared(c, k)
    BY <1>2, <1>3, <2>3, <2>6 DEF CallInv, OpAt, Prepared, MadeFrom, Rewriters,
                                  TagTools, Writing
  <2> QED BY QuietStep, <1>1, <1>2, <2>1, <2>2, <2>3, <2>5, <2>8, <2>9
          DEF CallInv, OnDisk
<1> QED BY <1>4, <1>5 DEF Recheck, OnFile

(* read_to_string for the tags, of the tag tools. *)
LEMMA ReadTagsStep ==
  ASSUME Inv, NEW c \in Calls, ReadTags(c)
  PROVE  Inv'
<1> DEFINE current == files[call[c].path].tags
           new == CASE call[c].op = "tag_add"    -> current \cup {c}
                    [] call[c].op = "tag_remove" -> current \ {"old"}
                    [] call[c].op = "tag_set"    -> {c}
           k == [call[c] EXCEPT !.tags = new, !.pc = "stat"]
<1>1. /\ call[c] \in Call /\ index \in [Ids -> Paths \cup {NoPath}]
      /\ call[c].path \in Paths
  BY DEF Inv, TypeOK, Call
<1>2. UNCHANGED OnDisk /\ call[c].pc = "readtags"
  BY DEF ReadTags, OnFile
<1>3. CallInv(c, call[c])
  BY DEF Inv
<1>4. call[c].op \in TagTools /\ ~ call[c].wrote
  BY <1>2, <1>3 DEF CallInv, OpAt, Traced, TagTools
<1>5. new \in SUBSET Tags
  BY <1>1, <1>4, ExistsAt DEF TagTools, Tags, Note
<1>6. CASE Fail(c)
  BY <1>2, <1>6, FailStep DEF Over
<1>7. CASE Goto(c, "return")
  BY <1>2, <1>4, <1>7, GotoStep DEF Writing
<1>8. CASE call' = [call EXCEPT ![c].tags = new, ![c].pc = "stat"]
  <2> HIDE DEF new
  <2>1. call' = [call EXCEPT ![c] = k]
    BY <1>8
  <2>2. k \in Call
    BY <1>1, <1>5 DEF Call, Labels
  <2>3. /\ k.pc = "stat" /\ k.op = call[c].op /\ k.wrote = call[c].wrote
        /\ k.stamp = call[c].stamp /\ k.base = call[c].base
        /\ k.checked = call[c].checked /\ k.fresh = call[c].fresh
        /\ k.draft = call[c].draft /\ k.path = call[c].path
    BY <1>1 DEF Call
  <2> HIDE DEF k
  <2>4. OpAt(k) /\ Traced(k) /\ Unlocked(k) /\ Departing(k)
    BY <1>2, <1>3, <1>4, <2>3 DEF CallInv, OpAt, Traced, Unlocked, Departing,
                                  Rewriters, TagTools, Writing, Moving
  <2>5. Looked(k) /\ Prepared(c, k)
    BY <1>2, <1>3, <2>3 DEF CallInv, Looked, Prepared, Writing
  <2> QED BY QuietStep, <1>1, <1>2, <2>1, <2>2, <2>3, <2>4, <2>5
          DEF CallInv, OnDisk
<1> QED BY <1>6, <1>7, <1>8 DEF ReadTags, OnFile

(* exists(): a new note is prepared for a free path. *)
LEMMA LookExistsStep ==
  ASSUME Inv, NEW c \in Calls, LookExists(c)
  PROVE  Inv'
<1> DEFINE new == NewNote(c, IF call[c].op = "create" THEN {c} ELSE {})
           k == [call[c] EXCEPT !.pc = "lock", !.fresh = TRUE, !.checked = clock,
                                !.draft = new]
<1>1. /\ call[c] \in Call /\ index \in [Ids -> Paths \cup {NoPath}]
      /\ call[c].path \in Paths /\ clock \in Nat
  BY DEF Inv, TypeOK, Call
<1>2. UNCHANGED OnDisk /\ call[c].pc = "exists"
  BY DEF LookExists
<1>3. CallInv(c, call[c]) /\ Stamps
  BY DEF Inv
<1>4. call[c].op \in {"create", "daily"} /\ ~ call[c].wrote /\ ~ call[c].fresh
  BY <1>2, <1>3 DEF CallInv, OpAt, Traced, Prepared, Writing
<1>5. CASE Fail(c)
  BY <1>2, <1>5, FailStep DEF Over
<1>6. CASE Exists(call[c].path) /\ call[c].op = "daily" /\ Goto(c, "readid")
  BY <1>2, <1>4, <1>6, GotoStep DEF Writing
<1>7. CASE /\ ~ Exists(call[c].path)
           /\ call' = [call EXCEPT ![c].pc = "lock", ![c].fresh = TRUE,
                                   ![c].checked = clock, ![c].draft = new]
  <2>1. call' = [call EXCEPT ![c] = k]
    BY <1>7
  <2>2. /\ new \in Note /\ new.id = c
        /\ call[c].op = "create" => c \in new.text
    BY DEF NewNote, Note, Marks, Ids
  <2> HIDE DEF new
  <2>3. k \in Call
    BY <1>1, <2>2 DEF Call, Labels
  <2>4. /\ k.pc = "lock" /\ k.op = call[c].op /\ k.wrote = call[c].wrote
        /\ k.stamp = call[c].stamp /\ k.base = call[c].base
        /\ k.checked = clock /\ k.fresh = TRUE
        /\ k.draft = new /\ k.path = call[c].path
    BY <1>1 DEF Call
  <2> HIDE DEF k
  <2>5. OpAt(k) /\ Traced(k) /\ Unlocked(k) /\ Departing(k)
    BY <1>2, <1>3, <1>4, <2>4 DEF CallInv, OpAt, Traced, Unlocked, Departing,
                                  Rewriters, TagTools, Writing, Moving
  <2>6. Looked(k)
    BY <1>1, <1>3, <1>7, <2>4 DEF CallInv, Looked, Confirmed, Stamps, Writing
  <2>7. Prepared(c, k)
    BY <1>4, <2>2, <2>4 DEF Prepared, Writing
  <2> QED BY QuietStep, <1>1, <1>2, <2>1, <2>2, <2>3, <2>4, <2>5, <2>6, <2>7
          DEF CallInv, OnDisk
<1> QED BY <1>4, <1>5, <1>6, <1>7 DEF LookExists

(* The lockfile check of each of the three primitives. *)
LEMMA CheckLockStep ==
  ASSUME Inv, NEW c \in Calls,
         NEW at \in {"lock", "movelock", "unlinklock"},
         NEW next \in {"replace", "moveexists", "unlink"},
         at = "lock" <=> next = "replace",
         at = "movelock" <=> next = "moveexists",
         CheckLock(c, at, next)
  PROVE  Inv'
<1> DEFINE k == [call[c] EXCEPT !.pc = next, !.lockfree = call[c].path \notin locked]
<1>1. /\ call[c] \in Call /\ index \in [Ids -> Paths \cup {NoPath}]
      /\ call[c].path \in Paths /\ clock \in Nat
  BY DEF Inv, TypeOK, Call
<1>2. UNCHANGED OnDisk /\ call[c].pc = at
  BY DEF CheckLock
<1>3. CallInv(c, call[c]) /\ Stamps
  BY DEF Inv
<1>4. CASE Fail(c)
  BY <1>2, <1>4, FailStep DEF Over
<1>5. CASE /\ ~ LockSeen(call[c].path)
           /\ call' = [call EXCEPT ![c].pc = next,
                                   ![c].lockfree = call[c].path \notin locked]
  <2>1. call' = [call EXCEPT ![c] = k]
    BY <1>5
  <2>2. k \in Call
    BY <1>1 DEF Call, Labels
  <2>3. /\ k.pc = next /\ k.op = call[c].op /\ k.wrote = call[c].wrote
        /\ k.stamp = call[c].stamp /\ k.base = call[c].base
        /\ k.checked = call[c].checked /\ k.fresh = call[c].fresh
        /\ k.draft = call[c].draft /\ k.path = call[c].path
        /\ k.dest = call[c].dest /\ k.lockfree = (call[c].path \notin locked)
    BY <1>1 DEF Call
  <2> HIDE DEF k
  <2>4. OpAt(k) /\ Traced(k)
    BY <1>2, <1>3, <2>3 DEF CallInv, OpAt, Traced, Writing, Moving
  <2>5. Unlocked(k)
    BY <1>5, <2>3 DEF Unlocked, LockSeen
  <2>6. Departing(k) /\ Looked(k)
    BY <1>2, <1>3, <2>3 DEF CallInv, Looked, Confirmed, Departing, Writing, Moving
  <2>7. Prepared(c, k)
    BY <1>2, <1>3, <2>3 DEF CallInv, Prepared, MadeFrom, Writing
  <2> QED BY QuietStep, <1>1, <1>2, <2>1, <2>2, <2>3, <2>4, <2>5, <2>6, <2>7
          DEF CallInv, OnDisk
<1> QED BY <1>4, <1>5 DEF CheckLock

(* rename_unlocked finds the target free. *)
LEMMA LookTargetStep ==
  ASSUME Inv, NEW c \in Calls, LookTarget(c)
  PROVE  Inv'
<1> DEFINE k == [call[c] EXCEPT !.checked = clock, !.pc = "move"]
<1>1. /\ call[c] \in Call /\ index \in [Ids -> Paths \cup {NoPath}]
      /\ call[c].path \in Paths /\ clock \in Nat
  BY DEF Inv, TypeOK, Call
<1>2. UNCHANGED OnDisk /\ call[c].pc = "moveexists"
  BY DEF LookTarget
<1>3. CallInv(c, call[c]) /\ Stamps
  BY DEF Inv
<1>4. CASE Fail(c)
  BY <1>2, <1>4, FailStep DEF Over
<1>5. CASE call' = [call EXCEPT ![c].checked = clock, ![c].pc = "move"]
  <2>1. call' = [call EXCEPT ![c] = k]
    BY <1>5
  <2>2. k \in Call
    BY <1>1 DEF Call, Labels
  <2>3. /\ k.pc = "move" /\ k.op = call[c].op /\ k.wrote = call[c].wrote
        /\ k.stamp = call[c].stamp /\ k.base = call[c].base
        /\ k.checked = clock /\ k.fresh = call[c].fresh
        /\ k.draft = call[c].draft /\ k.path = call[c].path
        /\ k.dest = call[c].dest /\ k.lockfree = call[c].lockfree
    BY <1>1 DEF Call
  <2> HIDE DEF k
  <2>4. OpAt(k) /\ Traced(k) /\ Unlocked(k) /\ Departing(k)
    BY <1>2, <1>3, <2>3 DEF CallInv, OpAt, Traced, Unlocked, Departing,
                            Writing, Moving
  <2>5. Looked(k) /\ Prepared(c, k)
    BY <1>1, <1>2, <1>3, <2>3 DEF CallInv, Looked, Prepared, Writing
  <2> QED BY QuietStep, <1>1, <1>2, <2>1, <2>2, <2>3, <2>4, <2>5
          DEF CallInv, OnDisk
<1> QED BY <1>4, <1>5 DEF LookTarget

(* A request arrives. *)
LEMMA BeginStep ==
  ASSUME Inv, NEW c \in Calls, NEW op \in Ops,
         BeginOnNode(c, op) \/ BeginOnPath(c, op)
  PROVE  Inv'
<1>1. op \in Tools
  BY NoteWritesAssumption DEF Inv, TypeOK, Ops, World
<1>2. index \in [Ids -> Paths \cup {NoPath}] /\ DailyPath \in Paths /\ c \in Ids
  BY NoteWritesAssumption DEF Inv, TypeOK, Ids
<1>3. CASE BeginOnNode(c, op)
  <2>1. PICK id \in {i \in Ids : index[i] # NoPath}, dest \in Paths,
             under \in BOOLEAN : Invoke(c, op, id, index[id], dest, under)
    BY <1>2, <1>3 DEF BeginOnNode
  <2>2. index[id] \in Paths
    BY <1>2, <2>1
  <2> QED BY InvokeStep, <1>1, <1>3, <2>1, <2>2 DEF BeginOnNode
<1>4. CASE BeginOnPath(c, op)
  <2>1. PICK path \in Paths, under \in BOOLEAN :
          Invoke(c, op, c, path, DailyPath, under)
    BY <1>2, <1>4 DEF BeginOnPath
  <2> QED BY InvokeStep, <1>1, <1>2, <1>4, <2>1 DEF BeginOnPath
<1> QED BY <1>3, <1>4

(* daily_capture has found today's note. *)
LEMMA ReadDailyIdStep ==
  ASSUME Inv, NEW c \in Calls, ReadDailyId(c)
  PROVE  Inv'
<1>1. UNCHANGED OnDisk /\ call[c].pc = "readid"
  BY DEF ReadDailyId, OnFile
<1>2. call[c].op = "daily"
  BY <1>1 DEF Inv, CallInv, OpAt
<1>3. CASE Fail(c)
  BY <1>1, <1>3, FailStep DEF Over
<1>4. ASSUME NEW next \in AfterDaily, Goto(c, next) PROVE Inv'
  BY <1>1, <1>2, <1>4, GotoStep DEF AfterDaily, Writing, Rewriters
<1> QED BY <1>3, <1>4 DEF ReadDailyId, OnFile

(* The end of a call that succeeds, and of one whose write is refused. *)
LEMMA ReturnStep ==
  ASSUME Inv, NEW c \in Calls, Return(c) \/ WriteFails(c)
  PROVE  Inv'
<1>1. CASE Return(c)
  <2>1. index' \in [Ids -> Paths \cup {NoPath}]
    BY <1>1 DEF Return, Inv, TypeOK, Scans
  <2> QED BY EndStep, <1>1, <2>1 DEF Return, Over
<1>2. CASE WriteFails(c)
  BY <1>2, FailStep DEF WriteFails, Over
<1> QED BY <1>1, <1>2

-----------------------------------------------------------------------------
(* The steps that change the vault                                         *)

(* A path is written, emptied, or given the note that another path had,     *)
(* which was not one of the time before the first change.                  *)
Rewritten(p) == files'[p].mtime = clock + 1
Gone(p)      == files'[p] = Absent
Came(p)      == \E r \in Paths \ {p} : /\ Gone(r) /\ files'[p] = files[r]
                                       /\ files[r].mtime \notin {0, 1}

VaultStep ==
  /\ world' = world /\ clock' = clock + 1
  /\ files' \in [Paths -> Note] /\ changed' \in [Paths -> Nat]
  /\ \A p \in Paths :
       \/ files'[p] = files[p] /\ changed'[p] = changed[p]
       \/ changed'[p] = clock + 1 /\ (Rewritten(p) \/ Gone(p) \/ Came(p))
  /\ \A p, q \in Paths : p # q => /\ ~ (Rewritten(p) /\ Rewritten(q))
                                  /\ ~ (Came(p) /\ Came(q))

(* The mtimes stay apart. *)
LEMMA VaultKeepsStamps ==
  ASSUME Inv, VaultStep
  PROVE  Stamps'
<1>1. /\ clock \in Nat /\ clock' = clock + 1 /\ clock > 0
      /\ \A p \in Paths : /\ files[p].mtime \in Nat /\ changed[p] \in 1..clock
                          /\ files[p].mtime <= changed[p]
                          /\ files'[p].mtime \in Nat /\ changed'[p] \in Nat
  BY DEF Inv, TypeOK, Stamps, VaultStep, Note
<1>2. \A p \in Paths : files[p].mtime = 0 => files[p] = Absent
  BY DEF Inv, Stamps
<1>3. ASSUME NEW p \in Paths
      PROVE  /\ changed'[p] \in 1..clock' /\ files'[p].mtime <= changed'[p]
             /\ files'[p].mtime = 0 => files'[p] = Absent
  <2>1. CASE files'[p] = files[p] /\ changed'[p] = changed[p]
    BY <1>1, <1>2, <2>1
  <2>2. CASE changed'[p] = clock + 1 /\ Rewritten(p)
    BY <1>1, <2>2 DEF Rewritten
  <2>3. CASE changed'[p] = clock + 1 /\ Gone(p)
    BY <1>1, <2>3, AbsentIsANote DEF Gone
  <2>4. CASE changed'[p] = clock + 1 /\ Came(p)
    BY <1>1, <2>4 DEF Came
  <2> QED BY <2>1, <2>2, <2>3, <2>4 DEF VaultStep
<1>4. ASSUME NEW p \in Paths, NEW q \in Paths, p # q,
             files'[p].mtime = files'[q].mtime, files'[p].mtime \notin {0, 1}
      PROVE  FALSE
  <2>1. ~ Gone(p) /\ ~ Gone(q)
    BY <1>4, AbsentIsANote DEF Gone
  <2>2. ASSUME NEW r \in Paths, NEW s \in Paths, r # s
        PROVE  files[r].mtime = files[s].mtime => files[r].mtime \in {0, 1}
    BY <2>2 DEF Inv, Stamps
  <2>3. /\ files'[p] = files[p] \/ Rewritten(p) \/ Came(p)
        /\ files'[q] = files[q] \/ Rewritten(q) \/ Came(q)
    BY <2>1 DEF VaultStep
  <2>4. CASE Rewritten(p) \/ Rewritten(q)
    <3>1. Rewritten(p) /\ Rewritten(q)
      BY <1>4, <2>4 DEF Rewritten
    <3> QED BY <1>4, <3>1 DEF VaultStep
  <2>5. CASE ~ Rewritten(p) /\ ~ Rewritten(q) /\ Came(p)
    <3>1. files'[q] = files[q]
      BY <1>4, <2>3, <2>5 DEF VaultStep
    <3>2. PICK r \in Paths \ {p} : Gone(r) /\ files'[p] = files[r]
      BY <2>5 DEF Came
    <3>3. r # q
      BY <2>1, <3>2
    <3> QED BY <1>4, <2>2, <3>1, <3>2, <3>3
  <2>6. CASE ~ Rewritten(p) /\ ~ Rewritten(q) /\ Came(q)
    <3>1. files'[p] = files[p]
      BY <1>4, <2>3, <2>6 DEF VaultStep
    <3>2. PICK r \in Paths \ {q} : Gone(r) /\ files'[q] = files[r]
      BY <2>6 DEF Came
    <3>3. r # p
      BY <2>1, <3>2
    <3> QED BY <1>4, <2>2, <3>1, <3>2, <3>3
  <2>7. CASE files'[p] = files[p] /\ files'[q] = files[q]
    BY <1>4, <2>2, <2>7
  <2> QED BY <2>3, <2>4, <2>5, <2>6, <2>7
<1>5. clock' > 0
  BY <1>1
<1> QED BY <1>3, <1>4, <1>5 DEF Stamps, Absent

(* What a call knows of the vault, as far as it can rely on it, stays true   *)
(* whatever others change.                                                 *)
LEMMA VaultKeepsCalls ==
  ASSUME Inv, VaultStep, NEW d \in Calls, call'[d] = call[d]
  PROVE  CallInv(d, call[d])'
<1> DEFINE k == call[d]
           p == k.path
<1>1. /\ k \in Call /\ p \in Paths /\ clock \in Nat /\ clock' = clock + 1
      /\ clock > 0 /\ changed[p] \in Nat
      /\ k.stamp \in Nat /\ k.base \in Nat /\ k.checked \in Nat
      /\ CallInv(d, k)
  BY DEF Inv, TypeOK, Call, Stamps, VaultStep
<1>2. \/ files'[p] = files[p] /\ changed'[p] = changed[p]
      \/ changed'[p] = clock + 1 /\ (Rewritten(p) \/ Gone(p) \/ Came(p))
  BY <1>1 DEF VaultStep
<1>3. /\ k.stamp <= clock /\ k.base <= clock /\ k.checked <= clock
  BY <1>1 DEF CallInv, Looked
<1> HIDE DEF p
<1>4. OpAt(k)' /\ Traced(k)' /\ Unlocked(k)'
  BY <1>1 DEF CallInv, OpAt, Traced, Unlocked, Ops, LockForm, VaultStep
<1>5. Looked(k)'
  <2>1. CASE files'[p] = files[p] /\ changed'[p] = changed[p]
    BY <1>1, <1>3, <2>1 DEF CallInv, Looked, Confirmed, Exists, p
  <2>2. CASE changed'[p] = clock + 1
    BY <1>1, <1>3, <2>2 DEF CallInv, Looked, p
  <2> QED BY <1>2, <2>1, <2>2
<1>6. Departing(k)'
  BY <1>1, <1>2, AbsentIsANote
     DEF CallInv, Departing, Rewritten, Gone, Came, p
<1>7. ASSUME MadeFrom(d, k) PROVE MadeFrom(d, k)'
  <2> SUFFICES ASSUME NEW q \in Paths, files'[q].mtime = k.base,
                      k.base # 1 \/ q = p
               PROVE  /\ k.draft.id = files'[q].id
                      /\ k.op \in Inserting \cup TagTools =>
                           files'[q].text \subseteq k.draft.text
    BY <1>7 DEF MadeFrom, p
  <2>1. k.base # 0 /\ ~ Gone(q) /\ ~ Rewritten(q)
    BY <1>1, <1>3, <1>7, AbsentIsANote DEF MadeFrom, Gone, Rewritten
  <2>2. files'[q] = files[q] \/ Came(q)
    BY <2>1 DEF VaultStep
  <2>3. PICK r \in Paths : /\ files'[q] = files[r] /\ files[r].mtime = k.base
                           /\ k.base # 1 \/ r = p
    BY <2>2 DEF Came
  <2> QED BY <1>7, <2>3 DEF MadeFrom, p
<1>8. Prepared(d, k)'
  BY <1>1, <1>7 DEF CallInv, Prepared
<1> QED BY <1>4, <1>5, <1>6, <1>8 DEF CallInv

(* A step of one call that changes the vault keeps the invariant, as soon   *)
(* as what it makes of the call's own state does.                          *)
LEMMA WritingStep ==
  ASSUME Inv, VaultStep, NEW c \in Calls, NEW k \in Call,
         call' = [call EXCEPT ![c] = k],
         UNCHANGED <<locked, index, saves>>, late' \in BOOLEAN,
         CallInv(c, k)',
         k.draft = call[c].draft, call[c].wrote => k.wrote,
         \A p \in Paths :
           \/ files'[p].id \in {NoId} \cup {files[q].id : q \in Paths}
           \/ k.wrote /\ files'[p].id = k.draft.id
  PROVE  Inv'
<1>1. TypeOK'
  BY DEF Inv, TypeOK, MaxSaves, VaultStep
<1>2. /\ call'[c] = k
      /\ \A d \in Calls \ {c} : call'[d] = call[d]
  BY DEF Inv, TypeOK
<1>3. NewIds'
  <2> SUFFICES ASSUME NEW b \in Calls, ~ call'[b].wrote
               PROVE  /\ \A p \in Paths : files'[p].id # b
                      /\ \A d \in Calls \ {b} : call'[d].draft.id # b
    BY DEF NewIds
  <2>1. ~ call[b].wrote
    BY <1>2
  <2>2. /\ \A p \in Paths : files[p].id # b
        /\ \A d \in Calls \ {b} : call[d].draft.id # b
    BY <2>1 DEF Inv, NewIds
  <2>3. \A d \in Calls \ {b} : call'[d].draft.id # b
    BY <1>2, <2>2
  <2>4. ASSUME NEW p \in Paths PROVE files'[p].id # b
    <3>1. CASE b = c
      BY <1>2, <2>2, <3>1, NoteWritesAssumption
    <3>2. CASE b # c
      BY <2>2, <3>2, NoteWritesAssumption
    <3> QED BY <3>1, <3>2
  <2> QED BY <2>3, <2>4
<1>4. ASSUME NEW d \in Calls PROVE CallInv(d, call[d])'
  <2>1. CASE d = c
    BY <1>2, <2>1
  <2>2. CASE d # c
    BY <1>2, <2>2, VaultKeepsCalls
  <2> QED BY <2>1, <2>2
<1> QED BY <1>1, <1>3, <1>4, VaultKeepsStamps DEF Inv

(* One path gets a note of its own mtime, or none. *)
LEMMA ChangeIsAVaultStep ==
  ASSUME Inv, NEW p \in Paths, NEW n \in Note, Change(p, n),
         n = Absent \/ n.mtime = clock + 1
  PROVE  VaultStep
<1>1. /\ files \in [Paths -> Note] /\ changed \in [Paths -> Nat] /\ clock \in Nat
      /\ \A q \in Paths : files[q].mtime <= clock /\ files[q].mtime \in Nat
  BY DEF Inv, TypeOK, Stamps, Note
<1>2. /\ files'[p] = n /\ changed'[p] = clock + 1
      /\ \A q \in Paths \ {p} : files'[q] = files[q] /\ changed'[q] = changed[q]
  BY <1>1 DEF Change
<1>3. \A q \in Paths \ {p} : ~ Rewritten(q)
  BY <1>1, <1>2 DEF Rewritten
<1>4. \A q \in Paths \ {p} : ~ Came(q)
  <2> SUFFICES ASSUME NEW q \in Paths \ {p}, Came(q) PROVE FALSE
    OBVIOUS
  <2>1. PICK r \in Paths \ {q} : /\ Gone(r) /\ files[q] = files[r]
                                 /\ files[r].mtime \notin {0, 1}
    BY <1>2 DEF Came
  <2> QED BY <2>1 DEF Inv, Stamps
<1>5. files' \in [Paths -> Note] /\ changed' \in [Paths -> Nat]
  BY <1>1 DEF Change
<1>6. n = Absent => Gone(p)
  BY <1>2 DEF Gone
<1>7. n.mtime = clock + 1 => Rewritten(p)
  BY <1>2 DEF Rewritten
<1> QED BY <1>2, <1>3, <1>4, <1>5, <1>6, <1>7 DEF VaultStep, Change

(* The rename of atomic_write. *)
LEMMA ReplaceStep ==
  ASSUME Inv, NEW c \in Calls, Replace(c)
  PROVE  Inv' /\ VaultStep
<1> DEFINE n == [call[c].draft EXCEPT !.mtime = clock + 1]
<1>1. /\ call[c] \in Call /\ call[c].path \in Paths /\ clock \in Nat
      /\ call[c].pc = "replace" /\ late \in BOOLEAN
      /\ UNCHANGED <<locked, index, saves>>
      /\ call[c].draft \in Note
  BY DEF Inv, TypeOK, Call, Replace
<1>2. n \in Note /\ n.mtime = clock + 1 /\ n.id = call[c].draft.id
  BY <1>1 DEF Note
<1>3. Change(call[c].path, n)
  BY DEF Replace
<1> HIDE DEF n
<1>4. VaultStep
  BY <1>1, <1>2, <1>3, ChangeIsAVaultStep
<1>5. CallInv(c, call[c])
  BY DEF Inv
<1>6. PICK next \in {"stat", "movelock", "return"} :
        /\ next = "stat" => call[c].op = "daily"
        /\ next = "movelock" => call[c].op = "rename" /\ call[c].dest # call[c].path
        /\ call[c].op \in {"rename", "daily"} \/ next = "return"
        /\ call' = [call EXCEPT ![c].wrote = TRUE, ![c].fresh = FALSE,
                                ![c].checked = 0, ![c].lockfree = FALSE,
                                ![c].pc = next]
  <2>1. PICK next \in CASE call[c].op = "daily" /\ call[c].fresh -> AfterDaily
                        [] call[c].op = "rename" /\ call[c].dest # call[c].path ->
                             {"movelock"}
                        [] OTHER -> {"return"} :
          call' = [call EXCEPT ![c].wrote = TRUE, ![c].fresh = FALSE,
                               ![c].checked = 0, ![c].lockfree = FALSE,
                               ![c].pc = next]
    BY DEF Replace
  <2> QED BY <2>1 DEF AfterDaily
<1>7. [call[c] EXCEPT !.wrote = TRUE, !.fresh = FALSE, !.checked = 0,
                      !.lockfree = FALSE, !.pc = next] \in Call
  BY <1>1 DEF Call, Labels
<1>8. PICK k \in Call : k = [call[c] EXCEPT !.wrote = TRUE, !.fresh = FALSE,
                               !.checked = 0, !.lockfree = FALSE, !.pc = next]
  BY <1>7
<1>9. /\ k.pc = next /\ k.op = call[c].op /\ k.wrote = TRUE
      /\ k.stamp = call[c].stamp /\ k.base = call[c].base
      /\ k.checked = 0 /\ k.fresh = FALSE
      /\ k.draft = call[c].draft /\ k.path = call[c].path
      /\ k.dest = call[c].dest /\ call' = [call EXCEPT ![c] = k]
  BY <1>1, <1>6, <1>8 DEF Call
<1>10. files'[k.path].mtime = clock + 1 /\ clock > 0 /\ clock' = clock + 1
  BY <1>1, <1>2, <1>3, <1>9 DEF Change, Inv, TypeOK, Stamps
<1>11. Ops' = Ops /\ LockForm' = LockForm
  BY <1>4 DEF VaultStep, Ops, LockForm
<1>12. /\ OpAt(k)' /\ Traced(k)' /\ Unlocked(k)'
       /\ Looked(k)' /\ Prepared(c, k)' /\ Departing(k)'
  <2>1. call[c].op \in Ops
    BY <1>1, <1>5 DEF CallInv, OpAt
  <2>2. OpAt(k)'
    BY <1>6, <1>9, <1>11, <2>1 DEF OpAt, Rewriters, TagTools, Writing, Moving
  <2>3. Traced(k)' /\ Unlocked(k)'
    BY <1>6, <1>9 DEF Traced, Unlocked
  <2>4. k.stamp \in Nat /\ k.base \in Nat
    BY <1>8 DEF Call
  <2>5. Looked(k)'
    BY <1>1, <1>5, <1>6, <1>9, <1>10, <2>4 DEF CallInv, Looked, Writing
  <2>6. Prepared(c, k)' /\ Departing(k)'
    BY <1>1, <1>6, <1>9, <1>10 DEF Prepared, Departing, Writing
  <2> QED BY <2>2, <2>3, <2>5, <2>6
<1>13. \A q \in Paths : files'[q].id = k.draft.id \/ files'[q] = files[q]
  BY <1>1, <1>2, <1>3, <1>9 DEF Change, Inv, TypeOK
<1>14. late' \in BOOLEAN
  <2>1. late' = (late \/ Window(call[c]) \/ Returned(call[c]))
    BY DEF Replace
  <2>2. CASE late \/ Window(call[c]) \/ Returned(call[c])
    BY <2>1, <2>2, Zenon
  <2>3. CASE ~ (late \/ Window(call[c]) \/ Returned(call[c]))
    BY <2>1, <2>3, Zenon
  <2> QED BY <2>2, <2>3
<1> QED BY WritingStep, <1>1, <1>4, <1>9, <1>12, <1>13, <1>14
        DEF CallInv

(* The unlink of remove_file_unlocked. *)
LEMMA UnlinkStep ==
  ASSUME Inv, NEW c \in Calls, Unlink(c)
  PROVE  Inv' /\ (UNCHANGED OnDisk \/ VaultStep)
<1>1. /\ call[c] \in Call /\ call[c].path \in Paths /\ clock \in Nat
      /\ call[c].pc = "unlink" /\ late \in BOOLEAN
  BY DEF Inv, TypeOK, Call, Unlink
<1>2. CallInv(c, call[c])
  BY DEF Inv
<1>3. CASE Fail(c) /\ UNCHANGED OnDisk
  BY <1>1, <1>3, FailStep DEF Over
<1>4. CASE /\ Change(call[c].path, Absent)
           /\ call' = [call EXCEPT ![c].wrote = TRUE, ![c].pc = "return"]
           /\ UNCHANGED <<locked, index, saves, late>>
  <2>1. VaultStep
    BY <1>1, <1>4, AbsentIsANote, ChangeIsAVaultStep
  <2>2. [call[c] EXCEPT !.wrote = TRUE, !.pc = "return"] \in Call
    BY <1>1 DEF Call, Labels
  <2>3. PICK k \in Call : k = [call[c] EXCEPT !.wrote = TRUE, !.pc = "return"]
    BY <2>2
  <2>4. /\ k.pc = "return" /\ k.op = call[c].op /\ k.wrote = TRUE
        /\ k.stamp = call[c].stamp /\ k.base = call[c].base
        /\ k.checked = call[c].checked /\ k.fresh = call[c].fresh
        /\ k.draft = call[c].draft /\ k.path = call[c].path
        /\ call' = [call EXCEPT ![c] = k]
    BY <1>1, <1>4, <2>3 DEF Call
  <2>5. /\ Ops' = Ops /\ LockForm' = LockForm /\ clock' = clock + 1
        /\ k.stamp \in Nat /\ k.base \in Nat /\ k.checked \in Nat
    BY <2>1 DEF VaultStep, Ops, LockForm, Call
  <2>6. OpAt(k)' /\ Traced(k)' /\ Unlocked(k)'
    BY <1>1, <1>2, <2>4, <2>5 DEF CallInv, OpAt, Traced, Unlocked, Writing, Moving
  <2>7. Looked(k)' /\ Prepared(c, k)' /\ Departing(k)'
    BY <1>1, <1>2, <2>4, <2>5 DEF CallInv, Looked, Prepared, Departing, Writing, Moving
  <2>8. \A q \in Paths : files'[q].id = NoId \/ files'[q] = files[q]
    BY <1>1, <1>4, AbsentIsANote DEF Change, Inv, TypeOK
  <2>9. late' \in BOOLEAN
    BY <1>1, <1>4
  <2> QED BY WritingStep, <1>4, <2>1, <2>4, <2>6, <2>7, <2>8, <2>9 DEF CallInv
<1> QED BY <1>3, <1>4 DEF Unlink

(* The rename of rename_unlocked. *)
LEMMA MoveStep ==
  ASSUME Inv, NEW c \in Calls, Move(c)
  PROVE  Inv' /\ (UNCHANGED OnDisk \/ VaultStep)
<1> DEFINE from == call[c].path
           to   == call[c].dest
<1>1. /\ call[c] \in Call /\ from \in Paths /\ to \in Paths /\ clock \in Nat
      /\ call[c].pc = "move" /\ late \in BOOLEAN
      /\ files \in [Paths -> Note] /\ changed \in [Paths -> Nat]
      /\ \A q \in Paths : files[q].mtime <= clock /\ files[q].mtime \in Nat
      /\ index \in [Ids -> Paths \cup {NoPath}]
  <2>1. call[c] \in Call /\ clock \in Nat
    BY DEF Inv, TypeOK
  <2>2. from \in Paths /\ to \in Paths
    BY <2>1 DEF Call
  <2> QED BY <2>1, <2>2 DEF Inv, TypeOK, Note, Move, Stamps
<1>2. CallInv(c, call[c])
  BY DEF Inv
<1>3. from # to /\ files[from].mtime # 1
  BY <1>1, <1>2 DEF CallInv, OpAt, Departing, Moving
<1>4. CASE Fail(c) /\ UNCHANGED OnDisk
  BY <1>1, <1>4, FailStep DEF Over
<1>5. CASE Exists(from)
  <2> DEFINE mid == [files EXCEPT ![to] = files[from]]
  <2>1. /\ files' = [mid EXCEPT ![from] = Absent] /\ clock' = clock + 1
        /\ changed' = [changed EXCEPT ![to] = clock + 1, ![from] = clock + 1]
        /\ late' = (late \/ changed[to] > call[c].checked)
        /\ Goto(c, "return") /\ UNCHANGED <<world, locked, index, saves>>
    BY <1>5 DEF Move
  <2>2. /\ files'[from] = Absent /\ files'[to] = files[from]
        /\ changed'[from] = clock + 1 /\ changed'[to] = clock + 1
        /\ \A q \in Paths \ {from, to} : files'[q] = files[q] /\ changed'[q] = changed[q]
        /\ files' \in [Paths -> Note] /\ changed' \in [Paths -> Nat]
    BY <1>1, <1>3, <2>1, AbsentIsANote
  <2> HIDE DEF from, to
  <2>3. Gone(from) /\ Came(to)
    BY <1>1, <1>3, <1>5, <2>2 DEF Gone, Came, Exists
  <2>4. \A q \in Paths : ~ Rewritten(q)
    BY <1>1, <1>3, <2>2, AbsentIsANote DEF Rewritten
  <2>5. \A q \in Paths \ {to} : ~ Came(q)
    <3> SUFFICES ASSUME NEW q \in Paths \ {to}, Came(q) PROVE FALSE
      OBVIOUS
    <3>1. PICK r \in Paths \ {q} : /\ Gone(r) /\ files'[q] = files[r]
                                   /\ files[r].mtime \notin {0, 1}
      BY DEF Came
    <3>2. files'[q].mtime # 0 /\ files[r] # Absent /\ files'[r] = Absent
      BY <3>1, AbsentIsANote DEF Gone
    <3>3. q # from /\ files'[q] = files[q]
      BY <2>2, <3>2, AbsentIsANote
    <3> QED BY <3>1, <3>3 DEF Inv, Stamps
  <2>6. VaultStep
    BY <2>1, <2>2, <2>3, <2>4, <2>5 DEF VaultStep
  <2>7. [call[c] EXCEPT !.pc = "return"] \in Call
    BY <1>1 DEF Call, Labels
  <2>8. PICK k \in Call : k = [call[c] EXCEPT !.pc = "return"]
    BY <2>7
  <2>9. /\ k.pc = "return" /\ k.op = call[c].op /\ k.wrote = call[c].wrote
        /\ k.stamp = call[c].stamp /\ k.base = call[c].base
        /\ k.checked = call[c].checked /\ k.fresh = call[c].fresh
        /\ k.draft = call[c].draft /\ k.path = call[c].path
        /\ call' = [call EXCEPT ![c] = k]
    BY <1>1, <2>1, <2>8 DEF Call, Goto
  <2>10. /\ Ops' = Ops /\ LockForm' = LockForm /\ clock' = clock + 1
         /\ k.stamp \in Nat /\ k.base \in Nat /\ k.checked \in Nat
    BY <2>6 DEF VaultStep, Ops, LockForm, Call
  <2>11. OpAt(k)' /\ Traced(k)' /\ Unlocked(k)'
    BY <1>1, <1>2, <2>9, <2>10 DEF CallInv, OpAt, Traced, Unlocked, Writing, Moving
  <2>12. Looked(k)' /\ Prepared(c, k)' /\ Departing(k)'
    BY <1>1, <1>2, <2>9, <2>10 DEF CallInv, Looked, Prepared, Departing, Writing, Moving
  <2>13. \A q \in Paths : files'[q].id = NoId \/ \E r \in Paths : files'[q] = files[r]
    BY <1>1, <2>2, AbsentIsANote
  <2>14. late' \in BOOLEAN
    <3>1. CASE late \/ changed[to] > call[c].checked
      BY <2>1, <3>1, Zenon
    <3>2. CASE ~ (late \/ changed[to] > call[c].checked)
      BY <2>1, <3>2, Zenon
    <3> QED BY <3>1, <3>2
  <2> QED BY WritingStep, <2>1, <2>6, <2>9, <2>11, <2>12, <2>13, <2>14 DEF CallInv
<1> QED BY <1>4, <1>5 DEF Move

(* Emacs saves a buffer. *)
LEMMA EmacsSavesStep ==
  ASSUME Inv, NEW p \in Paths, EmacsSaves(p)
  PROVE  Inv' /\ VaultStep
<1> DEFINE n == [files[p] EXCEPT !.text = @ \cup {p}, !.mtime = clock + 1]
<1>1. /\ clock \in Nat /\ files \in [Paths -> Note] /\ saves \in [Paths -> 0..MaxSaves]
      /\ locked \subseteq Paths /\ MaxSaves \in Nat
  BY NoteWritesAssumption DEF Inv, TypeOK, MaxSaves, World
<1>2. n \in Note /\ n.mtime = clock + 1 /\ n.id = files[p].id
  <2>1. files[p] \in Note /\ clock + 1 \in Nat
    BY <1>1
  <2>2. files[p].text \cup {p} \in SUBSET Marks
    BY <2>1 DEF Note, Marks
  <2> QED BY <2>1, <2>2 DEF Note
<1>3. Change(p, n) /\ UNCHANGED <<index, call, late>>
  BY DEF EmacsSaves
<1>4. saves' \in [Paths -> 0..MaxSaves] /\ locked' \subseteq Paths
  BY <1>1 DEF EmacsSaves
<1> HIDE DEF n
<1>5. VaultStep
  BY <1>2, <1>3, ChangeIsAVaultStep
<1>6. TypeOK'
  BY <1>3, <1>4, <1>5 DEF Inv, TypeOK, VaultStep, MaxSaves
<1>7. \A q \in Paths : files'[q].id = files[q].id
  BY <1>1, <1>2, <1>3 DEF Change
<1>8. NewIds'
  BY <1>3, <1>7 DEF Inv, NewIds
<1>9. ASSUME NEW d \in Calls PROVE CallInv(d, call[d])'
  BY <1>3, <1>5, VaultKeepsCalls
<1> QED BY <1>5, <1>6, <1>8, <1>9, VaultKeepsStamps DEF Inv

(* Every step keeps the invariant.  Those of the index and of the lockfiles *)
(* change nothing it is about.                                             *)
LEMMA InvNext == Inv /\ [Next]_vars => Inv'
<1> SUFFICES ASSUME Inv, [Next]_vars PROVE Inv'
  OBVIOUS
<1>1. ASSUME NEW c \in Calls, Step(c) PROVE Inv'
  BY <1>1, BeginStep, LookExistsStep, ReadDailyIdStep, ReadTagsStep, StatStep,
     ReadStep, RecheckStep, CheckLockStep, ReplaceStep, ReturnStep,
     LookTargetStep, MoveStep, UnlinkStep
     DEF Step
<1>2. ASSUME UNCHANGED <<world, files, clock, changed, saves, call, late>>,
             locked' \subseteq Paths, index' \in [Ids -> Paths \cup {NoPath}]
      PROVE  Inv'
  <2>1. TypeOK'
    BY <1>2 DEF Inv, TypeOK, MaxSaves
  <2>2. Stamps' /\ NewIds'
    BY <1>2 DEF Inv, Stamps, NewIds, Absent
  <2>3. ASSUME NEW c \in Calls PROVE CallInv(c, call[c])'
    BY <1>2 DEF Inv, CallInv, OpAt, Traced, Unlocked, Looked, Confirmed, Prepared,
                MadeFrom, Departing, Exists, Ops, LockForm
  <2> QED BY <2>1, <2>2, <2>3 DEF Inv
<1>3. CASE Reindex
  BY <1>2, <1>3 DEF Reindex, Scans, Inv, TypeOK
<1>4. ASSUME NEW p \in Paths, EmacsLocks(p) PROVE Inv'
  BY <1>2, <1>4 DEF EmacsLocks, Inv, TypeOK
<1>5. ASSUME NEW p \in Paths, EmacsSaves(p) PROVE Inv'
  BY <1>5, EmacsSavesStep
<1>6. CASE Idle \/ UNCHANGED vars
  BY <1>2, <1>6 DEF Idle, vars, Inv, TypeOK
<1> QED BY <1>1, <1>3, <1>4, <1>5, <1>6 DEF Next

(* The inductive invariant holds of every behaviour. *)
THEOREM InvHolds == Spec => []Inv
  BY InvInit, InvNext, PTL DEF Spec

(* The state of the vault, of the index and of every call keeps its type:   *)
(* in particular what a call writes is always a note.                      *)
THEOREM TypeCorrect == Spec => []TypeOK
<1>1. Inv => TypeOK
  BY DEF Inv
<1> QED BY <1>1, InvHolds, PTL

(* A call that ends in an error has changed nothing, but for a rename that  *)
(* failed between its two steps and a daily capture between its two: what  *)
(* it has changed it is about to report.                                   *)
THEOREM NoTraceOfFailure == Spec => []FailedCallsLeaveNoTrace
<1>1. Inv => FailedCallsLeaveNoTrace
  BY DEF Inv, CallInv, Traced, FailedCallsLeaveNoTrace
<1> QED BY <1>1, InvHolds, PTL

-----------------------------------------------------------------------------
(* What the invariant says of the steps                                    *)

(* The only steps of a call that change the vault. *)
LEMMA WritersOfTheVault ==
  ASSUME NEW c \in Calls, Step(c)
  PROVE  /\ UNCHANGED <<world, locked, saves>>
         /\ \/ UNCHANGED <<files, clock, changed, late>>
            \/ Replace(c)
            \/ Move(c) /\ Exists(call[c].path)
            \/ Unlink(c) /\ Exists(call[c].path)
  BY DEF Step, BeginOnNode, BeginOnPath, LookExists, ReadDailyId, ReadTags, Stat,
         Read, Recheck, CheckLock, WriteFails, LookTarget, Return, OnFile, OnDisk,
         Replace, Move, Unlink, Change

(* A path whose lockfile is a regular file is changed by Emacs only, by a   *)
(* call that looked before the lockfile was there, or as the target of a   *)
(* rename.                                                                 *)
THEOREM LocksObeyed == Spec => RegularLocksObeyed
<1> DEFINE Obeyed ==
      LockForm = "file" =>
       \A p \in locked :
         files'[p] # files[p] =>
           \/ p \notin locked'
           \/ \E c \in Calls : call[c].lockfree /\ call[c].path = p
           \/ \E c \in Calls : call[c].pc = "move" /\ call[c].dest = p
<1>1. ASSUME Inv, Next PROVE Obeyed
  <2> SUFFICES ASSUME LockForm = "file", NEW p \in locked, files'[p] # files[p],
                      p \in locked'
               PROVE  \/ \E c \in Calls : call[c].lockfree /\ call[c].path = p
                      \/ \E c \in Calls : call[c].pc = "move" /\ call[c].dest = p
    OBVIOUS
  <2>1. p \in Paths /\ files \in [Paths -> Note]
    BY <1>1 DEF Inv, TypeOK
  <2>2. ASSUME NEW q \in Paths, EmacsSaves(q) PROVE FALSE
    <3>1. p # q
      BY <2>2 DEF EmacsSaves
    <3> QED BY <2>1, <2>2, <3>1 DEF EmacsSaves, Change
  <2>3. ~ (Reindex \/ Idle) /\ \A q \in Paths : ~ EmacsLocks(q)
    BY DEF Reindex, Idle, EmacsLocks, vars
  <2>4. PICK c \in Calls : Step(c)
    BY <1>1, <2>2, <2>3 DEF Next
  <2>5. Unlocked(call[c])
    BY <1>1 DEF Inv, CallInv
  <2>6. CASE Replace(c)
    <3>1. p = call[c].path
      BY <2>1, <2>6 DEF Replace, Change
    <3> QED BY <2>5, <2>6, <3>1 DEF Unlocked, Replace
  <2>7. CASE Move(c) /\ Exists(call[c].path)
    <3>1. p = call[c].path \/ p = call[c].dest
      BY <2>1, <2>7 DEF Move
    <3> QED BY <2>5, <2>7, <3>1 DEF Unlocked, Move
  <2>8. CASE Unlink(c) /\ Exists(call[c].path)
    <3>1. p = call[c].path
      BY <2>1, <2>8 DEF Unlink, Change
    <3> QED BY <2>5, <2>8, <3>1 DEF Unlocked, Unlink
  <2> QED BY <2>4, <2>6, <2>7, <2>8, WritersOfTheVault
<1>2. Inv /\ [Next]_vars => [Obeyed]_vars
  BY <1>1
<1> HIDE DEF Obeyed
<1>3. Spec => [][Obeyed]_vars
  BY <1>2, InvHolds, PTL DEF Spec
<1> QED BY <1>3 DEF Obeyed, RegularLocksObeyed

(* What a call that looks twice finds of the note it is to replace. *)
LEMMA SeenAtReplace ==
  ASSUME Inv, NEW c \in Calls, call[c].pc = "replace", call[c].op # "update",
         ~ Window(call[c]), ~ Returned(call[c])
  PROVE  \/ call[c].fresh /\ ~ Exists(call[c].path)
         \/ ~ call[c].fresh /\ files[call[c].path].mtime = call[c].base
<1>1. Looked(call[c])
  BY DEF Inv, CallInv
<1>2. Confirmed(call[c])
  BY <1>1 DEF Looked, Window, Writing
<1> QED BY <1>2 DEF Confirmed, Returned, Exists

(* No tool but update_node replaces a version of a note that it has not     *)
(* seen, but one that came after its last look at the path, or that two    *)
(* renames took away and brought back around its read.                     *)
THEOREM OthersWritesSeen == Spec => RewriteSeesOtherWriters
<1> DEFINE Seen == \A c \in Calls : call[c].op # "update" => ~ OverwritesUnseen(c)
<1>1. Inv => Seen
  BY SeenAtReplace DEF OverwritesUnseen
<1> HIDE DEF Seen
<1>2. Spec => [][Seen]_vars
  BY <1>1, InvHolds, PTL
<1> QED BY <1>2 DEF Seen, RewriteSeesOtherWriters

-----------------------------------------------------------------------------
(* One file for each :ID:, and edits that stay                             *)

(* What the rename of atomic_write puts in place, when it is not too late:  *)
(* a new note where there was none, with an :ID: of its own; or a version  *)
(* of the note that is there.                                              *)
LEMMA ReplacesWhatItRead ==
  ASSUME Inv, NEW c \in Calls, Replace(c), ~ late', "update" \notin Ops
  PROVE  LET k == call[c] IN
         /\ k.path \in Paths
         /\ files' = [files EXCEPT ![k.path] = [k.draft EXCEPT !.mtime = clock + 1]]
         /\ k.op \in {"append", "create"} => c \in k.draft.text
         /\ \/ files[k.path] = Absent /\ \A q \in Paths : files[q].id # k.draft.id
            \/ /\ k.draft.id = files[k.path].id
               /\ k.op \in Inserting \cup TagTools =>
                    files[k.path].text \subseteq k.draft.text
<1> DEFINE k == call[c]
<1>1. /\ k.path \in Paths /\ k.pc = "replace"
      /\ files' = [files EXCEPT ![k.path] = [k.draft EXCEPT !.mtime = clock + 1]]
      /\ ~ Window(k) /\ ~ Returned(k)
  BY DEF Inv, TypeOK, Call, Replace, Change
<1>2. /\ OpAt(k) /\ Prepared(c, k)
      /\ ~ k.wrote => \A q \in Paths : files[q].id # c
  BY DEF Inv, CallInv, NewIds
<1>3. k.op # "update"
  BY <1>1, <1>2 DEF OpAt
<1>4. CASE k.fresh /\ ~ Exists(k.path)
  BY <1>1, <1>2, <1>4, ExistsAt DEF Prepared
<1>5. CASE ~ k.fresh /\ files[k.path].mtime = k.base
  BY <1>1, <1>2, <1>5 DEF Prepared, MadeFrom, Writing
<1> QED BY <1>1, <1>3, <1>4, <1>5, SeenAtReplace

(* No step brings a second file with the same :ID:. *)
LEMMA NextKeepsOneFile ==
  ASSUME Inv, [Next]_vars, OneFilePerId
  PROVE  OneFilePerId'
<1> SUFFICES ASSUME ~ late', "update" \notin Ops', NEW p \in Paths, NEW q \in Paths,
                    p # q, files'[p].id = files'[q].id, files'[p].id # NoId
             PROVE  FALSE
  BY DEF OneFilePerId
<1>1. Inv' /\ files \in [Paths -> Note]
  BY InvNext, AbsentIsANote DEF Inv, TypeOK
<1>2. ASSUME ~ late, "update" \notin Ops, NEW r \in Paths, NEW s \in Paths,
             r # s, files[r].id = files[s].id
      PROVE  files[r].id = NoId
  BY <1>2 DEF OneFilePerId
<1>3. ASSUME UNCHANGED <<world, late>>,
             \A r \in Paths : files'[r].id \in {NoId, files[r].id}
      PROVE  FALSE
  BY <1>2, <1>3 DEF Ops
<1>4. ASSUME NEW c \in Calls, Step(c) PROVE FALSE
  <2>1. UNCHANGED world
    BY <1>4, WritersOfTheVault
  <2>2. CASE UNCHANGED <<files, clock, changed, late>>
    BY <1>3, <2>1, <2>2
  <2>3. CASE Replace(c)
    <3> DEFINE k == call[c]
    <3>1. ~ late /\ "update" \notin Ops
      BY <2>1, <2>3 DEF Replace, Ops
    <3>2. /\ k.path \in Paths
          /\ files' = [files EXCEPT ![k.path] = [k.draft EXCEPT !.mtime = clock + 1]]
          /\ \/ \A r \in Paths : files[r].id # k.draft.id
             \/ k.draft.id = files[k.path].id
      BY <2>3, <3>1, ReplacesWhatItRead
    <3>3. /\ files'[k.path].id = k.draft.id
          /\ \A r \in Paths \ {k.path} : files'[r] = files[r]
      <4>1. k.draft \in Note
        BY DEF Inv, TypeOK, Call
      <4> QED BY <1>1, <3>2, <4>1 DEF Note
    <3>4. files'[p].id # files'[q].id \/ files[p].id = files[q].id
      BY <3>2, <3>3
    <3> QED BY <1>2, <3>1, <3>2, <3>3
  <2>4. CASE Move(c) /\ Exists(call[c].path)
    <3> DEFINE from == call[c].path
               to   == call[c].dest
    <3>1. ~ late /\ "update" \notin Ops
      BY <2>1, <2>4 DEF Move, Ops
    <3>2. from \in Paths /\ to \in Paths
      BY DEF Inv, TypeOK, Call
    <3>3. /\ files'[from] = Absent
          /\ from # to /\ files'[to] = files[from]
          /\ \A r \in Paths \ {from, to} : files'[r] = files[r]
      <4>1. from # to
        BY <2>4 DEF Inv, CallInv, OpAt, Move, Moving
      <4>2. files' = [files EXCEPT ![to] = files[from], ![from] = Absent]
        BY <2>4 DEF Move
      <4> QED BY <1>1, <3>2, <4>1, <4>2
    <3> HIDE DEF from, to
    <3>4. p # from /\ q # from
      BY <3>3, AbsentIsANote
    <3>5. CASE p = to
      BY <1>2, <3>1, <3>2, <3>3, <3>4, <3>5
    <3>6. CASE q = to
      BY <1>2, <3>1, <3>2, <3>3, <3>4, <3>6
    <3> QED BY <1>2, <3>1, <3>3, <3>4, <3>5, <3>6
  <2>5. CASE Unlink(c) /\ Exists(call[c].path)
    BY <1>1, <1>3, <2>1, <2>5, AbsentIsANote DEF Unlink, Change
  <2> QED BY <1>4, <2>2, <2>3, <2>4, <2>5, WritersOfTheVault
<1>5. ASSUME NEW r \in Paths, EmacsSaves(r) PROVE FALSE
  <2>1. \A s \in Paths : files'[s].id = files[s].id
    BY <1>1, <1>5 DEF EmacsSaves, Change, Note
  <2> QED BY <1>3, <1>5, <2>1 DEF EmacsSaves, Change
<1>6. CASE Reindex \/ Idle \/ UNCHANGED vars \/ \E r \in Paths : EmacsLocks(r)
  BY <1>3, <1>6 DEF Reindex, Idle, vars, EmacsLocks
<1> QED BY <1>4, <1>5, <1>6 DEF Next

(* Without update_node, no :ID: is ever in two files, unless a write came   *)
(* too late to be shown what it replaced.                                  *)
THEOREM NoIdTwice == Spec => []OneFilePerId
<1>1. Init => OneFilePerId
  <2> SUFFICES ASSUME Init, NEW p \in Paths, NEW q \in Paths, p # q
               PROVE  files[p].id = files[q].id => files[p].id = NoId
    BY DEF OneFilePerId
  <2>1. files[p].id \in {p, NoId} /\ files[q].id \in {q, NoId}
    BY DEF Init, FirstNote, Absent
  <2> QED BY <2>1
<1>2. Inv /\ [Next]_vars /\ OneFilePerId => OneFilePerId'
  BY NextKeepsOneFile
<1> QED BY <1>1, <1>2, InvHolds, PTL DEF Spec

(* A call comes to report success after a write, unless its tool is one     *)
(* that may find nothing to do.                                            *)
LEMMA ReportsAfterWriting ==
  ASSUME Inv, NEW c \in Calls, Step(c)
  PROVE  /\ \A d \in Calls \ {c} : call'[d] = call[d]
         /\ call'[c].pc \in {"return", "ok"} =>
              /\ call'[c].path = call[c].path /\ call'[c].op = call[c].op
              /\ \/ call[c].pc = "return" \/ Replace(c)
                 \/ call[c].op \notin {"append", "create"}
         /\ call[c].pc \in {"return", "ok"} => call'[c].pc = "ok" /\ call[c].pc = "return"
<1>1. call \in [Calls -> Call] /\ call[c] \in Call /\ OpAt(call[c])
  BY DEF Inv, TypeOK, CallInv
<1>2. ASSUME NEW label, End(c, label) \/ Goto(c, label)
      PROVE  /\ \A d \in Calls \ {c} : call'[d] = call[d]
             /\ call'[c].pc = label
             /\ call'[c].path = call[c].path /\ call'[c].op = call[c].op
  BY <1>1, <1>2 DEF End, Goto, Call
<1>3. ASSUME NEW op \in Ops, BeginOnNode(c, op) \/ BeginOnPath(c, op)
      PROVE  /\ \A d \in Calls \ {c} : call'[d] = call[d]
             /\ call[c].pc = "idle" /\ call'[c].pc \notin {"return", "ok"}
  <2>1. PICK id, path, dest, under : Invoke(c, op, id, path, dest, under)
    BY <1>3 DEF BeginOnNode, BeginOnPath
  <2>2. FirstLabel(op) \notin {"return", "ok"}
    BY DEF FirstLabel
  <2>3. call[c].pc = "idle"
    BY <1>3 DEF BeginOnNode, BeginOnPath
  <2> QED BY <1>1, <2>1, <2>2, <2>3 DEF Invoke, Call
<1>4. CASE LookExists(c) \/ ReadDailyId(c)
  <2>1. call[c].pc \in {"exists", "readid"}
    BY <1>4 DEF LookExists, ReadDailyId
  <2>2. CASE LookExists(c)
    BY <1>1, <1>2, <2>1, <2>2 DEF LookExists, Fail, Call
  <2>3. CASE ReadDailyId(c)
    BY <1>1, <1>2, <2>1, <2>3 DEF ReadDailyId, OnFile, Fail, OpAt
  <2> QED BY <1>4, <2>2, <2>3
<1>5. CASE ReadTags(c)
  <2>1. call[c].pc = "readtags" /\ call[c].op \notin {"append", "create"}
    BY <1>1, <1>5 DEF ReadTags, OpAt, TagTools
  <2>2. CASE Fail(c) \/ Goto(c, "return")
    BY <1>2, <2>1, <2>2 DEF Fail
  <2>3. ASSUME NEW new, call' = [call EXCEPT ![c].tags = new, ![c].pc = "stat"]
        PROVE  /\ \A d \in Calls \ {c} : call'[d] = call[d]
               /\ call'[c].pc = "stat"
    BY <1>1, <2>3 DEF Call
  <2> QED BY <1>5, <2>1, <2>2, <2>3 DEF ReadTags, OnFile
<1>6. CASE Stat(c) \/ Recheck(c)
  <2>1. call[c].pc \in {"stat", "recheck"}
    BY <1>6 DEF Stat, Recheck
  <2>2. CASE Fail(c)
    BY <1>2, <2>1, <2>2 DEF Fail
  <2>3. CASE call' = [call EXCEPT ![c].stamp = files[call[c].path].mtime, ![c].pc = "read"]
    BY <1>1, <2>1, <2>3 DEF Call
  <2>4. CASE call' = [call EXCEPT ![c].checked = clock, ![c].pc = "lock"]
    BY <1>1, <2>1, <2>4 DEF Call
  <2> QED BY <1>6, <2>2, <2>3, <2>4 DEF Stat, Recheck, OnFile
<1>7. CASE Read(c)
  <2>1. call[c].pc = "read"
    BY <1>7 DEF Read
  <2>2. CASE Fail(c)
    BY <1>2, <2>1, <2>2 DEF Fail
  <2>3. CASE call[c].op = "update" /\ Goto(c, "return")
    BY <1>2, <2>1, <2>3
  <2>4. ASSUME NEW d, NEW label \in {"lock", "recheck"},
               call' = [call EXCEPT ![c].draft = d,
                          ![c].base = files[call[c].path].mtime, ![c].pc = label]
        PROVE  (\A e \in Calls \ {c} : call'[e] = call[e]) /\ call'[c].pc = label
    BY <1>1, <2>4 DEF Call
  <2> QED BY <1>7, <2>1, <2>2, <2>3, <2>4 DEF Read, OnFile
<1>8. ASSUME NEW at, NEW next \in {"replace", "moveexists", "unlink"},
             at \notin {"return", "ok"}, CheckLock(c, at, next)
      PROVE  /\ \A d \in Calls \ {c} : call'[d] = call[d]
             /\ call[c].pc = at /\ call'[c].pc \notin {"return", "ok"}
  <2>1. CASE Fail(c)
    BY <1>2, <1>8, <2>1 DEF Fail, CheckLock
  <2>2. CASE call' = [call EXCEPT ![c].pc = next,
                                  ![c].lockfree = call[c].path \notin locked]
    BY <1>1, <1>8, <2>2 DEF CheckLock, Call
  <2> QED BY <1>8, <2>1, <2>2 DEF CheckLock
<1>9. CASE Replace(c)
  <2>1. PICK next : call' = [call EXCEPT ![c].wrote = TRUE, ![c].fresh = FALSE,
                              ![c].checked = 0, ![c].lockfree = FALSE, ![c].pc = next]
    BY <1>9 DEF Replace
  <2>2. call[c].pc = "replace"
    BY <1>9 DEF Replace
  <2> QED BY <1>1, <1>9, <2>1, <2>2 DEF Call
<1>10. CASE WriteFails(c) \/ Return(c)
  BY <1>2, <1>10 DEF WriteFails, Return, Fail
<1>11. CASE LookTarget(c)
  <2>1. CASE Fail(c)
    BY <1>2, <1>11, <2>1 DEF Fail, LookTarget
  <2>2. CASE call' = [call EXCEPT ![c].checked = clock, ![c].pc = "move"]
    BY <1>1, <1>11, <2>2 DEF LookTarget, Call
  <2> QED BY <1>11, <2>1, <2>2 DEF LookTarget
<1>12. CASE Move(c) \/ Unlink(c)
  <2>1. call[c].pc \in {"move", "unlink"} /\ call[c].op \notin {"append", "create"}
    BY <1>1, <1>12 DEF Move, Unlink, OpAt, Moving
  <2>2. CASE Fail(c) \/ Goto(c, "return")
    BY <1>2, <2>1, <2>2 DEF Fail
  <2>3. CASE call' = [call EXCEPT ![c].wrote = TRUE, ![c].pc = "return"]
    BY <1>1, <2>1, <2>3 DEF Call
  <2> QED BY <1>12, <2>2, <2>3 DEF Move, Unlink
<1> QED BY <1>3, <1>4, <1>5, <1>6, <1>7, <1>8, <1>9, <1>10, <1>11, <1>12 DEF Step

(* While the tools used only create, insert or set tags, text only grows:   *)
(* a step that is not too late takes nothing away, and what it lets a call  *)
(* that inserts or creates report, or Emacs count as saved, is there.      *)
LEMMA TextOnlyGrows ==
  ASSUME Inv, [Next]_vars, ~ late', Ops \subseteq Inserting \cup TagTools
  PROVE  /\ \A p \in Paths : files[p].text \subseteq files'[p].text
         /\ \A p \in Paths : saves'[p] # saves[p] => p \in files'[p].text
         /\ \A c \in Calls :
              call'[c].pc \in {"return", "ok"} /\ call[c].pc \notin {"return", "ok"} =>
                (call'[c].op \in {"append", "create"} => c \in files'[call'[c].path].text)
         /\ \A c \in Calls :
              call[c].pc \in {"return", "ok"} /\ call'[c].pc \in {"return", "ok"} =>
                call'[c].path = call[c].path /\ call'[c].op = call[c].op
         /\ ~ late /\ UNCHANGED world
<1> USE DEF Inserting, TagTools
<1>1. files \in [Paths -> Note] /\ call \in [Calls -> Call] /\ saves \in [Paths -> 0..MaxSaves]
  BY DEF Inv, TypeOK
<1>2. ASSUME NEW c \in Calls PROVE CallInv(c, call[c])
  BY DEF Inv
<1>3. CASE UNCHANGED <<files, saves, call, late, world>>
  BY <1>3
<1>4. ASSUME NEW c \in Calls, Step(c), Replace(c)
      PROVE  /\ \A p \in Paths : files[p].text \subseteq files'[p].text
             /\ call[c].op \in {"append", "create"} => c \in files'[call[c].path].text
  <2> DEFINE k == call[c]
  <2>1. k.draft \in Note /\ k.op \in Inserting \cup TagTools
    BY <1>2, <1>4 DEF Inv, TypeOK, Call, Replace, CallInv, OpAt
  <2>2. /\ k.path \in Paths
        /\ files' = [files EXCEPT ![k.path] = [k.draft EXCEPT !.mtime = clock + 1]]
        /\ k.op \in {"append", "create"} => c \in k.draft.text
        /\ files[k.path] = Absent \/ files[k.path].text \subseteq k.draft.text
    BY <1>4, <2>1, ReplacesWhatItRead
  <2>3. files'[k.path].text = k.draft.text
    BY <1>1, <2>1, <2>2 DEF Note
  <2>4. \A p \in Paths \ {k.path} : files'[p] = files[p]
    BY <1>1, <2>2
  <2>5. Absent.text = {}
    BY DEF Absent
  <2> QED BY <2>2, <2>3, <2>4, <2>5
<1>5. ASSUME NEW c \in Calls PROVE call[c].pc \notin {"move", "unlink"}
  <2>1. OpAt(call[c])
    BY <1>2 DEF CallInv
  <2> QED BY <2>1 DEF OpAt, Moving
<1>6. ASSUME NEW c \in Calls, Step(c)
      PROVE  UNCHANGED <<files, late>> \/ Replace(c)
  BY <1>5, <1>6, WritersOfTheVault DEF Move, Unlink
<1>7. ASSUME NEW c \in Calls, Step(c)
      PROVE  /\ \A p \in Paths : files[p].text \subseteq files'[p].text
             /\ UNCHANGED <<saves, world>> /\ ~ late
  <2>1. UNCHANGED <<saves, world>>
    BY <1>7, WritersOfTheVault
  <2>2. ~ late
    BY <1>6, <1>7 DEF Replace
  <2> QED BY <2>1, <2>2, <1>4, <1>6, <1>7
<1>8. ASSUME NEW p \in Paths, EmacsSaves(p)
      PROVE  /\ \A q \in Paths : files[q].text \subseteq files'[q].text
             /\ p \in files'[p].text
             /\ \A q \in Paths \ {p} : saves'[q] = saves[q]
             /\ UNCHANGED <<call, late, world>>
  BY <1>1, <1>8 DEF EmacsSaves, Change, Note
<1>9. ASSUME NEW c \in Calls, Step(c), NEW d \in Calls
      PROVE  /\ call'[d].pc \in {"return", "ok"} /\ call[d].pc \notin {"return", "ok"} =>
                 (call'[d].op \in {"append", "create"} => d \in files'[call'[d].path].text)
             /\ call[d].pc \in {"return", "ok"} /\ call'[d].pc \in {"return", "ok"} =>
                  call'[d].path = call[d].path /\ call'[d].op = call[d].op
  <2>1. /\ d # c => call'[d] = call[d]
        /\ call'[c].pc \in {"return", "ok"} =>
              /\ call'[c].path = call[c].path /\ call'[c].op = call[c].op
              /\ \/ call[c].pc = "return" \/ Replace(c)
                 \/ call[c].op \notin {"append", "create"}
    BY <1>9, ReportsAfterWriting
  <2>2. CASE d # c
    BY <2>1, <2>2
  <2>3. CASE d = c
    BY <1>4, <1>9, <2>1, <2>3
  <2> QED BY <2>2, <2>3
<1>10. CASE \E c \in Calls : Step(c)
  <2>1. PICK c \in Calls : Step(c)
    BY <1>10
  <2> QED BY <1>7, <1>9, <2>1
<1>11. CASE \E p \in Paths : EmacsSaves(p)
  <2>1. PICK p \in Paths : EmacsSaves(p)
    BY <1>11
  <2> QED BY <1>8, <2>1
<1>12. CASE Reindex \/ Idle \/ UNCHANGED vars \/ \E p \in Paths : EmacsLocks(p)
  BY <1>3, <1>12 DEF Reindex, Idle, EmacsLocks, vars
<1> QED BY <1>10, <1>11, <1>12 DEF Next

(* What a call is about to report is in its note already. *)
EditsKept ==
  ~ late /\ Ops \subseteq Inserting \cup TagTools =>
    /\ \A c \in Calls :
         call[c].pc \in {"return", "ok"} /\ call[c].op \in {"append", "create"}
           => c \in files[call[c].path].text
    /\ \A p \in Paths : saves[p] > 0 => p \in files[p].text

LEMMA NextKeepsEdits ==
  ASSUME Inv, [Next]_vars, EditsKept
  PROVE  EditsKept'
<1> SUFFICES ASSUME ~ late', (Ops \subseteq Inserting \cup TagTools)'
             PROVE  /\ \A c \in Calls :
                         call'[c].pc \in {"return", "ok"} /\ call'[c].op \in {"append", "create"}
                           => c \in files'[call'[c].path].text
                    /\ \A p \in Paths : saves'[p] > 0 => p \in files'[p].text
  BY DEF EditsKept
<1>1. UNCHANGED world
  BY DEF Next, Reindex, Idle, EmacsLocks, EmacsSaves, Change, vars, Step,
         BeginOnNode, BeginOnPath, LookExists, ReadDailyId, ReadTags, Stat, Read,
         Recheck, CheckLock, WriteFails, LookTarget, Return, OnFile, OnDisk,
         Replace, Move, Unlink
<1>2. Ops \subseteq Inserting \cup TagTools
  BY <1>1 DEF Ops, Inserting, TagTools
<1>3. /\ \A p \in Paths : files[p].text \subseteq files'[p].text
      /\ \A p \in Paths : saves'[p] # saves[p] => p \in files'[p].text
      /\ \A c \in Calls :
           call'[c].pc \in {"return", "ok"} /\ call[c].pc \notin {"return", "ok"} =>
             (call'[c].op \in {"append", "create"} => c \in files'[call'[c].path].text)
      /\ \A c \in Calls :
           call[c].pc \in {"return", "ok"} /\ call'[c].pc \in {"return", "ok"} =>
             call'[c].path = call[c].path /\ call'[c].op = call[c].op
      /\ ~ late
  BY <1>2, TextOnlyGrows
<1>4. /\ \A c \in Calls :
           call[c].pc \in {"return", "ok"} /\ call[c].op \in {"append", "create"}
             => c \in files[call[c].path].text
      /\ \A p \in Paths : saves[p] > 0 => p \in files[p].text
  BY <1>2, <1>3 DEF EditsKept
<1>5. \A c \in Calls : call[c].path \in Paths
  BY DEF Inv, TypeOK, Call
<1>6. ASSUME NEW p \in Paths, saves'[p] > 0 PROVE p \in files'[p].text
  BY <1>3, <1>4, <1>6
<1>7. ASSUME NEW c \in Calls, call'[c].pc \in {"return", "ok"},
             call'[c].op \in {"append", "create"}
      PROVE  c \in files'[call'[c].path].text
  <2>1. CASE call[c].pc \in {"return", "ok"}
    <3>1. call'[c].path = call[c].path /\ call'[c].op = call[c].op
      BY <1>3, <1>7, <2>1
    <3> QED BY <1>3, <1>4, <1>5, <1>7, <2>1, <3>1
  <2>2. CASE call[c].pc \notin {"return", "ok"}
    BY <1>3, <1>7, <2>2
  <2> QED BY <2>1, <2>2
<1> QED BY <1>6, <1>7

(* While the tools used only create, insert or set tags, what a call has     *)
(* reported and what Emacs has saved stays in the vault, unless a write     *)
(* came too late to be shown what it replaced.                             *)
THEOREM ReportedEditsStay == Spec => []AckedEditsKept
<1>1. Init => EditsKept
  <2> SUFFICES ASSUME Init PROVE EditsKept
    OBVIOUS
  <2>1. /\ \A c \in Calls : call[c].pc = "idle"
        /\ \A p \in Paths : saves[p] = 0
    BY DEF Init
  <2> QED BY <2>1 DEF EditsKept
<1>2. Inv /\ [Next]_vars /\ EditsKept => EditsKept'
  BY NextKeepsEdits
<1>3. EditsKept => AckedEditsKept
  BY DEF EditsKept, AckedEditsKept
<1> QED BY <1>1, <1>2, <1>3, InvHolds, PTL DEF Spec
=============================================================================
