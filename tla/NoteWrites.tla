----------------------------- MODULE NoteWrites -----------------------------
(***************************************************************************)
(* The write tools of the server as they reach the vault: the handlers of  *)
(* src/src/tools/write.rs over rewrite_file, atomic_write, rename_unlocked *)
(* and remove_file_unlocked, run concurrently by the sessions' requests    *)
(* while Emacs edits the same files.                                       *)
(*                                                                         *)
(* Every call's system calls (stat, read, rename, unlink) are atomic steps *)
(* of their own.  The temporary file of atomic_write is private to the     *)
(* call, so writing it and renaming it into place is one step.  A note is  *)
(* its :ID:, its tags and the set of edits its text shows; mtime is the    *)
(* clock, which ticks at every change, so no two writes share an mtime.    *)
(* MCP clients retry by issuing a new call.                                *)
(*                                                                         *)
(* A definition introduced as a faulty variant is used by no action: it is *)
(* what a plausible mistake would make of the definition after it, and     *)
(* shows that the properties can tell the two apart.                       *)
(***************************************************************************)
EXTENDS Naturals, FiniteSets

CONSTANTS
  Calls,       \* requests, each one call of one write tool
  Paths,       \* names of files in the vault
  DailyPath,   \* name of today's daily note
  Worlds,      \* the circumstances considered
  NoId, NoPath \* the :ID: of a note without one; the file of an unknown node

(* append stands for every tool that inserts text with rewrite_file: prepend, *)
(* insert_anchor and add_link too.                                         *)
Tools == {"append", "update", "tag_add", "tag_remove", "tag_set", "delete_file",
          "delete_headline", "rename", "create", "daily"}
TagTools == {"tag_add", "tag_remove", "tag_set"}

(* The tools used; what an Emacs lockfile is, a "symlink" to nowhere or a   *)
(* regular "file"; whether the index is an org-roam.db rather than a scan;  *)
(* and the bound on the number of Emacs's saves of each path.              *)
World == [ops: SUBSET Tools, lockForm: {"symlink", "file"}, hasDb: BOOLEAN,
          maxSaves: Nat]

ASSUME NoteWritesAssumption ==
  /\ DailyPath \in Paths /\ NoPath \notin Paths
  /\ NoId \notin Calls \cup Paths /\ Calls \cap Paths = {}
  /\ Worlds \subseteq World

VARIABLES
  world,    \* the circumstances of this behaviour; they never change
  files,    \* the note each path holds
  locked,   \* paths for which Emacs has a lockfile
  index,    \* where the index says each node's file is
  clock,    \* number of changes made to the vault so far
  changed,  \* history: when each path was last changed
  saves,    \* number of saves of each path by Emacs
  call,     \* the state of each call
  late      \* history: a write replaced what no look of its call could have shown

vars == <<world, files, locked, index, clock, changed, saves, call, late>>

Ops      == world.ops
LockForm == world.lockForm
HasDb    == world.hasDb
MaxSaves == world.maxSaves

Ids   == Paths \cup Calls   \* of a path's first note; of a note a call creates
Tags  == {"old"} \cup Calls
Marks == {"section"} \cup Paths \cup Calls  \* a headline, Emacs's edits, calls' edits

Note   == [id: Ids \cup {NoId}, tags: SUBSET Tags, text: SUBSET Marks, mtime: Nat]
Absent == [id |-> NoId, tags |-> {}, text |-> {}, mtime |-> 0]
Exists(p) == files[p].mtime # 0

Labels == {"idle", "exists", "readid", "readtags", "stat", "read", "recheck",
           "lock", "replace", "movelock", "moveexists", "move", "unlinklock",
           "unlink", "return", "ok", "failed"}
Over   == {"ok", "failed"}

Call == [pc: Labels, op: Tools, id: Ids, path: Paths, dest: Paths,
         under: BOOLEAN, fresh: BOOLEAN, stamp: Nat, draft: Note, tags: SUBSET Tags,
         base: Nat, checked: Nat, lockfree: BOOLEAN, wrote: BOOLEAN]

TypeOK ==
  /\ world \in Worlds
  /\ files \in [Paths -> Note]
  /\ locked \subseteq Paths
  /\ index \in [Ids -> Paths \cup {NoPath}]
  /\ clock \in Nat
  /\ changed \in [Paths -> Nat]
  /\ saves \in [Paths -> 0..MaxSaves]
  /\ call \in [Calls -> Call]
  /\ late \in BOOLEAN

(* The vault starts with some notes, one perhaps without an :ID:, in step   *)
(* with the index.                                                         *)
FirstNote(p) == {Absent}
  \cup [id: {p, NoId}, tags: {{"old"}}, text: {{"section"}}, mtime: {1}]

Holding(i, p) == Exists(p) /\ files[p].id = i

(* The index a rebuild finds: one file of each node that has any. *)
Scans == {x \in [Ids -> Paths \cup {NoPath}] :
            \A i \in Ids : IF x[i] = NoPath THEN \A p \in Paths : ~ Holding(i, p)
                                            ELSE Holding(i, x[i])}

Init ==
  /\ world \in Worlds
  /\ files \in {f \in [Paths -> UNION {FirstNote(p) : p \in Paths}] :
                  \A p \in Paths : f[p] \in FirstNote(p)}
  /\ locked = {}
  /\ index \in Scans
  /\ clock = 1
  /\ changed = [p \in Paths |-> 1]
  /\ saves = [p \in Paths |-> 0]
  /\ call = [c \in Calls |->
       [pc |-> "idle", op |-> "append", id |-> c, path |-> DailyPath,
        dest |-> DailyPath, under |-> FALSE, fresh |-> FALSE, stamp |-> 0,
        draft |-> Absent, tags |-> {}, base |-> 0, checked |-> 0,
        lockfree |-> FALSE, wrote |-> FALSE]]
  /\ late = FALSE

-----------------------------------------------------------------------------
(* Steps shared by the tools                                               *)

Goto(c, label) == call' = [call EXCEPT ![c].pc = label]

(* The call is over and its locals are gone. *)
End(c, label) ==
  call' = [call EXCEPT ![c] =
    [@ EXCEPT !.pc = label, !.draft = Absent, !.tags = {}, !.stamp = 0,
              !.base = 0, !.checked = 0, !.lockfree = FALSE, !.fresh = FALSE]]

Fail(c) == End(c, "failed")

OnDisk == <<world, files, locked, index, clock, changed, saves, late>>

(* The vault changes: path p now holds note n (Absent: it is gone). *)
Change(p, n) ==
  /\ clock' = clock + 1
  /\ changed' = [changed EXCEPT ![p] = clock + 1]
  /\ files' = [files EXCEPT ![p] = n]
  /\ UNCHANGED world

(* std::fs::metadata or read_to_string on a path that holds no file fails; *)
(* otherwise the step goes on.                                             *)
OnFile(c, step) ==
  /\ IF Exists(call[c].path) THEN step ELSE Fail(c)
  /\ UNCHANGED OnDisk

(* Faulty variant: the lockfile is looked for under the wrong name. *)
LockUnseen(p) == FALSE

(* emacs_lockfile_present: exists() follows a symlink, and the one Emacs    *)
(* makes (user@host.pid) leads nowhere.                                    *)
LockSeen(p) == p \in locked /\ LockForm = "file"

(* The lockfile check of atomic_write, rename_unlocked, remove_file_unlocked *)
CheckLock(c, at, next) ==
  /\ call[c].pc = at
  /\ IF LockSeen(call[c].path)
     THEN Fail(c)
     ELSE call' = [call EXCEPT ![c].pc = next,
                               ![c].lockfree = call[c].path \notin locked]
  /\ UNCHANGED OnDisk

-----------------------------------------------------------------------------
(* A request arrives                                                       *)

(* Faulty variant: daily_capture appends without looking for the note. *)
FirstCapture(op) ==
  CASE op = "create"                     -> "exists"
    [] op \in TagTools                  -> "readtags"
    [] op = "update"                     -> "read"
    [] op = "delete_file"                -> "unlinklock"
    [] op = "daily"                      -> "capture"
    [] OTHER                             -> "stat"

FirstLabel(op) ==
  CASE op \in {"create", "daily"}        -> "exists"
    [] op \in TagTools                  -> "readtags"
    [] op = "update"                     -> "read"
    [] op = "delete_file"                -> "unlinklock"
    [] OTHER                             -> "stat"

Invoke(c, op, id, path, dest, under) ==
  call' = [call EXCEPT ![c] =
    [@ EXCEPT !.op = op, !.id = id, !.path = path, !.dest = dest,
              !.under = under, !.pc = FirstLabel(op)]]

(* A tool that names a node gets its file from the index; "node not found"  *)
(* ends the call at once and is left out.                                  *)
BeginOnNode(c, op) ==
  /\ call[c].pc = "idle" /\ op \notin {"create", "daily"}
  /\ \E id \in {i \in Ids : index[i] # NoPath},
        dest \in IF op = "rename" THEN Paths ELSE {DailyPath},
        under \in IF op = "append" THEN BOOLEAN ELSE {FALSE} :
       Invoke(c, op, id, index[id], dest, under)
  /\ UNCHANGED OnDisk

(* create_node chooses a filename; daily_capture's is today's. *)
BeginOnPath(c, op) ==
  /\ call[c].pc = "idle" /\ op \in {"create", "daily"}
  /\ \E path \in IF op = "daily" THEN {DailyPath} ELSE Paths,
        under \in IF op = "daily" THEN BOOLEAN ELSE {FALSE} :
       Invoke(c, op, c, path, DailyPath, under)
  /\ UNCHANGED OnDisk

(* With the daily note in place, capture the content if there is any. *)
AfterDaily == {"stat", "return"}

-----------------------------------------------------------------------------
(* rewrite_file                                                            *)

Stat(c) ==
  /\ call[c].pc = "stat"
  /\ OnFile(c, call' = [call EXCEPT ![c].stamp = files[call[c].path].mtime,
                                    ![c].pc = "read"])

(* What each tool makes of the text it has read; none when it refuses to. *)
Edits(c, n) ==
  LET k == call[c] IN
  CASE k.op \in {"append", "daily"} ->
         IF k.under /\ "section" \notin n.text
         THEN {} ELSE {[n EXCEPT !.text = @ \cup {c}]}
    [] k.op = "rename" -> {[n EXCEPT !.text = @ \cup {c}]}   \* #+title:
    [] k.op = "update" -> {[n EXCEPT !.text = {c}]}          \* a new body
    [] k.op \in TagTools -> {[n EXCEPT !.tags = k.tags]}
    [] k.op = "delete_headline" ->
         IF "section" \notin n.text
         THEN {} ELSE {[n EXCEPT !.text = t] : t \in SUBSET (n.text \ {"section"})}

(* Faulty variant: no tool looks at the mtime again after its read. *)
ReadAndGo(c) ==
  /\ call[c].pc = "read"
  /\ OnFile(c,
       LET n == files[call[c].path] IN
       \/ \E d \in Edits(c, n) :
            call' = [call EXCEPT ![c].draft = d, ![c].base = n.mtime,
                                 ![c].pc = "lock"]
       \/ Edits(c, n) = {} /\ Fail(c))

(* read_to_string, then the edit, in memory.  update_node reads this way   *)
(* too, but goes on to atomic_write without a look at the mtime; and it    *)
(* may refuse: an edit with an error, a text that is not valid with an     *)
(* answer that says so.                                                    *)
Read(c) ==
  /\ call[c].pc = "read"
  /\ OnFile(c,
       LET n == files[call[c].path] IN
       \/ \E d \in Edits(c, n) :
            call' = [call EXCEPT ![c].draft = d, ![c].base = n.mtime,
              ![c].pc = IF call[c].op = "update" THEN "lock" ELSE "recheck"]
       \/ Edits(c, n) = {} /\ Fail(c)
       \/ call[c].op = "update" /\ (Fail(c) \/ Goto(c, "return")))

(* Faulty variant: the second stat is taken and not compared. *)
RecheckNothing(c) ==
  /\ call[c].pc = "recheck"
  /\ OnFile(c, call' = [call EXCEPT ![c].checked = clock, ![c].pc = "lock"])

(* mtime_after against mtime_before: give up if someone else wrote. *)
Recheck(c) ==
  /\ call[c].pc = "recheck"
  /\ OnFile(c,
       IF files[call[c].path].mtime # call[c].stamp
       THEN Fail(c)
       ELSE call' = [call EXCEPT ![c].checked = clock, ![c].pc = "lock"])

(* What the last look at the path cannot show: a change after it, before    *)
(* the rename; or a note that the call has read in place of the one its     *)
(* first stat found, which renames took away and brought back: they keep    *)
(* the mtime.                                                               *)
Window(k)   == k.checked # 0 /\ changed[k.path] > k.checked
Returned(k) ==
  /\ Exists(k.path) /\ files[k.path].mtime = k.stamp
  /\ k.base # k.stamp /\ changed[k.path] # k.stamp

(* Faulty variant: the mtime is compared once more, after the write. *)
ReplaceAndRecheck(c) ==
  LET k == call[c] IN
  /\ k.pc = "replace"
  /\ Change(k.path, [k.draft EXCEPT !.mtime = clock + 1])
  /\ late' = (late \/ Window(k) \/ Returned(k))
  /\ call' = [call EXCEPT ![c].wrote = TRUE, ![c].pc = "recheck"]
  /\ UNCHANGED <<locked, index, saves>>

(* The rename of atomic_write: whatever the path holds now is replaced. *)
Replace(c) ==
  LET k == call[c] IN
  /\ k.pc = "replace"
  /\ Change(k.path, [k.draft EXCEPT !.mtime = clock + 1])
  /\ late' = (late \/ Window(k) \/ Returned(k))
  /\ \E next \in CASE k.op = "daily" /\ k.fresh -> AfterDaily
                   [] k.op = "rename" /\ k.dest # k.path -> {"movelock"}
                   [] OTHER -> {"return"} :
       call' = [call EXCEPT ![c].wrote = TRUE, ![c].fresh = FALSE,
                            ![c].checked = 0, ![c].lockfree = FALSE,
                            ![c].pc = next]
  /\ UNCHANGED <<locked, index, saves>>

(* atomic_write fails before the rename: no space, no permission. *)
WriteFails(c) ==
  /\ call[c].pc = "replace"
  /\ Fail(c)
  /\ UNCHANGED OnDisk

-----------------------------------------------------------------------------
(* What the other tools do before or after rewriting                       *)

NewNote(c, text) ==
  [id |-> c, tags |-> {}, text |-> text, mtime |-> 0]

(* create_node and daily_capture: path.exists(), else a note with a fresh   *)
(* :ID: is prepared for atomic_write.                                      *)
LookExists(c) ==
  LET k == call[c] IN
  /\ k.pc = "exists"
  /\ CASE Exists(k.path) /\ k.op = "create" -> Fail(c)
       [] Exists(k.path) /\ k.op = "daily" -> Goto(c, "readid")
       [] OTHER ->
            call' = [call EXCEPT ![c].pc = "lock", ![c].fresh = TRUE,
              ![c].checked = clock,
              ![c].draft = NewNote(c, IF k.op = "create" THEN {c} ELSE {})]
  /\ UNCHANGED OnDisk

(* daily_capture re-uses the :ID: of the note it finds. *)
ReadDailyId(c) ==
  /\ call[c].pc = "readid"
  /\ OnFile(c, \E next \in AfterDaily : Goto(c, next))

(* add_tag, remove_tag and set_tags compare the new tag list with the one a *)
(* read of their own finds, and are done if they are the same.             *)
ReadTags(c) ==
  /\ call[c].pc = "readtags"
  /\ OnFile(c,
       LET current == files[call[c].path].tags
           new == CASE call[c].op = "tag_add"    -> current \cup {c}
                    [] call[c].op = "tag_remove" -> current \ {"old"}
                    [] call[c].op = "tag_set"    -> {c}
       IN IF new = current
          THEN Goto(c, "return")
          ELSE call' = [call EXCEPT ![c].tags = new, ![c].pc = "stat"])

(* rename_unlocked, after its lockfile check: to.exists(), then rename. *)
LookTarget(c) ==
  /\ call[c].pc = "moveexists"
  /\ IF Exists(call[c].dest)
     THEN Fail(c)
     ELSE call' = [call EXCEPT ![c].checked = clock, ![c].pc = "move"]
  /\ UNCHANGED OnDisk

Move(c) ==
  LET from == call[c].path
      to   == call[c].dest
  IN
  /\ call[c].pc = "move"
  /\ IF Exists(from)
     THEN /\ files' = [files EXCEPT ![to] = files[from], ![from] = Absent]
          /\ late' = (late \/ changed[to] > call[c].checked)
          /\ clock' = clock + 1
          /\ changed' = [changed EXCEPT ![to] = clock + 1, ![from] = clock + 1]
          /\ Goto(c, "return")
          /\ UNCHANGED <<world, locked, index, saves>>
     ELSE Fail(c) /\ UNCHANGED OnDisk

(* remove_file_unlocked, after its lockfile check. *)
Unlink(c) ==
  LET p == call[c].path IN
  /\ call[c].pc = "unlink"
  /\ IF Exists(p)
     THEN /\ Change(p, Absent)
          /\ call' = [call EXCEPT ![c].wrote = TRUE, ![c].pc = "return"]
          /\ UNCHANGED <<locked, index, saves, late>>
     ELSE Fail(c) /\ UNCHANGED OnDisk

(* The handler goes on to refresh_index_after_write and schedule(). *)
Return(c) ==
  /\ call[c].pc = "return"
  /\ End(c, "ok")
  /\ IF HasDb THEN UNCHANGED index ELSE index' \in Scans
  /\ UNCHANGED <<world, files, locked, clock, changed, saves, late>>

-----------------------------------------------------------------------------
(* The rest of the world                                                   *)

(* The watcher reloads the index. *)
Reindex ==
  /\ index' \in Scans
  /\ UNCHANGED <<world, files, locked, clock, changed, saves, call, late>>

(* The buffer that visits p, or is to become p, has been modified. *)
EmacsLocks(p) ==
  /\ p \notin locked /\ saves[p] < MaxSaves
  /\ locked' = locked \cup {p}
  /\ UNCHANGED <<world, files, index, clock, changed, saves, call, late>>

(* Emacs asks before it saves over a file changed under it: the user keeps *)
(* both versions' text.                                                    *)
EmacsSaves(p) ==
  /\ p \in locked /\ saves[p] < MaxSaves
  /\ Change(p, [files[p] EXCEPT !.text = @ \cup {p}, !.mtime = clock + 1])
  /\ locked' = locked \ {p}
  /\ saves' = [saves EXCEPT ![p] = @ + 1]
  /\ UNCHANGED <<index, call, late>>

Idle == (\A c \in Calls : call[c].pc \in Over) /\ UNCHANGED vars

Step(c) ==
  \/ \E op \in Ops : BeginOnNode(c, op) \/ BeginOnPath(c, op)
  \/ LookExists(c) \/ ReadDailyId(c) \/ ReadTags(c)
  \/ Stat(c) \/ Read(c) \/ Recheck(c)
  \/ CheckLock(c, "lock", "replace")
  \/ Replace(c) \/ WriteFails(c)
  \/ CheckLock(c, "movelock", "moveexists") \/ LookTarget(c) \/ Move(c)
  \/ CheckLock(c, "unlinklock", "unlink") \/ Unlink(c)
  \/ Return(c)

Next ==
  \/ \E c \in Calls : Step(c)
  \/ Reindex
  \/ \E p \in Paths : EmacsLocks(p) \/ EmacsSaves(p)
  \/ Idle

Spec == Init /\ [][Next]_vars
-----------------------------------------------------------------------------
(* Properties                                                              *)

(* The call replaces a version of the note it has not seen, though it had  *)
(* landed before the window that rewrite_file's comment admits, between    *)
(* the last look at the path (the second stat, or exists()) and the rename, *)
(* and is not one that renames have brought back.                          *)
OverwritesUnseen(c) ==
  LET k == call[c] IN
  /\ k.pc = "replace" /\ call'[c].pc \notin {"replace", "failed"}
  /\ Exists(k.path)
  /\ files[k.path].mtime # k.base
  /\ ~ Window(k) /\ ~ Returned(k)

(* rewrite_file's promise: refuse "rather than clobbering the other writer", *)
(* and create_node's, "to clobber an existing file".  update_node makes     *)
(* neither.                                                                *)
RewriteSeesOtherWriters ==
  [][\A c \in Calls : call[c].op # "update" => ~ OverwritesUnseen(c)]_vars

(* No :ID: is ever in two files, unless a write replaced what it could not  *)
(* have been shown: a rename or deletion is not undone by a call that had  *)
(* read the old file.                                                      *)
OneFilePerId ==
  ~ late /\ "update" \notin Ops =>
    \A p, q \in Paths :
      p # q /\ files[p].id = files[q].id => files[p].id = NoId

(* While the tools used only create, insert or set tags, what a call that   *)
(* succeeded has put in a note, and what was saved in Emacs, stays there,  *)
(* unless a write replaced what it could not have been shown.              *)
Inserting == {"append", "create", "daily"}
AckedEditsKept ==
  ~ late /\ Ops \subseteq Inserting \cup TagTools =>
    /\ \A c \in Calls : call[c].pc = "ok" /\ call[c].op \in {"append", "create"}
                          => c \in files[call[c].path].text
    /\ \A p \in Paths : saves[p] > 0 => p \in files[p].text

(* add_tag adds to a note's tags "without overwriting existing tags".      *)
TagsKept ==
  [][\A c \in Calls :
       LET k == call[c] IN
       k.pc = "replace" /\ k.op = "tag_add" /\ call'[c].wrote /\ ~ late'
         => files[k.path].tags \subseteq files'[k.path].tags]_vars

(* "If an Emacs lockfile is present, the write is refused": while a path is *)
(* locked nobody but Emacs changes it, save a call that had found it free.  *)
LockedPathsUntouched ==
  [][\A p \in locked :
       files'[p] # files[p] =>
         \/ p \notin locked'
         \/ \E c \in Calls : call[c].lockfree /\ call[c].path = p]_vars

(* That is so of lockfiles that are regular files, and of every path but   *)
(* the target of a rename, whose lockfile rename_unlocked does not look at. *)
RegularLocksObeyed ==
  [][LockForm = "file" =>
       \A p \in locked :
         files'[p] # files[p] =>
           \/ p \notin locked'
           \/ \E c \in Calls : call[c].lockfree /\ call[c].path = p
           \/ \E c \in Calls : call[c].pc = "move" /\ call[c].dest = p]_vars

(* A call that ends in an error has changed nothing: whatever a call does   *)
(* change is followed by the index refresh and the scheduled sync.  Two     *)
(* tools change the vault in two steps, and may fail between them.         *)
FailedCallsLeaveNoTrace ==
  \A c \in Calls :
    call[c].pc = "failed" /\ call[c].op \notin {"rename", "daily"}
      => ~ call[c].wrote
=============================================================================
