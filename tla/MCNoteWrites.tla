---------------------------- MODULE MCNoteWrites ----------------------------
(***************************************************************************)
(* Small instances of NoteWrites: calls are interchangeable, the daily     *)
(* note's path is not.                                                     *)
(***************************************************************************)
EXTENDS NoteWrites, TLC

Symmetry == Permutations(Calls)

With(ops, lockForm, hasDb, maxSaves) ==
  [ops |-> ops, lockForm |-> lockForm, hasDb |-> hasDb, maxSaves |-> maxSaves]

(* Tools that make and move files, alone; tools that insert and tag, tools *)
(* that move, tools that replace and remove, each with Emacs saving.       *)
MCWorlds == {
  With({"append", "rename", "create", "daily"}, "file", TRUE, 0),
  With({"append", "tag_add", "create"}, "symlink", FALSE, 1),
  With({"rename"}, "file", TRUE, 1),
  With({"update", "tag_remove", "tag_set", "delete_file", "delete_headline"},
       "file", TRUE, 1) }

(* For the runs that look for one violation. *)
AddsTags == { With({"tag_add"}, "file", FALSE, 0) }
Symlinks == { With({"append"}, "symlink", FALSE, 1) }
=============================================================================
