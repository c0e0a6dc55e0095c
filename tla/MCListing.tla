----------------------------- MODULE MCListing ------------------------------
(***************************************************************************)
(* A small instance of Listing: three notes, of which two are there at     *)
(* first.                                                                  *)
(***************************************************************************)
EXTENDS Listing

(* "Ab" and "Ab c", which the quotes of emacsql put the other way round;   *)
(* "ab", the first but for case; and "B", before it in Rust's order.       *)
Ab == <<65, 98>>   AbC == <<65, 98, 32, 99>>   ab == <<97, 98>>   B == <<66>>

(* Two tags that differ in case. *)
x == <<120>>   X == <<88>>

Some(title, tags, priority) ==
  [title |-> title, tags |-> tags, todo |-> TRUE, priority |-> priority,
   alone |-> TRUE, external |-> TRUE]
Bare(title, tags) ==
  [title |-> title, tags |-> tags, todo |-> FALSE, priority |-> 4,
   alone |-> FALSE, external |-> FALSE]

MCShapes == {Some(Ab, {x}, 4), Some(AbC, {x, X}, 1), Some(B, {x}, 4),
             Bare(ab, {X}), Bare(Ab, {X})}
MCFirstVault ==
  [i \in 1..3 |-> CASE i = 1 -> Some(AbC, {x, X}, 1)
                    [] i = 2 -> Some(Ab, {x}, 4)
                    [] OTHER -> NoNote]

A(tool, sort, tag, limit) ==
  [tool |-> tool, sort |-> sort, tag |-> tag, limit |-> limit]
MCWalks == {
  A("list_nodes", "title", NoTag, 1), A("list_nodes", "title_desc", NoTag, 1),
  A("list_nodes", "title", x, 2),
  A("list_orphans", "title", NoTag, 1), A("list_orphans", "title_desc", NoTag, 1),
  A("list_tasks", "priority", NoTag, 1), A("list_external_links", "title", NoTag, 1),
  A("search_by_tag", "title", x, 1), A("list_files", "title", NoTag, 1) }

(* "ab"; "b", which is in two titles and is another; and "AC", which is in *)
(* "Ab c" letter by letter.                                                *)
MCQueries == {ab, <<98>>, <<65, 67>>}
=============================================================================
