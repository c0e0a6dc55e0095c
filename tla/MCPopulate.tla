----------------------------- MODULE MCPopulate -----------------------------
(***************************************************************************)
(* Small instances of Populate: two files, which share a slug.  "a" and    *)
(* "b" are ids, "s" and "t" slugs, one of which may spell an :ID: too.     *)
(***************************************************************************)
EXTENDS Populate, TLC

CONSTANTS f1, f2

MCSlugsOf == (f1 :> {"s", "b"}) @@ (f2 :> {"s", "t"})
MCFold    == ("Tag" :> "tag") @@ ("tag" :> "tag")

At(level, id, to) ==
  [level |-> level, id |-> id, cites |-> {}, refs |-> {}, tags |-> {},
   links |-> {[kind |-> "id", to |-> name] : name \in to}]
Of(sections) == [sections |-> sections, labels |-> {}]

(* Notes that link by :ID: and by slug, to nothing, and to themselves; a    *)
(* link below a headline without :ID:; an :ID: met twice; one that spells  *)
(* a slug; refs, citations, tags and labels.                               *)
ByIdAndSlug == Of(<<At(0, "a", {"b", "t"})>>)
Plain       == Of(<<At(0, "b", {})>>)
Shared      == Of(<<At(0, "b", {"s"}), At(1, "b", {"s", "a"})>>)
Nested      == Of(<<At(0, NoName, {"b"}), At(1, "a", {}), At(2, NoName, {"b"}),
                    At(1, NoName, {"a"})>>)
Spelling    == Of(<<At(0, "s", {"b"}), At(1, "b", {"t"})>>)
Citing      ==
  [sections |-> <<[level |-> 0, id |-> "a", tags |-> {"Tag"}, cites |-> {"b"},
                   refs |-> {[scheme |-> "@", key |-> "t"], [scheme |-> "http", key |-> "s"]},
                   links |-> {[kind |-> "fuzzy", to |-> "t"], [kind |-> "cite", to |-> "s"],
                              [kind |-> "https", to |-> "s"]}]>>,
   labels |-> {"t"}]

MCTexts == {ByIdAndSlug, Plain, Shared, Nested, Spelling, Citing}
=============================================================================
