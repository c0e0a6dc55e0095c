---------------------------- MODULE MCNoteText ------------------------------
(***************************************************************************)
(* Small instances of NoteText: a note with nested headlines, one in the   *)
(* style of org-roam v1, one whose file is no node, one with tags twice,   *)
(* and no file.                                                            *)
(***************************************************************************)
EXTENDS NoteText

Drawer(id) == <<Open, Prop("ID", <<id>>), End>>

Nested ==
  Drawer("u1") \o <<Kw("title", <<"T">>), Kw("filetags", <<"x">>), Blank, Text(<<"intro">>),
    Headline(1, "Part")>> \o Drawer("u2") \o
  <<Text(<<"part">>), Headline(2, "Sub"), Plan>> \o Drawer("u3") \o
  <<Text(<<"sub">>), Headline(1, "Tail"), Text(<<"tail">>)>>

VersionOne ==
  <<Open, Prop("ID", <<"u1">>), Prop("ROAM_REFS", <<"@key">>), End, Kw("title", <<"T">>),
    Kw("roam_tags", <<"x", "y">>), Text(<<"intro">>), Kw("name", <<"table">>), Text(<<"part">>),
    Headline(1, "Part"), Open, Prop("CUSTOM_ID", <<"Sub">>), End>>

Unfiled == <<Kw("title", <<"T">>), Text(<<"intro">>), Headline(1, "Part")>> \o Drawer("u2")
TaggedTwice ==
  Drawer("u1") \o <<Kw("filetags", <<"x">>), Kw("filetags", <<"y">>), Headline(1, "Part")>>

MCVocabulary == STRING

MCNotes == {Nested, VersionOne, Unfiled, TaggedTwice, <<>>}

Nothing == [title |-> NoName, tags |-> NoName, aliases |-> NoName, refs |-> NoName,
            property |-> NoName, body |-> NoName]
Full    == [title |-> "U", tags |-> <<"z", "x", "z">>, aliases |-> <<"Al">>, refs |-> <<"@key">>,
            property |-> NoName, body |-> <<Text(<<"intro">>), Blank>>]

MCParams ==
  {Full,
   [Full EXCEPT !.aliases = <<"6\" nail">>],
   [Full EXCEPT !.tags = <<"a:b">>, !.aliases = <<>>, !.refs = <<>>, !.body = <<>>],
   [Full EXCEPT !.refs = <<"a book">>],
   [Nothing EXCEPT !.tags = <<>>, !.refs = <<>>],
   [Nothing EXCEPT !.property = "ID"],
   [Nothing EXCEPT !.property = "CATEGORY", !.body = <<Blank, Text(<<"new">>), Headline(1, "Part")>>],
   [Nothing EXCEPT !.body = <<Kw("title", <<"T">>), Text(<<"new">>)>>],
   [Nothing EXCEPT !.body = <<Kw("name", <<"table">>), Text(<<"new">>)>>],
   [Nothing EXCEPT !.body = <<Text(<<"new">>)>> \o Drawer("u4")]}

MCQuotes   == {"6\" nail"}   \* words with a quote in them
MCTagLists == {<<>>, <<"x">>, <<"y", "z">>, <<"a:b">>}
MCContents == {<<Text(<<"new">>)>>, <<Kw("name", <<"list">>), Text(<<"new">>), Text(<<"more">>)>>}
MCSegments ==
  [t \in {"x", "y", "z", "a", "b", "a:b"} |-> IF t = "a:b" THEN <<"a", "b">> ELSE <<t>>]
MCWords    == {"intro", "sub", "Tail", "@key"}
=============================================================================
