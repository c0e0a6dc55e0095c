----------------------------- MODULE NoteChecks -----------------------------
(***************************************************************************)
(* What makes a note's text a valid node (src/src/validation.rs), and the  *)
(* two readers of a file's :ID: that do without orgize.                    *)
(*                                                                         *)
(* Left out: file: links, which are looked up in the vault, and the places *)
(* and wording of issues.                                                  *)
(***************************************************************************)
EXTENDS Outline

CONSTANTS
  Uuids,    \* words that are well-formed ids
  Quotes,   \* words with a double quote in them
  RefWords  \* words that are URLs or citation keys

-----------------------------------------------------------------------------
(* The properties drawer, scanned for without regard to headlines          *)

DrawerLines(t) ==
  LET open == Least({i \in DOMAIN t : t[i].kind = "open"}, Len(t))
      end  == Least({i \in (open + 1)..Len(t) : t[i].kind = "end"}, 0)
  IN IF end = 0 THEN {} ELSE open..end

(* The last of several values counts. *)
DrawerValue(t, key) ==
  LET lines == {i \in DrawerLines(t) : t[i].kind = "prop" /\ t[i].key = key}
  IN IF lines = {} THEN <<>> ELSE t[Max(lines)].val

(* The :ID: a bulk scan reports for a file. *)
DrawerId(t) == IF DrawerValue(t, "ID") = <<>> THEN NoName ELSE DrawerValue(t, "ID")[1]

(* extract_file_id: the first :ID: line above the headlines. *)
ExtractFileId(t) ==
  LET lines == {i \in 1..(FirstHeadline(t) - 1) : t[i].kind = "prop" /\ t[i].key = "ID"}
  IN IF lines = {} THEN NoName ELSE t[Min(lines)].val[1]

-----------------------------------------------------------------------------
(* Issues                                                                  *)

(* Each word of a list is put in quotes; a quote in it makes them odd. *)
QuotesClosed(words) ==
  Cardinality({i \in DOMAIN words : words[i] \in Quotes}) % 2 = 0

RoamIssues(t) ==
  {v \in {"missing_properties_drawer"} : DrawerLines(t) = {}}
  \cup {v \in {"missing_id_drawer"} : DrawerLines(t) # {} /\ DrawerId(t) = NoName}
  \cup {v \in {"malformed_id_drawer"} : DrawerId(t) \notin Uuids \cup {NoName}}
  \cup {v \in {"malformed_roam_aliases"} : ~QuotesClosed(DrawerValue(t, "ROAM_ALIASES"))}
  \cup {v \in {"malformed_roam_ref"} : ~(ToSet(DrawerValue(t, "ROAM_REFS")) \subseteq RefWords)}

LevelJumps(t) ==
  {h \in Headlines(t) : /\ NextHeadline(t, h) <= Len(t)
                        /\ t[NextHeadline(t, h)].level > t[h].level + 1}

(* Drawers still open at the end of a section: any ":x:" line opens one and *)
(* properties do, outside the drawer orgize takes for the headline's.      *)
OpenDrawers(t, section) ==
  FoldLeft(LAMBDA n, l : IF l.kind \in {"open", "prop"} THEN n + 1
                         ELSE IF l.kind = "end" /\ n > 0 THEN n - 1 ELSE n,
           0, SubSeq(t, Least(section, 1), Max(section \cup {0})))

(* The structure is looked at only if the rest is right. *)
Issues(t) ==
  IF RoamIssues(t) # {} THEN RoamIssues(t)
  ELSE {v \in {"headline_level_jump"} : LevelJumps(t) # {}}
       \cup {v \in {"unclosed_drawer"} :
               \E h \in Headlines(t) \cup {0} : OpenDrawers(t, Section(t, h)) > 0}

Valid(t) == Issues(t) = {}
=============================================================================
