----------------------------- MODULE EditStore -----------------------------
(***************************************************************************)
(* What an editor of one file promises (the docstrings of ConfigStore):    *)
(* every content it holds is one the panel would load, an edit changes all *)
(* of it or nothing and leaves it unsaved, and the file changes only by a  *)
(* save, to what the editor then holds.  Settle is the normalisation that  *)
(* every load, edit and save runs.                                         *)
(***************************************************************************)
CONSTANTS Loads(_), Settle(_)

VARIABLES content, dirty, disk

vars == <<content, dirty, disk>>

\* Open a file: the editor shows what the loader makes of it, clean.
Open ==
  /\ dirty' = FALSE
  /\ content' = Settle(disk')
  /\ Loads(content')

\* An edit, or an import: any loadable content, unsaved.
Change ==
  /\ dirty' = TRUE
  /\ UNCHANGED disk
  /\ Loads(content')

\* An edit that finds nothing to do, and a save that is refused, still settle
\* the content.
Touch ==
  /\ UNCHANGED <<dirty, disk>>
  /\ content' = Settle(content)

Save ==
  /\ dirty' = FALSE
  /\ disk' = content'
  /\ content' = Settle(content)
  /\ Loads(content')

Next == Change \/ Open \/ Touch \/ Save

Spec == dirty = FALSE /\ [][Next]_vars
=============================================================================
