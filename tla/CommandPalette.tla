--------------------------- MODULE CommandPalette ---------------------------
(***************************************************************************)
(* The command palette (web/src/components/CommandPalette.tsx): a search   *)
(* over the rows that happen to be in the query cache and over fixed       *)
(* entries, moved through with the arrow keys.                             *)
(*                                                                         *)
(* The palette reads the cache when it is drawn (getQueryData), and is     *)
(* drawn again only when its own state changes, so its keys act on the     *)
(* rows it was drawn with.                                                 *)
(***************************************************************************)
EXTENDS Integers, FiniteSets

CONSTANTS Ids,     \* names of rows
          Named,   \* the rows the query "name" matches
          Routes   \* how many of the fixed entries the empty query lists

ASSUME PaletteAssumption == IsFiniteSet(Ids) /\ Named \subseteq Ids /\ Routes \in Nat \ {0}

VARIABLES
    rows,            \* the rows in the query cache
    open, query, selectedIndex,
    drawn            \* the rows when the palette was last drawn

paletteVars == <<open, query, selectedIndex, drawn>>

\* What may be typed: nothing, a name, or what nothing matches.
Queries == {"nothing", "name", "zzz"}

\* fuzzyMatch, over all of the rows
fuzzyMatch(q, rs) ==
    CASE q = "nothing"     -> rs
      [] q = "name" -> rs \cap Named
      [] q = "zzz"  -> {}

\* results.length; the empty query matches every fixed entry, and the others
\* none of them.
Results(q, rs) == Cardinality(fuzzyMatch(q, rs)) + IF q = "nothing" THEN Routes ELSE 0
Drawn == Results(query, drawn)

\* State changes of the palette draw it again.
Redrawn ==
    drawn' = IF <<open', query', selectedIndex'>> = <<open, query, selectedIndex>>
             THEN drawn ELSE rows

PaletteInit ==
    /\ open = FALSE /\ query = "nothing" /\ selectedIndex = 0
    /\ drawn = rows

\* Ctrl-K, with the effect of opening.
toggle ==
    /\ open' = ~open
    /\ IF open THEN UNCHANGED <<query, selectedIndex>>
       ELSE query' = "nothing" /\ selectedIndex' = 0
    /\ Redrawn

\* Escape, or a click outside.
Dismiss ==
    /\ open
    /\ open' = FALSE
    /\ UNCHANGED <<query, selectedIndex>>
    /\ Redrawn

\* Mutant: the selection stays where it was.
setQueryKeepingIndex(q) ==
    /\ open
    /\ query' = q
    /\ UNCHANGED <<open, selectedIndex>>
    /\ Redrawn

\* Typing; the effect on query selects the first result.
setQuery(q) ==
    /\ open
    /\ query' = q
    /\ selectedIndex' = IF q = query THEN selectedIndex ELSE 0
    /\ UNCHANGED open
    /\ Redrawn

Select(i) ==
    /\ open
    /\ selectedIndex' = i
    /\ UNCHANGED <<open, query>>
    /\ Redrawn

ArrowDown == Select(IF selectedIndex + 1 < Drawn - 1 THEN selectedIndex + 1 ELSE Drawn - 1)
ArrowUp == Select(IF selectedIndex - 1 > 0 THEN selectedIndex - 1 ELSE 0)
MouseEnter == \E i \in 0 .. Drawn - 1 : Select(i)

\* Enter on the selected result, or a click on any.
execute ==
    /\ open /\ Drawn > 0
    /\ open' = FALSE
    /\ UNCHANGED <<query, selectedIndex>>
    /\ Redrawn

PaletteStep ==
    \/ toggle \/ Dismiss \/ ArrowDown \/ ArrowUp \/ MouseEnter
    \/ \E q \in Queries : setQuery(q)

(***************************************************************************)
(* Properties.                                                             *)
(***************************************************************************)
Selected == selectedIndex \in 0 .. Drawn - 1

\* No key, typing or mouse movement takes the selection off the results that
\* are drawn, so that Enter finds one: the arrow keys stop at both ends, and
\* a new query starts at the top.  Two things excuse the palette: nothing
\* matches (an arrow down then selects -1, and stays there when rows come
\* in), or rows have gone from the cache since it was drawn.
SelectionStays ==
    [][open' /\ (open => Selected) /\ drawn \subseteq drawn'
         => Selected' \/ Drawn' = 0]_<<rows, paletteVars>>
=============================================================================
