---------------------------- MODULE SymbolTable ------------------------------
(***************************************************************************)
(* What becomes of one name in the symbol tables of a program (symbol,     *)
(* LeafTable).  The operating system and the user program each have a      *)
(* table, macros share their section's, and all of them hang below one     *)
(* root.  Names do not interact, and neither do the levels of the tree:    *)
(* every search is of the whole tree.                                      *)
(***************************************************************************)
EXTENDS Naturals

CONSTANTS Tables,       \* the leaf tables below the root
          Empty,        \* a value that does not point to another table's entry
          MaxDefines    \* bound: definitions in one table

ASSUME TablesAssumption == Empty \notin Tables /\ MaxDefines \in Nat

VARIABLES entry,        \* table -> its entry for the name
          defines,      \* history: table -> number of calls to define
          exports       \* history: the tables in which mark_global was called

symVars == <<entry, defines, exports>>

States == {"kUndefined", "kSingle", "kMultiple", "kExternalMultiple"}
Entry == [state: States, binding: {"absent", "kLocal", "kGlobal", "kImported"},
          value: Tables \cup {Empty}]

Local(state) == [state |-> state, binding |-> "kLocal", value |-> Empty]
Import(state, g) == [state |-> state, binding |-> "kImported", value |-> g]

Absent == [Local("kUndefined") EXCEPT !.binding = "absent"]

-----------------------------------------------------------------------------
\* The other tables that export the name.
OtherGlobals(t) == {g \in Tables \ {t} : entry[g].binding = "kGlobal"}

\* Mutant of Referenced: a new entry is not put into the table.
ReferencedUnsaved(t) ==
    LET g == CHOOSE g \in OtherGlobals(t) : TRUE
    IN  IF OtherGlobals(t) = {} THEN entry[t] ELSE Import(entry[g].state, g)

\* reference: the table's entry, created if need be, and made to follow the one
\* table that exports the name even if it was this table's own export.
Referenced(t) ==
    LET own == IF entry[t] = Absent THEN Local("kUndefined") ELSE entry[t]
        g == CHOOSE g \in OtherGlobals(t) : TRUE
    IN  IF OtherGlobals(t) = {} THEN own
        ELSE IF OtherGlobals(t) # {g} THEN [own EXCEPT !.state = "kExternalMultiple"]
        ELSE Import(entry[g].state, g)

Reference(t) ==
    /\ entry' = [entry EXCEPT ![t] = Referenced(t)]
    /\ UNCHANGED <<defines, exports>>

\* Mutant of OnceMore: a second definition is not counted.
OnceMoreEver(state) == IF state = "kUndefined" THEN "kSingle" ELSE state

\* The state of an own definition after one more: a name is undefined, defined once,
\* or more often; a mark that another table exports it stays.
OnceMore(state) ==
    CASE state = "kUndefined" -> "kSingle"
      [] state = "kSingle" -> "kMultiple"
      [] OTHER -> state

\* Mutant of Defined: the importing tables are not told.
DefinedSilently(t, own) ==
    LET state == IF own.binding = "kImported" THEN "kExternalMultiple" ELSE OnceMore(own.state)
    IN  [entry EXCEPT ![t] = [own EXCEPT !.state = state]]

\* The tables once t, whose entry is own, has one more definition: an exporting
\* table passes its state on to all that import the name.
Defined(t, own) ==
    LET state == IF own.binding = "kImported" THEN "kExternalMultiple" ELSE OnceMore(own.state)
    IN  [u \in Tables |->
            IF u = t THEN [own EXCEPT !.state = state]
            ELSE IF own.binding = "kGlobal" /\ entry[u].binding = "kImported" THEN Import(state, t)
            ELSE entry[u]]

\* define: the reference, and one more definition.
Define(t) ==
    /\ defines[t] < MaxDefines
    /\ entry' = Defined(t, Referenced(t))
    /\ defines' = [defines EXCEPT ![t] = @ + 1]
    /\ UNCHANGED exports

\* Mutant of Exported: a second export is noted in the new table only.
ExportedOneSided(t, own) ==
    LET state == IF OtherGlobals(t) # {} THEN "kExternalMultiple" ELSE own.state
    IN  [u \in Tables |->
            CASE u = t -> [own EXCEPT !.binding = "kGlobal", !.state = state]
              [] u # t /\ entry[u].binding = "kLocal" -> Import(state, t)
              [] OTHER -> entry[u]]

\* The tables once t, whose entry is own, exports the name.  Where another table
\* exports it too, a local entry already is in the state it is given here, so the
\* order of the loop does not matter.
Exported(t, own) ==
    LET state == IF OtherGlobals(t) # {} THEN "kExternalMultiple" ELSE own.state
    IN  [u \in Tables |->
            CASE u = t -> [own EXCEPT !.binding = "kGlobal", !.state = state]
              [] u \in OtherGlobals(t) -> [entry[u] EXCEPT !.state = "kExternalMultiple"]
              [] u # t /\ entry[u].binding = "kLocal" -> Import(state, t)
              [] OTHER -> entry[u]]

\* mark_global: the reference, and the export.
MarkGlobal(t) ==
    /\ entry' = Exported(t, Referenced(t))
    /\ exports' = exports \cup {t}
    /\ UNCHANGED defines

SymInit ==
    /\ entry = [t \in Tables |-> Absent]
    /\ defines = [t \in Tables |-> 0]
    /\ exports = {}

SymNext == \E t \in Tables : Reference(t) \/ Define(t) \/ MarkGlobal(t)

SymSpec == SymInit /\ [][SymNext]_symVars

-----------------------------------------------------------------------------
\* The entries and the histories keep their types, and a table with a definition
\* or an export has an entry.
SymTypeOK ==
    /\ entry \in [Tables -> Entry]
    /\ defines \in [Tables -> 0 .. MaxDefines]
    /\ exports \subseteq Tables
    /\ \A t \in Tables : entry[t].binding = "absent" => defines[t] = 0 /\ t \notin exports

\* What n definitions make of a name.
CountState(n) == IF n = 0 THEN "kUndefined" ELSE IF n = 1 THEN "kSingle" ELSE "kMultiple"

\* The state of a table that is alone in exporting the name, or of any table while
\* none exports it, counts the definitions in that table: whatever happens in the
\* other tables, before or after, has no influence.
StatesCount ==
    \A t \in Tables :
        entry[t].binding # "absent" /\ exports \subseteq {t}
            => entry[t].state = CountState(defines[t]) /\ entry[t].value = Empty

\* As long as one table exports the name, every other table that uses it, and has
\* no definition of its own, imports it from there with its present state, in
\* whatever order uses, definitions and the export came ("it doesn't matter if the
\* OS or user program is assembled first", symbol/README.md).  Not so a table that
\* defines the name itself: that is an error, which the code marks only if the
\* export came first (table.tpp:101, :143).
ImportersFollow ==
    \A t \in Tables : exports = {t} =>
        \A u \in Tables \ {t} :
            defines[u] = 0 => entry[u].binding = "absent" \/ entry[u] = Import(entry[t].state, t)

\* A name that two tables export is marked as such in both, for good, whether or not
\* and in whatever order they refer to it, define it or export it again; so is it
\* in a table that cannot import it because there are two.
DuplicateExportsFlagged ==
    /\ \A t, u \in exports : t # u => entry[t].state = "kExternalMultiple"
    /\ exports # {} => \A u \in Tables :
          entry[u].binding = "kLocal" => entry[u].state = "kExternalMultiple"
=============================================================================
