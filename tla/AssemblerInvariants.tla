------------------------ MODULE AssemblerInvariants -------------------------
(***************************************************************************)
(* What is always true of the assembler while it runs, as the proofs of    *)
(* AssemblerProofs need it: of its driver (AsmInv), of what is logged      *)
(* (OnlyForgotten), of circles in the graph of macros (CircleInv), of the  *)
(* texts of sections (TreeInv), of what that graph records (GraphInv), of  *)
(* the sections that were opened up (TidyInv) and of what is known of each *)
(* name (NameInv).                                                         *)
(***************************************************************************)
EXTENDS Assembler

\* What is a sequence, whatever its elements are.
Sequence(x) == x \in Seq(Range(x))

\* A text, as far as the driver is concerned: a sequence of lines that have a kind.
IsText(t) == t \in Seq(Range(t)) /\ \A i \in DOMAIN t : "kind" \in DOMAIN t[i]

\* The tree of sections: the programs are its first ones, a section's lines are a sequence,
\* and the user program's text has not been touched while the operating system is assembled.
SectionsSound ==
    /\ Sequence(sections)
    /\ \A s \in DOMAIN sections :
          /\ {"top", "parent", "lines", "ir"} \subseteq DOMAIN sections[s]
          /\ sections[s].top \in {OS, User} /\ IsText(sections[s].lines)
          /\ sections[s].parent = 0 => sections[s].top = s
    /\ \A x \in DOMAIN registry : IsText(registry[x].lines)
    /\ phase = "os" => \A s \in DOMAIN sections : sections[s].top = User => s = User

DriverSound ==
    /\ queue \in [Stages -> Seq(Nat)] /\ target \in Stages /\ request \in Requests
    /\ failed \in BOOLEAN /\ phase \in {"os", "user", "done"}

\* What waits is dropped.
Stuck == \A st \in Waiting : st >= target

\* Where a program's sections wait: among the stages that open up macros; all at one of
\* the stages that look at the whole of it; or nowhere, when there is an image.
Expanding == /\ \A st \in 4 .. 8 : queue[st] = << >>
             /\ Own = Range(queue[1]) \cup Range(queue[2]) \cup Range(queue[3])
Whole == \E st \in {4, 5} : Range(queue[st]) = Own /\ \A u \in Stages \ {st} : queue[u] = << >>
Done == \A st \in 1 .. 5 : queue[st] = << >>

\* The inductive invariant.
AsmInv ==
    /\ SectionsSound /\ DriverSound
    /\ failed /\ phase # "done" => Stuck
    /\ phase # "done" => Stuck \/ Expanding \/ Whole \/ Done

\* As long as nothing failed, what was logged is what the parser forgets.
OnlyForgotten ==
    ~failed => \A e \in errors :
        /\ e.what = "parse" /\ e.section \in DOMAIN sections
        /\ \E i \in Macros(sections[e.section]) : i > e.line

-----------------------------------------------------------------------------
(* A circle is found before anything is parsed. *)

\* The program that is assembled.
Current == IF phase = "user" THEN User ELSE OS

\* The program's sections are still opened up, and no failure has stopped that.
Open == phase # "done" /\ ~Stuck /\ Expanding

\* A circle in the program's graph has new sections after it, at which it will be found.
CircleInv ==
    /\ DOMAIN edges = {OS, User}
    /\ \A s \in DOMAIN sections : sections[s].ir # << >> => ~Cyclic(edges[sections[s].top])
    /\ phase = "os" => \A s \in DOMAIN sections : sections[s].top = User => sections[s].ir = << >>
    /\ Open => \A s \in Own : sections[s].ir = << >>
    /\ Open /\ Cyclic(edges[Current]) => queue[1] # << >> \/ queue[2] # << >>

-----------------------------------------------------------------------------
(* The texts of sections: a program's is the one that was given, a macro's what the    *)
(* registry says, and from the tokenizer on with the arguments of the line it is for.  *)

Given(s) == IF sections[s].parent # 0 THEN registry[sections[s].name].lines
            ELSE IF s = OS THEN request.os ELSE request.user
Untouched(s) == sections[s].lines = Given(s)
Tokenized(s) == sections[s].lines = [i \in DOMAIN Given(s) |-> Substituted(Given(s)[i], sections[s].args)]

\* A macro's section is for a line of the section above it.
ForLine(s) ==
    LET above == sections[s].parent
        line == sections[above].lines[sections[s].line]
    IN  /\ above \in DOMAIN sections /\ above < s /\ Tokenized(above)
        /\ sections[s].top = sections[above].top /\ sections[s].line \in Macros(sections[above])
        /\ sections[s].name = line.name /\ sections[s].args = line.args
        /\ sections[s].name \in DOMAIN registry
        /\ registry[sections[s].name].arity = Len(sections[s].args)

SectionFits(s) ==
    /\ {"line", "name", "args"} \subseteq DOMAIN sections[s] /\ sections[s].args \in Seq(Words)
    /\ sections[s].top \in DOMAIN sections /\ sections[sections[s].top].parent = 0
    /\ sections[s].parent = 0 => s \in {OS, User} /\ sections[s].name = "" /\ sections[s].args = << >>
                                 /\ Untouched(s)
    /\ sections[s].parent # 0 => ForLine(s)
    /\ Untouched(s) \/ Tokenized(s)

RegistryFits ==
    /\ \A x \in DOMAIN registry : /\ x \in Names /\ registry[x].arity \in 0 .. 2
                                  /\ registry[x].lines \in Seq(TextLine)
    /\ \A x \in DOMAIN CoreMacros : x \in DOMAIN registry /\ registry[x] = CoreMacros[x]
    /\ \A x \in (DOMAIN registry) \ DOMAIN CoreMacros :
          \A i \in DOMAIN registry[x].lines : registry[x].lines[i].kind # "macro"

TreeInv ==
    /\ RegistryFits
    /\ \A s \in DOMAIN sections : SectionFits(s)
    /\ Open => /\ \A s \in Range(queue[1]) : Untouched(s)
               /\ \A s \in Range(queue[2]) \cup Range(queue[3]) : Tokenized(s)

-----------------------------------------------------------------------------
(* The graph of a program has an edge from a section to each that is opened up for one  *)
(* of its lines, and nothing else.                                                     *)

EdgesSound ==
    \A p \in {OS, User} : \A e \in edges[p] : \E c \in DOMAIN sections :
        /\ sections[c].parent # 0 /\ sections[c].top = p
        /\ e = <<ClassOf(sections[sections[c].parent]), ClassOf(sections[c])>>

\* All that a section invokes has been opened up.
Complete(s) ==
    \A c \in Invocations(sections[s].lines) :
        /\ <<ClassOf(sections[s]), c>> \in edges[sections[s].top]
        /\ \E t \in DOMAIN sections : /\ sections[t].parent = s /\ sections[t].top = sections[s].top
                                      /\ ClassOf(sections[t]) = c

\* A program waits alone, and before there is anything in its graph.
Alone ==
    /\ Current \in Range(queue[1]) => queue[1] = <<Current>> /\ queue[2] = << >> /\ edges[Current] = {}
    /\ Current \in Range(queue[2]) => queue[2] = <<Current>> /\ queue[1] = << >> /\ edges[Current] = {}

GraphInv ==
    /\ EdgesSound
    /\ Open => Alone /\ \A s \in Range(queue[3]) : Complete(s)
    /\ phase = "os" => edges[User] = {}
    /\ CircularExactly

-----------------------------------------------------------------------------
(* Names.  While no message is logged the entries of a name fit the lines that have    *)
(* been read: which program defines it where, and which export it (Fits).             *)

\* The other program.
Other(t) == IF t = OS THEN User ELSE OS

\* What the definitions of a name at the places d make of it.
Counted(d) == IF d = {} THEN "kUndefined" ELSE IF \E a \in d : d = {a} THEN "kSingle" ELSE "kMultiple"

Rec(s, b, v) == [state |-> s, binding |-> b, value |-> v]

\* A program's entry e of a name, and f of the other program o: it defines the name at D, and
\* x and y say whether they export it.
Side(e, f, D, x, y, o) ==
    /\ e.binding = "absent" => D = {} /\ ~x /\ e = Rec("kUndefined", "absent", 0)
    /\ e.binding # "absent" /\ ~y => e.state = Counted(D) /\ e.value = 0
    /\ y /\ ~x => \/ e.binding = "absent"
                  \/ e = Rec(f.state, "kImported", o)
                  \/ e = Rec("kExternalMultiple", "kImported", o) /\ D # {}
    /\ x /\ y => e.state = "kExternalMultiple"
    /\ (x \/ y) /\ e.binding = "kLocal" => e.state = "kExternalMultiple"
    /\ x \/ y => e.binding = "kGlobal" \/ f.binding = "kGlobal"
    /\ e.binding = "kGlobal" => x
    /\ x /\ ~y => e.binding = "kGlobal"
    /\ ~x /\ ~y => e.binding \in {"absent", "kLocal"}

\* The entries m of a name fit if d[t] is where program t defines it, and X exports it.
Fits(m, d, X) ==
    /\ m \in [{OS, User} -> Table(<< >>)!Entry] /\ X \subseteq {OS, User}
    /\ \A t \in {OS, User} : Side(m[t], m[Other(t)], d[t], t \in X, Other(t) \in X, Other(t))

\* No element is there twice.
Apart(x) == \A i, j \in DOMAIN x : x[i] = x[j] => i = j

\* The lines of program t that are parsed, those that define x, and who exports x.
Seen(ss, t) == {l \in (DOMAIN ss) \X Nat : ss[l[1]].top = t /\ l[2] \in DOMAIN ss[l[1]].ir}
DefinedAt(ss, t, x) == {l \in Seen(ss, t) : At(ss, l).label = x}
PlacesOf(ss, x) == [t \in {OS, User} |-> DefinedAt(ss, t, x)]
ExportedBy(ss, x) == {t \in {OS, User} : \E l \in Seen(ss, t) : At(ss, l).kind = "export" /\ At(ss, l).name = x}

\* Line i of section s was parsed to line r, and its macro has a section.
Reads(ss, s, i, r) ==
    /\ {"kind", "label", "name", "source", "child"} \subseteq DOMAIN r
    /\ r.kind = ss[s].lines[i].kind /\ r.label = ss[s].lines[i].label /\ r.name = ss[s].lines[i].name
    /\ r.source = i
    /\ r.kind = "macro" => r.child \in DOMAIN ss /\ ss[r.child].parent = s /\ ss[r.child].line = i

\* All lines of a section were parsed.
Parses(ss, s) ==
    /\ DOMAIN ss[s].ir = DOMAIN ss[s].lines
    /\ \A i \in DOMAIN ss[s].ir : Reads(ss, s, i, ss[s].ir[i])

\* The invariants: of the sections there are ...
OneEach == \A c, d \in DOMAIN sections :
    sections[c].parent # 0 /\ sections[c].parent = sections[d].parent /\ sections[c].line = sections[d].line => c = d
Childless(s) == \A c \in DOMAIN sections : sections[c].parent # s
OpenedUp(s) == \A i \in Macros(sections[s]) :
    \E c \in DOMAIN sections : sections[c].parent = s /\ sections[c].line = i
Tidy ==
    /\ \A st \in 1 .. 3 : Apart(queue[st])
    /\ \A st, su \in 1 .. 3 : st # su => Range(queue[st]) \cap Range(queue[su]) = {}
    /\ \A s \in Range(queue[1]) \cup Range(queue[2]) : Childless(s)
    /\ \A s \in Range(queue[3]) : OpenedUp(s)
TidyInv == OneEach /\ (Open => Tidy)

\* ... and of what is known of names when they are parsed.
Fitted == DOMAIN symbols = Names /\ \A x \in Names : Fits(symbols[x], PlacesOf(sections, x), ExportedBy(sections, x))
AllRead == \A s \in DOMAIN sections : DOMAIN sections[s].ir = {} \/ Parses(sections, s)
Passed == ~failed /\ phase # "done" =>
    /\ phase = "user" => \A s \in DOMAIN sections : sections[s].top = OS => Parses(sections, s)
    /\ \/ \E st \in 1 .. 3 : queue[st] # << >>
       \/ target < 4
       \/ \A s \in Own : Parses(sections, s)
TargetFits == phase = "os" /\ User \in Programs => target <= 4 /\ (~failed => target = 4)
Settled ==
    /\ Done /\ (phase = "os" => User \notin Programs)
    /\ errors = {} => \A s \in DOMAIN sections :
          Parses(sections, s) /\ \A i \in DOMAIN sections[s].ir : BadSymbols(sections[s].ir[i], sections[s].top) = {}
NameInv ==
    /\ errors = {} => Fitted /\ AllRead /\ Passed
    /\ TargetFits
    /\ places # << >> => Settled

=============================================================================
