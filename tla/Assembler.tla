------------------------------ MODULE Assembler ------------------------------
(***************************************************************************)
(* The Pep/10 assembler (masm, asmb/pep10): a driver takes an operating    *)
(* system, and then a user program, through the stages of assembly.  Each  *)
(* stage transforms all the sections that wait for it: the tokenizer, the  *)
(* preprocessor that opens up macros, the parser, the checks of the whole  *)
(* program, the assignment of addresses and the packing of the image.      *)
(***************************************************************************)
EXTENDS AssemblyLayout, FiniteSets

CONSTANTS CoreMacros,   \* macros registered beforehand: name -> [arity, lines]
          Names,        \* the words texts are made of: symbols, macros, parameters
          Requests      \* what is asked of the driver: [os, user, target, stages], two
                        \* texts (user << >> for none), and stages with a transform

Words == Names \cup {""}

Kinds == Emitting \cup {"equate", "burn", "end", "export", "input", "output", "scall", "uscall", "odd", "bad"}

\* A line of a text, see AssemblyLayout.  The name of a system call is written out, and the
\* operand of a .BURN is an address.  (An .ALIGN of 0, by which the program divides, is left out.)
TextLine == {l \in [kind : Kinds, label : Words, name : Words, args : Seq(Words), n : Nat] :
                /\ l.kind \in {"scall", "uscall"} => l.name \notin {""} \cup Range(Params)
                /\ l.kind = "align" => l.n > 0
                /\ l.kind = "burn" => l.n < WordMod}

\* What is assembled is text, what macros stand for too, and the driver has a stage to aim at.
ASSUME AssemblerAssumption ==
    /\ WordMod \in Nat \ {0}
    /\ IsFiniteSet(Names) /\ "" \notin Names /\ Range(Params) \subseteq Names
    /\ \A r \in Requests : {r.os, r.user} \subseteq Seq(TextLine) /\ r.target \in 1 .. 8
    /\ DOMAIN CoreMacros \subseteq Names
    /\ \A x \in DOMAIN CoreMacros :
          CoreMacros[x].arity \in 0 .. Len(Params) /\ CoreMacros[x].lines \in Seq(TextLine)

VARIABLES request,      \* the request
          sections,     \* the programs, then macros in the order they are inserted
          registry,     \* macro_registry
          symbols,      \* name -> table -> entry, see SymbolTable
          edges,        \* program -> its invoke_dependency_graph
          errors,       \* messages logged: [section, line, what]
          queue,        \* work_queue_: stage -> what waits there
          target,       \* target_stage of the loop
          failed,       \* failed_stage of the loop
          phase,        \* the program the loop is run for: "os", "user"; "done"
          places,       \* line -> its address and size
          image         \* program -> where it is packed, and the lines that are

text == <<sections, registry, symbols, edges, errors>>
layout == <<places, image>>
driver == <<request, queue, target, failed, phase>>
asmVars == <<text, layout, driver>>

\* The stages of toolchain_stage that something reaches.
Stage == [RAW |-> 1, TOKEN |-> 2, PREPROCESS |-> 3, SYMANTIC |-> 4, SANITY |-> 5,
          ADDRESS |-> 6, PACK |-> 7, FINISHED |-> 8]
Stages == 1 .. 8

OS == 1
User == 2
Programs == {s \in DOMAIN sections : sections[s].parent = 0}

Error(s, i, what) == [section |-> s, line |-> i, what |-> what]

\* The state of one name in the tables of both programs.
Table(entry) == INSTANCE SymbolTable WITH
    Tables <- {OS, User}, Empty <- 0, MaxDefines <- 0,
    defines <- [t \in {OS, User} |-> 0], exports <- {}

Section(top, parent, line, name, args, lines) ==
    [top |-> top, parent |-> parent, line |-> line, name |-> name, args |-> args,
     lines |-> lines, ir |-> << >>]

\* A program is loaded, and its driver put to work on the operating system.
AsmInit ==
    /\ request \in Requests
    /\ LET user == IF request.user = << >> THEN << >>
                   ELSE <<Section(User, 0, 0, "", << >>, request.user)>>
       IN  /\ sections = <<Section(OS, 0, 0, "", << >>, request.os)>> \o user
           /\ target = IF user = << >> THEN request.target ELSE Stage.SYMANTIC
    /\ registry = CoreMacros
    /\ symbols = [x \in Names |-> [t \in {OS, User} |-> Table(<< >>)!Absent]]
    /\ edges = [p \in {OS, User} |-> {}]
    /\ errors = {}
    /\ queue = [st \in Stages |-> IF st = Stage.RAW THEN <<OS>> ELSE << >>]
    /\ failed = FALSE /\ phase = "os"
    /\ places = << >> /\ image = << >>

-----------------------------------------------------------------------------
(* The driver. *)

Waiting == {st \in Stages : queue[st] # << >>}

\* Mutant of Lowest: the stage that is furthest on goes first.
LowestLast == Max(Waiting)

\* The stage whose sections are transformed next.
Lowest == Min(Waiting)

Running == phase # "done" /\ Waiting # {}

\* A transform takes up all that waits for it.
Take(st) == Running /\ Lowest = st /\ st < target /\ st \in request.stages

\* What was transformed moves on, with the sections that are new, unless one failed:
\* then it is dropped, and nothing goes beyond the stage that failed.
Requeue(st, ok, work) ==
    /\ queue' = [u \in Stages |->
                    (IF u = st THEN << >> ELSE queue[u])
                        \o (IF ok /\ u \in DOMAIN work THEN work[u] ELSE << >>)]
    /\ failed' = (failed \/ ~ok)
    /\ target' = IF ok THEN target ELSE Min({target, st})
    /\ UNCHANGED <<request, phase>>

\* Work at or beyond the target is dropped.
Ignore ==
    /\ Running /\ Lowest >= target
    /\ queue' = [queue EXCEPT ![Lowest] = << >>]
    /\ UNCHANGED <<text, layout, request, target, failed, phase>>

\* Without a transform for the stage the driver gives up.
GiveUp ==
    /\ Running /\ Lowest < target /\ Lowest \notin request.stages
    /\ queue' = [queue EXCEPT ![Lowest] = << >>]
    /\ failed' = TRUE /\ phase' = "done"
    /\ UNCHANGED <<text, layout, request, target>>

\* Mutant of EndLoop: the user program's turn comes again.
EndLoopAgain ==
    /\ phase # "done" /\ Waiting = {}
    /\ IF User \in Programs /\ ~failed
       THEN /\ phase' = "user"
            /\ queue' = [queue EXCEPT ![Stage.RAW] = <<User>>]
            /\ target' = request.target
       ELSE phase' = "done" /\ UNCHANGED <<queue, target>>
    /\ UNCHANGED <<text, layout, request, failed>>

\* The loop ends.  The user program's turn comes if the operating system got as far
\* as it should, and so its system calls became macros.
EndLoop ==
    /\ phase # "done" /\ Waiting = {}
    /\ IF phase = "os" /\ User \in Programs /\ ~failed
       THEN /\ phase' = "user"
            /\ queue' = [queue EXCEPT ![Stage.RAW] = <<User>>]
            /\ target' = request.target
       ELSE phase' = "done" /\ UNCHANGED <<queue, target>>
    /\ UNCHANGED <<text, layout, request, failed>>

-----------------------------------------------------------------------------
(* The frontend. *)

\* The tokenizer, RAW to TOKEN: a line it cannot read fails the stage, the others are
\* still looked at.
Tokenize ==
    LET batch == Range(queue[Stage.RAW])
        bad == UNION {{Error(s, i, "token") : i \in {i \in DOMAIN sections[s].lines :
                                                        sections[s].lines[i].kind = "bad"}} : s \in batch}
    IN  /\ Take(Stage.RAW)
        /\ sections' = [s \in DOMAIN sections |->
                IF s \in batch
                THEN [sections[s] EXCEPT !.lines = [i \in DOMAIN @ |-> Substituted(@[i], sections[s].args)]]
                ELSE sections[s]]
        /\ errors' = errors \cup bad
        /\ Requeue(Stage.RAW, bad = {}, [u \in {Stage.TOKEN} |-> queue[Stage.RAW]])
        /\ UNCHANGED <<registry, symbols, edges, layout>>

\* reduce: the graph has a cycle if it is not used up by removing leaves.
Cyclic(graph) ==
    LET nodes == {e[1] : e \in graph} \cup {e[2] : e \in graph}
    IN  \E core \in (SUBSET nodes) \ {{}} : \A c \in core : \E d \in core : <<c, d>> \in graph

\* Mutant of ClassOf: the arguments do not matter.
ClassOfName(section) == <<section.name, << >>>>

\* Invocations of a macro with the same arguments are one node of the graph.
ClassOf(section) == <<section.name, section.args>>

Macros(section) == {i \in DOMAIN section.lines : section.lines[i].kind = "macro"}
Known(line) == line.name \in DOMAIN registry /\ registry[line.name].arity = Len(line.args)

\* What becomes of a section's macros: each that is known is a section below it, in the
\* order of the lines, and an edge of the graph.
Children(s) ==
    LET lines == sections[s].lines
        Opened(i) == IF i \notin Macros(sections[s]) \/ ~Known(lines[i]) THEN << >>
                     ELSE <<Section(sections[s].top, s, i, lines[i].name, lines[i].args,
                                    registry[lines[i].name].lines)>>
    IN  FlattenSeq([i \in DOMAIN lines |-> Opened(i)])
Edges(s) == {<<ClassOf(sections[s]), ClassOf(c)>> : c \in Range(Children(s))}
BadInvocations(s) ==
    {Error(s, i, "invocation") : i \in {i \in Macros(sections[s]) :
        ~Known(sections[s].lines[i]) \/ sections[s].lines[i].n # 0}}

\* The preprocessor, TOKEN to PREPROCESS: the new sections begin at RAW.  A circle is found
\* at the section that comes after the one that closes it, and is put down to that
\* section's parent; nothing is done to it or those after it.
Preprocess ==
    LET batch == queue[Stage.TOKEN]
        top == sections[batch[1]].top
        Before(k) == edges[top] \cup UNION {Edges(batch[j]) : j \in 1 .. k - 1}
        circular == {k \in DOMAIN batch : Cyclic(Before(k))}
        opened == SubSeq(batch, 1, Len(batch) - Cardinality(circular))
        new == FlattenSeq([k \in DOMAIN opened |-> Children(opened[k])])
        wrong == (UNION {BadInvocations(s) : s \in Range(opened)})
                 \cup {Error(sections[s].parent, sections[s].line, "circular") : s \in {batch[k] : k \in circular}}
    IN  /\ Take(Stage.TOKEN)
        /\ sections' = sections \o new
        /\ edges' = [edges EXCEPT ![top] = @ \cup UNION {Edges(s) : s \in Range(opened)}]
        /\ errors' = errors \cup wrong
        /\ Requeue(Stage.TOKEN, wrong = {},
                   [u \in {Stage.RAW, Stage.PREPROCESS} |->
                       IF u = Stage.RAW THEN [k \in DOMAIN new |-> Len(sections) + k] ELSE batch])
        /\ UNCHANGED <<registry, symbols, layout>>

-----------------------------------------------------------------------------
(* The parser. *)

Word(kind, name) == [kind |-> kind, label |-> "", name |-> name, args |-> << >>, n |-> 0]

\* The macro a .SCALL or .USCALL registers for its system call.
SystemMacro(line) ==
    IF line.kind = "scall"
    THEN [arity |-> 2, lines |-> <<Word("nonunary", line.name), Word("nonunary", "$1"), Word("end", "")>>]
    ELSE [arity |-> 0, lines |-> <<Word("nonunary", line.name), Word("unary", ""), Word("end", "")>>]

\* The macros registered after the lines; one keeps the meaning it had first.
Declared(reg, lines) ==
    LET declaring == {k \in DOMAIN lines : lines[k].kind \in {"scall", "uscall"}}
    IN  [x \in DOMAIN reg \cup {lines[k].name : k \in declaring} |->
            IF x \in DOMAIN reg THEN reg[x]
            ELSE SystemMacro(lines[Min({k \in declaring : lines[k].name = x})])]

\* The entries of a name after a use of it in the text of program t.
Used(entry, t) == [entry EXCEPT ![t] = Table(entry)!Referenced(t)]

Operands == {"nonunary", "word"}
Referring == Operands \cup {"odd", "export", "input", "output", "scall", "uscall"}

\* The symbols after a line of program t: its label is defined before its operand is
\* looked up, and an export marks the name it has looked up.
Entered(sy, line, t) ==
    LET Label(m) == IF line.label = "" THEN m
                    ELSE [m EXCEPT ![line.label] = Table(@)!Defined(t, Table(@)!Referenced(t))]
        Name(m) == IF line.name = "" \/ line.kind \notin Referring THEN m
                   ELSE [m EXCEPT ![line.name] = Used(@, t)]
        Export(m) == IF line.kind # "export" THEN m
                     ELSE [m EXCEPT ![line.name] = Table(@)!Exported(t, Table(@)!Referenced(t))]
    IN  Export(Name(Label(sy)))

\* The symbols after a text of program t.
EnteredText(sy, lines, t) == FoldLeft(LAMBDA m, line : Entered(m, line, t), sy, lines)

\* What the parser rejects once it has done all this: lines it cannot read ("odd"; their
\* name is an operand it could read),
\* directives that do not go with a label, and one that needs it.
Rejected(line) ==
    \/ line.kind = "odd"
    \/ line.kind \in {"burn", "end", "export", "input", "output", "scall", "uscall"} /\ line.label # ""
    \/ line.kind = "equate" /\ line.label = ""

\* The section that line i of a section has become in the preprocessor.
ChildOf(s, i) ==
    LET children == {c \in DOMAIN sections : /\ sections[c].parent = s /\ sections[c].line = i
                                             /\ sections[c].name = sections[s].lines[i].name}
    IN  IF children = {} THEN 0 ELSE Min(children)

\* Line i of a section once it is read, and the section below it.
AsRead(line, i, child) ==
    [kind |-> line.kind, label |-> line.label, name |-> line.name, args |-> line.args, n |-> line.n,
     source |-> i, child |-> child, emits |-> line.kind \in Emitting]

\* A section as it is parsed: without the lines that are rejected.
Parsed(s) ==
    LET lines == sections[s].lines
        Child(i) == IF lines[i].kind = "macro" THEN ChildOf(s, i) ELSE 0
        Kept(i) == IF Rejected(lines[i]) THEN << >> ELSE <<AsRead(lines[i], i, Child(i))>>
    IN  FlattenSeq([i \in DOMAIN lines |-> Kept(i)])

\* The verdict on a section: a macro's line sets it anew.
Accepted(s) ==
    LET lines == sections[s].lines
        last == Max({0} \cup Macros(sections[s]))
    IN  /\ last = 0 \/ ChildOf(s, last) # 0
        /\ \A i \in DOMAIN lines : i > last => ~Rejected(lines[i])

\* The parser, PREPROCESS to SYMANTIC, goes through all lines of all sections in order.
Parse ==
    LET batch == queue[Stage.PREPROCESS]
        here == Range(batch)
        top == sections[batch[1]].top
        lines == FlattenSeq([k \in DOMAIN batch |-> sections[batch[k]].lines])
        wrong == UNION {{Error(s, i, "parse") : i \in {i \in DOMAIN sections[s].lines :
                                                        Rejected(sections[s].lines[i])}} : s \in here}
    IN  /\ Take(Stage.PREPROCESS)
        /\ sections' = [s \in DOMAIN sections |->
                IF s \in here THEN [sections[s] EXCEPT !.ir = Parsed(s)] ELSE sections[s]]
        /\ symbols' = EnteredText(symbols, lines, top)
        /\ registry' = Declared(registry, lines)
        /\ errors' = errors \cup wrong
        /\ Requeue(Stage.PREPROCESS, \A s \in here : Accepted(s), [u \in {Stage.SYMANTIC} |-> batch])
        /\ UNCHANGED <<edges, layout>>

-----------------------------------------------------------------------------
(* The backend. *)

\* The source lines of a program's own lines of some kinds.
Sources(p, kinds) ==
    {sections[p].ir[i].source : i \in {i \in DOMAIN sections[p].ir : sections[p].ir[i].kind \in kinds}}

\* Errors in the whole of program p, the first kind found only.  Its macros do not count.
Insane(p) ==
    LET ends == Sources(p, {"end"})
        burns == Sources(p, {"burn"})
    IN  IF ends = {} THEN {Last(sections[p].ir).source}
        ELSE IF Cardinality(ends) > 1 THEN ends
        ELSE IF p = User /\ burns # {} THEN Sources(p, {"burn", "input", "output"})
        ELSE IF p = OS /\ burns = {} THEN {1}
        ELSE IF p = OS /\ Cardinality(burns) > 1 THEN burns
        ELSE {}

\* Lines before the first .BURN of the operating system, and in the macros there, take
\* up addresses but are not emitted.
Burned(s, i) ==
    LET burns == Sources(OS, {"burn"})
    IN  /\ sections[s].top = OS /\ burns # {}
        /\ TopLine(sections)[<<s, sections[s].ir[i].source>>] < Min(burns)

\* The lines of a section after this.
Checked(s) == [i \in DOMAIN sections[s].ir |-> [sections[s].ir[i] EXCEPT !.emits = @ /\ ~Burned(s, i)]]

\* The checks of the whole image, SYMANTIC to SANITY.
CheckSanity ==
    LET wrong == UNION {{Error(p, i, "sanity") : i \in Insane(p)} : p \in Programs}
    IN  /\ Take(Stage.SYMANTIC)
        /\ sections' = [s \in DOMAIN sections |-> [sections[s] EXCEPT !.ir = Checked(s)]]
        /\ errors' = errors \cup wrong
        /\ Requeue(Stage.SYMANTIC, wrong = {}, [u \in {Stage.SANITY} |-> queue[Stage.SYMANTIC]])
        /\ UNCHANGED <<symbols, registry, edges, layout>>

\* Mutant of BadSymbols: operands are not looked at.
BadLabels(line, t) ==
    IF line.label # "" /\ symbols[line.label][t].state \in {"kMultiple", "kExternalMultiple"}
    THEN {"multiple"} ELSE {}

\* Complaints about the symbols of a line in program t.
BadSymbols(line, t) ==
    {e \in {"undefined", "multiple"} :
        \/ /\ e = "undefined" /\ line.kind \in Operands /\ line.name # ""
           /\ symbols[line.name][t].state = "kUndefined"
        \/ /\ e = "multiple" /\ line.label # ""
           /\ symbols[line.label][t].state \in {"kMultiple", "kExternalMultiple"}}

\* The operating system is laid out downwards from its .BURN, a user program upwards
\* from 0.
Backward(p) == Sources(p, {"burn"}) # {}
Start(p) == IF Backward(p) THEN sections[p].ir[CHOOSE i \in DOMAIN sections[p].ir :
                                    sections[p].ir[i].kind = "burn"].n ELSE 0

Fails(l, a, back) ==
    At(sections, l).kind # "macro" /\ Overflows(a, Bytes(sections, l, a, back), back)

\* From where the line after l goes on if l is at a, and in which sections assignment is
\* broken off: an overflow gives up its section, the one around it goes on.
Step(l, back, a, stopped) ==
    IF Enclosing(sections)[l[1]] \cap stopped # {} \/ At(sections, l).kind = "macro"
    THEN <<a, stopped>>
    ELSE IF Fails(l, a, back) THEN <<a, stopped \cup {l[1]}>>
    ELSE <<Advanced(a, Bytes(sections, l, a, back), back), stopped>>

\* The same after the lines of program p up to some line.
Cursor(p, lines) == FoldLeft(LAMBDA m, l : Step(l, Backward(p), m[1], m[2]), <<Start(p), {}>>, lines)

\* The lines of a program that are reached, and where.
Reached(p) ==
    LET walk == Walk(sections, Backward(p))[p]
        Before(k) == Cursor(p, SubSeq(walk, 1, k - 1))
    IN  {[line |-> walk[k], from |-> Before(k)[1], back |-> Backward(p)] :
            k \in {k \in DOMAIN walk : Enclosing(sections)[walk[k][1]] \cap Before(k)[2] = {}}}

LineErrors(r) ==
    LET line == At(sections, r.line)
        wrong == BadSymbols(line, sections[r.line[1]].top)
                 \cup IF Fails(r.line, r.from, r.back) THEN {"overflow"} ELSE {}
    IN  {Error(r.line[1], line.source, e) : e \in wrong}

\* The image stands for its sections from here on.
Image == 0

\* The assignment of addresses, SANITY to ADDRESS.  A label's value is its line's address.
AssignAddresses ==
    LET reached == UNION {Reached(p) : p \in Programs}
        wrong == UNION {LineErrors(r) : r \in reached}
        Place(r) == [at |-> BaseAddress(sections, r.line, r.from, r.back),
                     n |-> Bytes(sections, r.line, r.from, r.back)]
    IN  /\ Take(Stage.SANITY)
        /\ places' = [l \in {r.line : r \in reached} |-> Place(CHOOSE r \in reached : r.line = l)]
        /\ errors' = errors \cup wrong
        /\ Requeue(Stage.SANITY, wrong = {}, [u \in {Stage.ADDRESS} |-> <<Image>>])
        /\ UNCHANGED <<sections, symbols, registry, edges, image>>

\* A program's image begins at the first of its own lines that emits bytes.
BaseOf(p) ==
    LET emitting == {i \in DOMAIN sections[p].ir : sections[p].ir[i].emits}
    IN  IF emitting = {} THEN 0 ELSE places[<<p, Min(emitting)>>].at

\* The object file is written, ADDRESS to PACK.
PackImage ==
    /\ Take(Stage.ADDRESS)
    /\ image' = [p \in Programs |-> [at |-> BaseOf(p), lines |-> Packed(sections)[p]]]
    /\ Requeue(Stage.ADDRESS, TRUE, [u \in {Stage.PACK} |-> <<Image>>])
    /\ UNCHANGED <<text, places>>

\* PACK to FINISHED, where nothing is left to do.
Finish ==
    /\ Take(Stage.PACK)
    /\ Requeue(Stage.PACK, TRUE, [u \in {Stage.FINISHED} |-> queue[Stage.PACK]])
    /\ UNCHANGED <<text, layout>>

\* The driver has returned.
Returned == phase = "done" /\ UNCHANGED asmVars

AsmNext ==
    \/ Ignore \/ GiveUp \/ EndLoop
    \/ Tokenize \/ Preprocess \/ Parse \/ CheckSanity \/ AssignAddresses \/ PackImage \/ Finish
    \/ Returned

AsmSpec == AsmInit /\ [][AsmNext]_asmVars

\* The loop is one thread's, which goes on until it is done: weak fairness of AsmNext, with
\* the condition under which a step is possible written out.  (No state is a deadlock.)
FairAsmSpec == AsmSpec /\ ([]<>(phase = "done") \/ []<><<AsmNext>>_asmVars)

-----------------------------------------------------------------------------
(* Properties. *)

\* Assembly comes to an end, whatever macros invoke whatever others and whichever
\* stage fails or has no transform.
AssemblyEnds == <>(phase = "done")

\* The sections of the program the loop is run for.
Own == {s \in DOMAIN sections : sections[s].top = IF phase = "user" THEN User ELSE OS}

\* From the parser on a stage deals with a whole program: none of its sections is still
\* at an earlier stage, however deep its macros are nested.
StagesInStep ==
    Running /\ Lowest < target /\ Lowest \in {Stage.PREPROCESS, Stage.SYMANTIC, Stage.SANITY}
        => Range(queue[Lowest]) = Own

\* The macros, with their arguments, that the lines of a text invoke.
Invocations(lines) ==
    {<<l.name, l.args>> : l \in {l \in Range(lines) :
        l.kind = "macro" /\ l.name \in DOMAIN CoreMacros /\ CoreMacros[l.name].arity = Len(l.args)}}
Callees(c) ==
    Invocations([i \in DOMAIN CoreMacros[c[1]].lines |-> Substituted(CoreMacros[c[1]].lines[i], c[2])])
Calls == {c \in (DOMAIN CoreMacros) \X Seq(Words) : CoreMacros[c[1]].arity = Len(c[2])}
\* All that a set of invocations leads to.
Closure[cs \in SUBSET Calls] ==
    LET more == cs \cup UNION {Callees(c) : c \in cs}
    IN  IF more = cs THEN cs ELSE Closure[more]
Circular(p) == \E c \in Closure[Invocations(sections[p].lines)] : c \in Closure[Callees(c)]

\* A program is called circular only if some macro does lead back to itself with the same
\* arguments, and no program for which this is so is parsed: macros may use one
\* another, and themselves with other arguments.
CircularExactly ==
    /\ \A e \in errors : e.what = "circular" =>
          e.section \in DOMAIN sections /\ Circular(sections[e.section].top)
    /\ \A s \in DOMAIN sections : sections[s].ir # << >> => ~Circular(sections[s].top)

Succeeded == phase = "done" /\ ~failed
\* Messages that a later macro on a line of its own makes the parser forget.
Forgotten == {e \in errors : e.what = "parse" /\ \E i \in Macros(sections[e.section]) : i > e.line}

Lines(p) == UNION {Range(sections[s].lines) : s \in {s \in DOMAIN sections : sections[s].top = p}}
Definitions(p, x) ==
    UNION {{<<s, i>> : i \in {i \in DOMAIN sections[s].lines : sections[s].lines[i].label = x}} :
              s \in {s \in DOMAIN sections : sections[s].top = p}}
Exporters(x) == {p \in Programs : \E l \in Lines(p) : l.kind = "export" /\ l.name = x}

\* If assembly succeeds nothing was wrong, but for what the parser forgets.  Each operand
\* has one definition, in the program that exports its name if there is one: over all
\* macros of both programs, and whichever of use, definition and export came first.
\* (A name that both export is defined by neither.)
SuccessIsSound ==
    Succeeded =>
        /\ errors \subseteq Forgotten
        /\ places # << >> /\ errors = {} =>
              \A p \in Programs : \A l \in Lines(p) :
                  l.kind \in Operands /\ l.name # "" /\ Cardinality(Exporters(l.name)) < 2 =>
                      LET home == IF Exporters(l.name) = {} THEN p
                                  ELSE CHOOSE q \in Exporters(l.name) : TRUE
                      IN  Cardinality(Definitions(home, l.name)) = 1

\* What an image is long, up to its k-th line.
Extent(p, k) == Total([l \in DOMAIN places |-> places[l].n], SubSeq(image[p].lines, 1, k))
\* The operating system's image begins with padding, or with a macro that has some.
StartsPadded(p) ==
    \E i \in {i \in DOMAIN sections[p].ir : sections[p].ir[i].emits} :
        /\ \A j \in DOMAIN sections[p].ir : j < i => ~sections[p].ir[j].emits
        /\ \E l \in Range(image[p].lines) :
              At(sections, l).kind = "align" /\ TopLine(sections)[<<l[1], At(sections, l).source>>] = sections[p].ir[i].source

\* An image that is packed holds each line at the address assigned to it: the lines follow
\* one another without gap or overlap from the image's address on, through all macros and
\* paddings; in a user program what follows an .ALIGN is aligned, and the operating system
\* ends at its .BURN.  (Not so if that one begins with padding.  Below address 0 its
\* addresses go on from the highest one.)
ImageInPlace ==
    Succeeded /\ image # << >> =>
        \A p \in Programs :
            LET lines == image[p].lines
                length == Extent(p, Len(lines))
                burn == sections[OS].ir[CHOOSE i \in DOMAIN sections[OS].ir : sections[OS].ir[i].kind = "burn"].n
            IN  lines # << >> /\ (p = OS => ~StartsPadded(OS)) =>
                   /\ p = OS => (image[p].at + length) % WordMod = (burn + 1) % WordMod
                   /\ \A k \in DOMAIN lines :
                         LET line == At(sections, lines[k])
                         IN  /\ line.kind # "align" =>
                                   places[lines[k]].at = (image[p].at + Extent(p, k - 1)) % WordMod
                             /\ p = User /\ line.kind = "align" => Extent(p, k) % line.n = 0
=============================================================================
