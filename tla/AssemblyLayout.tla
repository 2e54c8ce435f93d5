--------------------------- MODULE AssemblyLayout ----------------------------
(***************************************************************************)
(* Lines, sections and addresses of an assembly (masm/ir, masm/backend).   *)
(* Sections form a tree: a program, and below it one section for each      *)
(* invocation of a macro, numbered after the section that invokes it.      *)
(*                                                                         *)
(* A line of text is a record [kind, label, name, args, n]: what it is,    *)
(* the symbol it declares ("" for none), the symbol or macro it names (""  *)
(* for a literal operand), the arguments of a macro, and a number: a size, *)
(* an alignment or an address.  The parser adds [source, child, emits].    *)
(***************************************************************************)
EXTENDS Naturals, SequencesExt, FiniteSetsExt

CONSTANT WordMod        \* 2^w, w the width of an address

Params == <<"$1", "$2">>

\* The tokenizer puts the arguments of the invocation in place of $1, $2, ...
Substituted(line, args) ==
    LET Put(word) == IF \E i \in DOMAIN args : word = Params[i]
                     THEN args[CHOOSE i \in DOMAIN args : word = Params[i]] ELSE word
    IN  [line EXCEPT !.label = Put(@), !.name = Put(@), !.args = [i \in DOMAIN @ |-> Put(@[i])]]

\* object_code_bytes of a line that is neither .ALIGN nor a macro.
Size(line) ==
    CASE line.kind = "unary" -> 1
      [] line.kind = "nonunary" -> 3
      [] line.kind = "word" -> 2
      [] line.kind = "data" -> line.n
      [] OTHER -> 0

\* Lines that produce bytes unless they lie before a .BURN.
Emitting == {"unary", "nonunary", "word", "data", "align", "macro"}

At(ss, l) == ss[l[1]].ir[l[2]]

\* The lines of a section in the order their addresses are assigned, each the pair of
\* its section and its index there.  A macro's line comes before those it stands for
\* in both directions.
Walk(ss, back) ==
    LET W[s \in DOMAIN ss] ==
            LET lines == [i \in DOMAIN ss[s].ir |-> <<s, i>>]
                Opened(l) == <<l>> \o IF At(ss, l).kind = "macro" THEN W[At(ss, l).child] ELSE << >>
                order == IF back THEN Reverse(lines) ELSE lines
            IN  FlattenSeq([k \in DOMAIN order |-> Opened(order[k])])
    IN  W

\* The lines of a section that go into its image, macros opened up.
Packed(ss) ==
    LET P[s \in DOMAIN ss] ==
            LET Opened(l) == IF ~At(ss, l).emits THEN << >>
                             ELSE IF At(ss, l).kind = "macro" THEN P[At(ss, l).child] ELSE <<l>>
            IN  FlattenSeq([i \in DOMAIN ss[s].ir |-> Opened(<<s, i>>)])
    IN  P

\* The sections a section lies in, itself included.
Enclosing(ss) ==
    LET E[s \in DOMAIN ss] == {s} \cup IF ss[s].parent = 0 THEN {} ELSE E[ss[s].parent]
    IN  E

\* The line of its program that a line of a section belongs to.
TopLine(ss) ==
    LET T[l \in (DOMAIN ss) \X Nat] ==
            IF ss[l[1]].parent = 0 THEN l[2] ELSE T[<<ss[l[1]].parent, ss[l[1]].line>>]
    IN  T

-----------------------------------------------------------------------------
\* The sizes of some lines together.
Total(size, lines) == FoldLeft(LAMBDA n, l : n + size[l], 0, lines)

\* What a macro's line is long before the .ALIGNs below it have their place.
MacroSize(ss, s) ==
    LET walk == Walk(ss, FALSE)[s]
    IN  Total([l \in Range(walk) |-> Size(At(ss, l))], walk)

\* Mutant of AlignSpan: the padding of the backward pass in both directions.
AlignSpanDown(v, a, back) == a % v

\* .ALIGN pads to the next multiple of v from a on, or down to the one before it.
AlignSpan(v, a, back) == IF back THEN a % v ELSE (v - (a % v)) % v

Bytes(ss, l, a, back) ==
    LET line == At(ss, l)
    IN  CASE line.kind = "align" -> AlignSpan(line.n, a, back)
          [] line.kind = "macro" -> MacroSize(ss, line.child)
          [] OTHER -> Size(line)

\* The address of a line that begins, or ends, at a.  An .ALIGN that ends at a also
\* takes the address below its padding.
BaseAddress(ss, l, a, back) ==
    LET n == Bytes(ss, l, a, back)
    IN  IF ~back THEN a
        ELSE IF At(ss, l).kind = "align" THEN a - n
        ELSE (a + 1 + WordMod - n) % WordMod

\* The line would reach beyond the end of the address space.
Overflows(a, n, back) == IF back THEN a + 1 < n ELSE WordMod - 1 < a + n

Advanced(a, n, back) == IF back THEN (a + WordMod - n) % WordMod ELSE a + n
=============================================================================
