----------------------------- MODULE AssemblerMC -----------------------------
(***************************************************************************)
(* Small programs for an address space of 16 bytes: an operating system of *)
(* two free lines around its .BURN, alone; and user programs of up to      *)
(* three lines with a few operating systems that export a name, declare a  *)
(* system call, or use what the user program exports.                      *)
(***************************************************************************)
EXTENDS Assembler

Line(label, kind, name, n) == [Word(kind, name) EXCEPT !.label = label, !.n = n]
Call(name, args) == [Word("macro", name) EXCEPT !.args = args]

SomeNames == {"x", "sys", "PUT", "PAD", "TWO", "DO", "BOTH", "NONE", "$1", "$2"}

\* PUT has an operand and PAD pads; DO invokes the macro that is its first argument, so
\* DO(DO, TWO) ends and DO(DO, DO) does not; BOTH invokes itself and PAD.
SomeMacros ==
    [PUT |-> [arity |-> 1, lines |-> <<Word("nonunary", "$1")>>],
     PAD |-> [arity |-> 0, lines |-> <<Line("", "align", "", 4), Word("unary", "")>>],
     TWO |-> [arity |-> 2, lines |-> <<Line("", "data", "", 2), Call("PAD", << >>)>>],
     DO |-> [arity |-> 2, lines |-> <<Call("$1", <<"$2", "$2">>)>>],
     BOTH |-> [arity |-> 0, lines |-> <<Call("BOTH", << >>), Call("PAD", << >>)>>]]

Burn(n) == Line("", "burn", "", n)
End == Word("end", "")

Shared == {Word("unary", ""), Line("x", "nonunary", "x", 0), Word("word", "x"), Word("export", "x"),
           Line("", "align", "", 4), Line("", "data", "", 6), Call("PAD", << >>),
           Call("DO", <<"DO", "TWO">>)}

UserLines == Shared \cup
    {Line("x", "equate", "", 1), Word("odd", "x"), Call("PUT", <<"x">>), Call("DO", <<"DO", "DO">>),
     Call("sys", <<"x", "">>)}
\* Lines that fail whatever comes before them.
Failing == {Word("bad", ""), Line("x", "end", "", 0), Burn(9), Call("BOTH", << >>), Call("PUT", << >>),
            Call("NONE", << >>), [Call("PAD", << >>) EXCEPT !.n = 1], End}

OSLines == Shared \cup {Burn(7), Line("x", "unary", "", 0), Word("scall", "sys"), Word("uscall", "sys"),
                        Word("input", "x"), Word("output", "x")}

Ended(lines) == Append(lines, End)
ShortTexts == {Ended(s) : s \in [1 .. 2 -> UserLines]}
UserTexts == {Ended(s) : s \in [1 .. 3 -> UserLines]}
             \cup {Ended(<<l, f>>) : l \in UserLines, f \in Failing} \cup {<<l>> : l \in Shared}
OSTexts == {Ended(<<a, Burn(15), b, c>>) : a \in OSLines, b \in OSLines, c \in Shared}
           \cup {Ended(<<Burn(11), a, b, c>>) : a \in Shared, b \in Shared, c \in Shared}
           \cup {<<a, b>> : a \in OSLines, b \in OSLines}
           \cup {Ended(<<Burn(15), Line("", "data", "", 0)>>)}

\* Operating systems that user programs are assembled with: one declares a system call,
\* one exports x, one defines x for itself, and one has a line that the parser rejects.
Callable == <<Word("scall", "sys"), Burn(15), Line("sys", "word", "", 0), End>>
Exporting == <<Word("export", "x"), Call("PAD", << >>), Burn(15), Line("x", "word", "", 0),
               Word("uscall", "sys"), Line("sys", "unary", "", 0), End>>
Private == <<Burn(15), Line("x", "nonunary", "x", 0), Word("output", "x"), End>>
Forgetful == <<Burn(15), Word("odd", ""), Call("PAD", << >>), End>>

Request(os, user, last, stages) == [os |-> os, user |-> user, target |-> last, stages |-> stages]

\* assemble asks for PACK; others go on to the end, stop early or lack a transform.
SomeRequests ==
    {Request(o, u, Stage.FINISHED, 1 .. 7) : o \in {Callable, Exporting}, u \in UserTexts}
    \cup {Request(Private, u, Stage.FINISHED, 1 .. 7) : u \in ShortTexts}
    \cup {Request(o, << >>, Stage.FINISHED, 1 .. 7) : o \in OSTexts}
    \cup {Request(o, <<l, End>>, s, 1 .. 7) : o \in {Forgetful, Exporting}, l \in UserLines,
                                            s \in {Stage.PACK, Stage.SYMANTIC}}
    \cup {Request(Exporting, u, Stage.FINISHED, 1 .. s) : u \in {<< >>, <<End>>}, s \in 1 .. 6}
=============================================================================
