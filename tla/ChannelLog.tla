----------------------------- MODULE ChannelLog -----------------------------
(***************************************************************************)
(* What a channel promises: a log of published values that starts with the *)
(* default value, grows at its end, and from which undoing a write removes *)
(* the write and everything published after it.                            *)
(***************************************************************************)
EXTENDS Naturals, Sequences

CONSTANTS Values, Default, Publishers

VARIABLE log

Entry(v, p) == [value |-> v, publisher |-> p]

LogInit == log = <<Entry(Default, 0)>>

Publish(p, v) == log' = Append(log, Entry(v, p))

\* Entry 1 is the default, so the entry of time t is number t + 1.
LastWriteBy(p, time) ==
    {i \in 2 .. time + 1 : log[i].publisher = p
                           /\ \A j \in i + 1 .. time + 1 : log[j].publisher # p}

\* "backs out all changes made by the system until the moment before
\* publisher's last write"; everything, if it made none.
Undo(p, time) ==
    \/ \E i \in LastWriteBy(p, time) : log' = SubSeq(log, 1, i - 1)
    \/ LastWriteBy(p, time) = {} /\ log' = SubSeq(log, 1, 1)

Restart(v) == log' = <<Entry(v, 0)>>

LogNext ==
    \/ \E p \in Publishers, v \in Values : Publish(p, v)
    \/ \E p \in Publishers, time \in 0 .. Len(log) - 1 : Undo(p, time)
    \/ \E v \in Values : Restart(v)

LogSpec == LogInit /\ [][LogNext]_log
=============================================================================
