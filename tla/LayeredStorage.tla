--------------------------- MODULE LayeredStorage ----------------------------
(***************************************************************************)
(* A layered storage (storage/layered) on block, map, range and read-only  *)
(* storages, with the deltas its owner takes and applies.  A device is a   *)
(* record: kind, cells (block, map) or spans (range), default, the highest *)
(* offset max, the open delta, and the read-only wrapper around it.        *)
(***************************************************************************)
EXTENDS RangeStorage

CONSTANTS Zero,         \* the value clear fills with unless told otherwise
          WordMod,      \* 2^w, w the width of an offset
          Limit,        \* max_offset the layered storage begins with
          Parts,        \* devices there are: [at, kind, max, wrap]
          Sizes,        \* offsets a resize of the layers asks for
          DeviceSizes,  \* and a resize of one device
          Fills,        \* values clear is asked to fill with
          Loads,        \* calls of load_bytes: [at, bytes]
          MissIgnored,  \* miss policies kDefaultValue, kIgnore: TRUE; kOOB: FALSE
          MaxDevices, MaxChanges   \* bounds

ASSUME StorageAssumption ==
    /\ WordMod \in Nat /\ Limit \in Nat /\ Sizes \subseteq Nat
    /\ \A part \in Parts : part.at \in Nat
    /\ \A load \in Loads : load.at \in Nat /\ load.bytes \in Seq(Values)

VARIABLES layers,       \* _storage: devices with their offsets, first match first
          max,          \* _max_offset
          hand,         \* the delta taken last, until the owner's next change
          origin,       \* history: the visible memory when the open deltas began
          touched       \* history: addresses written or set since

storageVars == <<layers, max, hand, origin, touched>>

Address == 0 .. WordMod - 1
OK == "ok"

-----------------------------------------------------------------------------
(* One device. *)

Device(part) ==
    [kind |-> part.kind, max |-> part.max, wrap |-> part.wrap, default |-> Zero,
     cells |-> IF part.kind = "block" THEN [o \in 0 .. part.max |-> Zero] ELSE << >>,
     spans |-> << >>, delta |-> << >>]

\* What get may return for an offset up to max.
Held(d, o) ==
    IF d.kind = "range" THEN GetFromSpans(d.spans, d.default, o)
    ELSE IF o \in DOMAIN d.cells THEN {d.cells[o]} ELSE {d.default}

SetHeld(d, o, v) ==
    IF d.kind = "range" THEN [d EXCEPT !.spans = SetInSpans(@, o, v)]
    ELSE [d EXCEPT !.cells = [p \in DOMAIN @ \cup {o} |-> IF p = o THEN v ELSE @[p]]]

\* Mutant of Cleared: a block forgets to clear its delta.
ClearedKeepsDelta(d, fill) ==
    IF d.kind = "block" THEN [d EXCEPT !.cells = [o \in DOMAIN @ |-> fill]]
    ELSE [d EXCEPT !.cells = << >>, !.spans = << >>, !.default = fill, !.delta = << >>]

\* clear fills a block, and empties a map or range and makes the fill its default.
Cleared(d, fill) ==
    IF d.kind = "block" THEN [d EXCEPT !.cells = [o \in DOMAIN @ |-> fill], !.delta = << >>]
    ELSE [d EXCEPT !.cells = << >>, !.spans = << >>, !.default = fill, !.delta = << >>]

\* The read-only wrapper drops the fill value.
ClearedThrough(d, fill) == Cleared(d, IF d.wrap = "none" THEN fill ELSE Zero)

Resized(d, n) ==
    LET cells == IF d.kind = "block" THEN [o \in 0 .. n |-> Zero] ELSE << >>
    IN  Cleared([d EXCEPT !.max = n, !.cells = cells], Zero)

\* write records the old value and the new one, then sets.
Recorded(d, o, old, v) ==
    SetHeld([d EXCEPT !.delta = Append(@, [at |-> o, old |-> old, new |-> v])], o, v)

-----------------------------------------------------------------------------
(* The layers. *)

Reaches(layer, a) == layer.at <= a /\ a - layer.at <= layer.dev.max

\* Mutant of DeviceAt: the device appended last hides the others.
DeviceAtLast(a) ==
    LET hits == {i \in DOMAIN layers : Reaches(layers[i], a)}
    IN  IF a > max \/ hits = {} THEN 0 ELSE Max(hits)

\* The first device appended that reaches the address; 0 for none.
DeviceAt(a) ==
    LET hits == {i \in DOMAIN layers : Reaches(layers[i], a)}
    IN  IF a > max \/ hits = {} THEN 0 ELSE CHOOSE i \in hits : \A j \in hits : i <= j

Offset(i, a) == a - layers[i].at

\* Why an access finds no device, and how the policies answer.
Miss(a, error) == IF a <= max /\ MissIgnored THEN OK ELSE error

\* The address space as a program sees it, but for the ranges.
Seen == [a \in Address |-> DeviceAt(a)]
Visible == LET at == Seen IN {a \in Address : at[a] # 0 /\ layers[at[a]].dev.kind # "range"}
ByteAt(i, a) == CHOOSE v \in Held(layers[i].dev, Offset(i, a)) : TRUE
Flat == LET at == Seen IN [a \in Visible |-> ByteAt(at[a], a)]

-----------------------------------------------------------------------------
\* The owner applies a delta right after taking it, or lets go of it.
None == [changes |-> << >>, undone |-> FALSE, before |-> << >>, after |-> << >>, once |-> FALSE]

StorageInit ==
    /\ layers = << >> /\ max = Limit
    /\ hand = None /\ origin = << >> /\ touched = << >>

\* A part is one device, appended once.  The check compares with 2 << 16, twice the size of
\* the address space, which no two offsets add up to.
AppendStorage(part) ==
    /\ Len(layers) < MaxDevices
    /\ \A i \in DOMAIN layers : layers[i].at # part.at
    /\ part.at + part.max <= 2 * WordMod
    /\ UNCHANGED <<max, touched>> /\ hand' = None
    /\ layers' = Append(layers, [at |-> part.at, dev |-> Device(part)])
    /\ LET mem == Flat'
       IN  origin' = [a \in DOMAIN mem |-> IF a \in DOMAIN origin THEN origin[a] ELSE mem[a]]

Touch(as) ==
    /\ Len(touched) + Len(as) <= MaxChanges
    /\ touched' = touched \o as
    /\ UNCHANGED max /\ hand' = None

\* No delta records what is set: it counts as having been there before.
SetBefore(as) ==
    LET mem == Flat'
    IN  origin' = [a \in DOMAIN origin |-> IF Contains(as, a) THEN mem[a] ELSE origin[a]]

Write(a, v) ==
    LET i == DeviceAt(a)
        d == layers[i].dev
    IN  /\ Touch(<<a>>) /\ UNCHANGED origin
        /\ IF i = 0 \/ d.wrap # "none" THEN UNCHANGED layers
           ELSE \E old \in Held(d, Offset(i, a)) :
                    layers' = [layers EXCEPT ![i].dev = Recorded(d, Offset(i, a), old, v)]

SetIn(ls, a, v) ==
    LET i == DeviceAt(a)
    IN  IF i = 0 THEN ls ELSE [ls EXCEPT ![i].dev = SetHeld(@, Offset(i, a), v)]

Set(a, v) == Touch(<<a>>) /\ layers' = SetIn(layers, a, v) /\ SetBefore(<<a>>)

\* load_bytes wraps at the end of the storage and stops at the first byte it cannot set.
LoadBytes(a, bytes) ==
    LET Where(i) == (a + i - 1) % (max + 1)
        failing == {i \in DOMAIN bytes : Miss(Where(i), "OOBWrite") # OK /\ DeviceAt(Where(i)) = 0}
        set == IF failing = {} THEN Len(bytes) ELSE Min(failing) - 1
        where == [i \in DOMAIN bytes |-> Where(i)]
        Loaded[n \in 0 .. set] ==      \* once n bytes are set
            IF n = 0 THEN layers ELSE SetIn(Loaded[n - 1], Where(n), bytes[n])
    IN  /\ Touch(where)
        /\ layers' = Loaded[set]
        /\ SetBefore(where)

\* The devices of the layers, each changed by op(index, device).
Devices(op(_, _)) == [i \in DOMAIN layers |-> [layers[i] EXCEPT !.dev = op(i, @)]]

Clear(fill) ==
    /\ UNCHANGED max /\ hand' = None
    /\ layers' = Devices(LAMBDA i, d : ClearedThrough(d, fill))
    /\ origin' = Flat' /\ touched' = << >>

\* resize refuses to cut off a device, and clears.
Resize(n) ==
    /\ \A i \in DOMAIN layers : layers[i].at + layers[i].dev.max <= n
    /\ max' = n
    /\ layers' = Devices(LAMBDA i, d : ClearedThrough(d, Zero))
    /\ origin' = Flat' /\ touched' = << >>
    /\ hand' = None

\* The owner resizes devices between its writes.
Quiet == touched = << >>

ResizeDevice(i, n) ==
    /\ Quiet
    /\ UNCHANGED <<max, touched>> /\ hand' = None
    /\ layers' = [layers EXCEPT ![i].dev = Resized(@, n)]
    /\ origin' = Flat'

TakeDelta ==
    /\ hand' = [changes |-> [i \in DOMAIN layers |-> layers[i].dev.delta], undone |-> FALSE,
                before |-> origin, after |-> Flat, once |-> IsInjective(touched)]
    /\ layers' = Devices(LAMBDA i, d : [d EXCEPT !.delta = << >>])
    /\ origin' = Flat /\ touched' = << >> /\ UNCHANGED max

ClearDelta ==
    /\ layers' = Devices(LAMBDA i, d : [d EXCEPT !.delta = << >>])
    /\ origin' = Flat /\ touched' = << >> /\ UNCHANGED max /\ hand' = None

\* A device once it has set the old or new values of some changes, in order.
Applied(d, changes, side) ==
    LET Done[n \in 0 .. Len(changes)] ==
            IF n = 0 THEN d ELSE SetHeld(Done[n - 1], changes[n].at, changes[n][side])
    IN  Done[Len(changes)]

\* The delta of the layers applies those of the devices in order.
ApplyGroup(group, side) == layers' = Devices(LAMBDA i, d : Applied(d, group[i], side))

ApplyBackward ==
    /\ hand.changes # << >> /\ ~hand.undone
    /\ UNCHANGED <<max, touched>>
    /\ ApplyGroup(hand.changes, "old")
    /\ hand' = [hand EXCEPT !.undone = TRUE]
    /\ origin' = Flat'

ApplyForward ==
    /\ hand.changes # << >> /\ hand.undone
    /\ UNCHANGED <<max, touched>>
    /\ ApplyGroup(hand.changes, "new")
    /\ hand' = [hand EXCEPT !.undone = FALSE]
    /\ origin' = Flat'

StorageNext ==
    \/ \E part \in Parts : AppendStorage(part)
    \/ \E a \in Address, v \in Values : Write(a, v) \/ Set(a, v)
    \/ \E load \in Loads : LoadBytes(load.at, load.bytes)
    \/ \E fill \in Fills : Clear(fill)
    \/ \E n \in Sizes : Resize(n)
    \/ \E i \in DOMAIN layers, n \in DeviceSizes : ResizeDevice(i, n)
    \/ TakeDelta \/ ClearDelta \/ ApplyBackward \/ ApplyForward

StorageSpec == StorageInit /\ [][StorageNext]_storageVars

-----------------------------------------------------------------------------
Writable == {a \in Visible : layers[DeviceAt(a)].dev.wrap = "none"}
\* The byte a step names, if it names one.
Named == IF Len(touched') = Len(touched) + 1 THEN {Last(touched')} ELSE {}

\* To its owner the layers are one memory: a write or a set changes the one byte it
\* names if some device lies there (and a program cannot write a read-only one), and a
\* device appended later hides nothing that was there.
ActsAsOneMemory ==
    [][/\ \A a \in Named, v \in Values :
             LET mem == Flat
             IN  /\ Write(a, v) => Flat' = IF a \in Writable THEN [mem EXCEPT ![a] = v] ELSE mem
                 /\ Set(a, v) => Flat' = IF a \in DOMAIN mem THEN [mem EXCEPT ![a] = v] ELSE mem
       /\ Len(layers') > Len(layers) =>
             LET mem == Flat
                 grown == Flat'
             IN  \A a \in DOMAIN mem : a \in DOMAIN grown /\ grown[a] = mem[a]]_storageVars

\* Time travel: where no byte changed twice, undoing a delta gives back the memory in
\* which it began, across all devices and whatever was set or appended meanwhile, and
\* redoing it leads to where it led.
DeltasExact ==
    [][hand.once => /\ ApplyBackward => Flat' = hand.before
                    /\ ApplyForward => Flat' = hand.after]_storageVars

\* What a range holds is never wrong, though the merge may forget it: setting a byte
\* stores it, and every other byte still held has the value it had.
SpansNeverLie ==
    [][\A i \in DOMAIN layers, a \in Named, v \in Values :
          DeviceAt(a) = i /\ layers[i].dev.kind = "range" /\ Set(a, v) =>
             LET old == layers[i].dev.spans
                 new == layers'[i].dev.spans
             IN  /\ Offset(i, a) \in Covered(new) /\ SpanValue(new, Offset(i, a)) = v
                 /\ \A o \in Covered(new) \ {Offset(i, a)} :
                       o \in Covered(old) /\ SpanValue(new, o) = SpanValue(old, o)]_storageVars

\* Setting a byte of a range leaves every other byte it holds in its place ("Remove next
\* span, since it has been merged in.", range.tpp:116).
RangeKeepsValues ==
    [][\A i \in DOMAIN layers, a \in Named, v \in Values :
          DeviceAt(a) = i /\ layers[i].dev.kind = "range" /\ Set(a, v) =>
             Covered(layers[i].dev.spans) \subseteq Covered(layers'[i].dev.spans)]_storageVars
=============================================================================
