---------------------------- MODULE SequencePatcher ----------------------------
(***************************************************************************)
(* SequencePatcher<T> of src/server/src/rtp_server/client_rtp.rs: it       *)
(* renumbers the packets written to one sending track, so that sources     *)
(* with numbers of their own (sequence numbers, u16, and timestamps, u32)  *)
(* look like one source to the receiver.  T is 0 .. Modulus - 1 with       *)
(* wrapping arithmetic.                                                    *)
(*                                                                         *)
(* The sources are the environment: within a sequence a packet is at most  *)
(* Late numbers behind the newest one, and any number far enough away      *)
(* starts another sequence.                                                *)
(*                                                                         *)
(* An operator <operation>_<slip> is the operation with a plausible slip;  *)
(* it is no part of PatcherNext and shows that a property notices it.      *)
(***************************************************************************)
EXTENDS Integers

CONSTANTS
    Modulus,    \* T::max_value() + 1
    MaxGap,     \* SequencePatcher.max_gap: 80 and 10_000
    Late,       \* how far packets of a sequence are reordered
    MaxTop      \* bound: numbers the output advances

\* The overflow window of wrapping_difference.
Window == (Modulus - 1) \div 4

ASSUME PatcherAssumption ==
    /\ Modulus \in Nat /\ MaxGap \in Nat /\ Late \in Nat /\ MaxTop \in Nat
    /\ 0 < MaxGap /\ MaxGap <= Window
    /\ 2 * Late < MaxGap

VARIABLES
    current,    \* SequencePatcher.current
    reference,  \* SequencePatcher.reference, NoReference for None
    lead,       \* history: how far the newest packet is ahead of the reference
    position,   \* history: the last output, counted without wrapping
    top,        \* history: the furthest position of this sequence
    floor       \* history: the furthest position of the sequences before

patcher_vars == <<current, reference, lead, position, top, floor>>

Number == 0 .. Modulus - 1
NoReference == -1

-----------------------------------------------------------------------------
WrappingAdd_overflow(a, b) == a + b
WrappingAdd(a, b) == IF a + b < Modulus THEN a + b ELSE a + b - Modulus
WrappingSub(a, b) == IF a >= b THEN a - b ELSE a - b + Modulus

Larger(a, b) == IF a > b THEN a ELSE b
Smaller(a, b) == IF a > b THEN b ELSE a

\* The wrapped distance counts only when it is the larger one.
wrapping_difference_swapped(v1, v2) ==
    LET max == Larger(v1, v2)
        min == Smaller(v1, v2)
    IN  IF v1 # v2 /\ max > Modulus - 1 - Window /\ min <= Window
        THEN Larger(WrappingSub(min, max), max - min)
        ELSE max - min

wrapping_difference(v1, v2) ==
    LET max == Larger(v1, v2)
        min == Smaller(v1, v2)
    IN  IF v1 # v2 /\ max > Modulus - 1 - Window /\ min <= Window
        THEN Smaller(WrappingSub(min, max), max - min)
        ELSE max - min

\* A new sequence goes on right behind the last number.
SequenceBase_next(number) == WrappingAdd(number, 1)
SequenceBase(number) == WrappingAdd(number, MaxGap)

\* The number process returns, which is also the new `current`.
Processed(value) ==
    LET difference == wrapping_difference(reference, value)
    IN  IF reference = NoReference THEN current
        ELSE IF difference > MaxGap THEN SequenceBase(current)
        ELSE IF WrappingAdd(reference, difference) = value
             THEN WrappingAdd(current, difference)
             ELSE WrappingSub(current, difference)

-----------------------------------------------------------------------------
(* The packets, told apart by the shorter way around the circle of numbers. *)
Circular(a, b) == Smaller(WrappingSub(a, b), WrappingSub(b, a))

Displacement(from, to) ==
    IF WrappingSub(to, from) <= WrappingSub(from, to)
    THEN WrappingSub(to, from) ELSE -WrappingSub(from, to)

SameSequence(value) == reference # NoReference /\ Circular(reference, value) <= MaxGap

PatcherInit ==
    /\ current \in Number       \* thread_rng().gen()
    /\ reference = NoReference
    /\ lead = 0
    /\ position = 0 /\ top = 0
    /\ floor = -(Late + 1)

process(value) ==
    /\ reference' = value
    /\ current' = Processed(value)

\* What a receiver that unwraps the numbers makes of the output.
Observed == position' = position + Displacement(current, current')

First(value) ==
    /\ reference = NoReference
    /\ process(value)
    /\ UNCHANGED <<lead, position, top, floor>>

Continue(value) ==
    /\ SameSequence(value)
    /\ lead' = Larger(0, lead - Displacement(reference, value))
    /\ lead' <= Late
    /\ process(value)
    /\ Observed
    /\ top' = Larger(top, position')
    /\ top' <= MaxTop
    /\ UNCHANGED floor

NewSequence(value) ==
    /\ reference # NoReference
    /\ ~SameSequence(value)
    /\ top + MaxGap <= MaxTop
    /\ lead' = 0
    /\ process(value)
    /\ Observed
    /\ top' = position'
    /\ floor' = top

PatcherNext == \E value \in Number : First(value) \/ Continue(value) \/ NewSequence(value)

PatcherSpec == PatcherInit /\ [][PatcherNext]_patcher_vars

-----------------------------------------------------------------------------
(* Properties *)

\* The type of the patcher's state.
PatcherTypeOK ==
    /\ current \in Number
    /\ reference \in Number \cup {NoReference}
    /\ lead \in 0 .. Late
    /\ position \in Int /\ top \in Int /\ floor \in Int

\* A packet at most MaxGap away from the last one, in either direction and
\* across the wrap of the input or of the output, keeps its distance to the
\* packets around it; any other starts a sequence MaxGap further on.
KeepsOffset ==
    reference # NoReference =>
        IF Circular(reference, reference') <= MaxGap
        THEN WrappingSub(current', reference') = WrappingSub(current, reference)
        ELSE current' = WrappingAdd(current, MaxGap)
OffsetKept == [][KeepsOffset]_patcher_vars

\* No packet of a sequence is given a number of an earlier sequence, however
\* late packets precede and follow the change: the gap is wide enough as long
\* as packets are less than half of it late.
FreshAcrossSequences == position > floor
=============================================================================
