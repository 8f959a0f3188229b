------------------------------ MODULE FormFields ------------------------------
(***************************************************************************)
(* A text field of a posted form (src/server.c): the post processor hands  *)
(* the value to iterate_post in pieces of any size, and copy_form_value    *)
(* puts each one into a buffer of fixed size in connection_info.  The form *)
(* may hold the same field again, which starts over at offset 0.           *)
(***************************************************************************)
EXTENDS Integers, Sequences

CONSTANTS
    Bytes, NUL,
    dest_size,
    MaxLength,  \* bound on the length of a value
    MaxValues   \* bound on the values of the field

\* What is assumed of the constants.
ParametersOK ==
    /\ NUL \notin Bytes
    /\ dest_size \in Nat \ {0}
    /\ MaxLength \in Nat /\ MaxValues \in Nat

Indices == 0 .. dest_size - 1

VARIABLES
    dest,
    value,    \* the pieces of the present value so far, in one
    values,   \* number of values begun
    written   \* (history) the indices of dest that the last piece wrote

vars == <<dest, value, values, written>>
-----------------------------------------------------------------------------
Mut_copy_size_over(off, size) == IF off + size > dest_size THEN dest_size - off ELSE size
\* How much of a piece is copied.
copy_size(off, size) == IF off + size >= dest_size THEN dest_size - off - 1 ELSE size

Mut_without_end(off, data) ==
    [i \in Indices |-> IF i \in off .. off + copy_size(off, Len(data)) - 1
                       THEN data[i - off + 1] ELSE dest[i]]
\* dest after a piece: the bytes and the NUL behind them.
Copied(off, data) ==
    LET end == off + copy_size(off, Len(data)) IN
    [i \in Indices |-> IF i \in off .. end - 1 THEN data[i - off + 1]
                       ELSE IF i = end THEN NUL ELSE dest[i]]

copy_form_value(off, data) ==
    \/ /\ off >= dest_size - 1
       /\ written' = {}
       /\ UNCHANGED dest
    \/ /\ off < dest_size - 1
       /\ dest' = Copied(off, data)
       /\ written' = off .. off + copy_size(off, Len(data))

\* iterate_post with the next piece of the value.
piece(data) ==
    /\ values > 0 /\ Len(value) + Len(data) <= MaxLength
    /\ copy_form_value(Len(value), data)
    /\ value' = value \o data
    /\ UNCHANGED values

next_value ==
    /\ values < MaxValues
    /\ values' = values + 1
    /\ value' = << >>
    /\ written' = {}
    /\ UNCHANGED dest

\* calloc.
Init ==
    /\ dest = [i \in Indices |-> NUL]
    /\ value = << >> /\ values = 0 /\ written = {}

Pieces == UNION {[1 .. n -> Bytes] : n \in 0 .. MaxLength}

Next == next_value \/ \E data \in Pieces : piece(data)

Spec == Init /\ [][Next]_vars
-----------------------------------------------------------------------------
(* Properties.                                                             *)

TypeOK ==
    /\ dest \in [Indices -> Bytes \cup {NUL}]
    /\ value \in Seq(Bytes)
    /\ values \in Nat
    /\ written \subseteq Int

\* However the value is cut into pieces, no piece is written past the buffer.
InBounds == written \subseteq Indices

\* The length of what fits of the value.
Fits == IF Len(value) < dest_size - 1 THEN Len(value) ELSE dest_size - 1

\* The field holds what fits of the value, ended by a NUL: nothing of an earlier,
\* longer value shows through, and pieces that do not fit change nothing.
HoldsValue ==
    value # << >> => /\ \A i \in 0 .. Fits - 1 : dest[i] = value[i + 1]
                     /\ dest[Fits] = NUL

\* However a value is cut into pieces, copy_form_value stays inside the buffer and
\* leaves there what fits of the value, whatever was in it before.
FieldIsCopied == InBounds /\ HoldsValue
=============================================================================
