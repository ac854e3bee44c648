--------------------------- MODULE MatrixTranspose ---------------------------
(***************************************************************************)
(* matrix_transpose of src/verse/util/common.h: the transposition of a     *)
(* bit matrix with byte loads, _mm_movemask_epi8 and shifts of the two     *)
(* 64-bit halves of a register.  A bit of the input stands for itself: it  *)
(* is the number of its place in the buffer, so one behaviour covers every *)
(* input of its size.  None is a bit that a shift made 0.                  *)
(***************************************************************************)
EXTENDS Integers

CONSTANTS Sizes,        \* the pairs of rows and cols it may be called with
          Unit          \* rows and cols must be multiples of it: 128

ASSUME SizesAssumption == Sizes \subseteq (Nat \ {0}) \X (Nat \ {0})

ASSUME UnitAssumption == Unit \in Nat \ {0} /\ Unit % 16 = 0

VARIABLES rows, cols,   \* the parameters
          i, j, k,      \* the loop counters; k = 0 before data is loaded
          data,         \* the register: the 8 bits of each of its 16 bytes
          out,          \* the bits written so far, by their place in the buffer
          status        \* "running", "returned" or "threw"

vars == <<rows, cols, i, j, k, data, out, status>>

Byte == 0 .. 15
Bit == 0 .. 7
None == -1

\* Byte "index" of the input buffer, as its bits.
ByteOf(index) == [b \in Bit |-> 8 * index + b]

FAcross(x, y) == ByteOf((x * rows) \div 8 + y \div 8)       \* variant: rows for cols
\* The lambdas f, a byte of the input, and g, the place of a byte of the output.
F(x, y) == ByteOf((x * cols) \div 8 + y \div 8)
G(x, y) == (y * rows) \div 8 + x \div 8

\* _mm_movemask_epi8: the most significant bit of each byte.
MoveMask(register) == [l \in Byte |-> register[l][7]]

ShiftedRight(register) ==        \* variant: the bits move the other way
    [l \in Byte |-> [b \in Bit |-> IF b < 7 THEN register[l][b + 1] ELSE None]]
\* _mm_slli_epi64 by 1: a byte's last bit moves to the next byte, except from
\* one half of the register to the other.
Shifted(register) ==
    [l \in Byte |-> [b \in Bit |->
        IF b > 0 THEN register[l][b - 1]
        ELSE IF l % 8 # 0 THEN register[l - 1][7] ELSE None]]

\* The buffer after the 16-bit store at byte "index".
Stored(mask, index) ==
    LET places == 8 * index .. 8 * index + 15
    IN  [p \in DOMAIN out \cup places |-> IF p \in places THEN mask[p - 8 * index] ELSE out[p]]

-----------------------------------------------------------------------------

Init == /\ \E size \in Sizes : rows = size[1] /\ cols = size[2]
        /\ i = 0 /\ j = 0 /\ k = 0
        /\ data = [l \in Byte |-> [b \in Bit |-> None]]
        /\ out = <<>>
        /\ status = "running"

Supported == rows % Unit = 0 /\ cols % Unit = 0

Throw == /\ status = "running"
         /\ ~Supported
         /\ status' = "threw"
         /\ UNCHANGED <<rows, cols, i, j, k, data, out>>

\* The head of the two outer loops: 16 rows and 8 columns.
Load == /\ status = "running"
        /\ Supported
        /\ k = 0 /\ i < rows /\ j < cols
        /\ data' = [l \in Byte |-> F(i + l, j)]
        /\ k' = 8
        /\ UNCHANGED <<rows, cols, i, j, out, status>>

NextRows == j' = 0 /\ i' = i + 16

\* The inner loop: a column of these 16 rows, from the last to the first.
Store == /\ status = "running"
         /\ k > 0
         /\ out' = Stored(MoveMask(data), G(i, j + k - 1))
         /\ data' = Shifted(data)
         /\ k' = k - 1
         /\ \/ k > 1 /\ UNCHANGED <<i, j>>
            \/ k = 1 /\ j + 8 < cols /\ j' = j + 8 /\ i' = i
            \/ k = 1 /\ j + 8 >= cols /\ NextRows
         /\ UNCHANGED <<rows, cols, status>>

ReturnEarly == /\ status = "running" \* variant: the last 16 rows are left out
               /\ Supported
               /\ k = 0 /\ i + 16 >= rows
               /\ status' = "returned"
               /\ UNCHANGED <<rows, cols, i, j, k, data, out>>
Return == /\ status = "running"
          /\ Supported
          /\ k = 0 /\ i >= rows
          /\ status' = "returned"
          /\ UNCHANGED <<rows, cols, i, j, k, data, out>>

Next == Throw \/ Load \/ Store \/ Return

Spec == Init /\ [][Next]_vars

-----------------------------------------------------------------------------

Places == 0 .. rows * cols - 1

\* The counters stay in their ranges, and every byte read or written lies in a
\* buffer of rows * cols bits.
TypeOK ==
    /\ <<rows, cols>> \in Sizes
    /\ i \in 0 .. rows /\ j \in 0 .. cols /\ k \in 0 .. 8
    /\ data \in [Byte -> [Bit -> Places \cup {None}]]
    /\ DOMAIN out \subseteq Places
    /\ status \in {"running", "returned", "threw"}

\* On return every bit of the output is written, and bit x of row y is bit y of
\* row x of the input: no bit that a shift carried from one byte of the register
\* into the next reaches the mask.
ReturnsTransposed ==
    status = "returned" =>
        out = [p \in Places |-> (p % rows) * cols + p \div rows]
=============================================================================
