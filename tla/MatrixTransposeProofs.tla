----------------------- MODULE MatrixTransposeProofs -----------------------
(***************************************************************************)
(* Proofs about MatrixTranspose, for every pair of sizes and every unit    *)
(* that is a multiple of 16.  The inductive invariant says which bits of   *)
(* the input the register still holds, and that the places written so far  *)
(* are those of the blocks of 16 rows and 8 columns that are done and of   *)
(* the last columns of the current one.                                    *)
(***************************************************************************)
EXTENDS MatrixTranspose, TLAPS

\* Bit y of row x is in its place of the output.
Done(x, y) ==
    \/ x < i
    \/ x < i + 16 /\ (y < j \/ (k > 0 /\ j + k <= y /\ y < j + 8))

\* The loops are at whole blocks of 16 rows and 8 columns.
Counters ==
    /\ i \in 0 .. rows /\ i % 16 = 0
    /\ j \in 0 .. cols - 1 /\ j % 8 = 0
    /\ k \in 0 .. 8
    /\ i = rows => j = 0 /\ k = 0

\* The bits of the current block that are not stored yet stand at the upper end
\* of the bytes of the register, the next one of each row as its first bit.
Loaded ==
    /\ data \in [Byte -> [Bit -> Places \cup {None}]]
    /\ k > 0 => \A l \in Byte, b \in Bit :
                    b >= 8 - k => data[l][b] = (i + l) * cols + j + (b - (8 - k))

Written ==
    /\ DOMAIN out = {p \in Places : Done(p % rows, p \div rows)}
    /\ out = [p \in DOMAIN out |-> (p % rows) * cols + p \div rows]

\* The inductive invariant.
IInv ==
    /\ <<rows, cols>> \in Sizes
    /\ status \in {"running", "returned", "threw"}
    /\ status = "returned" => Supported /\ i = rows
    /\ ~Supported => i = 0 /\ j = 0 /\ k = 0
    /\ Supported => Counters
    /\ Loaded
    /\ Written

-----------------------------------------------------------------------------
(* Arithmetic.                                                             *)

\* The bit of a row and a column has one place, and a place one row and column.
LEMMA PlaceOf ==
    ASSUME NEW n \in Nat \ {0}, NEW m \in Nat, NEW x \in 0 .. n - 1, NEW y \in 0 .. m - 1
    PROVE  /\ y * n + x \in 0 .. n * m - 1
           /\ (y * n + x) % n = x /\ (y * n + x) \div n = y
<1>1. y * n + x \in 0 .. m * n - 1
  OBVIOUS
<1>2. m * n = n * m
  OBVIOUS
<1>3. (y * n + x) % n = x /\ (y * n + x) \div n = y
  OBVIOUS
<1> QED  BY <1>1, <1>2, <1>3

LEMMA OfPlace ==
    ASSUME NEW n \in Nat \ {0}, NEW m \in Nat, NEW p \in 0 .. n * m - 1
    PROVE  /\ p % n \in 0 .. n - 1 /\ p \div n \in 0 .. m - 1
           /\ p = (p \div n) * n + (p % n)
<1>1. p \in Nat
  OBVIOUS
<1>2. p \div n \in 0 .. m - 1
  OBVIOUS
<1>3. p % n \in 0 .. n - 1 /\ p = (p \div n) * n + (p % n)
  BY <1>1
<1> QED  BY <1>2, <1>3

\* Bytes: a row of whole bytes starts with one.
LEMMA WholeBytes ==
    ASSUME NEW a \in Nat, NEW c \in Nat, c % 8 = 0
    PROVE  8 * ((a * c) \div 8) = a * c /\ (a * c) \div 8 \in Nat
<1>1. PICK d \in Nat : c = 8 * d
  <2>1. c = 8 * (c \div 8) /\ c \div 8 \in Nat
    OBVIOUS
  <2> QED  BY <2>1
<1>2. a * c = 8 * (a * d) /\ a * d \in Nat
  BY <1>1
<1>3. \A q \in Nat : (8 * q) \div 8 = q
  OBVIOUS
<1>4. (a * c) \div 8 = a * d
  BY <1>2, <1>3
<1> QED  BY <1>2, <1>4

\* The sizes are multiples of 16.
LEMMA Multiple ==
    ASSUME NEW a \in Nat, a % Unit = 0
    PROVE  a % 16 = 0
<1>1. PICK v \in Nat : Unit = 16 * v
  <2>1. Unit = 16 * (Unit \div 16) /\ Unit \div 16 \in Nat
    BY UnitAssumption
  <2> QED  BY <2>1
<1>2. PICK b \in Nat : a = Unit * b
  <2>1. a = Unit * (a \div Unit) /\ a \div Unit \in Nat
    BY UnitAssumption
  <2> QED  BY <2>1
<1>3. a = 16 * (v * b) /\ v * b \in Nat
  BY <1>1, <1>2
<1>4. \A q \in Nat : (16 * q) % 16 = 0
  OBVIOUS
<1> QED  BY <1>3, <1>4

\* What is known of the sizes that are not refused.
LEMMA SizesTypes ==
    ASSUME IInv
    PROVE  /\ rows \in Nat \ {0} /\ cols \in Nat \ {0} /\ rows * cols \in Nat
           /\ Supported => rows % 16 = 0 /\ cols % 16 = 0 /\ cols % 8 = 0
<1>1. rows \in Nat \ {0} /\ cols \in Nat \ {0}
  BY SizesAssumption DEF IInv
<1>2. rows * cols \in Nat
  BY <1>1
<1>3. Supported => rows % 16 = 0 /\ cols % 16 = 0
  BY <1>1, Multiple DEF Supported
<1>4. \A n \in Nat : n % 16 = 0 => n % 8 = 0
  OBVIOUS
<1> QED  BY <1>1, <1>2, <1>3, <1>4

-----------------------------------------------------------------------------
(* Each step keeps the invariant.                                          *)

LEMMA InitInvariant == Init => IInv
<1> SUFFICES ASSUME Init PROVE IInv
  OBVIOUS
<1>1. <<rows, cols>> \in Sizes /\ rows \in Nat \ {0} /\ cols \in Nat \ {0}
  BY SizesAssumption DEF Init
<1>2. Counters
  BY <1>1 DEF Init, Counters
<1>3. Loaded
  BY DEF Init, Loaded
<1>4. Written
  <2>1. \A p \in Places : ~Done(p % rows, p \div rows)
    <3>1. ASSUME NEW p \in Places PROVE ~Done(p % rows, p \div rows)
      <4>1. PICK x \in 0 .. rows - 1, y \in 0 .. cols - 1 : x = p % rows /\ y = p \div rows
        BY <1>1, OfPlace DEF Places
      <4>2. ~Done(x, y)
        BY <1>1 DEF Init, Done
      <4> QED  BY <4>1, <4>2
    <3> QED  BY <3>1
  <2>2. DOMAIN out = {}
    BY DEF Init
  <2> QED  BY <2>1, <2>2 DEF Written
<1> QED  BY <1>1, <1>2, <1>3, <1>4 DEF Init, IInv

\* A byte of the input that is loaded, as places.
LEMMA LoadedByte ==
    ASSUME IInv, Supported, NEW x \in 0 .. rows - 1, j \in 0 .. cols - 1, j % 8 = 0
    PROVE  /\ F(x, j) \in [Bit -> Places]
           /\ \A b \in Bit : F(x, j)[b] = x * cols + j + b
<1>1. rows \in Nat \ {0} /\ cols \in Nat \ {0} /\ cols % 8 = 0
  BY SizesTypes
<1>2. 8 * ((x * cols) \div 8) = x * cols /\ (x * cols) \div 8 \in Nat
  <2>1. x \in Nat /\ cols \in Nat
    BY <1>1
  <2> QED  BY <2>1, <1>1, WholeBytes
<1>3. 8 * (j \div 8) = j /\ j \div 8 \in Nat
  BY <1>1
<1>4. 8 * ((x * cols) \div 8 + j \div 8) = x * cols + j
  <2>1. \A a \in Nat, b \in Nat : 8 * (a + b) = 8 * a + 8 * b
    OBVIOUS
  <2> QED  BY <2>1, <1>2, <1>3
<1>5. \A b \in Bit : F(x, j)[b] = x * cols + j + b
  BY <1>4 DEF F, ByteOf
<1>6. ASSUME NEW b \in Bit PROVE x * cols + j + b \in Places
  <2>1. j + b \in 0 .. cols - 1
    BY <1>1 DEF Bit
  <2>2. x * cols + (j + b) \in 0 .. cols * rows - 1
    BY <2>1, <1>1, PlaceOf
  <2>3. cols * rows = rows * cols /\ x * cols + (j + b) = x * cols + j + b
    BY <1>1 DEF Bit
  <2> QED  BY <2>2, <2>3 DEF Places
<1>7. DOMAIN F(x, j) = Bit
  BY DEF F, ByteOf
<1>8. F(x, j) = [b \in Bit |-> F(x, j)[b]]
  BY DEF F, ByteOf
<1> QED  BY <1>5, <1>6, <1>8

\* A load fills the register with the bits of the block.
LEMMA LoadKeeps ==
    ASSUME IInv, Load
    PROVE  IInv'
<1>1. /\ Supported /\ Counters /\ k = 0 /\ i < rows /\ k' = 8
      /\ data' = [l \in Byte |-> F(i + l, j)]
      /\ UNCHANGED <<rows, cols, i, j, out, status>>
  BY DEF Load, IInv
<1>2. rows \in Nat \ {0} /\ cols \in Nat \ {0} /\ rows % 16 = 0
  BY <1>1, SizesTypes
<1>3. i \in Nat /\ i + 16 <= rows /\ j \in 0 .. cols - 1 /\ j % 8 = 0
  BY <1>1, <1>2 DEF Counters
<1>4. Counters' /\ Places' = Places
  BY <1>1, <1>2 DEF Counters, Places
<1>5. ASSUME NEW l \in Byte
      PROVE  /\ data'[l] \in [Bit -> Places]
             /\ \A b \in Bit : data'[l][b] = (i + l) * cols + j + b
  <2>1. i + l \in 0 .. rows - 1
    BY <1>2, <1>3 DEF Byte
  <2> QED  BY <2>1, <1>1, <1>3, LoadedByte
<1>6. Loaded'
  <2>1. data' \in [Byte -> [Bit -> Places \cup {None}]]
    BY <1>1, <1>5
  <2>2. \A l \in Byte, b \in Bit : data'[l][b] = (i + l) * cols + j + (b - (8 - 8))
    BY <1>5 DEF Bit
  <2> QED  BY <2>1, <2>2, <1>1, <1>4 DEF Loaded
<1>7. Written'
  <2>1. ASSUME NEW p \in Places
        PROVE  Done(p % rows, p \div rows)' <=> Done(p % rows, p \div rows)
    <3>1. p \div rows \in 0 .. cols - 1
      BY <1>2, OfPlace DEF Places
    <3> QED  BY <3>1, <1>1, <1>3 DEF Done
  <2> QED  BY <2>1, <1>1, <1>4 DEF Written, IInv
<1> QED  BY <1>1, <1>4, <1>6, <1>7 DEF IInv, Supported

\* A store writes a column of the block, and nothing of another one.
LEMMA StoreKeeps ==
    ASSUME IInv, Store
    PROVE  IInv'
<1>1. /\ Supported /\ Counters /\ k > 0 /\ k' = k - 1 /\ i < rows
      /\ data' = Shifted(data)
      /\ UNCHANGED <<rows, cols, status>>
  <2>1. k > 0 /\ k' = k - 1 /\ data' = Shifted(data) /\ UNCHANGED <<rows, cols, status>>
    BY DEF Store
  <2>2. Supported
    BY <2>1 DEF IInv
  <2>3. Counters /\ rows \in Nat
    BY <2>2, SizesTypes DEF IInv
  <2>4. i < rows
    BY <2>1, <2>3 DEF Counters
  <2> QED  BY <2>1, <2>2, <2>3, <2>4
<1>2. /\ rows \in Nat \ {0} /\ cols \in Nat \ {0} /\ rows * cols \in Nat
      /\ rows % 16 = 0 /\ cols % 8 = 0 /\ rows % 8 = 0
  BY <1>1, SizesTypes
<1>3. /\ i \in Nat /\ i % 16 = 0 /\ i + 16 <= rows
      /\ j \in Nat /\ j % 8 = 0 /\ j + 8 <= cols
      /\ k \in 1 .. 8
  BY <1>1, <1>2 DEF Counters
<1>20. PICK y0 \in 0 .. cols - 1 : y0 = j + k - 1
  BY <1>2, <1>3
<1>21. PICK first : first = y0 * rows + i
  OBVIOUS
<1>22. out' = Stored(MoveMask(data), G(i, y0))
  BY <1>20 DEF Store
<1>23. y0 \in Nat /\ y0 * rows \in Nat
  BY <1>2
<1>4. \/ k > 1 /\ i' = i /\ j' = j
      \/ k = 1 /\ j + 8 < cols /\ j' = j + 8 /\ i' = i
      \/ k = 1 /\ j + 8 = cols /\ j' = 0 /\ i' = i + 16
  BY <1>2, <1>3 DEF Store, NextRows
<1>5. Counters' /\ Places' = Places /\ Supported'
  BY <1>1, <1>2, <1>3, <1>4 DEF Counters, Places, Supported
<1>6. Loaded'
  <2>1. ASSUME NEW l \in Byte, NEW b \in Bit
        PROVE  data'[l][b] \in Places \cup {None}
    <3>1. data \in [Byte -> [Bit -> Places \cup {None}]]
      BY DEF IInv, Loaded
    <3>2. b > 0 => b - 1 \in Bit
      BY DEF Bit
    <3>3. l % 8 # 0 => l - 1 \in Byte /\ 7 \in Bit
      BY DEF Byte, Bit
    <3> QED  BY <3>1, <3>2, <3>3, <1>1 DEF Shifted
  <2>2. data' \in [Byte -> [Bit -> Places \cup {None}]]
    BY <2>1, <1>1 DEF Shifted
  <2>3. ASSUME k' > 0, NEW l \in Byte, NEW b \in Bit, b >= 8 - k'
        PROVE  data'[l][b] = (i' + l) * cols' + j' + (b - (8 - k'))
    <3>1. b - 1 \in Bit /\ b - 1 >= 8 - k /\ b > 0 /\ i' = i /\ j' = j
      BY <2>3, <1>1, <1>3, <1>4 DEF Bit
    <3>2. data'[l][b] = data[l][b - 1]
      BY <3>1, <1>1 DEF Shifted
    <3>3. data[l][b - 1] = (i + l) * cols + j + ((b - 1) - (8 - k))
      BY <3>1, <1>1 DEF IInv, Loaded
    <3>4. (b - 1) - (8 - k) = b - (8 - k')
      BY <1>1, <1>3 DEF Bit
    <3> QED  BY <3>1, <3>2, <3>3, <3>4, <1>1
  <2> QED  BY <2>2, <2>3, <1>5 DEF Loaded
<1>7. first \in Nat /\ 8 * G(i, y0) = first
  <2>1. 8 * ((y0 * rows) \div 8) = y0 * rows /\ (y0 * rows) \div 8 \in Nat
    BY <1>2, <1>23, WholeBytes
  <2>2. 8 * (i \div 8) = i
    BY <1>3
  <2>3. i \div 8 \in Nat
    BY <1>3
  <2>4. \A a \in Nat, b \in Nat : 8 * (a + b) = 8 * a + 8 * b
    OBVIOUS
  <2> QED  BY <2>1, <2>2, <2>3, <2>4, <1>3, <1>21, <1>23 DEF G
<1>8. ASSUME NEW l \in Byte
      PROVE  /\ first + l \in Places
             /\ (first + l) % rows = i + l /\ (first + l) \div rows = y0
             /\ MoveMask(data)[l] = (i + l) * cols + y0
  <2>1. i + l \in 0 .. rows - 1
    BY <1>3, <1>2 DEF Byte
  <2>2. /\ y0 * rows + (i + l) \in 0 .. rows * cols - 1
        /\ (y0 * rows + (i + l)) % rows = i + l
        /\ (y0 * rows + (i + l)) \div rows = y0
    <3>1. PICK x \in 0 .. rows - 1 : x = i + l
      BY <2>1
    <3>2. cols \in Nat
      BY <1>2
    <3>3. /\ y0 * rows + x \in 0 .. rows * cols - 1
          /\ (y0 * rows + x) % rows = x /\ (y0 * rows + x) \div rows = y0
      BY <3>2, <1>2, PlaceOf
    <3> QED  BY <3>1, <3>3
  <2>3. y0 * rows + (i + l) = first + l
    BY <1>3, <1>21, <1>23 DEF Byte
  <2>4. data[l][7] = (i + l) * cols + j + (7 - (8 - k))
    <3>1. 7 \in Bit /\ 7 >= 8 - k
      BY <1>3 DEF Bit
    <3> QED  BY <3>1, <1>1 DEF IInv, Loaded
  <2>5. MoveMask(data)[l] = (i + l) * cols + y0
    <3>1. (i + l) * cols \in Nat
      BY <2>1, <1>2
    <3>2. (i + l) * cols + j + (7 - (8 - k)) = (i + l) * cols + y0
      BY <3>1, <1>3, <1>20
    <3> QED  BY <3>2, <2>4 DEF MoveMask
  <2> QED  BY <2>2, <2>3, <2>5 DEF Places
<1>9. ASSUME NEW p \in Places
      PROVE  p \in first .. first + 15 <=> p \div rows = y0 /\ p % rows \in i .. i + 15
  <2>1. /\ p % rows \in 0 .. rows - 1 /\ p \div rows \in 0 .. cols - 1
        /\ p = (p \div rows) * rows + (p % rows)
    BY <1>2, OfPlace DEF Places
  <2>2. ASSUME p \in first .. first + 15
        PROVE  p \div rows = y0 /\ p % rows \in i .. i + 15
    <3>1. PICK l \in Byte : p = first + l
      <4>1. p - first \in Byte /\ p = first + (p - first)
        BY <2>2, <1>7 DEF Byte
      <4> QED  BY <4>1
    <3> QED  BY <3>1, <1>3, <1>8 DEF Byte
  <2>3. ASSUME p \div rows = y0, p % rows \in i .. i + 15
        PROVE  p \in first .. first + 15
    <3>1. p = y0 * rows + (p % rows)
      BY <2>1, <2>3
    <3> QED  BY <3>1, <2>3, <1>3, <1>21, <1>23
  <2> QED  BY <2>2, <2>3
<1>10. ASSUME NEW p \in Places
       PROVE  Done(p % rows, p \div rows)' <=>
                  Done(p % rows, p \div rows) \/ p \in first .. first + 15
  <2>1. PICK x \in 0 .. rows - 1, y \in 0 .. cols - 1 : x = p % rows /\ y = p \div rows
    BY <1>2, OfPlace DEF Places
  <2>2. p \in first .. first + 15 <=> y = y0 /\ x \in i .. i + 15
    BY <2>1, <1>9
  <2>3. Done(x, y)' <=> Done(x, y) \/ (y = y0 /\ x \in i .. i + 15)
    <3>1. x \in Nat /\ y \in Nat /\ x < rows /\ y < cols
      BY <1>2
    <3>2. y0 = j + k - 1 /\ k' = k - 1
      BY <1>1, <1>20
    <3>3. CASE k > 1 /\ i' = i /\ j' = j
      BY <3>1, <3>2, <3>3, <1>3 DEF Done
    <3>4. CASE k = 1 /\ j + 8 < cols /\ j' = j + 8 /\ i' = i
      <4>1. k' = 0 /\ y0 = j
        BY <3>2, <3>4, <1>3
      <4>2. Done(x, y)' <=> x < i \/ (x < i + 16 /\ y < j + 8)
        BY <3>4, <4>1, <1>3 DEF Done
      <4>3. Done(x, y) <=> x < i \/ (x < i + 16 /\ y < j + 8 /\ y # j)
        BY <3>1, <3>4, <1>3 DEF Done
      <4> QED  BY <3>1, <4>1, <4>2, <4>3, <1>3
    <3>5. CASE k = 1 /\ j + 8 = cols /\ j' = 0 /\ i' = i + 16
      <4>1. k' = 0 /\ y0 = j
        BY <3>2, <3>5, <1>3
      <4>2. Done(x, y)' <=> x < i + 16
        BY <3>1, <3>5, <4>1, <1>3 DEF Done
      <4>3. Done(x, y) <=> x < i \/ (x < i + 16 /\ y # j)
        BY <3>1, <3>5, <1>3 DEF Done
      <4> QED  BY <3>1, <4>1, <4>2, <4>3, <1>3
    <3> QED  BY <3>3, <3>4, <3>5, <1>4
  <2> QED  BY <2>1, <2>2, <2>3, <1>1
<1>11. /\ DOMAIN out' = DOMAIN out \cup first .. first + 15
       /\ \A p \in DOMAIN out' : out'[p] = IF p \in first .. first + 15
                                           THEN MoveMask(data)[p - first] ELSE out[p]
  BY <1>7, <1>22 DEF Stored
<1>12. \A p \in first .. first + 15 : p \in Places
  <2>1. ASSUME NEW p \in first .. first + 15 PROVE p \in Places
    <3>1. p - first \in Byte /\ p = first + (p - first)
      BY <1>7 DEF Byte
    <3> QED  BY <3>1, <1>8
  <2> QED  BY <2>1
<1>13. Written'
  <2>1. DOMAIN out = {p \in Places : Done(p % rows, p \div rows)}
    BY DEF IInv, Written
  <2>2. DOMAIN out' = {p \in Places : Done(p % rows, p \div rows)'}
    BY <2>1, <1>10, <1>11, <1>12
  <2>3. ASSUME NEW p \in DOMAIN out'
        PROVE  out'[p] = (p % rows) * cols + p \div rows
    <3>1. CASE p \in first .. first + 15
      <4>1. p - first \in Byte /\ p = first + (p - first)
        BY <3>1, <1>7 DEF Byte
      <4>2. PICK l \in Byte : l = p - first /\ p = first + l
        BY <4>1
      <4>3. out'[p] = (i + l) * cols + y0 /\ p % rows = i + l /\ p \div rows = y0
        BY <3>1, <4>2, <1>8, <1>11
      <4> QED  BY <4>3
    <3>2. CASE p \notin first .. first + 15
      <4>1. p \in DOMAIN out /\ out'[p] = out[p]
        BY <3>2, <1>11
      <4> QED  BY <4>1 DEF IInv, Written
    <3> QED  BY <3>1, <3>2
  <2>4. out' = [p \in DOMAIN out' |-> (p % rows) * cols + p \div rows]
    BY <2>3, <1>22 DEF Stored
  <2> QED  BY <2>2, <2>4, <1>1, <1>5 DEF Written
<1>14. status = "running"
  BY DEF Store
<1> QED  BY <1>1, <1>5, <1>6, <1>13, <1>14 DEF IInv

\* Nothing else moves a counter or a bit.
LEMMA OthersKeep ==
    ASSUME IInv, Throw \/ Return \/ UNCHANGED vars
    PROVE  IInv'
<1>1. UNCHANGED <<rows, cols, i, j, k, data, out>>
  BY DEF Throw, Return, vars
<1>2. /\ status' \in {"running", "returned", "threw"}
      /\ status' = "returned" => Supported /\ i = rows
  <2>1. CASE Throw
    BY <2>1 DEF Throw
  <2>2. CASE Return
    <3>1. Supported /\ i >= rows /\ status' = "returned"
      BY <2>2 DEF Return
    <3>2. i \in 0 .. rows /\ rows \in Nat
      BY <3>1, SizesTypes DEF IInv, Counters
    <3> QED  BY <3>1, <3>2
  <2>3. CASE UNCHANGED vars
    BY <2>3 DEF vars, IInv
  <2> QED  BY <2>1, <2>2, <2>3
<1> QED  BY <1>1, <1>2 DEF IInv, Counters, Loaded, Written, Done, Places, Supported

-----------------------------------------------------------------------------
(* The theorems.                                                           *)

\* For all sizes the register and the output hold the bits the loops are at.
THEOREM Invariance == Spec => []IInv
<1>1. Init => IInv
  BY InitInvariant
<1>2. IInv /\ [Next]_vars => IInv'
  BY LoadKeeps, StoreKeeps, OthersKeep DEF Next
<1> QED  BY <1>1, <1>2, PTL DEF Spec

\* For all sizes no byte is read or written outside of the buffers.
THEOREM TypeCorrectness == Spec => []TypeOK
<1>1. IInv => TypeOK
  <2> SUFFICES ASSUME IInv PROVE TypeOK
    OBVIOUS
  <2>1. rows \in Nat \ {0} /\ cols \in Nat \ {0}
    BY SizesTypes
  <2>2. i \in 0 .. rows /\ j \in 0 .. cols /\ k \in 0 .. 8
    BY <2>1 DEF IInv, Counters
  <2> QED  BY <2>2 DEF IInv, Loaded, Written, TypeOK
<1> QED  BY <1>1, Invariance, PTL

\* For all sizes the output is the transposed input.
THEOREM ReturnsTransposedHolds == Spec => []ReturnsTransposed
<1>1. IInv => ReturnsTransposed
  <2> SUFFICES ASSUME IInv, status = "returned"
               PROVE  out = [p \in Places |-> (p % rows) * cols + p \div rows]
    BY DEF ReturnsTransposed
  <2>1. i = rows /\ rows \in Nat \ {0} /\ cols \in Nat \ {0}
    BY SizesTypes DEF IInv
  <2>2. \A p \in Places : Done(p % rows, p \div rows)
    BY <2>1, OfPlace DEF Done, Places
  <2>3. DOMAIN out = Places
    BY <2>2 DEF IInv, Written
  <2> QED  BY <2>3 DEF IInv, Written
<1> QED  BY <1>1, Invariance, PTL
=============================================================================
