---------------------------- MODULE RingArithmetic ----------------------------
(***************************************************************************)
(* Facts about the remainder by which every ring of the library turns an   *)
(* ever-growing ticket into the index of a cell: (idx + 1) % Capacity,     *)
(* pos % capacity_, (head + 1) % buffer_size.  N is the number of cells.   *)
(***************************************************************************)
EXTENDS Integers, TLAPS

\* A ticket is its lap times N plus the index of its cell.
LEMMA DivMod ==
  ASSUME NEW N \in Nat, N >= 1, NEW i \in Nat
  PROVE  /\ i \div N \in Int
         /\ i % N \in 0 .. N - 1
         /\ i = N * (i \div N) + (i % N)
BY SMT

\* The cell of a ticket is a cell of the ring.
LEMMA ModIsIndex ==
  ASSUME NEW N \in Nat, N >= 1, NEW i \in Nat
  PROVE  i % N \in 0 .. N - 1
BY SMT

\* Later laps are at least N tickets later.
LEMMA LapsAreApart ==
  ASSUME NEW N \in Nat, NEW a \in Int, NEW b \in Int, a < b
  PROVE  N * a + N <= N * b
<1>1. N * (b - a - 1) >= 0
  BY SMT
<1>2. N * (b - a - 1) = N * b - N * a - N
  BY SMT
<1> QED
  BY <1>1, <1>2, SMT

\* There is one way to write a ticket as a lap and an index.
LEMMA LapAndIndexUnique ==
  ASSUME NEW N \in Nat, N >= 1, NEW i \in Nat,
         NEW q \in Int, NEW r \in 0 .. N - 1, i = N * q + r
  PROVE  r = i % N
<1> DEFINE d == i \div N
           m == i % N
<1>1. d \in Int /\ m \in 0 .. N - 1 /\ i = N * d + m
  BY DivMod
<1> HIDE DEF d, m
<1>2. N * d \in Int /\ N * q \in Int
  BY <1>1
<1>3. ~(d < q)
  BY <1>1, <1>2, LapsAreApart
<1>4. ~(q < d)
  BY <1>1, <1>2, LapsAreApart
<1>5. q = d
  BY <1>1, <1>3, <1>4
<1>6. r = m
  BY <1>1, <1>2, <1>5
<1> QED
  BY <1>6 DEF m

\* Adding the capacity comes back to the same cell, one lap later.
LEMMA SameCellNextLap ==
  ASSUME NEW N \in Nat, N >= 1, NEW i \in Nat
  PROVE  (i + N) % N = i % N
<1> DEFINE d == i \div N
           m == i % N
<1>1. d \in Int /\ m \in 0 .. N - 1 /\ i = N * d + m
  BY DivMod
<1> HIDE DEF d, m
<1>2. i + N = N * (d + 1) + m
  BY <1>1
<1>3. m = (i + N) % N
  BY <1>1, <1>2, d + 1 \in Int, i + N \in Nat, LapAndIndexUnique
<1> QED
  BY <1>3 DEF m

\* Two tickets less than a lap apart never share a cell.
LEMMA OneLapNoCollision ==
  ASSUME NEW N \in Nat, N >= 1, NEW i \in Nat, NEW j \in Nat,
         i <= j, j < i + N, i % N = j % N
  PROVE  i = j
<1>1. PICK d \in Int : d = i \div N
  BY DivMod
<1>2. PICK e \in Int : e = j \div N
  BY DivMod
<1>3. PICK m \in 0 .. N - 1 : m = i % N
  BY DivMod
<1>4. i = N * d + m /\ j = N * e + m
  BY <1>1, <1>2, <1>3, DivMod
<1>5. N * d \in Int /\ N * e \in Int
  BY <1>1
<1>6. ~(d < e)
  BY <1>4, <1>5, LapsAreApart
<1>7. ~(e < d)
  BY <1>4, <1>5, LapsAreApart
<1>8. d = e
  BY <1>6, <1>7
<1> QED
  BY <1>4, <1>8

\* Two tickets of one cell are the same or at least a lap apart.
LEMMA SameCellApart ==
  ASSUME NEW N \in Nat, N >= 1, NEW i \in Nat, NEW j \in Nat, i % N = j % N
  PROVE  i = j \/ i >= j + N \/ j >= i + N
<1>1. CASE i <= j
  <2>1. j < i + N => i = j
    BY <1>1, OneLapNoCollision
  <2> QED
    BY <2>1
<1>2. CASE j <= i
  <2>1. i < j + N => i = j
    BY <1>2, OneLapNoCollision
  <2> QED
    BY <2>1
<1> QED
  BY <1>1, <1>2

\* Incrementing the index is incrementing the ticket.
LEMMA NextCell ==
  ASSUME NEW N \in Nat, N >= 1, NEW i \in Nat
  PROVE  ((i % N) + 1) % N = (i + 1) % N
<1> DEFINE d == i \div N
           m == i % N
<1>1. d \in Int /\ m \in 0 .. N - 1 /\ i = N * d + m
  BY DivMod
<1> HIDE DEF d, m
<1>2. CASE m + 1 = N
  <2>1. (m + 1) % N = 0
    BY <1>1, <1>2
  <2>2. i + 1 = N * (d + 1) + 0
    BY <1>1, <1>2
  <2>3. 0 = (i + 1) % N
    BY <2>2, <1>1, d + 1 \in Int, i + 1 \in Nat, 0 \in 0 .. N - 1, LapAndIndexUnique
  <2> QED
    BY <2>1, <2>3 DEF m
<1>3. CASE m + 1 < N
  <2>1. (m + 1) % N = m + 1
    BY <1>1, <1>3
  <2>2. i + 1 = N * d + (m + 1)
    BY <1>1
  <2>3. m + 1 = (i + 1) % N
    BY <2>2, <1>1, <1>3, m + 1 \in 0 .. N - 1, i + 1 \in Nat, LapAndIndexUnique
  <2> QED
    BY <2>1, <2>3 DEF m
<1> QED
  BY <1>1, <1>2, <1>3
=============================================================================
