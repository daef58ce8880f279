-------------------------- MODULE VirtioDiskProofs --------------------------
(***************************************************************************)
(* Proofs about VirtioDisk, for every number of processes, of descriptors  *)
(* and of laps: descriptors are shared out without overlap or loss, the    *)
(* device has a buffer exactly as long as b->disk says, no request is      *)
(* refused and no completion or waiter is forgotten.                       *)
(***************************************************************************)
EXTENDS VirtioDisk, Integers, TLAPS

Positive == Nat \ {0}

(* What % does to indices that pass the end of a ring, and of the counters. *)

LEMMA Division ==
  ASSUME NEW P \in Nat \ {0}, NEW a \in Nat
  PROVE  /\ a % P \in 0..P - 1
         /\ \E d \in Int : a = d * P + (a % P)
<1>1. a % P \in 0..P - 1 /\ a \div P \in Int
  OBVIOUS
<1>2. a = (a \div P) * P + (a % P)
  OBVIOUS
<1> QED BY <1>1, <1>2, Zenon

\* No multiple of P but 0 is nearer to 0 than P.
LEMMA SmallMultiple ==
  ASSUME NEW P \in Nat \ {0}, NEW q \in Int, NEW r \in Int, q * P = r, -P < r, r < P
  PROVE  q = 0 /\ r = 0
<1>1. q = 0
  OBVIOUS
<1> QED BY <1>1

\* Places less than a ring apart are in different cells.
LEMMA OtherCell ==
  ASSUME NEW P \in Nat \ {0}, NEW a \in Nat, NEW b \in Nat, a % P = b % P, a - b < P, b <= a
  PROVE  a = b
<1> DEFINE m == a % P
<1>1. PICK d \in Int : a = d * P + m
  BY Division, Zenon
<1>2. PICK e \in Int : b = e * P + m
  BY Division, Zenon
<1>3. m \in 0..P - 1
  BY Division, Zenon
<1> HIDE DEF m
<1>4. /\ (d - e) * P = a - b
      /\ d - e \in Int /\ a - b \in Int /\ -P < a - b /\ a - b < P
  BY <1>1, <1>2, <1>3
<1>5. a - b = 0
  BY <1>4, SmallMultiple, Zenon
<1> QED BY <1>5

\* A whole number of rings further on, or back, is the same cell.
LEMMA SameCell ==
  ASSUME NEW P \in Nat \ {0}, NEW L \in Int, NEW a \in Nat, a + L * P \in Nat
  PROVE  (a + L * P) % P = a % P
<1> DEFINE b == a + L * P
           m == a % P
           r == b % P
<1>1. PICK d \in Int : a = d * P + m
  BY Division, Zenon
<1>2. b \in Nat
  OBVIOUS
<1>3. PICK e \in Int : b = e * P + r
  BY <1>2, Division, Zenon
<1>4. m \in 0..P - 1 /\ r \in 0..P - 1
  BY <1>2, Division, Zenon
<1>5. a + L * P = e * P + r
  BY <1>3, Zenon
<1> HIDE DEF b, m, r
<1>6. /\ (d + L - e) * P = r - m
      /\ d + L - e \in Int /\ r - m \in Int /\ -P < r - m /\ r - m < P
  BY <1>1, <1>4, <1>5
<1>7. r - m = 0
  BY <1>6, SmallMultiple, Zenon
<1>8. r = m
  BY <1>4, <1>7
<1> QED BY <1>8, Zenon DEF b, m, r

\* Reducing an index first, by the counters' modulus or by a multiple of the
\* ring's size, changes nothing.
LEMMA Reduced ==
  ASSUME NEW P \in Positive, NEW L \in Positive,
         NEW a \in Nat, NEW b \in Nat
  PROVE  ((a % (L * P)) + b) % P = (a + b) % P
<1> DEFINE M == L * P
           m == a % M
<1>1. P \in Nat \ {0} /\ L \in Nat \ {0} /\ M \in Nat \ {0}
  BY DEF Positive
<1>2. m \in 0..M - 1
  BY <1>1, Division, Zenon
<1>3. PICK d \in Int : a = d * M + m
  BY <1>1, Division, Zenon
<1> DEFINE k == d * L
<1>4. k \in Int /\ d * M = k * P
  BY <1>1
<1> HIDE DEF m
<1>5. m \in Nat /\ m + b \in Nat /\ a + b \in Nat
  BY <1>1, <1>2
<1>6. a + b = (m + b) + k * P
  <2> DEFINE x == d * M
  <2>1. a = x + m /\ x \in Int /\ x = k * P
    BY <1>1, <1>3, <1>4
  <2> HIDE DEF x
  <2>2. a + b = (m + b) + x
    BY <1>5, <2>1
  <2> QED BY <2>1, <2>2, Zenon
<1> HIDE DEF k
<1> DEFINE c == m + b
<1>7. c \in Nat /\ c + k * P \in Nat
  BY <1>5, <1>6, Zenon
<1> HIDE DEF c
<1>8. (c + k * P) % P = c % P
  BY <1>1, <1>4, <1>7, SameCell, Zenon
<1> QED BY <1>6, <1>8, Zenon DEF m, c
----------------------------------------------------------------------------
(* The two rings. *)

LEMMA Sizes ==
  /\ NUM \in Nat \ {0} /\ NUM >= 3 /\ Laps \in Nat \ {0}
  /\ Wrap \in Nat \ {0} /\ NUM <= Wrap /\ Wrap = Laps * NUM /\ Wrap = 1 * Wrap
<1>1. NUM \in Nat \ {0} /\ NUM >= 3 /\ Laps \in Nat \ {0}
  BY DiskAssumption
<1>2. Laps * NUM \in Nat \ {0} /\ NUM <= Laps * NUM
  BY <1>1
<1>3. Wrap = Laps * NUM
  BY Zenon DEF Wrap
<1> QED BY <1>1, <1>2, <1>3

\* The indices of a ring, and their cells.
LEMMA Index ==
  ASSUME NEW a \in Nat, NEW b \in Nat
  PROVE  /\ ((a % Wrap) + b) % Wrap = (a + b) % Wrap
         /\ ((a % Wrap) + b) % NUM = (a + b) % NUM
         /\ a % NUM \in Desc /\ a % Wrap \in 0..Wrap - 1
<1>1. ((a % Wrap) + b) % Wrap = (a + b) % Wrap
  <2>1. 1 \in Positive
    BY DEF Positive
  <2>2. Wrap \in Positive
    BY Sizes, Zenon DEF Positive
  <2>3. ((a % (1 * Wrap)) + b) % Wrap = (a + b) % Wrap
    BY <2>1, <2>2, Reduced, Zenon
  <2>4. 1 * Wrap = Wrap
    BY Sizes, Zenon
  <2> QED BY <2>3, <2>4, Zenon
<1>2. ((a % Wrap) + b) % NUM = (a + b) % NUM
  <2>1. NUM \in Positive /\ Laps \in Positive
    BY Sizes, Zenon DEF Positive
  <2>2. ((a % (Laps * NUM)) + b) % NUM = (a + b) % NUM
    BY <2>1, Reduced, Zenon
  <2>3. Laps * NUM = Wrap
    BY Sizes, Zenon
  <2> QED BY <2>2, <2>3, Zenon
<1>3. a % NUM \in 0..NUM - 1 /\ a % Wrap \in 0..Wrap - 1
  BY Sizes, Division, Zenon
<1> QED BY <1>1, <1>2, <1>3, Sizes, Zenon DEF Desc

\* Fewer places apart than the ring has cells: different cells.
LEMMA Cells ==
  ASSUME NEW a \in Nat, NEW i \in 0..NUM - 1, NEW j \in 0..NUM - 1,
         (a + i) % NUM = (a + j) % NUM
  PROVE  i = j
<1>1. NUM \in Nat \ {0}
  BY Sizes, Zenon
<1>2. /\ a + i \in Nat /\ a + j \in Nat
      /\ (a + i) - (a + j) < NUM /\ (a + j) - (a + i) < NUM
      /\ a + j <= a + i \/ a + i <= a + j
      /\ a + i = a + j => i = j
  BY <1>1
<1> DEFINE x == a + i
           y == a + j
<1> HIDE DEF x, y
<1>3. x % NUM = y % NUM
  BY Zenon DEF x, y
<1>4. /\ x \in Nat /\ y \in Nat /\ x - y < NUM /\ y - x < NUM
      /\ y <= x \/ x <= y
  BY <1>2, Zenon DEF x, y
<1>5. x = y
  BY <1>1, <1>3, <1>4, OtherCell, Zenon
<1> QED BY <1>2, <1>5, Zenon DEF x, y

\* An index of a ring is below the modulus of the indices.
LEMMA Below ==
  ASSUME NEW a \in 0..Wrap - 1
  PROVE  a \in Nat /\ (a + 0) % Wrap = a
<1> DEFINE m == a % Wrap
<1>1. Wrap \in Nat \ {0}
  BY Sizes, Zenon
<1>2. a \in Nat /\ a + 0 = a
  BY <1>1
<1>3. m \in 0..Wrap - 1
  BY <1>1, <1>2, Division, Zenon
<1>4. PICK d \in Int : a = d * Wrap + m
  BY <1>1, <1>2, Division, Zenon
<1> HIDE DEF m
<1>5. /\ d * Wrap = a - m
      /\ a - m \in Int /\ -Wrap < a - m /\ a - m < Wrap
  BY <1>1, <1>2, <1>3, <1>4
<1>6. a - m = 0
  BY <1>1, <1>5, SmallMultiple, Zenon
<1>7. a = m
  BY <1>2, <1>3, <1>6
<1> QED BY <1>2, <1>7, Zenon DEF m

\* What the counting of descriptors gives, proved further down: heads are not
\* repeated in a ring, so two descriptors that are not heads leave two cells
\* without one; alloc3_desc finds three descriptors; and a chain has three.
Room ==
  \A ring \in [Desc -> Desc \cup {None}], a \in Nat, n \in 0..NUM - 1, d \in Desc, e \in Desc :
    /\ \A j \in 0..n - 1 : ring[(a + j) % NUM] /= None
    /\ Once(ring) /\ d /= e /\ \A k \in Desc : ring[k] \notin {d, e}
    => n + 1 < NUM

Allocates ==
  free \subseteq Desc /\ Cardinality(free) >= 3 =>
    /\ ~(Cardinality(free) < 3)
    /\ alloc3_desc \in [1..3 -> Desc]
    /\ \A i \in 1..3 : alloc3_desc[i] \in free
    /\ alloc3_desc[1] /= alloc3_desc[2] /\ alloc3_desc[1] /= alloc3_desc[3]
    /\ alloc3_desc[2] /= alloc3_desc[3]

ChainOfThree ==
  \A a, b, c : a /= b /\ a /= c /\ b /= c => Cardinality({a, b, c}) = 3

\* A head goes into the cell at the writer's index, which is empty, if two
\* descriptors are not in the ring.
LEMMA RingPost ==
  ASSUME Room,
         NEW ring \in [Desc -> Desc \cup {None}], NEW from \in 0..Wrap - 1, NEW to,
         Filled(ring, from, to, 0),
         Once(ring),
         NEW d \in Desc, NEW e \in Desc, d /= e, \A k \in Desc : ring[k] \notin {d, e},
         NEW h \in Desc
  PROVE  /\ to % NUM \in Desc /\ ring[to % NUM] = None
         /\ Filled([ring EXCEPT ![to % NUM] = h], from, to, 1)
<1>1. from \in Nat
  BY Below, Zenon
<1>2. PICK n \in 0..NUM - 1 :
        /\ to = (from + n) % Wrap
        /\ \A k \in Desc : ring[k] /= None <=> \E j \in 0..n + 0 - 1 : k = (from + j) % NUM
  BY Zenon DEF Filled
<1>3. /\ NUM \in Nat /\ n \in Nat /\ n + 0 - 1 = n - 1 /\ n + 1 - 1 = n
      /\ from + n \in Nat /\ from + n + 0 = from + n
      /\ \A j \in 0..n - 1 : j \in 0..NUM - 1 /\ j /= n /\ from + j \in Nat
      /\ \A j : j \in 0..n <=> j \in 0..n - 1 \/ j = n
  BY <1>1, Sizes
<1>4. \A k \in Desc : ring[k] /= None <=> \E j \in 0..n - 1 : k = (from + j) % NUM
  BY <1>2, <1>3, Zenon
<1>5. to \in Nat /\ to % NUM = (from + n) % NUM /\ to % NUM \in Desc
  <2>1. (from + n) % Wrap \in 0..Wrap - 1 /\ (from + n) % NUM \in Desc
    BY <1>3, Index, Zenon
  <2>2. to \in Nat /\ to + 0 = to
    <3>1. \A x \in 0..Wrap - 1 : x \in Nat /\ x + 0 = x
      BY Sizes
    <3> QED BY <1>2, <2>1, <3>1, Zenon
  <2>3. (((from + n) % Wrap) + 0) % NUM = (from + n + 0) % NUM
    <3>1. 0 \in Nat
      OBVIOUS
    <3> QED BY <1>3, <3>1, Index, Zenon
  <2>4. (to + 0) % NUM = (from + n) % NUM
    BY <1>2, <1>3, <2>3, Zenon
  <2> QED BY <2>1, <2>2, <2>4, Zenon
<1>6. \A j \in 0..n - 1 : (from + j) % NUM /= (from + n) % NUM
  BY <1>1, <1>3, Cells, Zenon
<1>7. ring[to % NUM] = None
  BY <1>4, <1>5, <1>6, Zenon
<1>8. n + 1 < NUM
  <2>1. \A j \in 0..n - 1 : (from + j) % NUM \in Desc
    BY <1>3, Index, Zenon
  <2>2. \A j \in 0..n - 1 : ring[(from + j) % NUM] /= None
    BY <1>4, <2>1, Zenon
  <2> QED BY <1>1, <2>2, Zenon DEF Room
<1> DEFINE r == [ring EXCEPT ![to % NUM] = h]
<1>9. \A k \in Desc : r[k] /= None <=> \E j \in 0..n + 1 - 1 : k = (from + j) % NUM
  <2>1. h /= None
    BY DiskAssumption, Zenon DEF Desc
  <2>2. \A k \in Desc : r[k] = IF k = to % NUM THEN h ELSE ring[k]
    BY Zenon
  <2> HIDE DEF r
  <2>3. \A k \in Desc : r[k] /= None <=> k = (from + n) % NUM \/ ring[k] /= None
    BY <1>5, <2>1, <2>2, Zenon
  <2>4. \A k \in Desc : (\E j \in 0..n : k = (from + j) % NUM)
                         <=> k = (from + n) % NUM \/ \E j \in 0..n - 1 : k = (from + j) % NUM
    BY <1>3, Zenon
  <2>5. \A k \in Desc : r[k] /= None <=> \E j \in 0..n : k = (from + j) % NUM
    BY <1>4, <2>3, <2>4, Zenon
  <2> QED BY <1>3, <2>5, Zenon
<1> HIDE DEF r
<1>10. Filled(r, from, to, 1)
  BY <1>2, <1>8, <1>9, Zenon DEF Filled
<1> QED BY <1>5, <1>7, <1>10, Zenon DEF r

\* The writer's index moves past the head.
LEMMA RingPublish ==
  ASSUME NEW ring, NEW from \in 0..Wrap - 1, NEW to, Filled(ring, from, to, 1)
  PROVE  (to + 1) % Wrap \in 0..Wrap - 1 /\ Filled(ring, from, (to + 1) % Wrap, 0)
<1>1. from \in Nat /\ 1 \in Nat
  BY Below, Zenon
<1>2. PICK n \in 0..NUM - 1 :
        /\ n + 1 < NUM
        /\ to = (from + n) % Wrap
        /\ \A k \in Desc : ring[k] /= None <=> \E j \in 0..n + 1 - 1 : k = (from + j) % NUM
  BY Zenon DEF Filled
<1>3. /\ n + 1 \in 0..NUM - 1 /\ n + 1 + 0 < NUM /\ n + 1 + 0 - 1 = n + 1 - 1
      /\ from + n \in Nat /\ from + n + 1 = from + (n + 1) /\ from + (n + 1) \in Nat
  BY <1>1, <1>2, Sizes
<1>4. (((from + n) % Wrap) + 1) % Wrap = (from + n + 1) % Wrap
  BY <1>1, <1>3, Index, Zenon
<1>5. (to + 1) % Wrap = (from + (n + 1)) % Wrap
  BY <1>2, <1>3, <1>4, Zenon
<1>6. (to + 1) % Wrap \in 0..Wrap - 1
  BY <1>3, <1>5, Index, Zenon
<1> DEFINE m == n + 1
<1>7. \A k \in Desc : ring[k] /= None <=> \E j \in 0..m + 0 - 1 : k = (from + j) % NUM
  BY <1>2, <1>3, Zenon
<1>8. m \in 0..NUM - 1 /\ m + 0 < NUM /\ (to + 1) % Wrap = (from + m) % Wrap
  BY <1>3, <1>5, Zenon
<1> HIDE DEF m
<1> QED BY <1>6, <1>7, <1>8, Zenon DEF Filled

\* The reader finds a head at its index, unless it has caught up with the
\* writer, and takes it.
LEMMA RingTake ==
  ASSUME NEW ring \in [Desc -> Desc \cup {None}], NEW from \in 0..Wrap - 1,
         NEW to, NEW more \in {0, 1}, Filled(ring, from, to, more), from /= to
  PROVE  /\ from % NUM \in Desc /\ ring[from % NUM] \in Desc
         /\ (from + 1) % Wrap \in 0..Wrap - 1
         /\ Filled([ring EXCEPT ![from % NUM] = None], (from + 1) % Wrap, to, more)
<1> DEFINE next == (from + 1) % Wrap
           r == [ring EXCEPT ![from % NUM] = None]
<1>1. from \in Nat /\ (from + 0) % Wrap = from
  BY Below, Zenon
<1>2. PICK n \in 0..NUM - 1 :
        /\ n + more < NUM
        /\ to = (from + n) % Wrap
        /\ \A k \in Desc : ring[k] /= None <=> \E j \in 0..n + more - 1 : k = (from + j) % NUM
  BY Zenon DEF Filled
<1>3. n /= 0
  BY <1>1, <1>2, Zenon
<1> DEFINE m == n - 1
<1>4. /\ m \in 0..NUM - 1 /\ m \in Nat /\ m + more < NUM /\ n = m + 1
      /\ from + 1 \in Nat /\ from + 1 + m = from + n /\ from + 0 = from
      /\ 0 \in 0..n + more - 1 /\ 0 \in 0..NUM - 1
      /\ \A j \in 0..m + more - 1 : /\ j \in Nat /\ j + 1 \in 0..n + more - 1 /\ j + 1 \in 0..NUM - 1
                                    /\ j + 1 /= 0 /\ from + 1 + j = from + (j + 1)
      /\ \A j \in 0..n + more - 1 : j = 0 \/ (j - 1 \in 0..m + more - 1 /\ j = (j - 1) + 1)
  BY <1>1, <1>2, <1>3, Sizes
<1> HIDE DEF m
<1>5. next \in 0..Wrap - 1 /\ from % NUM \in Desc
  BY <1>1, <1>4, Index, Zenon
<1>6. ring[from % NUM] \in Desc
  <2>1. ring[from % NUM] /= None
    BY <1>2, <1>4, <1>5, Zenon
  <2> QED BY <1>5, <2>1, Zenon
<1>7. to = (next + m) % Wrap
  <2>1. (((from + 1) % Wrap) + m) % Wrap = (from + 1 + m) % Wrap
    BY <1>4, Index, Zenon
  <2> QED BY <1>2, <1>4, <2>1, Zenon
<1>8. \A j \in 0..m + more - 1 : (next + j) % NUM = (from + (j + 1)) % NUM
  <2> SUFFICES ASSUME NEW j \in 0..m + more - 1
               PROVE  (next + j) % NUM = (from + (j + 1)) % NUM
    BY Zenon
  <2>1. (((from + 1) % Wrap) + j) % NUM = (from + 1 + j) % NUM
    BY <1>4, Index, Zenon
  <2> QED BY <1>4, <2>1, Zenon
<1>9. \A k \in Desc : r[k] /= None <=> \E j \in 0..m + more - 1 : k = (next + j) % NUM
  <2> SUFFICES ASSUME NEW k \in Desc
               PROVE  r[k] /= None <=> \E j \in 0..m + more - 1 : k = (next + j) % NUM
    BY Zenon
  <2>1. r[k] = IF k = from % NUM THEN None ELSE ring[k]
    BY Zenon
  <2> HIDE DEF r, next
  <2>2. ASSUME r[k] /= None PROVE \E j \in 0..m + more - 1 : k = (next + j) % NUM
    <3>1. k /= from % NUM /\ ring[k] /= None
      BY <2>1, <2>2, Zenon
    <3>2. PICK j \in 0..n + more - 1 : k = (from + j) % NUM
      BY <1>2, <3>1, Zenon
    <3>3. j /= 0
      BY <1>4, <3>1, <3>2, Zenon
    <3>4. PICK i \in 0..m + more - 1 : j = i + 1
      BY <1>4, <3>3, Zenon
    <3> QED BY <1>8, <3>2, <3>4, Zenon
  <2>3. ASSUME NEW j \in 0..m + more - 1, k = (next + j) % NUM PROVE r[k] /= None
    <3>1. k = (from + (j + 1)) % NUM /\ j + 1 \in 0..n + more - 1 /\ j + 1 \in 0..NUM - 1
      BY <1>4, <1>8, <2>3, Zenon
    <3>2. ring[k] /= None
      BY <1>2, <3>1, Zenon
    <3>3. (from + (j + 1)) % NUM /= (from + 0) % NUM
      BY <1>1, <1>4, <3>1, Cells, Zenon
    <3> QED BY <1>4, <2>1, <3>1, <3>2, <3>3, Zenon
  <2> QED BY <2>2, <2>3, Zenon
<1> HIDE DEF next, r
<1>10. Filled(r, next, to, more)
  BY <1>4, <1>7, <1>9, Zenon DEF Filled
<1> QED BY <1>5, <1>6, <1>10, Zenon DEF next, r
----------------------------------------------------------------------------
(* What a step that leaves the requests alone preserves. *)

LEMMA SameChains ==
  ASSUME Chains, InFlight' = InFlight, UNCHANGED <<driver, idx>>,
         \A p \in InFlight : write'[p] = write[p]
  PROVE  Chains'
<1>1. \A p : Own(p)' = Own(p)
  BY Zenon DEF Own
<1>2. free' = free /\ desc' = desc /\ infob' = infob /\ ops' = ops /\ idx' = idx
  BY Zenon DEF driver
<1>3. ASSUME NEW p \in InFlight PROVE Formed(p)'
  <2>1. DataFlags(p)' = DataFlags(p) /\ Dir(p)' = Dir(p)
    BY Zenon DEF DataFlags, Dir
  <2>2. Formed(p)
    BY Zenon DEF Chains
  <2> QED BY <1>2, <2>1, <2>2, Zenon DEF Formed
<1> QED BY <1>1, <1>2, <1>3, Zenon DEF Chains

LEMMA SameWhere ==
  ASSUME Where, InFlight' = InFlight, UNCHANGED <<idx, bdisk, avail, used, busy>>
  PROVE  Where'
<1>1. Offered' = Offered /\ Returned' = Returned
  BY Zenon DEF Offered, Returned, Heads
<1> QED BY <1>1, Zenon DEF Where

LEMMA SameData ==
  ASSUME Data, InFlight' = InFlight, UNCHANGED <<idx, bdisk, used, status>>,
         \A p \in InFlight : write'[p] = write[p] /\ moved'[p] = moved[p],
         \A p \in Proc : pc'[p] \in {"alloc", "sleep_desc"} => moved'[p] = {}
  PROVE  Data'
<1>1. Returned' = Returned
  BY Zenon DEF Returned, Heads
<1>2. \A p \in InFlight : Dir(p)' = Dir(p)
  BY Zenon DEF Dir
<1> QED BY <1>1, <1>2, Zenon DEF Data

LEMMA SameRings ==
  ASSUME Rings, UNCHANGED <<avail, availidx, used, usedidx, used_idx, seen, posted>>,
         (\E p \in Proc : pc'[p] = "notify") <=> \E p \in Proc : pc[p] = "notify"
  PROVE  Rings'
<1>1. Announcing' = Announcing /\ Publishing' = Publishing
  BY Zenon DEF Announcing, Publishing
<1> QED BY <1>1, Zenon DEF Rings

\* The processes asleep on their buffers, as NoLostWakeup has them.
LEMMA SameSleepers ==
  ASSUME NoLostWakeup, UNCHANGED <<idx, bdisk, infob, busy, avail, used>>,
         \A p \in Proc : pc'[p] = "sleep" => pc[p] = "sleep",
         \A p \in Proc : pc'[p] = "sleep_desc" => Cardinality(free') < 3,
         used_idx' /= usedidx' => irq' \/ owner' = Intr
  PROVE  NoLostWakeup'
BY Zenon DEF NoLostWakeup

\* One process, or one descriptor, changes.
LEMMA OneProcess ==
  ASSUME NEW S, NEW f \in [Proc -> S], NEW p \in Proc, NEW v, NEW g, g = [f EXCEPT ![p] = v]
  PROVE  g[p] = v /\ \A q \in Proc : q /= p => g[q] = f[q]
BY Zenon

LEMMA OneChange ==
  ASSUME NEW S, NEW f \in [Desc -> S], NEW d \in Desc, NEW v
  PROVE  /\ [f EXCEPT ![d] = v][d] = v
         /\ \A x \in Desc : x /= d => [f EXCEPT ![d] = v][x] = f[x]
BY Zenon

LEMMA Parts ==
  ASSUME IInv
  PROVE  /\ TypeOK /\ ~panicked /\ Chains /\ Where /\ Data /\ LockHeld /\ Rings /\ NoLostWakeup
         /\ pc \in [Proc -> {"out", "alloc", "sleep_desc", "notify", "test", "sleep", "woken"}]
         /\ bdisk \in [Proc -> BOOLEAN] /\ write \in [Proc -> BOOLEAN]
         /\ moved \in [Proc -> SUBSET {"in", "out"}]
         /\ idx \in [Proc -> [1..3 -> Desc] \cup {<<>>}]
         /\ availidx \in 0..Wrap - 1 /\ usedidx \in 0..Wrap - 1
         /\ used_idx \in 0..Wrap - 1 /\ seen \in 0..Wrap - 1
BY Zenon DEF IInv, TypeOK

LEMMA Asleep ==
  ASSUME IInv
  PROVE  /\ \A p \in Proc : pc[p] = "sleep" => bdisk[p]
         /\ \A p \in Proc : pc[p] = "sleep_desc" => Cardinality(free) < 3
         /\ used_idx /= usedidx => irq \/ owner = Intr
BY Zenon DEF IInv, NoLostWakeup

\* A process calls.
LEMMA Call ==
  ASSUME IInv, NEW p \in Proc, NEW w \in BOOLEAN, virtio_disk_rw(p, w)
  PROVE  IInv'
<1>1. /\ pc[p] = "out" /\ pc' = [pc EXCEPT ![p] = "alloc"]
      /\ write' = [write EXCEPT ![p] = w] /\ moved' = [moved EXCEPT ![p] = {}]
  BY Zenon DEF virtio_disk_rw
<1>2. /\ UNCHANGED <<driver, idx, bdisk, avail, used, busy, status, infob, free, owner, irq>>
      /\ UNCHANGED <<used_idx, usedidx, availidx, seen, posted, panicked, desc, ops>>
  BY Zenon DEF virtio_disk_rw, driver, rings, device
<1>3. TypeOK'
  BY <1>1, <1>2, Zenon DEF IInv, TypeOK
<1>4. /\ pc'[p] = "alloc" /\ moved'[p] = {}
      /\ \A q \in Proc : q /= p => pc'[q] = pc[q] /\ write'[q] = write[q] /\ moved'[q] = moved[q]
  BY <1>1, Parts, OneProcess, Zenon
<1>5. \A q \in Proc : q \in InFlight' <=> q \in InFlight
  BY <1>1, <1>4, Zenon DEF InFlight
<1>6. InFlight' = InFlight /\ p \notin InFlight
  BY <1>1, <1>5, Zenon DEF InFlight
<1>7. \A q \in InFlight : q \in Proc /\ write'[q] = write[q] /\ moved'[q] = moved[q]
  BY <1>4, <1>6, Zenon DEF InFlight
<1>8. Chains' /\ Where'
  BY <1>2, <1>6, <1>7, Parts, SameChains, SameWhere, Zenon
<1>9. Data'
  <2>1. \A q \in Proc : pc'[q] \in {"alloc", "sleep_desc"} => moved'[q] = {}
    BY <1>4, Parts, Zenon DEF Data
  <2> QED BY <1>2, <1>6, <1>7, <2>1, Parts, SameData, Zenon
<1>10. LockHeld'
  BY <1>1, <1>2, <1>4, Parts, Zenon DEF LockHeld
<1>11. (\E q \in Proc : pc'[q] = "notify") <=> \E q \in Proc : pc[q] = "notify"
  BY <1>1, <1>4, Zenon
<1>13. Rings'
  BY <1>2, <1>11, Parts, SameRings, Zenon
<1>14. NoLostWakeup'
  <2>1. \A q \in Proc : pc'[q] = "sleep" => pc[q] = "sleep"
    BY <1>4, Zenon
  <2>2. \A q \in Proc : pc'[q] = "sleep_desc" => Cardinality(free') < 3
    BY <1>2, <1>4, Asleep, Zenon
  <2>3. used_idx' /= usedidx' => irq' \/ owner' = Intr
    BY <1>2, Asleep, Zenon
  <2> QED BY <1>2, <2>1, <2>2, <2>3, Parts, SameSleepers, Zenon
<1> QED BY <1>2, <1>3, <1>8, <1>9, <1>10, <1>13, <1>14, Parts, Zenon DEF IInv

\* alloc3_desc fails: with fewer than three descriptors free the process may
\* sleep.
LEMMA AllocFails ==
  ASSUME IInv, NEW p \in Proc, alloc_fails(p)
  PROVE  IInv'
<1> DEFINE Waits == {"alloc", "sleep_desc"}
<1>1. /\ pc[p] = "alloc" /\ Cardinality(free) < 3
      /\ pc' = IF free = {} THEN [pc EXCEPT ![p] = "sleep_desc"] ELSE WakeFree(p, "sleep_desc")
  BY Zenon DEF alloc_fails
<1>2. /\ UNCHANGED <<driver, idx, bdisk, avail, used, busy, status, infob, free, owner, irq>>
      /\ UNCHANGED <<used_idx, usedidx, availidx, seen, posted, panicked, desc, ops, write, moved>>
  BY Zenon DEF alloc_fails, driver, rings, device
<1>3. /\ pc' \in [Proc -> {"out", "alloc", "sleep_desc", "notify", "test", "sleep", "woken"}]
      /\ \A q \in Proc : pc'[q] = pc[q] \/ (pc[q] \in Waits /\ pc'[q] \in Waits)
  <2>1. CASE free = {}
    <3>1. pc' = [pc EXCEPT ![p] = "sleep_desc"]
      BY <1>1, <2>1, Zenon
    <3>2. pc'[p] = "sleep_desc" /\ \A q \in Proc : q /= p => pc'[q] = pc[q]
      BY <3>1, Parts, OneProcess, Zenon
    <3> QED BY <1>1, <3>1, <3>2, Parts, Zenon
  <2>2. CASE free /= {}
    <3>1. pc' = WakeFree(p, "sleep_desc")
      BY <1>1, <2>2, Zenon
    <3> QED BY <1>1, <3>1, Parts DEF WakeFree
  <2> QED BY <2>1, <2>2, Zenon
<1>4. TypeOK'
  BY <1>2, <1>3, Parts, Zenon DEF TypeOK
<1>5. InFlight' = InFlight
  <2>1. \A q \in Proc : q \in InFlight' <=> q \in InFlight
    BY <1>3, Zenon DEF InFlight
  <2> QED BY <2>1, Zenon DEF InFlight
<1>6. Chains' /\ Where'
  BY <1>2, <1>5, Parts, SameChains, SameWhere, Zenon
<1>7. Data'
  <2>1. \A q \in Proc : pc'[q] \in {"alloc", "sleep_desc"} => moved'[q] = {}
    BY <1>2, <1>3, Parts, Zenon DEF Data
  <2> QED BY <1>2, <1>5, <2>1, Parts, SameData, Zenon
<1>8. LockHeld'
  <2>1. \A q \in Proc : pc'[q] \in {"notify", "test"} <=> pc[q] \in {"notify", "test"}
    BY <1>3, Zenon
  <2> QED BY <1>2, <2>1, Parts, Zenon DEF LockHeld
<1>9. Rings'
  <2>1. \A q \in Proc : pc'[q] = "notify" <=> pc[q] = "notify"
    BY <1>3, Zenon
  <2> QED BY <1>2, <2>1, Parts, SameRings, Zenon
<1>10. NoLostWakeup'
  <2>1. \A q \in Proc : pc'[q] = "sleep" => pc[q] = "sleep"
    BY <1>3, Zenon
  <2>2. Cardinality(free') < 3
    BY <1>1, <1>2, Zenon
  <2>3. used_idx' /= usedidx' => irq' \/ owner' = Intr
    BY <1>2, Asleep, Zenon
  <2> QED BY <1>2, <2>1, <2>2, <2>3, Parts, SameSleepers, Zenon
<1> QED BY <1>2, <1>4, <1>6, <1>7, <1>8, <1>9, <1>10, Parts, Zenon DEF IInv

\* The driver's index moves past the head it has put in the ring.
LEMMA Notify ==
  ASSUME IInv, NEW p \in Proc, notify(p)
  PROVE  IInv'
<1>1. pc[p] = "notify" /\ pc' = [pc EXCEPT ![p] = "test"] /\ availidx' = (availidx + 1) % Wrap
  BY Zenon DEF notify, Plus1
<1>2. /\ UNCHANGED <<driver, idx, bdisk, avail, used, busy, status, infob, free, owner, irq>>
      /\ UNCHANGED <<used_idx, usedidx, seen, posted, panicked, desc, ops, write, moved>>
  BY Zenon DEF notify, driver, device
<1>3. pc'[p] = "test" /\ \A q \in Proc : q /= p => pc'[q] = pc[q]
  BY <1>1, Parts, OneProcess, Zenon
<1>4. InFlight' = InFlight
  <2>1. \A q \in Proc : q \in InFlight' <=> q \in InFlight
    BY <1>1, <1>3, Zenon DEF InFlight
  <2> QED BY <2>1, Zenon DEF InFlight
<1>5. Chains' /\ Where'
  BY <1>2, <1>4, Parts, SameChains, SameWhere, Zenon
<1>6. Data'
  <2>1. \A q \in Proc : pc'[q] \in {"alloc", "sleep_desc"} => moved'[q] = {}
    BY <1>2, <1>3, Parts, Zenon DEF Data
  <2> QED BY <1>2, <1>4, <2>1, Parts, SameData, Zenon
<1>7. LockHeld'
  BY <1>1, <1>2, <1>3, Parts, Zenon DEF LockHeld
<1>8. Announcing = 1 /\ Announcing' = 0 /\ Publishing' = Publishing
  <2>1. \A q \in Proc : pc[q] = "notify" => q = p
    BY <1>1, Parts, ZenonT(30) DEF LockHeld
  <2>2. ~\E q \in Proc : pc'[q] = "notify"
    BY <1>3, <2>1, Zenon
  <2> QED BY <1>1, <1>2, <2>2, Zenon DEF Announcing, Publishing
<1>9. availidx' \in 0..Wrap - 1 /\ Filled(avail, seen, availidx', 0)
  <2>1. seen \in 0..Wrap - 1 /\ Filled(avail, seen, availidx, 1)
    BY <1>8, Parts, Zenon DEF Rings, TypeOK
  <2> QED BY <1>1, <2>1, RingPublish, Zenon
<1>10. Rings'
  BY <1>2, <1>8, <1>9, Parts, Zenon DEF Rings
<1>11. TypeOK'
  <2>1. {availidx', usedidx', used_idx', seen'} \subseteq 0..Wrap - 1
    BY <1>2, <1>9, Parts, Zenon
  <2>2. pc' \in [Proc -> {"out", "alloc", "sleep_desc", "notify", "test", "sleep", "woken"}]
    BY <1>1, Parts, Zenon
  <2> QED BY <1>2, <2>1, <2>2, Parts, Zenon DEF TypeOK
<1>12. NoLostWakeup'
  <2>1. \A q \in Proc : pc'[q] = "sleep" => pc[q] = "sleep"
    BY <1>3, Zenon
  <2>2. \A q \in Proc : pc'[q] = "sleep_desc" => Cardinality(free') < 3
    BY <1>2, <1>3, Asleep, Zenon
  <2>3. used_idx' /= usedidx' => irq' \/ owner' = Intr
    BY <1>2, Asleep, Zenon
  <2> QED BY <1>2, <2>1, <2>2, <2>3, Parts, SameSleepers, Zenon
<1> QED BY <1>2, <1>5, <1>6, <1>7, <1>10, <1>11, <1>12, Parts, Zenon DEF IInv

\* The process sleeps while the disk owns its buffer: its request is somewhere.
LEMMA Wait ==
  ASSUME IInv, NEW p \in Proc, wait(p)
  PROVE  IInv'
<1>1. /\ pc[p] \in {"test", "woken"} /\ bdisk[p] /\ pc' = [pc EXCEPT ![p] = "sleep"]
      /\ owner' = None /\ owner \in {p, None} /\ (pc[p] = "test" <=> owner = p)
  <2>1. p /= None
    BY DiskAssumption, Zenon
  <2> QED BY <2>1, Zenon DEF wait, HasLock
<1>2. /\ UNCHANGED <<driver, idx, bdisk, avail, used, busy, status, infob, free, irq, availidx>>
      /\ UNCHANGED <<used_idx, usedidx, seen, posted, panicked, desc, ops, write, moved>>
  BY Zenon DEF wait, driver, device, rings
<1>3. pc'[p] = "sleep" /\ \A q \in Proc : q /= p => pc'[q] = pc[q]
  BY <1>1, Parts, OneProcess, Zenon
<1>4. InFlight' = InFlight /\ p \in InFlight
  <2>1. \A q \in Proc : q \in InFlight' <=> q \in InFlight
    BY <1>1, <1>3, Zenon DEF InFlight
  <2> QED BY <1>1, <2>1, Zenon DEF InFlight
<1>5. Chains' /\ Where'
  BY <1>2, <1>4, Parts, SameChains, SameWhere, Zenon
<1>6. Data'
  <2>1. \A q \in Proc : pc'[q] \in {"alloc", "sleep_desc"} => moved'[q] = {}
    BY <1>2, <1>3, Parts, Zenon DEF Data
  <2> QED BY <1>2, <1>4, <2>1, Parts, SameData, Zenon
<1>7. LockHeld'
  <2>1. None \notin Proc
    BY DiskAssumption, Zenon
  <2>2. \A q \in Proc : q /= p => owner /= q
    BY <1>1, <2>1, Zenon
  <2>3. \A q \in Proc : q /= p => pc'[q] \notin {"notify", "test"}
    BY <1>3, <2>2, Parts, Zenon DEF LockHeld
  <2>4. \A q \in Proc : pc'[q] \notin {"notify", "test"} /\ owner' /= q
    BY <1>1, <1>3, <2>1, <2>3, Zenon
  <2> QED BY <2>4, Zenon DEF LockHeld
<1>8. Rings'
  <2>1. \A q \in Proc : pc'[q] = "notify" <=> pc[q] = "notify"
    BY <1>1, <1>3, Zenon
  <2> QED BY <1>2, <2>1, Parts, SameRings, Zenon
<1>9. TypeOK'
  <2>1. pc' \in [Proc -> {"out", "alloc", "sleep_desc", "notify", "test", "sleep", "woken"}]
    BY <1>1, Parts, Zenon
  <2>2. owner' \in Proc \cup {Intr, None}
    BY <1>1, Zenon
  <2> QED BY <1>2, <2>1, <2>2, Parts, Zenon DEF TypeOK
<1>10. NoLostWakeup'
  <2>1. /\ bdisk[p] /\ infob[idx[p][1]] = p
        /\ idx[p][1] \in busy \/ \E k \in Desc : idx[p][1] \in {avail[k], used[k]}
    <3>1. idx[p][1] \in Offered \cup busy \cup Returned
      BY <1>1, <1>4, Parts, Zenon DEF Where
    <3>2. infob[idx[p][1]] = p
      BY <1>4, Parts, Zenon DEF Chains, Formed
    <3> QED BY <1>1, <3>1, <3>2, Zenon DEF Offered, Returned, Heads
  <2>2. \A q \in Proc : pc'[q] = "sleep_desc" => Cardinality(free') < 3
    BY <1>2, <1>3, Asleep, Zenon
  <2>3. used_idx' /= usedidx' => irq' \/ owner' = Intr
    <3>1. owner /= Intr
      BY <1>1, DiskAssumption, Zenon
    <3> QED BY <1>2, <3>1, Asleep, Zenon
  <2>4. ASSUME NEW q \in Proc, pc'[q] = "sleep"
        PROVE  /\ bdisk[q] /\ infob[idx[q][1]] = q
               /\ idx[q][1] \in busy \/ \E k \in Desc : idx[q][1] \in {avail[k], used[k]}
    <3>1. q = p \/ pc[q] = "sleep"
      BY <1>3, <2>4, Zenon
    <3> QED BY <2>1, <3>1, Parts, Zenon DEF NoLostWakeup
  <2> QED BY <1>2, <2>2, <2>3, <2>4, Zenon DEF NoLostWakeup
<1> QED BY <1>2, <1>5, <1>6, <1>7, <1>8, <1>9, <1>10, Parts, Zenon DEF IInv

\* The interrupt handler takes the lock and acknowledges, and lets go of the lock
\* when it has seen everything.
LEMMA Handling ==
  ASSUME IInv, virtio_disk_intr \/ intr_done
  PROVE  IInv'
<1>1. \/ owner = None /\ owner' = Intr /\ irq' = FALSE
      \/ owner = Intr /\ owner' = None /\ irq' = irq /\ used_idx = usedidx
  BY Zenon DEF virtio_disk_intr, intr_done
<1>2. /\ UNCHANGED <<driver, idx, bdisk, avail, used, busy, status, infob, free, pc, availidx>>
      /\ UNCHANGED <<used_idx, usedidx, seen, posted, panicked, desc, ops, write, moved>>
  BY Zenon DEF virtio_disk_intr, intr_done, driver, device, rings
<1>3. InFlight' = InFlight
  BY <1>2, Zenon DEF InFlight
<1>4. Chains' /\ Where'
  BY <1>2, <1>3, Parts, SameChains, SameWhere, Zenon
<1>5. Data'
  BY <1>2, <1>3, Parts, SameData, Zenon DEF Data
<1>6. LockHeld'
  <2>1. \A q \in Proc : owner /= q /\ owner' /= q
    BY <1>1, DiskAssumption, Zenon
  <2> QED BY <1>2, <2>1, Parts, Zenon DEF LockHeld
<1>7. Rings'
  BY <1>2, Parts, SameRings, Zenon
<1>8. TypeOK'
  <2>1. irq' \in BOOLEAN /\ owner' \in Proc \cup {Intr, None}
    BY <1>1, Parts, Zenon DEF TypeOK
  <2> QED BY <1>2, <2>1, Parts, Zenon DEF TypeOK
<1>9. NoLostWakeup'
  BY <1>1, <1>2, Parts, Zenon DEF NoLostWakeup
<1> QED BY <1>2, <1>4, <1>5, <1>6, <1>7, <1>8, <1>9, Parts, Zenon DEF IInv

\* The device's index moves past the head it has put in the ring, and the
\* interrupt follows.
LEMMA Publish ==
  ASSUME IInv, dev_publish
  PROVE  IInv'
<1>1. posted /\ posted' = FALSE /\ irq' = TRUE /\ usedidx' = (usedidx + 1) % Wrap
  BY Zenon DEF dev_publish
<1>2. /\ UNCHANGED <<driver, idx, bdisk, avail, used, busy, status, infob, free, pc, availidx>>
      /\ UNCHANGED <<used_idx, seen, owner, panicked, desc, ops, write, moved>>
  BY Zenon DEF dev_publish, driver
<1>3. InFlight' = InFlight
  BY <1>2, Zenon DEF InFlight
<1>4. Chains' /\ Where'
  BY <1>2, <1>3, Parts, SameChains, SameWhere, Zenon
<1>5. Data'
  BY <1>2, <1>3, Parts, SameData, Zenon DEF Data
<1>6. LockHeld'
  BY <1>2, Parts, Zenon DEF LockHeld
<1>7. usedidx' \in 0..Wrap - 1 /\ Filled(used, used_idx, usedidx', 0)
  <2>1. used_idx \in 0..Wrap - 1 /\ Filled(used, used_idx, usedidx, 1)
    BY <1>1, Parts, Zenon DEF Rings, TypeOK, Publishing
  <2> QED BY <1>1, <2>1, RingPublish, Zenon
<1>8. Rings'
  <2>1. Announcing' = Announcing /\ Publishing' = 0
    BY <1>1, <1>2, Zenon DEF Announcing, Publishing
  <2> QED BY <1>2, <1>7, <2>1, Parts, Zenon DEF Rings
<1>9. TypeOK'
  <2>1. {availidx', usedidx', used_idx', seen'} \subseteq 0..Wrap - 1
    BY <1>2, <1>7, Parts, Zenon
  <2>2. irq' \in BOOLEAN /\ posted' \in BOOLEAN
    BY <1>1, Zenon
  <2> QED BY <1>2, <2>1, <2>2, Parts, Zenon DEF TypeOK
<1>10. NoLostWakeup'
  BY <1>1, <1>2, Parts, Zenon DEF NoLostWakeup
<1> QED BY <1>2, <1>4, <1>5, <1>6, <1>8, <1>9, <1>10, Parts, Zenon DEF IInv

----------------------------------------------------------------------------
(* Heads in the rings, and whose they are. *)

LEMMA HeadTaken ==
  ASSUME NEW ring \in [Desc -> Desc \cup {None}], Once(ring), NEW c \in Desc, ring[c] \in Desc,
         NEW r, r = [ring EXCEPT ![c] = None]
  PROVE  /\ ring[c] \in Heads(ring) /\ Heads(r) = Heads(ring) \ {ring[c]} /\ Once(r)
         /\ r \in [Desc -> Desc \cup {None}]
<1>1. None \notin Desc
  BY DiskAssumption, Zenon DEF Desc
<1>2. r[c] = None /\ \A k \in Desc : k /= c => r[k] = ring[k]
  BY Zenon
<1>3. ASSUME NEW h \in Desc PROVE h \in Heads(r) <=> h \in Heads(ring) /\ h /= ring[c]
  BY <1>1, <1>2, Zenon DEF Heads, Once
<1>4. Once(r)
  BY <1>2, Zenon DEF Once
<1> QED BY <1>3, <1>4, Zenon DEF Heads

LEMMA HeadPosted ==
  ASSUME NEW ring \in [Desc -> Desc \cup {None}], Once(ring), NEW c \in Desc, ring[c] = None,
         NEW h \in Desc, h \notin Heads(ring)
  PROVE  /\ Heads([ring EXCEPT ![c] = h]) = Heads(ring) \cup {h}
         /\ Once([ring EXCEPT ![c] = h]) /\ [ring EXCEPT ![c] = h] \in [Desc -> Desc \cup {None}]
<1> DEFINE r == [ring EXCEPT ![c] = h]
<1>1. None \notin Desc
  BY DiskAssumption, Zenon DEF Desc
<1>2. r[c] = h /\ \A k \in Desc : k /= c => r[k] = ring[k]
  BY Zenon
<1>0. r \in [Desc -> Desc \cup {None}]
  BY Zenon
<1> HIDE DEF r
<1>3. ASSUME NEW x \in Desc PROVE x \in Heads(r) <=> x \in Heads(ring) \/ x = h
  BY <1>1, <1>2, Zenon DEF Heads
<1>4. \A k \in Desc : ring[k] /= h
  BY Zenon DEF Heads
<1>5. Once(r)
  BY <1>2, <1>4, ZenonT(30) DEF Once
<1>6. Heads(r) = Heads(ring) \cup {h}
  BY <1>3, Zenon DEF Heads
<1> QED BY <1>0, <1>5, <1>6, Zenon DEF r

\* A request is known by its head, and no other descriptor is a head.
LEMMA OneRequest ==
  ASSUME Chains, NEW p \in InFlight, NEW q \in InFlight,
         idx[q][1] \in {idx[p][1], idx[p][2], idx[p][3]}
  PROVE  p = q /\ idx[q][1] = idx[p][1]
<1>1. idx[q][1] \in Own(q) /\ idx[q][1] \in Own(p)
  BY Zenon DEF Own
<1>2. p = q
  BY <1>1, Zenon DEF Chains
<1>3. idx[p][1] /= idx[p][2] /\ idx[p][1] /= idx[p][3]
  BY Zenon DEF Chains, Formed
<1> QED BY <1>2, <1>3, Zenon

LEMMA NotHeads ==
  ASSUME Chains, Where, NEW p \in InFlight
  PROVE  /\ idx[p][2] \notin Offered \cup busy \cup Returned
         /\ idx[p][3] \notin Offered \cup busy \cup Returned
<1>1. idx[p][1] /= idx[p][2] /\ idx[p][1] /= idx[p][3]
  BY Zenon DEF Chains, Formed
<1>2. \A h \in Offered \cup busy \cup Returned : \E q \in InFlight : idx[q][1] = h
  BY Zenon DEF Where
<1>3. ASSUME NEW d \in {idx[p][2], idx[p][3]}, d \in Offered \cup busy \cup Returned PROVE FALSE
  <2>1. PICK q \in InFlight : idx[q][1] = d
    BY <1>2, <1>3, Zenon
  <2>2. idx[q][1] \in {idx[p][1], idx[p][2], idx[p][3]}
    BY <2>1, Zenon
  <2>3. idx[q][1] = idx[p][1]
    BY <2>2, OneRequest, Zenon
  <2> QED BY <1>1, <2>1, <2>3, Zenon
<1> QED BY <1>3, Zenon

\* A process asleep on a buffer that the disk owns has a request, and that is
\* somewhere.
LEMMA SleepersFound ==
  ASSUME Chains', Where', \A p \in Proc : pc'[p] = "sleep" => bdisk'[p],
         \A p \in Proc : pc'[p] = "sleep_desc" => Cardinality(free') < 3,
         used_idx' /= usedidx' => irq' \/ owner' = Intr
  PROVE  NoLostWakeup'
<1>1. ASSUME NEW p \in Proc, pc'[p] = "sleep"
      PROVE  /\ infob'[idx'[p][1]] = p
             /\ idx'[p][1] \in busy' \/ \E k \in Desc : idx'[p][1] \in {avail'[k], used'[k]}
  <2>1. p \in InFlight' /\ bdisk'[p]
    BY <1>1, Zenon DEF InFlight
  <2>2. Formed(p)'
    BY <2>1, Zenon DEF Chains
  <2>3. infob'[idx'[p][1]] = p
    BY <2>2, Zenon DEF Formed
  <2>4. idx'[p][1] \in Offered' \cup busy' \cup Returned'
    BY <2>1, Zenon DEF Where
  <2> QED BY <2>3, <2>4, Zenon DEF Offered, Returned, Heads
<1> QED BY <1>1, Zenon DEF NoLostWakeup
----------------------------------------------------------------------------
(* The device. *)

\* It takes the next head it is offered.
LEMMA Fetch ==
  ASSUME IInv, dev_fetch
  PROVE  IInv'
<1> DEFINE c == seen % NUM
           h == avail[c]
<1>1. /\ seen /= availidx /\ busy' = busy \cup {h}
      /\ avail' = [avail EXCEPT ![c] = None] /\ seen' = (seen + 1) % Wrap
  BY Zenon DEF dev_fetch
<1>2. /\ UNCHANGED <<driver, idx, bdisk, used, status, infob, free, pc, availidx, usedidx, posted>>
      /\ UNCHANGED <<used_idx, owner, irq, panicked, desc, ops, write, moved>>
  BY Zenon DEF dev_fetch, driver
<1>3. InFlight' = InFlight
  BY <1>2, Zenon DEF InFlight
<1>4. avail \in [Desc -> Desc \cup {None}] /\ Once(avail) /\ busy \subseteq Desc
  BY Parts, Zenon DEF TypeOK, Where
<1>5. /\ c \in Desc /\ h \in Desc /\ seen' \in 0..Wrap - 1
      /\ Filled(avail', seen', availidx, Announcing)
  <2>1. Announcing \in {0, 1} /\ Filled(avail, seen, availidx, Announcing)
    BY Parts, Zenon DEF Announcing, Rings
  <2>2. seen \in 0..Wrap - 1 /\ seen /= availidx
    BY <1>1, Parts, Zenon
  <2>3. /\ seen % NUM \in Desc /\ avail[seen % NUM] \in Desc /\ (seen + 1) % Wrap \in 0..Wrap - 1
        /\ Filled([avail EXCEPT ![seen % NUM] = None], (seen + 1) % Wrap, availidx, Announcing)
    BY <1>4, <2>1, <2>2, RingTake, Zenon
  <2> QED BY <1>1, <2>3, Zenon
<1> HIDE DEF c
<1>6. /\ h \in Heads(avail) /\ Heads(avail') = Heads(avail) \ {h} /\ Once(avail')
      /\ avail' \in [Desc -> Desc \cup {None}]
  BY <1>1, <1>4, <1>5, HeadTaken, Zenon
<1> HIDE DEF h
<1>7. h \in Offered /\ Offered' = Offered \ {h} /\ Returned' = Returned
  BY <1>2, <1>6, Zenon DEF Offered, Returned
<1>8. Chains'
  BY <1>2, <1>3, Parts, SameChains, Zenon
<1>9. Where'
  <2>1. Offered' \cup busy' \cup Returned' = Offered \cup busy \cup Returned
    BY <1>1, <1>7, Zenon
  <2>2. Offered' \cap busy' = {} /\ Offered' \cap Returned' = {} /\ busy' \cap Returned' = {}
    <3>1. Offered \cap busy = {} /\ Offered \cap Returned = {} /\ busy \cap Returned = {}
      BY Parts, Zenon DEF Where
    <3> QED BY <1>1, <1>7, <3>1, Zenon
  <2>3. \A x \in Offered' \cup busy' \cup Returned' : \E p \in InFlight : bdisk[p] /\ idx[p][1] = x
    BY <2>1, Parts, Zenon DEF Where
  <2>4. \A p \in InFlight : bdisk[p] => idx[p][1] \in Offered' \cup busy' \cup Returned'
    BY <2>1, Parts, Zenon DEF Where
  <2>5. Once(avail') /\ Once(used')
    BY <1>2, <1>6, Parts, Zenon DEF Where
  <2> QED BY <1>2, <1>3, <2>2, <2>3, <2>4, <2>5, Zenon DEF Where
<1>10. Data'
  BY <1>2, <1>3, Parts, SameData, Zenon DEF Data
<1>11. LockHeld'
  BY <1>2, Parts, Zenon DEF LockHeld
<1>12. Rings'
  <2>1. Announcing' = Announcing /\ Publishing' = Publishing
    BY <1>2, Zenon DEF Announcing, Publishing
  <2> QED BY <1>2, <1>5, <2>1, Parts, Zenon DEF Rings
<1>13. TypeOK'
  <2>1. {availidx', usedidx', used_idx', seen'} \subseteq 0..Wrap - 1
    BY <1>2, <1>5, Parts, Zenon
  <2>2. busy' \subseteq Desc
    BY <1>1, <1>4, <1>5, Zenon
  <2> QED BY <1>2, <1>6, <2>1, <2>2, Parts, Zenon DEF TypeOK
<1>14. NoLostWakeup'
  BY <1>2, <1>8, <1>9, Parts, SleepersFound, Zenon DEF NoLostWakeup
<1> QED BY <1>2, <1>8, <1>9, <1>10, <1>11, <1>12, <1>13, <1>14, Parts, Zenon DEF IInv

\* What the device and free_chain find in the chain of a request.
LEMMA ChainRead ==
  ASSUME NEW p \in Proc, Formed(p), write[p] \in BOOLEAN
  PROVE  LET h == idx[p][1]
             d == desc[h].next
             s == desc[d].next
         IN /\ d = idx[p][2] /\ s = idx[p][3]
            /\ desc[h].flags = {"NEXT"} /\ desc[d].flags = DataFlags(p)
            /\ desc[s].flags = {"WRITE"}
            /\ desc[d].addr = p /\ desc[s].addr = h
            /\ (IF "WRITE" \in desc[d].flags THEN "in" ELSE "out") = Dir(p)
            /\ "NEXT" \in desc[d].flags
<1> DEFINE h == idx[p][1]
           d == idx[p][2]
           s == idx[p][3]
<1>1. /\ desc[h] = [addr |-> h, next |-> d, flags |-> {"NEXT"}]
      /\ desc[d] = [addr |-> p, next |-> s, flags |-> DataFlags(p)]
      /\ desc[s] = [addr |-> h, next |-> 0, flags |-> {"WRITE"}]
  BY Zenon DEF Formed
<1> HIDE DEF h, d, s
<1>2. /\ desc[h].next = d /\ desc[h].flags = {"NEXT"}
      /\ desc[d].addr = p /\ desc[d].next = s /\ desc[d].flags = DataFlags(p)
      /\ desc[s].addr = h /\ desc[s].flags = {"WRITE"}
  BY <1>1
<1>3. /\ (IF "WRITE" \in DataFlags(p) THEN "in" ELSE "out") = Dir(p)
      /\ "NEXT" \in DataFlags(p)
  <2>1. CASE write[p]
    BY <2>1 DEF DataFlags, Dir
  <2>2. CASE ~write[p]
    BY <2>2 DEF DataFlags, Dir
  <2> QED BY <2>1, <2>2, Zenon
<1> QED BY <1>2, <1>3, Zenon DEF h, d, s

\* The device finishes a request: it never refuses one, and moves its data once.
LEMMA DevFinish ==
  ASSUME IInv, Room, NEW h \in Desc, dev_finish(h)
  PROVE  IInv'
<1> DEFINE c == usedidx % NUM
<1>1. h \in busy /\ posted = FALSE
  BY Parts, Zenon DEF dev_finish, TypeOK
<1>2. PICK p \in InFlight : bdisk[p] /\ idx[p][1] = h
  BY <1>1, Parts, Zenon DEF Where
<1>3. p \in Proc /\ Formed(p) /\ write[p] \in BOOLEAN
  BY Parts, Zenon DEF Chains, InFlight
<1>4. /\ busy' = busy \ {h} /\ posted' = TRUE /\ used' = [used EXCEPT ![c] = h]
      /\ status' = [status EXCEPT ![h] = 0]
      /\ moved' = [moved EXCEPT ![p] = @ \cup {Dir(p)}]
  <2> DEFINE d == desc[h].next
             s == desc[d].next
             dir == IF "WRITE" \in desc[d].flags THEN "in" ELSE "out"
  <2>1. /\ dir = Dir(p) /\ ops[h] = Dir(p) /\ desc[d].addr = p
        /\ "WRITE" \in desc[s].flags /\ desc[s].addr = h
    <3>1. ops[h] = Dir(p)
      BY <1>2, <1>3, Zenon DEF Formed
    <3>2. /\ dir = Dir(p) /\ desc[d].addr = p
          /\ desc[s].flags = {"WRITE"} /\ desc[s].addr = h
      BY <1>2, <1>3, ChainRead, Zenon
    <3> QED BY <3>1, <3>2, Zenon
  <2>2. /\ busy' = busy \ {h} /\ posted' = TRUE /\ used' = [used EXCEPT ![c] = h]
        /\ IF dir = ops[h] /\ desc[d].addr \in Proc /\ "WRITE" \in desc[s].flags
           THEN /\ status' = [status EXCEPT ![desc[s].addr] = 0]
                /\ moved' = [moved EXCEPT ![desc[d].addr] = @ \cup {dir}]
           ELSE UNCHANGED <<status, moved>>
    BY Zenon DEF dev_finish
  <2> HIDE DEF d, s, dir
  <2> QED BY <1>3, <2>1, <2>2, Zenon
<1>5. /\ UNCHANGED <<driver, idx, bdisk, avail, seen, infob, free, pc, availidx, usedidx>>
      /\ UNCHANGED <<used_idx, owner, irq, panicked, desc, ops, write>>
  BY Zenon DEF dev_finish, driver
<1>6. InFlight' = InFlight
  BY <1>5, Zenon DEF InFlight
<1>7. /\ used \in [Desc -> Desc \cup {None}] /\ Once(used) /\ h \notin Offered /\ h \notin Returned
      /\ status \in [Desc -> {0, 255}]
  BY <1>1, Parts, Zenon DEF TypeOK, Where
<1>8. c \in Desc /\ used[c] = None /\ Filled(used', used_idx, usedidx, 1)
  <2>1. used_idx \in 0..Wrap - 1 /\ Filled(used, used_idx, usedidx, 0)
    BY <1>1, Parts, Zenon DEF Publishing, Rings
  <2>2. /\ idx[p][2] \in Desc /\ idx[p][3] \in Desc /\ idx[p][2] /= idx[p][3]
        /\ idx[p][2] \notin Returned /\ idx[p][3] \notin Returned
    BY <1>3, Parts, NotHeads, Zenon DEF Formed
  <2> DEFINE a == idx[p][2]
             b == idx[p][3]
  <2>3. a \in Desc /\ b \in Desc /\ a /= b /\ \A k \in Desc : used[k] \notin {a, b}
    BY <2>2, Zenon DEF Returned, Heads
  <2> HIDE DEF a, b
  <2>4. /\ usedidx % NUM \in Desc /\ used[usedidx % NUM] = None
        /\ Filled([used EXCEPT ![usedidx % NUM] = h], used_idx, usedidx, 1)
    BY <1>7, <2>1, <2>3, RingPost, Zenon
  <2> QED BY <1>4, <2>4, Zenon
<1> HIDE DEF c
<1>9. /\ Heads(used') = Heads(used) \cup {h} /\ Once(used')
      /\ used' \in [Desc -> Desc \cup {None}]
  <2>1. h \notin Heads(used)
    BY <1>7, Zenon DEF Returned
  <2>2. used' = [used EXCEPT ![c] = h]
    BY <1>4, Zenon
  <2>3. used \in [Desc -> Desc \cup {None}] /\ Once(used) /\ c \in Desc /\ used[c] = None
    BY <1>7, <1>8, Zenon
  <2>4. /\ Heads([used EXCEPT ![c] = h]) = Heads(used) \cup {h}
        /\ Once([used EXCEPT ![c] = h]) /\ [used EXCEPT ![c] = h] \in [Desc -> Desc \cup {None}]
    BY <2>1, <2>3, HeadPosted, Zenon
  <2> QED BY <2>2, <2>4, Zenon
<1>10. Returned' = Returned \cup {h} /\ Offered' = Offered
  BY <1>5, <1>9, Zenon DEF Returned, Offered
<1>11. Chains'
  BY <1>5, <1>6, Parts, SameChains, Zenon
<1>12. Where'
  <2>1. Offered' \cup busy' \cup Returned' = Offered \cup busy \cup Returned
    BY <1>1, <1>4, <1>10, Zenon
  <2>2. Offered' \cap busy' = {} /\ Offered' \cap Returned' = {} /\ busy' \cap Returned' = {}
    <3>1. Offered \cap busy = {} /\ Offered \cap Returned = {} /\ busy \cap Returned = {}
      BY Parts, Zenon DEF Where
    <3>2. busy' = busy \ {h} /\ h \notin Offered
      BY <1>4, <1>7, Zenon
    <3> QED BY <1>10, <3>1, <3>2, Zenon
  <2>3. \A x \in Offered' \cup busy' \cup Returned' : \E q \in InFlight : bdisk[q] /\ idx[q][1] = x
    BY <2>1, Parts, Zenon DEF Where
  <2>4. \A q \in InFlight : bdisk[q] => idx[q][1] \in Offered' \cup busy' \cup Returned'
    BY <2>1, Parts, Zenon DEF Where
  <2>5. Once(avail') /\ Once(used')
    BY <1>5, <1>9, Parts, Zenon DEF Where
  <2> QED BY <1>5, <1>6, <2>2, <2>3, <2>4, <2>5, Zenon DEF Where
<1>13. /\ moved'[p] = {Dir(p)} /\ \A q \in Proc : q /= p => moved'[q] = moved[q]
       /\ moved' \in [Proc -> SUBSET {"in", "out"}]
  <2>1. moved[p] = {}
    BY <1>2, <1>7, Parts, Zenon DEF Data
  <2>2. Dir(p) \in {"in", "out"}
    BY Zenon DEF Dir
  <2>3. moved' = [moved EXCEPT ![p] = moved[p] \cup {Dir(p)}]
    BY <1>4, Zenon
  <2>4. moved[p] \cup {Dir(p)} = {Dir(p)}
    BY <2>1, Zenon
  <2>5. moved' = [moved EXCEPT ![p] = {Dir(p)}] /\ {Dir(p)} \in SUBSET {"in", "out"}
    BY <2>2, <2>3, <2>4, Zenon
  <2> QED BY <1>3, <2>5, Parts, Zenon
<1>14. Data'
  <2>1. \A q \in Proc : pc'[q] \in {"alloc", "sleep_desc"} => moved'[q] = {}
    <3>1. pc[p] \notin {"alloc", "sleep_desc"}
      BY Zenon DEF InFlight
    <3> QED BY <1>5, <1>13, <3>1, Parts, Zenon DEF Data
  <2>2. ASSUME NEW q \in InFlight
        PROVE  moved'[q] = IF bdisk[q] /\ idx[q][1] \notin Returned' THEN {} ELSE {Dir(q)}
    <3>1. CASE q = p
      BY <1>2, <1>10, <1>13, <3>1, Zenon
    <3>2. CASE q /= p
      <4>1. idx[q][1] \notin {idx[p][1], idx[p][2], idx[p][3]} /\ q \in Proc
        BY <3>2, Parts, OneRequest, Zenon DEF InFlight
      <4>2. idx[q][1] \in Returned' <=> idx[q][1] \in Returned
        BY <1>2, <1>10, <4>1, Zenon
      <4>3. moved[q] = IF bdisk[q] /\ idx[q][1] \notin Returned THEN {} ELSE {Dir(q)}
        BY Parts, Zenon DEF Data
      <4> QED BY <1>13, <3>2, <4>1, <4>2, <4>3, Zenon
    <3> QED BY <3>1, <3>2, Zenon
  <2>3. \A x \in Returned' : status'[x] = 0
    <3>1. \A x \in Returned : x \in Desc
      BY Zenon DEF Returned, Heads
    <3>2. \A x \in Returned : status[x] = 0
      BY Parts, Zenon DEF Data
    <3>3. status'[h] = 0 /\ \A x \in Desc : x /= h => status'[x] = status[x]
      <4>1. status' = [status EXCEPT ![h] = 0] /\ status \in [Desc -> {0, 255}]
        BY <1>4, <1>7, Zenon
      <4> QED BY <4>1, OneChange, Zenon
    <3> QED BY <1>10, <3>1, <3>2, <3>3, Zenon
  <2>4. \A q : Dir(q)' = Dir(q)
    BY <1>5, Zenon DEF Dir
  <2> QED BY <1>5, <1>6, <2>1, <2>2, <2>3, <2>4, Zenon DEF Data
<1>15. LockHeld'
  BY <1>5, Parts, Zenon DEF LockHeld
<1>16. Rings'
  <2>1. Announcing' = Announcing /\ Publishing' = 1
    BY <1>4, <1>5, Zenon DEF Announcing, Publishing
  <2> QED BY <1>5, <1>8, <2>1, Parts, Zenon DEF Rings
<1>17. TypeOK'
  <2>1. busy' \subseteq Desc /\ posted' \in BOOLEAN /\ status' \in [Desc -> {0, 255}]
    BY <1>4, <1>7, Parts, ZenonT(30) DEF TypeOK
  <2> QED BY <1>5, <1>9, <1>13, <2>1, Parts, Zenon DEF TypeOK
<1>18. NoLostWakeup'
  BY <1>5, <1>11, <1>12, Parts, SleepersFound, Zenon DEF NoLostWakeup
<1> QED BY <1>5, <1>11, <1>12, <1>14, <1>15, <1>16, <1>17, <1>18, Parts, Zenon DEF IInv

----------------------------------------------------------------------------
(* The interrupt handler. *)

\* The head it finds in the ring is that of a request the disk owns, with status
\* 0; so the disk does not own the buffer any more, and its process may go on.
LEMMA Entry ==
  ASSUME IInv, intr_entry
  PROVE  IInv'
<1> DEFINE c == used_idx % NUM
           h == used[c]
<1>1. /\ owner = Intr /\ used_idx /= usedidx
      /\ UNCHANGED <<driver, idx, busy, avail, seen, infob, free, availidx, usedidx>>
      /\ UNCHANGED <<posted, irq, moved, desc, ops, write, status>>
  BY Zenon DEF intr_entry, driver, device
<1>2. used \in [Desc -> Desc \cup {None}] /\ Once(used)
  BY Parts, Zenon DEF TypeOK, Where
<1>3. /\ c \in Desc /\ h \in Desc /\ (used_idx + 1) % Wrap \in 0..Wrap - 1
      /\ Filled([used EXCEPT ![c] = None], (used_idx + 1) % Wrap, usedidx, Publishing)
  <2>1. Publishing \in {0, 1} /\ Filled(used, used_idx, usedidx, Publishing)
    BY Parts, Zenon DEF Publishing, Rings
  <2>2. used_idx \in 0..Wrap - 1 /\ used_idx /= usedidx
    BY <1>1, Parts, Zenon
  <2> QED BY <1>2, <2>1, <2>2, RingTake, Zenon
<1>4. c = Ring(used_idx)
  BY Zenon DEF Ring
<1> HIDE DEF c
<1>5. h \in Returned
  BY <1>3, Zenon DEF Returned, Heads
<1>6. h /= None
  BY <1>3, DiskAssumption, Zenon DEF Desc
<1>7. PICK p \in InFlight : bdisk[p] /\ idx[p][1] = h
  BY <1>5, Parts, Zenon DEF Where
<1>8. p \in Proc /\ infob[h] = p /\ p /= None /\ status[h] = 0
  <2>1. p \in Proc /\ infob[idx[p][1]] = p
    BY Parts, Zenon DEF Chains, Formed, InFlight
  <2>2. status[h] = 0
    BY <1>5, Parts, Zenon DEF Data
  <2> QED BY <1>7, <2>1, <2>2, DiskAssumption, Zenon
<1>9. /\ bdisk' = [bdisk EXCEPT ![p] = FALSE]
      /\ pc' = [pc EXCEPT ![p] = IF pc[p] = "sleep" THEN "woken" ELSE pc[p]]
      /\ used_idx' = (used_idx + 1) % Wrap
      /\ used' = [used EXCEPT ![c] = None]
      /\ owner' = Intr
      /\ panicked' = panicked
  <2> DEFINE id == used[Ring(used_idx)]
  <2>1. \/ /\ bdisk' = [bdisk EXCEPT ![infob[id]] = FALSE]
           /\ pc' = [pc EXCEPT ![infob[id]] = IF @ = "sleep" THEN "woken" ELSE @]
           /\ used_idx' = Plus1(used_idx)
           /\ used' = [used EXCEPT ![Ring(used_idx)] = None]
           /\ owner' = Continue
           /\ panicked' = panicked
        \/ id = None \/ infob[id] = None \/ status[id] /= 0
    BY Zenon DEF intr_entry
  <2>2. id = h
    BY <1>4, Zenon
  <2> HIDE DEF id, h
  <2> QED BY <1>4, <1>6, <1>8, <2>1, <2>2, Zenon DEF Plus1, Continue
<1> HIDE DEF h
<1>10. /\ bdisk'[p] = FALSE /\ bdisk' \in [Proc -> BOOLEAN]
       /\ \A q \in Proc : q /= p => bdisk'[q] = bdisk[q] /\ pc'[q] = pc[q]
       /\ pc' \in [Proc -> {"out", "alloc", "sleep_desc", "notify", "test", "sleep", "woken"}]
       /\ pc'[p] = pc[p] \/ (pc[p] = "sleep" /\ pc'[p] = "woken")
       /\ pc'[p] /= "sleep"
  <2> DEFINE v == IF pc[p] = "sleep" THEN "woken" ELSE pc[p]
  <2>1. pc' = [pc EXCEPT ![p] = v] /\ bdisk' = [bdisk EXCEPT ![p] = FALSE]
    BY <1>9, Zenon
  <2>2. /\ v \in {"out", "alloc", "sleep_desc", "notify", "test", "sleep", "woken"}
        /\ v = pc[p] \/ (pc[p] = "sleep" /\ v = "woken")
        /\ v /= "sleep"
    BY <1>8, Parts, Zenon
  <2> HIDE DEF v
  <2>3. pc'[p] = v /\ \A q \in Proc : q /= p => pc'[q] = pc[q]
    BY <1>8, <2>1, Parts, OneProcess, Zenon
  <2>4. bdisk'[p] = FALSE /\ \A q \in Proc : q /= p => bdisk'[q] = bdisk[q]
    BY <1>8, <2>1, Parts, OneProcess, Zenon
  <2>5. /\ bdisk' \in [Proc -> BOOLEAN]
        /\ pc' \in [Proc -> {"out", "alloc", "sleep_desc", "notify", "test", "sleep", "woken"}]
    BY <2>1, <2>2, Parts, Zenon
  <2> QED BY <2>2, <2>3, <2>4, <2>5, Zenon
<1>11. \A q \in Proc : pc'[q] = pc[q] \/ (pc[q] = "sleep" /\ pc'[q] = "woken")
  BY <1>10, Zenon
<1>12. InFlight' = InFlight
  <2>1. \A q \in Proc : q \in InFlight' <=> q \in InFlight
    BY <1>11, Zenon DEF InFlight
  <2> QED BY <2>1, Zenon DEF InFlight
<1>13. /\ Heads(used') = Heads(used) \ {h} /\ Once(used')
       /\ used' \in [Desc -> Desc \cup {None}]
  BY <1>2, <1>3, <1>9, HeadTaken, Zenon DEF h
<1>14. Returned' = Returned \ {h} /\ Offered' = Offered
  BY <1>1, <1>13, Zenon DEF Returned, Offered
<1>15. \A q \in InFlight : q \in Proc /\ (q /= p => idx[q][1] /= h)
  BY <1>7, Parts, OneRequest, Zenon DEF InFlight
<1>16. Chains'
  BY <1>1, <1>12, Parts, SameChains, Zenon
<1>17. Where'
  <2>1. Offered \cap busy = {} /\ Offered \cap Returned = {} /\ busy \cap Returned = {}
    BY Parts, Zenon DEF Where
  <2>2. Offered' \cap busy' = {} /\ Offered' \cap Returned' = {} /\ busy' \cap Returned' = {}
    BY <1>1, <1>14, <2>1, Zenon
  <2>3. ASSUME NEW x \in Offered' \cup busy' \cup Returned'
        PROVE  \E q \in InFlight : bdisk'[q] /\ idx[q][1] = x
    <3>1. x \in Offered \cup busy \cup Returned /\ x /= h
      BY <1>1, <1>5, <1>14, <2>1, Zenon
    <3>2. PICK q \in InFlight : bdisk[q] /\ idx[q][1] = x
      BY <3>1, Parts, Zenon DEF Where
    <3> QED BY <1>7, <1>10, <1>15, <3>1, <3>2, Zenon
  <2>4. ASSUME NEW q \in InFlight, bdisk'[q]
        PROVE  idx[q][1] \in Offered' \cup busy' \cup Returned'
    <3>1. q /= p /\ bdisk[q] /\ idx[q][1] /= h
      BY <1>10, <1>15, <2>4, Zenon
    <3>2. idx[q][1] \in Offered \cup busy \cup Returned
      BY <3>1, Parts, Zenon DEF Where
    <3> QED BY <1>1, <1>14, <3>1, <3>2, Zenon
  <2>5. Once(avail') /\ Once(used')
    BY <1>1, <1>13, Parts, Zenon DEF Where
  <2> QED BY <1>1, <1>12, <2>2, <2>3, <2>4, <2>5, Zenon DEF Where
<1>18. Data'
  <2>1. \A q \in Proc : pc'[q] \in {"alloc", "sleep_desc"} => moved'[q] = {}
    BY <1>1, <1>11, Parts, Zenon DEF Data
  <2>2. ASSUME NEW q \in InFlight
        PROVE  moved[q] = IF bdisk'[q] /\ idx[q][1] \notin Returned' THEN {} ELSE {Dir(q)}
    <3>1. moved[q] = IF bdisk[q] /\ idx[q][1] \notin Returned THEN {} ELSE {Dir(q)}
      BY Parts, Zenon DEF Data
    <3>2. CASE q = p
      BY <1>5, <1>7, <1>10, <3>1, <3>2, Zenon
    <3>3. CASE q /= p
      <4>1. bdisk'[q] = bdisk[q] /\ (idx[q][1] \in Returned' <=> idx[q][1] \in Returned)
        BY <1>10, <1>14, <1>15, <3>3, Zenon
      <4> QED BY <3>1, <4>1, Zenon
    <3> QED BY <3>2, <3>3, Zenon
  <2>3. \A x \in Returned' : status'[x] = 0
    BY <1>1, <1>14, Parts, Zenon DEF Data
  <2>4. \A q : Dir(q)' = Dir(q)
    BY <1>1, Zenon DEF Dir
  <2> QED BY <1>1, <1>12, <2>1, <2>2, <2>3, <2>4, Zenon DEF Data
<1>19. LockHeld'
  <2>1. \A q \in Proc : pc'[q] \in {"notify", "test"} <=> pc[q] \in {"notify", "test"}
    BY <1>11, Zenon
  <2> QED BY <1>1, <1>9, <2>1, Parts, Zenon DEF LockHeld
<1>20. Rings'
  <2>1. (\E q \in Proc : pc'[q] = "notify") <=> \E q \in Proc : pc[q] = "notify"
    BY <1>11, Zenon
  <2>2. Announcing' = Announcing /\ Publishing' = Publishing
    BY <1>1, <2>1, Zenon DEF Announcing, Publishing
  <2>3. Filled(used', used_idx', usedidx', Publishing)
    BY <1>1, <1>3, <1>9, Zenon
  <2> QED BY <1>1, <2>2, <2>3, Parts, Zenon DEF Rings
<1>21. TypeOK'
  <2>1. used_idx' \in 0..Wrap - 1
    BY <1>3, <1>9, Zenon
  <2>2. {availidx', usedidx', used_idx', seen'} \subseteq 0..Wrap - 1
    BY <1>1, <2>1, Parts, Zenon
  <2>3. owner' \in Proc \cup {Intr, None} /\ panicked' = panicked
    BY <1>9, Zenon
  <2> QED BY <1>1, <1>10, <1>13, <2>2, <2>3, Parts, Zenon DEF TypeOK
<1>22. NoLostWakeup'
  <2>1. \A q \in Proc : pc'[q] = "sleep" => bdisk'[q]
    BY <1>10, Asleep, Zenon
  <2>2. \A q \in Proc : pc'[q] = "sleep_desc" => Cardinality(free') < 3
    BY <1>1, <1>11, Asleep, Zenon
  <2> QED BY <1>9, <1>16, <1>17, <2>1, <2>2, SleepersFound, Zenon
<1> QED BY <1>9, <1>16, <1>17, <1>18, <1>19, <1>20, <1>21, <1>22, Parts, Zenon DEF IInv

----------------------------------------------------------------------------
(* Descriptors change hands. *)

\* A request is not disturbed by what happens to other descriptors.
LEMMA FormedKept ==
  ASSUME NEW q, Formed(q), idx'[q] = idx[q], write'[q] = write[q],
         \A d \in Own(q) : /\ d \notin free' /\ desc'[d] = desc[d]
                           /\ infob'[d] = infob[d] /\ ops'[d] = ops[d]
  PROVE  Formed(q)' /\ Own(q)' = Own(q)
<1>1. DataFlags(q)' = DataFlags(q) /\ Dir(q)' = Dir(q) /\ Own(q)' = Own(q)
  BY Zenon DEF DataFlags, Dir, Own
<1>2. \A d \in {idx[q][1], idx[q][2], idx[q][3]} :
         d \notin free' /\ desc'[d] = desc[d] /\ infob'[d] = infob[d] /\ ops'[d] = ops[d]
  BY Zenon DEF Own
<1>3. /\ idx[q][1] \notin free' /\ idx[q][2] \notin free' /\ idx[q][3] \notin free'
      /\ desc'[idx[q][1]] = desc[idx[q][1]] /\ desc'[idx[q][2]] = desc[idx[q][2]]
      /\ desc'[idx[q][3]] = desc[idx[q][3]]
      /\ infob'[idx[q][1]] = infob[idx[q][1]] /\ ops'[idx[q][1]] = ops[idx[q][1]]
  BY <1>2, Zenon
<1> QED BY <1>1, <1>3, ZenonT(30) DEF Formed

\* The descriptors of a request are not free.
LEMMA OwnNotFree ==
  ASSUME Chains, NEW q \in InFlight
  PROVE  Own(q) \subseteq Desc /\ Own(q) \cap free = {} /\ idx[q][1] \in Own(q)
<1>1. Formed(q)
  BY Zenon DEF Chains
<1>2. idx[q][1] \in Desc \ free /\ idx[q][2] \in Desc \ free /\ idx[q][3] \in Desc \ free
  BY <1>1, Zenon DEF Formed
<1> QED BY <1>2, Zenon DEF Own

\* A request begins: three descriptors that were free are its own, and its head
\* is in the ring, though the device may not look at it yet.
LEMMA Submit ==
  ASSUME IInv, Room, Allocates, NEW p \in Proc, submit(p)
  PROVE  IInv'
<1> DEFINE t == alloc3_desc
           a == t[1]
           b == t[2]
           c == t[3]
           k == availidx % NUM
           Entry1 == [addr |-> a, next |-> b, flags |-> {"NEXT"}]
           Entry2 == [addr |-> p, next |-> c, flags |-> DataFlags(p)]
           Entry3 == [addr |-> a, next |-> 0, flags |-> {"WRITE"}]
<1>1. pc[p] = "alloc" /\ owner = None /\ Cardinality(free) >= 3
  BY Zenon DEF submit
<1>2. owner' = p /\ free' = free \ {a, b, c} /\ idx' = [idx EXCEPT ![p] = t]
  BY Zenon DEF submit
<1>3. /\ ops' = [ops EXCEPT ![a] = Dir(p)] /\ status' = [status EXCEPT ![a] = 255]
      /\ infob' = [infob EXCEPT ![a] = p] /\ avail' = [avail EXCEPT ![k] = a]
  BY Zenon DEF submit, Dir, Ring
<1>4. desc' = [desc EXCEPT ![a] = Entry1, ![b] = Entry2, ![c] = Entry3]
  BY Zenon DEF submit
<1>5. bdisk' = [bdisk EXCEPT ![p] = TRUE] /\ pc' = [pc EXCEPT ![p] = "notify"]
  BY Zenon DEF submit, Mark
<1>6. /\ UNCHANGED <<availidx, used, usedidx, used_idx, write, seen, busy, posted>>
      /\ UNCHANGED <<irq, moved, panicked>>
  BY Zenon DEF submit, device
<1>7. /\ t \in [1..3 -> Desc] /\ a \in free /\ b \in free /\ c \in free
      /\ a \in Desc /\ b \in Desc /\ c \in Desc /\ a /= b /\ a /= c /\ b /= c
  <2>1. free \subseteq Desc
    BY Parts, Zenon DEF TypeOK
  <2>2. 1 \in 1..3 /\ 2 \in 1..3 /\ 3 \in 1..3
    OBVIOUS
  <2> QED BY <1>1, <2>1, <2>2, Zenon DEF Allocates
<1> HIDE DEF t, k
<1>8. /\ idx'[p] = t /\ bdisk'[p] = TRUE /\ pc'[p] = "notify"
      /\ \A q \in Proc : q /= p => idx'[q] = idx[q] /\ bdisk'[q] = bdisk[q] /\ pc'[q] = pc[q]
  <2>1. idx'[p] = t /\ \A q \in Proc : q /= p => idx'[q] = idx[q]
    BY <1>2, Parts, OneProcess, Zenon
  <2>2. bdisk'[p] = TRUE /\ \A q \in Proc : q /= p => bdisk'[q] = bdisk[q]
    BY <1>5, Parts, OneProcess, Zenon
  <2>3. pc'[p] = "notify" /\ \A q \in Proc : q /= p => pc'[q] = pc[q]
    BY <1>5, Parts, OneProcess, Zenon
  <2> QED BY <2>1, <2>2, <2>3, Zenon
<1>9. \A q \in Proc : q \in InFlight' <=> q \in InFlight \/ q = p
  BY <1>8, Zenon DEF InFlight
<1>10. p \notin InFlight /\ InFlight' = InFlight \cup {p}
  BY <1>1, <1>9, Zenon DEF InFlight
<1>11. \A q \in InFlight : q \in Proc /\ q /= p
  BY <1>10, Zenon DEF InFlight
<1>12. \A q \in InFlight : Own(q) \subseteq Desc /\ Own(q) \cap {a, b, c} = {} /\ idx[q][1] \in Own(q)
  <2>1. \A q \in InFlight : Own(q) \subseteq Desc /\ Own(q) \cap free = {} /\ idx[q][1] \in Own(q)
    BY Parts, OwnNotFree, Zenon
  <2> QED BY <1>7, <2>1, Zenon
<1>13. Offered \subseteq Desc /\ a \notin Offered \cup busy \cup Returned
       /\ b \notin Offered /\ c \notin Offered
  <2>1. \A h \in Offered \cup busy \cup Returned : h \notin {a, b, c}
    <3> SUFFICES ASSUME NEW h \in Offered \cup busy \cup Returned PROVE h \notin {a, b, c}
      BY Zenon
    <3>1. PICK q \in InFlight : idx[q][1] = h
      BY Parts, Zenon DEF Where
    <3> QED BY <1>12, <3>1, Zenon
  <2> QED BY <2>1, Zenon DEF Offered, Heads
\* The descriptors.
<1>14. /\ ops'[a] = Dir(p) /\ infob'[a] = p
       /\ \A d \in Desc : d /= a => /\ ops'[d] = ops[d] /\ infob'[d] = infob[d]
                                    /\ status'[d] = status[d]
       /\ ops' \in [Desc -> {"in", "out"}] /\ infob' \in [Desc -> Proc \cup {None}]
       /\ status' \in [Desc -> {0, 255}]
  <2>1. /\ ops \in [Desc -> {"in", "out"}] /\ infob \in [Desc -> Proc \cup {None}]
        /\ status \in [Desc -> {0, 255}]
    BY Parts, Zenon DEF TypeOK
  <2>2. Dir(p) \in {"in", "out"}
    BY Zenon DEF Dir
  <2> HIDE DEF a
  <2>3. ops'[a] = Dir(p) /\ (\A d \in Desc : d /= a => ops'[d] = ops[d])
        /\ ops' \in [Desc -> {"in", "out"}]
    BY <1>3, <1>7, <2>1, <2>2, OneChange, ZenonT(30)
  <2>4. infob'[a] = p /\ (\A d \in Desc : d /= a => infob'[d] = infob[d])
        /\ infob' \in [Desc -> Proc \cup {None}]
    BY <1>3, <1>7, <2>1, OneChange, ZenonT(30)
  <2>5. (\A d \in Desc : d /= a => status'[d] = status[d]) /\ status' \in [Desc -> {0, 255}]
    BY <1>3, <1>7, <2>1, OneChange, ZenonT(30)
  <2> QED BY <2>3, <2>4, <2>5, Zenon
<1> DEFINE Entries == [addr : Desc \cup Proc \cup {None}, next : Desc,
                       flags : SUBSET {"NEXT", "WRITE"}]
<1>15. /\ desc' \in [Desc -> Entries]
       /\ desc'[a] = Entry1 /\ desc'[b] = Entry2 /\ desc'[c] = Entry3
       /\ \A d \in Desc : d \notin {a, b, c} => desc'[d] = desc[d]
  <2>1. desc \in [Desc -> Entries]
    BY Parts, Zenon DEF TypeOK
  <2>2. 0 \in Desc
    BY Sizes DEF Desc
  <2>3. DataFlags(p) \in SUBSET {"NEXT", "WRITE"} /\ {"NEXT"} \in SUBSET {"NEXT", "WRITE"}
        /\ {"WRITE"} \in SUBSET {"NEXT", "WRITE"}
    BY Zenon DEF DataFlags
  <2>4. Entry1 \in Entries /\ Entry2 \in Entries /\ Entry3 \in Entries
    <3> HIDE DEF a, b, c
    <3> QED BY <1>7, <2>2, <2>3
  <2> HIDE DEF Entries, Entry1, Entry2, Entry3, a, b, c
  <2> DEFINE g1 == [desc EXCEPT ![a] = Entry1]
             g2 == [g1 EXCEPT ![b] = Entry2]
             g3 == [g2 EXCEPT ![c] = Entry3]
  <2>5. g1 \in [Desc -> Entries] /\ g1[a] = Entry1 /\ \A d \in Desc : d /= a => g1[d] = desc[d]
    BY <1>7, <2>1, <2>4, Zenon
  <2>6. desc' = g3
    BY <1>4, Zenon
  <2> HIDE DEF g1
  <2>7. g2 \in [Desc -> Entries] /\ g2[b] = Entry2 /\ \A d \in Desc : d /= b => g2[d] = g1[d]
    BY <1>7, <2>4, <2>5, Zenon
  <2> HIDE DEF g2
  <2>8. g3 \in [Desc -> Entries] /\ g3[c] = Entry3 /\ \A d \in Desc : d /= c => g3[d] = g2[d]
    BY <1>7, <2>4, <2>7, Zenon
  <2> HIDE DEF g3
  <2> QED BY <1>7, <2>5, <2>6, <2>7, <2>8, Zenon
<1>16. Own(p)' = {a, b, c} /\ Formed(p)'
  <2>1. idx'[p][1] = a /\ idx'[p][2] = b /\ idx'[p][3] = c
    BY <1>8, Zenon
  <2>2. DataFlags(p)' = DataFlags(p) /\ Dir(p)' = Dir(p)
    BY <1>6, Zenon DEF DataFlags, Dir
  <2>3. a \in Desc \ free' /\ b \in Desc \ free' /\ c \in Desc \ free'
    BY <1>2, <1>7, Zenon
  <2> HIDE DEF a, b, c
  <2>4. Own(p)' = {a, b, c}
    BY <2>1, Zenon DEF Own
  <2> QED BY <1>7, <1>14, <1>15, <2>1, <2>2, <2>3, <2>4, ZenonT(30) DEF Formed
<1> HIDE DEF a, b, c, Entry1, Entry2, Entry3
<1>17. ASSUME NEW q \in InFlight PROVE Formed(q)' /\ Own(q)' = Own(q)
  <2>1. Formed(q) /\ idx'[q] = idx[q] /\ write'[q] = write[q]
    BY <1>6, <1>8, <1>11, Parts, Zenon DEF Chains
  <2>2. \A d \in Own(q) : d \in Desc /\ d \notin free /\ d \notin {a, b, c}
    BY <1>12, Parts, OwnNotFree, Zenon
  <2>3. \A d \in Own(q) : /\ d \notin free' /\ desc'[d] = desc[d]
                          /\ infob'[d] = infob[d] /\ ops'[d] = ops[d]
    BY <1>2, <1>14, <1>15, <2>2, Zenon
  <2> QED BY <2>1, <2>3, FormedKept, Zenon
<1>18. Chains'
  <2>1. \A q \in InFlight' : Formed(q)'
    BY <1>10, <1>16, <1>17, Zenon
  <2>2. \A q, r \in InFlight' : q /= r => Own(q)' \cap Own(r)' = {}
    <3>1. \A q, r \in InFlight : q /= r => Own(q) \cap Own(r) = {}
      BY Parts, Zenon DEF Chains
    <3>2. \A q \in InFlight : Own(q)' \cap Own(p)' = {} /\ Own(p)' \cap Own(q)' = {}
      BY <1>12, <1>16, <1>17, Zenon
    <3> QED BY <1>10, <1>17, <3>1, <3>2, Zenon
  <2>3. ASSUME NEW d \in Desc, d \notin free' PROVE \E q \in InFlight' : d \in Own(q)'
    <3>1. d \notin free \/ d \in {a, b, c}
      BY <1>2, <2>3, Zenon
    <3>2. d \notin free => \E q \in InFlight : d \in Own(q)
      BY Parts, Zenon DEF Chains
    <3> QED BY <1>10, <1>16, <1>17, <3>1, <3>2, Zenon
  <2> QED BY <2>1, <2>2, <2>3, Zenon DEF Chains

\* The ring.
<1>19. k \in Desc /\ avail[k] = None /\ Filled(avail', seen, availidx, 1)
  <2>1. Announcing = 0
    <3>1. \A q \in Proc : pc[q] \notin {"notify", "test"}
      BY <1>1, Parts, DiskAssumption, Zenon DEF LockHeld
    <3> QED BY <3>1, Zenon DEF Announcing
  <2>2. seen \in 0..Wrap - 1 /\ Filled(avail, seen, availidx, 0)
    BY <2>1, Parts, Zenon DEF Rings
  <2>3. avail \in [Desc -> Desc \cup {None}] /\ Once(avail)
    BY Parts, Zenon DEF TypeOK, Where
  <2>4. \A j \in Desc : avail[j] \notin {b, c}
    BY <1>7, <1>13, Zenon DEF Offered, Heads
  <2>5. /\ availidx % NUM \in Desc /\ avail[availidx % NUM] = None
        /\ Filled([avail EXCEPT ![availidx % NUM] = a], seen, availidx, 1)
    BY <1>7, <2>2, <2>3, <2>4, RingPost, Zenon
  <2> QED BY <1>3, <2>5, Zenon DEF k
<1>20. Offered' = Offered \cup {a} /\ Once(avail') /\ avail' \in [Desc -> Desc \cup {None}]
       /\ Returned' = Returned
  <2>1. avail \in [Desc -> Desc \cup {None}] /\ Once(avail)
    BY Parts, Zenon DEF TypeOK, Where
  <2>2. a \notin Heads(avail)
    BY <1>13, Zenon DEF Offered
  <2>3. /\ Heads([avail EXCEPT ![k] = a]) = Heads(avail) \cup {a}
        /\ Once([avail EXCEPT ![k] = a]) /\ [avail EXCEPT ![k] = a] \in [Desc -> Desc \cup {None}]
    BY <1>7, <1>19, <2>1, <2>2, HeadPosted, Zenon
  <2> QED BY <1>3, <1>6, <2>3, Zenon DEF Offered, Returned
<1>21. idx'[p][1] = a /\ \A q \in InFlight : idx'[q] = idx[q] /\ bdisk'[q] = bdisk[q]
  BY <1>8, <1>11, Zenon DEF a
<1>22. Where'
  <2>1. Offered \cap busy = {} /\ Offered \cap Returned = {} /\ busy \cap Returned = {}
    BY Parts, Zenon DEF Where
  <2>2. Offered' \cap busy' = {} /\ Offered' \cap Returned' = {} /\ busy' \cap Returned' = {}
    BY <1>6, <1>13, <1>20, <2>1, Zenon
  <2>3. ASSUME NEW x \in Offered' \cup busy' \cup Returned'
        PROVE  \E q \in InFlight' : bdisk'[q] /\ idx'[q][1] = x
    <3>1. x = a \/ x \in Offered \cup busy \cup Returned
      BY <1>6, <1>20, Zenon
    <3>2. x /= a => \E q \in InFlight : bdisk[q] /\ idx[q][1] = x
      BY <3>1, Parts, Zenon DEF Where
    <3> QED BY <1>8, <1>10, <1>21, <3>2, Zenon
  <2>4. ASSUME NEW q \in InFlight', bdisk'[q]
        PROVE  idx'[q][1] \in Offered' \cup busy' \cup Returned'
    <3>1. CASE q = p
      BY <1>20, <1>21, <3>1, Zenon
    <3>2. CASE q /= p
      <4>1. q \in InFlight /\ bdisk[q] /\ idx'[q] = idx[q]
        BY <1>10, <1>21, <2>4, <3>2, Zenon
      <4>2. idx[q][1] \in Offered \cup busy \cup Returned
        BY <4>1, Parts, Zenon DEF Where
      <4> QED BY <1>6, <1>20, <4>1, <4>2, Zenon
    <3> QED BY <3>1, <3>2, Zenon
  <2>5. Once(avail') /\ Once(used')
    BY <1>6, <1>20, Parts, Zenon DEF Where
  <2> QED BY <2>2, <2>3, <2>4, <2>5, Zenon DEF Where
<1>23. Data'
  <2>1. \A q \in Proc : pc'[q] \in {"alloc", "sleep_desc"} => moved'[q] = {}
    BY <1>6, <1>8, Parts, Zenon DEF Data
  <2>2. moved[p] = {}
    BY <1>1, Parts, Zenon DEF Data
  <2>3. ASSUME NEW q \in InFlight'
        PROVE  moved[q] = IF bdisk'[q] /\ idx'[q][1] \notin Returned' THEN {} ELSE {Dir(q)}
    <3>1. CASE q = p
      BY <1>8, <1>13, <1>20, <1>21, <2>2, <3>1, Zenon
    <3>2. CASE q /= p
      <4>1. q \in InFlight /\ bdisk'[q] = bdisk[q] /\ idx'[q] = idx[q]
        BY <1>10, <1>21, <3>2, Zenon
      <4>2. moved[q] = IF bdisk[q] /\ idx[q][1] \notin Returned THEN {} ELSE {Dir(q)}
        BY <4>1, Parts, Zenon DEF Data
      <4> QED BY <1>20, <4>1, <4>2, Zenon
    <3> QED BY <3>1, <3>2, Zenon
  <2>4. \A x \in Returned' : status'[x] = 0
    <3>1. \A x \in Returned : x \in Desc /\ x /= a
      BY <1>13, Zenon DEF Returned, Heads
    <3> QED BY <1>14, <1>20, <3>1, Parts, ZenonT(30) DEF Data
  <2>5. \A q : Dir(q)' = Dir(q)
    BY <1>6, Zenon DEF Dir
  <2> QED BY <1>6, <2>1, <2>3, <2>4, <2>5, Zenon DEF Data
<1>24. LockHeld'
  <2>1. \A q \in Proc : pc[q] \notin {"notify", "test"}
    BY <1>1, Parts, DiskAssumption, Zenon DEF LockHeld
  <2>2. \A q \in Proc : q /= p => pc'[q] \notin {"notify", "test"}
    BY <1>8, <2>1, Zenon
  <2> QED BY <1>2, <1>8, <2>2, Zenon DEF LockHeld
<1>25. Rings'
  <2>1. Announcing' = 1 /\ Publishing' = Publishing
    BY <1>6, <1>8, Zenon DEF Announcing, Publishing
  <2> QED BY <1>6, <1>19, <2>1, Parts, Zenon DEF Rings
<1>26. TypeOK'
  <2>1. /\ pc' \in [Proc -> {"out", "alloc", "sleep_desc", "notify", "test", "sleep", "woken"}]
        /\ bdisk' \in [Proc -> BOOLEAN] /\ owner' \in Proc \cup {Intr, None}
    BY <1>2, <1>5, Parts, Zenon
  <2>2. idx' \in [Proc -> [1..3 -> Desc] \cup {<<>>}]
    BY <1>2, <1>7, Parts, Zenon
  <2>3. free' \subseteq Desc
    BY <1>2, Parts, Zenon DEF TypeOK
  <2> QED BY <1>6, <1>14, <1>15, <1>20, <2>1, <2>2, <2>3, Parts, Zenon DEF TypeOK
<1>27. NoLostWakeup'
  <2>1. \A q \in Proc : pc'[q] = "sleep" => bdisk'[q]
    BY <1>8, Asleep, Zenon
  <2>2. \A q \in Proc : pc'[q] /= "sleep_desc"
    <3>1. ~(Cardinality(free) < 3)
      BY <1>1, Parts, Zenon DEF Allocates, TypeOK
    <3> QED BY <1>8, <3>1, Asleep, Zenon
  <2>3. used_idx' /= usedidx' => irq' \/ owner' = Intr
    <3>1. owner /= Intr
      BY <1>1, DiskAssumption, Zenon
    <3> QED BY <1>6, <3>1, Asleep, Zenon
  <2> QED BY <1>18, <1>22, <2>1, <2>2, <2>3, SleepersFound, Zenon
<1> QED BY <1>6, <1>18, <1>22, <1>23, <1>24, <1>25, <1>26, <1>27, Parts, Zenon DEF IInv

\* A request is over: its descriptors are free again, none of them was, and nobody
\* else's are touched.
LEMMA Finish ==
  ASSUME IInv, NEW p \in Proc, finish(p)
  PROVE  IInv'
<1> DEFINE h == idx[p][1]
<1>1. /\ pc[p] \in {"test", "woken"} /\ ~bdisk[p] /\ owner' = None /\ owner \in {p, None}
      /\ pc' = WakeFree(p, "out")
  BY Zenon DEF finish, HasLock
<1>2. p \in InFlight /\ Formed(p) /\ write[p] \in BOOLEAN
  BY <1>1, Parts, Zenon DEF InFlight, Chains
<1>3. Chain(h) = Own(p)
  <2> DEFINE d == desc[h].next
  <2>1. /\ d = idx[p][2] /\ desc[d].next = idx[p][3]
        /\ desc[h].flags = {"NEXT"} /\ "NEXT" \in desc[d].flags
    BY <1>2, ChainRead, Zenon
  <2>2. Chain(h) = {h} \cup {n \in {d} : "NEXT" \in desc[h].flags}
                       \cup {n \in {desc[d].next} : "NEXT" \in desc[h].flags \cap desc[d].flags}
    BY Zenon DEF Chain
  <2> HIDE DEF d
  <2>3. {n \in {d} : "NEXT" \in desc[h].flags} = {d}
    BY <2>1, Zenon
  <2>4. {n \in {desc[d].next} : "NEXT" \in desc[h].flags \cap desc[d].flags} = {desc[d].next}
    BY <2>1, Zenon
  <2> QED BY <2>1, <2>2, <2>3, <2>4, Zenon DEF Own
<1>4. /\ infob' = [infob EXCEPT ![h] = None] /\ free' = free \cup Own(p)
      /\ desc' = [d \in Desc |-> IF d \in Own(p) THEN NoDesc ELSE desc[d]]
      /\ panicked' = (Own(p) \cap free /= {})
      /\ idx' = [idx EXCEPT ![p] = <<>>] /\ write' = [write EXCEPT ![p] = FALSE]
  BY <1>3, Zenon DEF finish
<1>5. /\ UNCHANGED <<ops, status, avail, availidx, used, usedidx, used_idx, bdisk>>
      /\ UNCHANGED <<seen, busy, posted, irq, moved>>
  BY Zenon DEF finish, rings, device
<1>6. Own(p) \subseteq Desc /\ Own(p) \cap free = {} /\ h \in Own(p)
  BY <1>2, Parts, OwnNotFree, Zenon
<1>7. panicked' = FALSE
  BY <1>4, <1>6, Zenon
<1> HIDE DEF h
<1>8. /\ pc'[p] = "out"
      /\ pc' \in [Proc -> {"out", "alloc", "sleep_desc", "notify", "test", "sleep", "woken"}]
      /\ \A q \in Proc : pc'[q] /= "sleep_desc"
      /\ \A q \in Proc : q /= p =>
           pc'[q] = pc[q] \/ (pc[q] = "sleep_desc" /\ pc'[q] = "alloc")
  BY <1>1, Parts DEF WakeFree
<1>9. \A q \in Proc : q \in InFlight' <=> q \in InFlight /\ q /= p
  BY <1>8, Zenon DEF InFlight
<1>10. InFlight' = InFlight \ {p} /\ \A q \in InFlight : q \in Proc
  BY <1>9, Zenon DEF InFlight
<1>11. \A q \in Proc : q /= p => idx'[q] = idx[q] /\ write'[q] = write[q]
  BY <1>4, Parts, OneProcess, ZenonT(30)
<1>12. \A d \in Desc : d \notin Own(p) => infob'[d] = infob[d] /\ desc'[d] = desc[d]
  <2>1. infob \in [Desc -> Proc \cup {None}]
    BY Parts, Zenon DEF TypeOK
  <2>2. h \in Desc
    BY <1>6, Zenon
  <2>3. \A d \in Desc : d /= h => infob'[d] = infob[d]
    BY <1>4, <2>1, <2>2, OneChange, Zenon
  <2> QED BY <1>4, <1>6, <2>3, Zenon
<1>13. ASSUME NEW q \in InFlight, q /= p
       PROVE  Formed(q)' /\ Own(q)' = Own(q) /\ Own(q) \cap Own(p) = {}
  <2>1. Formed(q) /\ Own(q) \cap Own(p) = {} /\ idx'[q] = idx[q] /\ write'[q] = write[q]
    BY <1>2, <1>10, <1>11, <1>13, Parts, Zenon DEF Chains
  <2>2. \A d \in Own(q) : d \in Desc /\ d \notin free /\ d \notin Own(p)
    BY <2>1, Parts, OwnNotFree, Zenon
  <2>3. \A d \in Own(q) : /\ d \notin free' /\ desc'[d] = desc[d]
                          /\ infob'[d] = infob[d] /\ ops'[d] = ops[d]
    BY <1>4, <1>5, <1>12, <2>2, Zenon
  <2> QED BY <2>1, <2>3, FormedKept, Zenon
<1>14. Chains'
  <2>1. \A q \in InFlight' : Formed(q)'
    BY <1>10, <1>13, Zenon
  <2>2. \A q, r \in InFlight' : q /= r => Own(q)' \cap Own(r)' = {}
    <3>1. \A q, r \in InFlight : q /= r => Own(q) \cap Own(r) = {}
      BY Parts, Zenon DEF Chains
    <3> QED BY <1>10, <1>13, <3>1, Zenon
  <2>3. ASSUME NEW d \in Desc, d \notin free' PROVE \E q \in InFlight' : d \in Own(q)'
    <3>1. d \notin free /\ d \notin Own(p)
      BY <1>4, <2>3, Zenon
    <3>2. PICK q \in InFlight : d \in Own(q)
      BY <3>1, Parts, Zenon DEF Chains
    <3> QED BY <1>10, <1>13, <3>1, <3>2, Zenon
  <2> QED BY <2>1, <2>2, <2>3, Zenon DEF Chains
<1>15. Offered' = Offered /\ Returned' = Returned
  BY <1>5, Zenon DEF Offered, Returned
<1>16. Where'
  <2>1. ASSUME NEW x \in Offered \cup busy \cup Returned
        PROVE  \E q \in InFlight' : bdisk[q] /\ idx'[q][1] = x
    <3>1. PICK q \in InFlight : bdisk[q] /\ idx[q][1] = x
      BY Parts, Zenon DEF Where
    <3>2. q /= p
      BY <1>1, <3>1, Zenon
    <3> QED BY <1>10, <1>11, <3>1, <3>2, Zenon
  <2>2. ASSUME NEW q \in InFlight', bdisk[q]
        PROVE  idx'[q][1] \in Offered \cup busy \cup Returned
    <3>1. q \in InFlight /\ idx'[q] = idx[q]
      BY <1>10, <1>11, Zenon
    <3> QED BY <2>2, <3>1, Parts, Zenon DEF Where
  <2>3. Offered \cap busy = {} /\ Offered \cap Returned = {} /\ busy \cap Returned = {}
        /\ Once(avail) /\ Once(used)
    BY Parts, Zenon DEF Where
  <2> QED BY <1>5, <1>15, <2>1, <2>2, <2>3, Zenon DEF Where
<1>17. Data'
  <2>1. \A q \in Proc : pc'[q] \in {"alloc", "sleep_desc"} => moved'[q] = {}
    <3>1. \A q \in Proc : pc'[q] \in {"alloc", "sleep_desc"} => pc[q] \in {"alloc", "sleep_desc"}
      BY <1>8, Zenon
    <3> QED BY <1>5, <3>1, Parts, Zenon DEF Data
  <2>2. ASSUME NEW q \in InFlight'
        PROVE  moved[q] = IF bdisk[q] /\ idx'[q][1] \notin Returned THEN {} ELSE {Dir(q)'}
    <3>1. q \in InFlight /\ idx'[q] = idx[q] /\ write'[q] = write[q]
      BY <1>10, <1>11, Zenon
    <3>2. Dir(q)' = Dir(q)
      BY <3>1, Zenon DEF Dir
    <3>3. moved[q] = IF bdisk[q] /\ idx[q][1] \notin Returned THEN {} ELSE {Dir(q)}
      BY <3>1, Parts, Zenon DEF Data
    <3> QED BY <3>1, <3>2, <3>3, Zenon
  <2>3. \A x \in Returned : status[x] = 0
    BY Parts, Zenon DEF Data
  <2> QED BY <1>5, <1>15, <2>1, <2>2, <2>3, Zenon DEF Data
<1>18. LockHeld'
  <2>1. None \notin Proc
    BY DiskAssumption, Zenon
  <2>2. \A q \in Proc : q /= p => pc[q] \notin {"notify", "test"}
    BY <1>1, <2>1, Parts, Zenon DEF LockHeld
  <2>3. \A q \in Proc : pc'[q] \notin {"notify", "test"} /\ owner' /= q
    BY <1>1, <1>8, <2>1, <2>2, Zenon
  <2> QED BY <2>3, Zenon DEF LockHeld
<1>19. Rings'
  <2>1. (\E q \in Proc : pc'[q] = "notify") <=> \E q \in Proc : pc[q] = "notify"
    BY <1>1, <1>8, Zenon
  <2> QED BY <1>5, <2>1, Parts, SameRings, Zenon
<1>20. TypeOK'
  <2>1. 0 \in Desc
    BY Sizes DEF Desc
  <2>2. free' \subseteq Desc /\ infob' \in [Desc -> Proc \cup {None}]
    BY <1>4, <1>6, Parts, Zenon DEF TypeOK
  <2> DEFINE Entries == [addr : Desc \cup Proc \cup {None}, next : Desc,
                         flags : SUBSET {"NEXT", "WRITE"}]
  <2>3. NoDesc \in Entries
    BY <2>1 DEF NoDesc
  <2>4. desc \in [Desc -> Entries]
    BY Parts, Zenon DEF TypeOK
  <2> HIDE DEF Entries
  <2>5. desc' \in [Desc -> Entries]
    BY <1>4, <2>3, <2>4, Zenon
  <2>6. /\ idx' \in [Proc -> [1..3 -> Desc] \cup {<<>>}] /\ write' \in [Proc -> BOOLEAN]
        /\ owner' \in Proc \cup {Intr, None} /\ panicked' \in BOOLEAN
    BY <1>1, <1>4, <1>7, Parts, Zenon
  <2> QED BY <1>5, <1>8, <2>2, <2>5, <2>6, Parts, Zenon DEF TypeOK, Entries
<1>21. NoLostWakeup'
  <2>1. \A q \in Proc : pc'[q] = "sleep" => bdisk'[q]
    BY <1>5, <1>8, Asleep, Zenon
  <2>2. used_idx' /= usedidx' => irq' \/ owner' = Intr
    <3>1. owner /= Intr
      BY <1>1, DiskAssumption, Zenon
    <3> QED BY <1>5, <3>1, Asleep, Zenon
  <2> QED BY <1>8, <1>14, <1>16, <2>1, <2>2, SleepersFound, Zenon
<1> QED BY <1>7, <1>14, <1>16, <1>17, <1>18, <1>19, <1>20, <1>21, Zenon DEF IInv

----------------------------------------------------------------------------
(* The initial state. *)

LEMMA Start ==
  ASSUME Init
  PROVE  IInv
<1>1. InFlight = {} /\ \A p \in Proc : pc[p] = "out"
  BY Zenon DEF Init, InFlight
<1>2. /\ free = Desc /\ desc = [d \in Desc |-> NoDesc] /\ ops = [d \in Desc |-> "in"]
      /\ infob = [d \in Desc |-> None] /\ status = [d \in Desc |-> 0]
      /\ avail = [k \in Desc |-> None] /\ availidx = 0
      /\ used = [k \in Desc |-> None] /\ usedidx = 0 /\ used_idx = 0
  BY Zenon DEF Init
<1>3. /\ bdisk = [p \in Proc |-> FALSE] /\ owner = None
      /\ pc = [p \in Proc |-> "out"] /\ write = [p \in Proc |-> FALSE]
      /\ idx = [p \in Proc |-> <<>>] /\ seen = 0 /\ busy = {} /\ posted = FALSE
      /\ irq = FALSE /\ moved = [p \in Proc |-> {}] /\ panicked = FALSE
  BY Zenon DEF Init
<1>4. 0 \in Desc /\ 0 \in 0..Wrap - 1 /\ 0 \in 0..NUM - 1 /\ 0 + 0 < NUM /\ 0 + 0 = 0
      /\ \A j : j \notin 0..0 + 0 - 1
  BY Sizes DEF Desc
<1>5. TypeOK
  <2>1. NoDesc \in [addr : Desc \cup Proc \cup {None}, next : Desc,
                    flags : SUBSET {"NEXT", "WRITE"}]
    BY <1>4 DEF NoDesc
  <2>2. /\ desc \in [Desc -> [addr : Desc \cup Proc \cup {None}, next : Desc,
                              flags : SUBSET {"NEXT", "WRITE"}]]
    <3> HIDE DEF NoDesc
    <3> QED BY <1>2, <2>1, Zenon
  <2>3. {availidx, usedidx, used_idx, seen} \subseteq 0..Wrap - 1
    BY <1>2, <1>3, <1>4, Zenon
  <2>4. /\ ops \in [Desc -> {"in", "out"}] /\ infob \in [Desc -> Proc \cup {None}]
        /\ status \in [Desc -> {0, 255}] /\ avail \in [Desc -> Desc \cup {None}]
        /\ used \in [Desc -> Desc \cup {None}] /\ free \subseteq Desc
    BY <1>2, Zenon
  <2>5. /\ bdisk \in [Proc -> BOOLEAN] /\ write \in [Proc -> BOOLEAN]
        /\ owner \in Proc \cup {Intr, None}
        /\ pc \in [Proc -> {"out", "alloc", "sleep_desc", "notify", "test", "sleep", "woken"}]
        /\ idx \in [Proc -> [1..3 -> Desc] \cup {<<>>}]
    BY <1>3, Zenon
  <2>6. /\ busy \subseteq Desc /\ posted \in BOOLEAN /\ irq \in BOOLEAN
        /\ moved \in [Proc -> SUBSET {"in", "out"}] /\ panicked \in BOOLEAN
    BY <1>3, Zenon
  <2> QED BY <2>2, <2>3, <2>4, <2>5, <2>6, Zenon DEF TypeOK
<1>6. Chains
  BY <1>1, <1>2, Zenon DEF Chains
<1>7. None \notin Desc /\ None \notin Proc
  BY DiskAssumption, Zenon DEF Desc
<1>8. (\A k \in Desc : avail[k] = None /\ used[k] = None) /\ Offered = {} /\ Returned = {}
  BY <1>2, <1>7, Zenon DEF Offered, Returned, Heads
<1>9. Where
  BY <1>1, <1>3, <1>8, Zenon DEF Where, Once
<1>10. Data
  BY <1>1, <1>8, Zenon DEF Data
<1>11. LockHeld
  BY <1>1, <1>3, <1>7, Zenon DEF LockHeld
<1>12. Rings
  <2>1. Announcing = 0 /\ Publishing = 0
    BY <1>1, <1>3, Zenon DEF Announcing, Publishing
  <2>2. 0 = (0 + 0) % Wrap
    BY <1>4, Below, Zenon
  <2>3. Filled(avail, 0, 0, 0) /\ Filled(used, 0, 0, 0)
    BY <1>4, <1>8, <2>2, Zenon DEF Filled
  <2> QED BY <1>2, <1>3, <2>1, <2>3, Zenon DEF Rings
<1>13. NoLostWakeup
  BY <1>1, <1>2, Zenon DEF NoLostWakeup
<1> QED BY <1>3, <1>5, <1>6, <1>9, <1>10, <1>11, <1>12, <1>13, Zenon DEF IInv
----------------------------------------------------------------------------
(* Every step, and what the invariant implies. *)

\* A step that changes nothing.
LEMMA Stutter ==
  ASSUME IInv, UNCHANGED vars
  PROVE  IInv'
<1>1. /\ UNCHANGED <<driver, idx, bdisk, avail, used, busy, status, infob, free, pc, availidx>>
      /\ UNCHANGED <<used_idx, usedidx, seen, posted, panicked, desc, ops, write, moved>>
      /\ UNCHANGED <<owner, irq>>
  BY Zenon DEF vars, driver, rings, device
<1>2. InFlight' = InFlight
  BY <1>1, Zenon DEF InFlight
<1>3. Chains' /\ Where' /\ Rings'
  BY <1>1, <1>2, Parts, SameChains, SameWhere, SameRings, Zenon
<1>4. Data' /\ LockHeld'
  BY <1>1, <1>2, Parts, SameData, Zenon DEF Data, LockHeld
<1>5. NoLostWakeup'
  BY <1>1, Parts, Asleep, SameSleepers, Zenon
<1>6. TypeOK' /\ ~panicked'
  BY <1>1, Parts, Zenon DEF TypeOK
<1> QED BY <1>3, <1>4, <1>5, <1>6, Zenon DEF IInv

\* Every step of the driver and of the device preserves the invariant.
LEMMA Inductive ==
  ASSUME IInv, Room, Allocates, [Next]_vars
  PROVE  IInv'
<1>1. ASSUME NEW p \in Proc, Step(p) PROVE IInv'
  BY <1>1, AllocFails, Submit, Notify, Wait, Finish, Zenon DEF Step
<1>2. ASSUME NEW p \in Proc, NEW w \in BOOLEAN, virtio_disk_rw(p, w) PROVE IInv'
  BY <1>2, Call, Zenon
<1>3. CASE Handler
  BY <1>3, Handling, Entry, Zenon DEF Handler
<1>4. CASE dev_fetch
  BY <1>4, Fetch, Zenon
<1>5. CASE dev_publish
  BY <1>5, Publish, Zenon
<1>6. ASSUME NEW h \in Desc, dev_finish(h) PROVE IInv'
  BY <1>6, DevFinish, Zenon
<1>7. CASE UNCHANGED vars
  BY <1>7, Stutter, Zenon
<1> QED BY <1>1, <1>2, <1>3, <1>4, <1>5, <1>6, <1>7, Zenon DEF Next

\* What the invariant says of the requests, given that a chain has three
\* descriptors.
LEMMA Exact ==
  ASSUME IInv, ChainOfThree
  PROVE  RequestsExact
<1>1. NoPanic
  BY Parts, Zenon DEF NoPanic
<1>2. DescriptorsExact
  <2>1. ASSUME NEW p \in InFlight
        PROVE  Cardinality(Own(p)) = 3 /\ Own(p) \cap free = {} /\ Own(p) \subseteq Desc
    <3>1. idx[p][1] /= idx[p][2] /\ idx[p][1] /= idx[p][3] /\ idx[p][2] /= idx[p][3]
      BY Parts, Zenon DEF Chains, Formed
    <3>2. Cardinality(Own(p)) = 3
      BY <3>1, Zenon DEF Own, ChainOfThree
    <3> QED BY <3>2, Parts, OwnNotFree, Zenon
  <2>2. \A p, q \in InFlight : p /= q => Own(p) \cap Own(q) = {}
    BY Parts, Zenon DEF Chains
  <2>3. free \subseteq Desc /\ \A d \in Desc \ free : \E p \in InFlight : d \in Own(p)
    BY Parts, Zenon DEF Chains, TypeOK
  <2>4. free \cup UNION {Own(p) : p \in InFlight} = Desc
    BY <2>1, <2>3, Zenon
  <2> QED BY <2>1, <2>2, <2>4, Zenon DEF DescriptorsExact
<1>3. DiskOwnsBuf
  <2>1. ASSUME NEW h \in busy PROVE infob[h] /= None /\ bdisk[infob[h]] /\ h \notin free
    <3>1. PICK p \in InFlight : bdisk[p] /\ idx[p][1] = h
      BY Parts, Zenon DEF Where
    <3>2. p \in Proc /\ Formed(p)
      BY Parts, Zenon DEF Chains, InFlight
    <3>3. infob[h] = p /\ h \notin free
      BY <3>1, <3>2, Zenon DEF Formed
    <3> QED BY <3>1, <3>2, <3>3, DiskAssumption, Zenon
  <2>2. \A p \in InFlight : ~bdisk[p] => moved[p] = {IF write[p] THEN "out" ELSE "in"}
    BY Parts, Zenon DEF Data, Dir
  <2> QED BY <2>1, <2>2, Zenon DEF DiskOwnsBuf
<1> QED BY <1>1, <1>2, <1>3, Zenon DEF RequestsExact

----------------------------------------------------------------------------
(* Counting descriptors. *)

INSTANCE FiniteSetTheorems

\* The descriptors are finitely many, and so is every set of them.
LEMMA Descriptors ==
  ASSUME NEW S \in SUBSET Desc
  PROVE  IsFiniteSet(S) /\ Cardinality(S) \in Nat /\ IsFiniteSet(Desc) /\ Cardinality(Desc) = NUM
<1>1. 0 \in Int /\ NUM - 1 \in Int /\ ~(0 > NUM - 1) /\ NUM - 1 - 0 + 1 = NUM
  BY Sizes
<1>2. IsFiniteSet(0..NUM - 1) /\ Cardinality(0..NUM - 1) = NUM
  BY <1>1, FS_Interval, ZenonT(30)
<1> QED BY <1>2, FS_Subset, FS_CardinalityType, Zenon DEF Desc

\* A ring without two of the descriptors has room.
LEMMA RoomInRing == Room
<1> SUFFICES
  ASSUME NEW ring \in [Desc -> Desc \cup {None}], NEW a \in Nat, NEW n \in 0..NUM - 1,
         \A j \in 0..n - 1 : ring[(a + j) % NUM] /= None,
         Once(ring),
         NEW d \in Desc, NEW e \in Desc, d /= e, \A k \in Desc : ring[k] \notin {d, e}
  PROVE  n + 1 < NUM
  BY ZenonT(30) DEF Room
<1> DEFINE J == 0..n - 1
           T == (Desc \ {d}) \ {e}
           f == [j \in J |-> ring[(a + j) % NUM]]
<1>1. NUM \in Nat \ {0} /\ n \in Nat /\ \A j \in J : j \in Nat /\ j \in 0..NUM - 1
  BY Sizes
<1>2. IsFiniteSet(T) /\ Cardinality(T) = NUM - 2
  <2>1. IsFiniteSet(Desc) /\ Cardinality(Desc) = NUM
    BY Descriptors, ZenonT(30)
  <2> DEFINE U == Desc \ {d}
  <2>2. IsFiniteSet(U) /\ Cardinality(U) = NUM - 1 /\ e \in U
    BY <2>1, FS_RemoveElement, Zenon
  <2>3. IsFiniteSet(U \ {e}) /\ Cardinality(U \ {e}) = NUM - 1 - 1
    <3> HIDE DEF U
    <3> QED BY <2>2, FS_RemoveElement, ZenonT(30)
  <2>4. NUM - 1 - 1 = NUM - 2
    BY <1>1
  <2> QED BY <2>3, <2>4, Zenon
<1>3. Cardinality(J) = n
  <2>1. 0 \in Int /\ n - 1 \in Int /\ (0 > n - 1 => n = 0) /\ n - 1 - 0 + 1 = n
    BY <1>1
  <2> QED BY <2>1, FS_Interval, Zenon
<1>4. ASSUME NEW j \in J PROVE (a + j) % NUM \in Desc /\ f[j] \in T
  <2>1. a + j \in Nat
    BY <1>1
  <2>2. (a + j) % NUM \in Desc
    BY <2>1, Index, ZenonT(30)
  <2> QED BY <2>2, ZenonT(30)
<1>5. f \in [J -> T]
  BY <1>4, Zenon
<1>6. ASSUME NEW i \in J, NEW j \in J, f[i] = f[j] PROVE i = j
  <2>1. ring[(a + i) % NUM] = ring[(a + j) % NUM] /\ ring[(a + i) % NUM] /= None
    BY <1>6, Zenon
  <2>2. (a + i) % NUM = (a + j) % NUM
    BY <1>4, <2>1, ZenonT(30) DEF Once
  <2> QED BY <1>1, <2>2, Cells, ZenonT(30)
<1>7. f \in Injection(J, T)
  BY <1>5, <1>6, Zenon DEF Injection, IsInjective
<1> HIDE DEF J, T, f
<1>8. Cardinality(J) <= Cardinality(T)
  BY <1>2, <1>7, FS_Injection, ZenonT(30)
<1>9. n <= NUM - 2
  BY <1>2, <1>3, <1>8, Zenon
<1> QED BY <1>1, <1>9

\* A set of numbers that is not empty has a least element.
LEMMA Least ==
  ASSUME NEW T \in SUBSET Nat, T /= {}
  PROVE  \E x \in T : \A y \in T : x <= y
<1> DEFINE R == OpToRel(<, Nat)
<1>1. IsWellFoundedOn(R, Nat)
  BY NatLessThanWellFounded
<1>2. \A x, y \in Nat : y < x => <<y, x>> \in R
  BY DEF OpToRel
<1> HIDE DEF R
<1>3. PICK x \in T : \A y \in T : ~(<<y, x>> \in R)
  BY <1>1, WFMin, Zenon
<1>4. ASSUME NEW y \in T PROVE x <= y
  <2>1. ~(y < x) /\ x \in Nat /\ y \in Nat
    BY <1>2, <1>3, Zenon
  <2> QED BY <2>1
<1> QED BY <1>4, Zenon

\* A set with descriptors in it has a least one, and one fewer without it.
LEMMA Lowest ==
  ASSUME NEW S \in SUBSET Desc, NEW c \in Nat, Cardinality(S) >= c + 1
  PROVE  \E x \in S : /\ \A y \in S \ {x} : x < y
                      /\ Cardinality(S \ {x}) >= c
                      /\ Cardinality(S \ {x}) = Cardinality(S) - 1
<1>1. IsFiniteSet(S) /\ Cardinality(S) \in Nat
  BY Descriptors, Zenon
<1>2. S \in SUBSET Nat
  BY Sizes DEF Desc
<1>3. Cardinality(S) /= 0
  BY <1>1
<1>4. S /= {}
  BY <1>3, FS_EmptySet, ZenonT(30)
<1>5. PICK x \in S : \A y \in S : x <= y
  BY <1>2, <1>4, Least, Zenon
<1>6. \A y \in S \ {x} : x < y
  BY <1>2, <1>5
<1>7. Cardinality(S \ {x}) = Cardinality(S) - 1
  BY <1>1, FS_RemoveElement, Zenon
<1>8. Cardinality(S \ {x}) >= c
  BY <1>1, <1>7
<1> QED BY <1>6, <1>7, <1>8, ZenonT(30)

\* alloc3_desc finds three descriptors that are free.
LEMMA Three == Allocates
<1> SUFFICES
  ASSUME free \subseteq Desc, Cardinality(free) >= 3
  PROVE  /\ ~(Cardinality(free) < 3)
         /\ alloc3_desc \in [1..3 -> Desc]
         /\ \A i \in 1..3 : alloc3_desc[i] \in free
         /\ alloc3_desc[1] /= alloc3_desc[2] /\ alloc3_desc[1] /= alloc3_desc[3]
         /\ alloc3_desc[2] /= alloc3_desc[3]
  BY Zenon DEF Allocates
<1>0. ~(Cardinality(free) < 3)
  <2>1. Cardinality(free) \in Nat
    BY Descriptors, Zenon
  <2> QED BY <2>1
<1> DEFINE Good(s) == /\ s[1] < s[2] /\ s[2] < s[3]
                      /\ \A d \in free : d <= s[3] => d \in {s[1], s[2], s[3]}
<1>1. 2 \in Nat /\ 1 \in Nat /\ 0 \in Nat /\ 2 + 1 = 3 /\ 1 + 1 = 2 /\ 0 + 1 = 1
  OBVIOUS
<1>2. PICK x \in free : (\A y \in free \ {x} : x < y) /\ Cardinality(free \ {x}) >= 2
  <2>1. Cardinality(free) >= 2 + 1
    BY <1>1, Zenon
  <2> QED BY <1>1, <2>1, Lowest, ZenonT(30)
<1> DEFINE U == free \ {x}
<1>3. PICK y \in U : (\A z \in U \ {y} : y < z) /\ Cardinality(U \ {y}) >= 1
  <2>1. U \in SUBSET Desc /\ Cardinality(U) >= 1 + 1
    BY <1>1, <1>2, Zenon
  <2> HIDE DEF U
  <2> QED BY <1>1, <2>1, Lowest, ZenonT(30)
<1> DEFINE V == U \ {y}
<1>4. PICK z \in V : (\A w \in V \ {z} : z < w) /\ Cardinality(V \ {z}) >= 0
  <2>1. V \in SUBSET Desc /\ Cardinality(V) >= 0 + 1
    BY <1>1, <1>3, Zenon
  <2> HIDE DEF V
  <2> QED BY <1>1, <2>1, Lowest, ZenonT(30)
<1> DEFINE s == [i \in 1..3 |-> IF i = 1 THEN x ELSE IF i = 2 THEN y ELSE z]
<1>5. s \in [1..3 -> free] /\ s[1] = x /\ s[2] = y /\ s[3] = z
  OBVIOUS
<1>6. x < y /\ y < z
  BY <1>2, <1>3, <1>4, Zenon
<1>7. ASSUME NEW d \in free, d <= z PROVE d \in {x, y, z}
  <2>1. d \in Nat /\ z \in Nat
    BY Sizes DEF Desc
  <2>2. ~(z < d)
    BY <1>7, <2>1
  <2> QED BY <1>4, <2>2, ZenonT(30)
<1> HIDE DEF s
<1>8. Good(s)
  BY <1>5, <1>6, <1>7, Zenon
<1> DEFINE t == alloc3_desc
<1>9. t \in [1..3 -> free] /\ Good(t)
  <2>1. t = CHOOSE a \in [1..3 -> free] : Good(a)
    BY Zenon DEF alloc3_desc
  <2> HIDE DEF t, Good
  <2> QED BY <1>5, <1>8, <2>1, ZenonT(30)
<1> HIDE DEF t
<1>10. t[1] \in free /\ t[2] \in free /\ t[3] \in free /\ t \in [1..3 -> Desc]
  <2>1. 1 \in 1..3 /\ 2 \in 1..3 /\ 3 \in 1..3
    OBVIOUS
  <2> QED BY <1>9, <2>1, Zenon
<1>11. t[1] /= t[2] /\ t[1] /= t[3] /\ t[2] /= t[3]
  <2>1. \A d \in free : d \in Nat
    BY Sizes DEF Desc
  <2>2. t[1] \in Nat /\ t[2] \in Nat /\ t[3] \in Nat /\ t[1] < t[2] /\ t[2] < t[3]
    BY <1>9, <1>10, <2>1, ZenonT(30)
  <2> QED BY <2>2
<1> QED BY <1>0, <1>9, <1>10, <1>11, Zenon DEF t

\* A chain has three descriptors.
LEMMA ThreeOf == ChainOfThree
<1> SUFFICES
  ASSUME NEW a, NEW b, NEW c, a /= b, a /= c, b /= c
  PROVE  Cardinality({a, b, c}) = 3
  BY Zenon DEF ChainOfThree
<1>1. IsFiniteSet({a}) /\ Cardinality({a}) = 1
  BY FS_Singleton, Zenon
<1>2. IsFiniteSet({a} \cup {b}) /\ Cardinality({a} \cup {b}) = 1 + 1
  BY <1>1, FS_AddElement, ZenonT(30)
<1> DEFINE S == {a} \cup {b}
<1>3. c \notin S /\ S \cup {c} = {a, b, c}
  BY Zenon
<1> HIDE DEF S
<1>4. Cardinality(S \cup {c}) = 1 + 1 + 1
  BY <1>2, <1>3, FS_AddElement, ZenonT(30) DEF S
<1>5. 1 + 1 + 1 = 3
  OBVIOUS
<1> QED BY <1>3, <1>4, <1>5, Zenon

----------------------------------------------------------------------------
(* The theorems. *)

\* The inductive invariant: how chains, rings, marks and locks hang together, at
\* every step of virtio_disk_rw, of the handler and of the device.
THEOREM VirtioDiskInvariant == Spec => []IInv
<1>1. Init => IInv
  BY Start, Zenon
<1>2. IInv /\ [Next]_vars => IInv'
  BY Inductive, RoomInRing, Three, ZenonT(30)
<1> QED BY <1>1, <1>2, PTL DEF Spec

\* Descriptors are shared out without overlap or loss, the device has a buffer
\* exactly as long as b->disk says, no request is refused and none of the driver's
\* panics is reached (alloc_desc, free_desc, virtio_disk_rw, virtio_disk_intr).
THEOREM VirtioDiskRequestsExact == Spec => []RequestsExact
<1>1. IInv => RequestsExact
  BY Exact, ThreeOf, ZenonT(30)
<1> QED BY <1>1, VirtioDiskInvariant, PTL

\* No wakeup is lost between virtio_disk_rw, free_desc and virtio_disk_intr,
\* however the device's returns and the acknowledgement interleave.
THEOREM VirtioDiskNoLostWakeup == Spec => []NoLostWakeup
<1>1. IInv => NoLostWakeup
  BY Zenon DEF IInv
<1> QED BY <1>1, VirtioDiskInvariant, PTL
============================================================================
