--------------------------- MODULE BufCacheProofs ---------------------------
(***************************************************************************)
(* Proofs about BufCache, for every number of clients, blocks and buffers: *)
(* the counts are exact, a read returns what was written last, no sleeper  *)
(* is forgotten, and bget panics only when every buffer is in use.         *)
(***************************************************************************)
EXTENDS BufCache, FiniteSetTheorems, TLAPS

\* Sets of clients can be counted, and their counts go up and down by one.
LEMMA Counted ==
  ASSUME NEW S \in SUBSET User
  PROVE  IsFiniteSet(S) /\ Cardinality(S) \in Nat
BY BufAssumption, FS_Subset, FS_CardinalityType, Zenon

LEMMA OneMore ==
  ASSUME NEW S, NEW x, IsFiniteSet(S), x \notin S
  PROVE  IsFiniteSet(S \cup {x}) /\ Cardinality(S \cup {x}) = Cardinality(S) + 1
BY FS_AddElement, Zenon

LEMMA OneLess ==
  ASSUME NEW S, NEW x, IsFiniteSet(S), x \in S
  PROVE  IsFiniteSet(S \ {x}) /\ Cardinality(S \ {x}) = Cardinality(S) - 1
BY FS_RemoveElement, Zenon

\* A set of numbers that is not empty has a least element.
LEMMA Least ==
  ASSUME NEW T \in SUBSET Nat, T /= {}
  PROVE  \E x \in T : \A y \in T : x <= y
<1> DEFINE R == OpToRel(<, Nat)
<1>1. IsWellFoundedOn(R, Nat)
  BY NatLessThanWellFounded
<1>2. \A x, y \in Nat : y < x => <<y, x>> \in R
  BY DEF OpToRel
<1> HIDE DEF R
<1>3. PICK x \in T : \A y \in T : ~(<<y, x>> \in R)
  BY <1>1, WFMin, Zenon
<1>4. ASSUME NEW y \in T PROVE x <= y
  <2>1. ~(y < x) /\ x \in Nat /\ y \in Nat
    BY <1>2, <1>3, Zenon
  <2> QED BY <2>1
<1> QED BY <1>4, Zenon
----------------------------------------------------------------------------
(* The list of buffers. *)

\* bget recycles a buffer that is not used, if there is one.
LEMMA LRUUnused ==
  ASSUME TypeOK, NEW S \in SUBSET Buf, S /= {}
  PROVE  LRU(S) \in S
<1>1. NBUF \in Nat \ {0}
  BY BufAssumption
<1> DEFINE T == {m \in Nat : NBUF - m \in Buf /\ lru[NBUF - m] \in S}
<1>2. T /= {}
  <2>1. PICK k \in Buf : lru[k] \in S
    <3>1. PICK b \in Buf : b \in S
      BY Zenon
    <3> QED BY <3>1, Zenon DEF TypeOK
  <2>2. NBUF - k \in Nat /\ NBUF - (NBUF - k) = k
    BY <1>1 DEF Buf
  <2> QED BY <2>1, <2>2, Zenon
<1>3. PICK m \in T : \A y \in T : m <= y
  BY <1>2, Least, Zenon
<1> DEFINE last == NBUF - m
<1>4. last \in Buf /\ lru[last] \in S
  BY <1>3, Zenon
<1>5. ASSUME NEW j \in last + 1..NBUF PROVE lru[j] \notin S
  <2>1. j \in Buf /\ NBUF - j \in Nat /\ NBUF - (NBUF - j) = j /\ ~(m <= NBUF - j)
    BY <1>1, <1>3 DEF Buf
  <2> QED BY <1>3, <2>1, Zenon
<1>6. \E k \in 1..NBUF : lru[k] \in S /\ \A j \in k + 1..NBUF : lru[j] \notin S
  BY <1>4, <1>5, Zenon DEF Buf
<1> QED BY <1>6, Zenon DEF LRU

\* The list still has every buffer after one has moved to its front.
LEMMA MoveFirstKeeps ==
  ASSUME TypeOK, NEW b \in Buf
  PROVE  /\ MoveFirst(b) \in [Buf -> Buf]
         /\ \A c \in Buf : \E k \in Buf : MoveFirst(b)[k] = c
<1>1. NBUF \in Nat \ {0} /\ lru \in [Buf -> Buf]
  BY BufAssumption DEF TypeOK
<1> DEFINE i == CHOOSE k \in Buf : lru[k] = b
           M == [k \in Buf |-> IF k = 1 THEN b ELSE IF k <= i THEN lru[k - 1] ELSE lru[k]]
<1>2. i \in Buf /\ lru[i] = b
  BY Zenon DEF TypeOK
<1>3. M = MoveFirst(b)
  BY Zenon DEF MoveFirst
<1> HIDE DEF i
<1>4. M \in [Buf -> Buf]
  <2> SUFFICES ASSUME NEW k \in Buf
               PROVE  (IF k = 1 THEN b ELSE IF k <= i THEN lru[k - 1] ELSE lru[k]) \in Buf
    BY Zenon
  <2>1. k /= 1 => k - 1 \in Buf
    BY <1>1 DEF Buf
  <2> QED BY <1>1, <2>1
<1>5. ASSUME NEW c \in Buf PROVE \E k \in Buf : M[k] = c
  <2>1. CASE c = b
    <3>1. 1 \in Buf
      BY <1>1 DEF Buf
    <3> QED BY <2>1, <3>1, Zenon
  <2>2. CASE c /= b
    <3>1. PICK j \in Buf : lru[j] = c
      BY Zenon DEF TypeOK
    <3>2. j /= i
      BY <1>2, <2>2, <3>1, Zenon
    <3>3. CASE j < i
      <4>1. j + 1 \in Buf /\ j + 1 /= 1 /\ j + 1 <= i /\ (j + 1) - 1 = j
        BY <1>1, <1>2, <3>3 DEF Buf
      <4> QED BY <3>1, <4>1, Zenon
    <3>4. CASE ~(j < i)
      <4>1. j /= 1 /\ ~(j <= i)
        BY <1>1, <1>2, <3>2, <3>4 DEF Buf
      <4> QED BY <3>1, <4>1, Zenon
    <3> QED BY <3>3, <3>4, Zenon
  <2> QED BY <2>1, <2>2, Zenon
<1> QED BY <1>3, <1>4, <1>5, Zenon
----------------------------------------------------------------------------
(* Every action keeps IInv.  The lemma of an action first states what the  *)
(* action changes, and the other steps work from that.                     *)

\* A buffer with no references has no user and no pin.
LEMMA NoReferences ==
  ASSUME IInv, NEW b \in Buf, refcnt[b] = 0
  PROVE  Users(b) = {} /\ blockno[b] \notin pinned
<1>1. Users(b) \in SUBSET User
  BY Zenon DEF Users
<1>2. IsFiniteSet(Users(b)) /\ Cardinality(Users(b)) \in Nat
  BY <1>1, Counted, Zenon
<1>3. refcnt[b] = Cardinality(Users(b)) + IF blockno[b] \in pinned THEN 1 ELSE 0
  BY Zenon DEF IInv, RefsExact
<1>4. Cardinality(Users(b)) = 0 /\ blockno[b] \notin pinned
  BY <1>2, <1>3
<1> QED BY <1>2, <1>4, FS_EmptySet, Zenon

LEMMA CountsUp ==
  ASSUME NEW u \in Nat, NEW P
  PROVE  (u + IF P THEN 1 ELSE 0) + 1 = (u + 1) + IF P THEN 1 ELSE 0
OBVIOUS

\* When nobody comes or goes the counts stay.
LEMMA RefsKept ==
  ASSUME RefsExact, UNCHANGED <<refcnt, blockno, pinned, buf>>,
         \A q \in User : pc'[q] = "idle" <=> pc[q] = "idle"
  PROVE  RefsExact'
<1>1. \A b \in Buf : Users(b)' = Users(b)
  BY Zenon DEF Users
<1> QED BY <1>1, Zenon DEF RefsExact

LEMMA bget_Keeps ==
  ASSUME IInv, NEW p \in User, NEW k \in Block, bget(p, k)
  PROVE  IInv'
<1> TypeOK /\ Held /\ Placed /\ Fresh /\ RefsExact /\ NoLostWakeup
  BY Zenon DEF IInv
<1>k. k /= NoBlock
  BY BufAssumption, Zenon
<1>a. /\ pc[p] = "idle" /\ UNCHANGED <<locked, disk, pinned, latest, data, lru>>
      /\ want' \in [User -> Block \cup {NoBlock}] /\ want'[p] = k
      /\ \A q \in User : q /= p => want'[q] = want[q]
  BY Zenon DEF bget, At, TypeOK, bufvars
<1>1. CASE Cached(k) = {} /\ Unused = {}
  <2>1. UNCHANGED <<blockno, valid, refcnt, pc, buf>> /\ panicked' \in BOOLEAN
    BY <1>1, Zenon DEF bget, bufvars
  <2>2. TypeOK'
    BY <1>a, <2>1, Zenon DEF TypeOK
  <2>3. Held' /\ Placed' /\ Fresh' /\ NoLostWakeup'
    BY <1>a, <2>1 DEF Held, Placed, Fresh, NoLostWakeup, Using
  <2>4. RefsExact'
    BY <1>a, <2>1, RefsKept, Zenon
  <2> QED BY <2>2, <2>3, <2>4, Zenon DEF IInv
<1>2. CASE ~(Cached(k) = {} /\ Unused = {})
  <2>a. PICK b \in Buf :
           /\ blockno[b] = k \/ (refcnt[b] = 0 /\ Cached(k) = {})
           /\ blockno' = [blockno EXCEPT ![b] = k]
           /\ valid' = [valid EXCEPT ![b] = valid[b] /\ blockno[b] = k]
           /\ refcnt' = [refcnt EXCEPT ![b] = @ + 1]
           /\ buf' = [buf EXCEPT ![p] = b]
           /\ pc' = [pc EXCEPT ![p] = "lock"]
           /\ UNCHANGED panicked
    <3> DEFINE x == IF Cached(k) /= {} THEN CHOOSE y \in Cached(k) : TRUE ELSE LRU(Unused)
    <3>1. /\ blockno' = [blockno EXCEPT ![x] = k]
          /\ valid' = [valid EXCEPT ![x] = valid[x] /\ blockno[x] = k]
          /\ refcnt' = [refcnt EXCEPT ![x] = @ + 1]
          /\ buf' = [buf EXCEPT ![p] = x]
          /\ pc' = [pc EXCEPT ![p] = "lock"]
          /\ UNCHANGED panicked
      BY <1>2, Zenon DEF bget, StillValid, Goto
    <3>2. x \in Buf /\ (blockno[x] = k \/ (refcnt[x] = 0 /\ Cached(k) = {}))
      <4>1. CASE Cached(k) /= {}
        BY <4>1, Zenon DEF Cached
      <4>2. CASE Cached(k) = {}
        <5>1. Unused \in SUBSET Buf /\ Unused /= {}
          BY <1>2, <4>2, Zenon DEF Unused
        <5>2. LRU(Unused) \in Unused
          BY <5>1, LRUUnused, Zenon
        <5> QED BY <4>2, <5>2, Zenon DEF Unused
      <4> QED BY <4>1, <4>2, Zenon
    <3> HIDE DEF x
    <3> QED BY <3>1, <3>2, Zenon
  <2>c. blockno[b] = k \/ (/\ Users(b) = {} /\ blockno[b] \notin pinned
                           /\ \A c \in Buf : blockno[c] /= k)
    BY <2>a, NoReferences, Zenon DEF Cached
  <2>d. /\ blockno'[b] = k /\ refcnt'[b] = refcnt[b] + 1
        /\ valid'[b] = (valid[b] /\ blockno[b] = k)
        /\ buf'[p] = b /\ pc'[p] = "lock"
        /\ \A c \in Buf : c /= b => /\ blockno'[c] = blockno[c] /\ valid'[c] = valid[c]
                                    /\ refcnt'[c] = refcnt[c]
        /\ \A q \in User : q /= p => buf'[q] = buf[q] /\ pc'[q] = pc[q]
    BY <2>a, ZenonT(30) DEF TypeOK
  <2>1. TypeOK'
    <3>1. refcnt' \in [Buf -> Nat]
      BY <2>a DEF TypeOK
    <3>2. /\ blockno' \in [Buf -> Block \cup {NoBlock}] /\ valid' \in [Buf -> BOOLEAN]
          /\ buf' \in [User -> Buf]
      BY <2>a, Zenon DEF TypeOK
    <3>3. pc' \in [User -> PCs]
      BY <2>a, Zenon DEF TypeOK, PCs
    <3> QED BY <1>a, <2>a, <3>1, <3>2, <3>3, Zenon DEF TypeOK
  <2>2. Held'
    <3>1. \A q \in User : q /= p /\ pc[q] /= "idle" /\ buf[q] = b => blockno[b] = k
      BY <2>c, Zenon DEF Users
    <3>2. \A q \in User : pc'[q] /= "idle" => want'[q] \in Block /\ blockno'[buf'[q]] = want'[q]
      <4> SUFFICES ASSUME NEW q \in User, pc'[q] /= "idle"
                   PROVE  want'[q] \in Block /\ blockno'[buf'[q]] = want'[q]
        BY Zenon
      <4>1. CASE q = p
        BY <1>a, <2>d, <4>1, Zenon
      <4>2. CASE q /= p
        BY <1>a, <2>d, <3>1, <4>2 DEF Held, TypeOK
      <4> QED BY <4>1, <4>2, Zenon
    <3>3. \A q \in User, c \in Buf : locked'[c] = q <=> Using(q)' /\ buf'[q] = c
      <4> SUFFICES ASSUME NEW q \in User, NEW c \in Buf
                   PROVE  locked'[c] = q <=> Using(q)' /\ buf'[q] = c
        BY ZenonT(30)
      <4>1. CASE q = p
        BY <1>a, <2>d, <4>1, ZenonT(30) DEF Held, Using
      <4>2. CASE q /= p
        BY <1>a, <2>d, <4>2 DEF Held, Using
      <4> QED BY <4>1, <4>2, Zenon
    <3> QED BY <3>2, <3>3, Zenon DEF Held
  <2>3. Placed'
    <3>1. \A c, d \in Buf : blockno'[c] = blockno'[d] /\ blockno'[c] /= NoBlock => c = d
      <4> SUFFICES ASSUME NEW c \in Buf, NEW d \in Buf, blockno'[c] = blockno'[d],
                          blockno'[c] /= NoBlock
                   PROVE  c = d
        BY Zenon
      <4>1. \A e \in Buf : blockno[e] = k => e = b \/ blockno[b] = k
        BY <2>c, Zenon
      <4>2. CASE c = b \/ d = b
        BY <1>k, <2>d, <4>1, <4>2 DEF Placed
      <4>3. CASE c /= b /\ d /= b
        BY <2>d, <4>3 DEF Placed
      <4> QED BY <4>2, <4>3, Zenon
    <3>2. \A j \in pinned' : \E c \in Buf : blockno'[c] = j /\ valid'[c]
      <4> SUFFICES ASSUME NEW j \in pinned PROVE \E c \in Buf : blockno'[c] = j /\ valid'[c]
        BY <1>a, Zenon
      <4>1. PICK c \in Buf : blockno[c] = j /\ valid[c]
        BY Zenon DEF Placed
      <4>2. c = b => blockno[b] = k
        BY <2>c, <4>1, Zenon
      <4>3. blockno'[c] = j /\ valid'[c]
        BY <2>d, <4>1, <4>2, Zenon
      <4> QED BY <4>3, Zenon
    <3> QED BY <1>a, <3>1, <3>2, Zenon DEF Placed
  <2>4. Fresh'
    <3>1. \A q \in User : pc'[q] \in {"use", "changed", "done"} => valid'[buf'[q]]
      <4> SUFFICES ASSUME NEW q \in User, pc'[q] \in {"use", "changed", "done"}
                   PROVE  valid'[buf'[q]]
        BY Zenon
      <4>1. q /= p
        BY <2>d, Zenon
      <4>2. pc[q] /= "idle" /\ valid[buf[q]] /\ buf[q] \in Buf
        BY <2>d, <4>1, ZenonT(30) DEF Fresh, TypeOK
      <4>3. buf[q] = b => blockno[b] = k
        BY <2>c, <4>2, Zenon DEF Users
      <4> QED BY <2>d, <4>1, <4>2, <4>3, ZenonT(30)
    <3>2. \A c \in Buf : valid'[c] /\ blockno'[c] /= NoBlock => data'[c] = latest'[blockno'[c]]
      <4> SUFFICES ASSUME NEW c \in Buf, valid'[c], blockno'[c] /= NoBlock
                   PROVE  data[c] = latest[blockno'[c]]
        BY <1>a, Zenon
      <4>1. valid[c] /\ blockno'[c] = blockno[c]
        BY <2>d, Zenon
      <4> QED BY <4>1, Zenon DEF Fresh
    <3>3. \A j \in Block : \/ disk'[j] = latest'[j] \/ j \in pinned'
                           \/ \E q \in User : pc'[q] = "changed" /\ want'[q] = j
      BY <1>a, <2>d DEF Fresh
    <3> QED BY <3>1, <3>2, <3>3, Zenon DEF Fresh
  <2>5. RefsExact'
    <3> SUFFICES ASSUME NEW c \in Buf
                 PROVE  refcnt'[c] = Cardinality(Users(c)') + IF blockno'[c] \in pinned' THEN 1 ELSE 0
      BY Zenon DEF RefsExact
    <3>0. refcnt[c] = Cardinality(Users(c)) + IF blockno[c] \in pinned THEN 1 ELSE 0
      BY Zenon DEF RefsExact
    <3>1. CASE c = b
      <4>1. Users(b)' = Users(b) \cup {p} /\ p \notin Users(b) /\ Users(b) \in SUBSET User
        <5>1. ASSUME NEW q PROVE q \in Users(b)' <=> q \in Users(b) \cup {p}
          <6>1. CASE q = p
            BY <1>a, <2>d, <6>1, Zenon DEF Users
          <6>2. CASE q /= p
            BY <1>a, <2>d, <6>2, Zenon DEF Users
          <6> QED BY <6>1, <6>2, Zenon
        <5>2. Users(b)' = Users(b) \cup {p}
          BY <5>1, ZenonT(30)
        <5> QED BY <1>a, <5>2, Zenon DEF Users
      <4>2. Cardinality(Users(b)') = Cardinality(Users(b)) + 1 /\ Cardinality(Users(b)) \in Nat
        BY <4>1, Counted, OneMore, ZenonT(30)
      <4>3. blockno'[b] \in pinned' <=> blockno[b] \in pinned
        BY <1>a, <2>c, <2>d DEF Placed
      <4>4. (IF blockno'[b] \in pinned' THEN 1 ELSE 0) = (IF blockno[b] \in pinned THEN 1 ELSE 0)
        BY <4>3, Zenon
      <4>5. refcnt'[b] = (Cardinality(Users(b)) + IF blockno[b] \in pinned THEN 1 ELSE 0) + 1
        BY <2>d, <3>0, <3>1, Zenon
      <4>6. refcnt'[b] = (Cardinality(Users(b)) + 1) + IF blockno[b] \in pinned THEN 1 ELSE 0
        BY <4>2, <4>5, CountsUp, Zenon
      <4>7. refcnt'[b] = Cardinality(Users(b)') + IF blockno'[b] \in pinned' THEN 1 ELSE 0
        BY <4>2, <4>4, <4>6, Zenon
      <4> QED BY <3>1, <4>7, Zenon DEF Users
    <3>2. CASE c /= b
      <4>1. Users(c)' = Users(c)
        BY <1>a, <2>d, <3>2, Zenon DEF Users
      <4> QED BY <1>a, <2>d, <3>0, <3>2, <4>1, ZenonT(30)
    <3> QED BY <3>1, <3>2, Zenon
  <2>6. NoLostWakeup'
    BY <1>a, <2>d, Zenon DEF NoLostWakeup
  <2> QED BY <2>1, <2>2, <2>3, <2>4, <2>5, <2>6, Zenon DEF IInv
<1> QED BY <1>1, <1>2, Zenon

\* acquiresleep: a sleeper sleeps on a lock that another has; a lock that is
\* free has no user.
LEMMA acquiresleep_Keeps ==
  ASSUME IInv, NEW p \in User, acquiresleep(p)
  PROVE  IInv'
<1> TypeOK /\ Held /\ Placed /\ Fresh /\ RefsExact /\ NoLostWakeup
  BY Zenon DEF IInv
<1>1. PICK b \in Buf : buf[p] = b
  BY Zenon DEF TypeOK
<1>a. /\ pc[p] \in {"lock", "woken"}
      /\ UNCHANGED <<blockno, valid, refcnt, data, lru, disk, want, buf, pinned, latest, panicked>>
      /\ \/ locked[b] /= NoUser /\ pc' = [pc EXCEPT ![p] = "asleep"] /\ UNCHANGED locked
         \/ /\ locked[b] = NoUser /\ pc' = [pc EXCEPT ![p] = "read"]
            /\ locked' = [locked EXCEPT ![b] = p]
  BY <1>1, Zenon DEF acquiresleep, Taken, Goto, bufvars
<1>b. /\ pc'[p] \in {"asleep", "read"}
      /\ \A q \in User : q /= p => pc'[q] = pc[q]
      /\ locked[b] /= NoUser => pc'[p] = "asleep" /\ UNCHANGED locked
      /\ locked[b] = NoUser => pc'[p] = "read" /\ locked'[b] = p
      /\ \A c \in Buf : c /= b => locked'[c] = locked[c]
  BY <1>a, ZenonT(30) DEF TypeOK
<1>2. TypeOK'
  <2>1. pc' \in [User -> PCs]
    BY <1>a DEF TypeOK, PCs
  <2>2. locked' \in [Buf -> User \cup {NoUser}]
    BY <1>a DEF TypeOK
  <2> QED BY <1>a, <2>1, <2>2, Zenon DEF TypeOK
<1>3. Held'
  <2>1. ASSUME NEW q \in User, NEW c \in Buf
        PROVE  locked'[c] = q <=> Using(q)' /\ buf'[q] = c
    <3>0. locked[c] = q <=> Using(q) /\ buf[q] = c
      BY Zenon DEF Held
    <3>1. q /= NoUser /\ p /= NoUser
      BY BufAssumption, Zenon
    <3>2. CASE q = p
      BY <1>1, <1>a, <1>b, <3>0, <3>1, <3>2, ZenonT(30) DEF Using
    <3>3. CASE q /= p
      BY <1>1, <1>a, <1>b, <3>0, <3>1, <3>3, Zenon DEF Using
    <3> QED BY <3>2, <3>3, Zenon
  <2>2. ASSUME NEW q \in User, pc'[q] /= "idle"
        PROVE  want'[q] \in Block /\ blockno'[buf'[q]] = want'[q]
    <3>1. pc[q] /= "idle"
      BY <1>a, <1>b, <2>2, Zenon
    <3> QED BY <1>a, <3>1, Zenon DEF Held
  <2> QED BY <2>1, <2>2, Zenon DEF Held
<1>4. Placed'
  BY <1>a, ZenonT(30) DEF Placed
<1>5. Fresh'
  BY <1>a, <1>b DEF Fresh
<1>6. RefsExact'
  BY <1>a, <1>b, RefsKept
<1>7. NoLostWakeup'
  <2> SUFFICES ASSUME NEW q \in User, pc'[q] = "asleep"
               PROVE  locked'[buf[q]] \notin {NoUser, q}
    BY <1>a, Zenon DEF NoLostWakeup
  <2>1. CASE q = p
    <3>1. locked[b] /= p
      BY <1>1, <1>a, Zenon DEF Held, Using
    <3> QED BY <1>1, <1>b, <2>1, <3>1, Zenon
  <2>2. CASE q /= p
    <3>1. locked[buf[q]] \notin {NoUser, q} /\ buf[q] \in Buf
      BY <1>b, <2>2, Zenon DEF NoLostWakeup, TypeOK
    <3>2. locked'[buf[q]] = locked[buf[q]]
      BY <1>b, <3>1, Zenon
    <3> QED BY <3>1, <3>2, Zenon
  <2> QED BY <2>1, <2>2, Zenon
<1> QED BY <1>2, <1>3, <1>4, <1>5, <1>6, <1>7, Zenon DEF IInv

\* What all steps of a buffer's user have in common: the pins, references and
\* the lock stay, and nobody else moves.
LEMMA UserStep ==
  ASSUME IInv, NEW p \in User, Using(p), Using(p)',
         \A q \in User : q /= p => pc'[q] = pc[q],
         UNCHANGED <<blockno, refcnt, lru, locked, want, buf, pinned, panicked>>,
         pc' \in [User -> PCs],
         valid' \in [Buf -> BOOLEAN], data' \in [Buf -> Value],
         disk' \in [Block -> Value], latest' \in [Block -> Value],
         \A b \in Buf : valid[b] => valid'[b]
  PROVE  TypeOK' /\ Held' /\ Placed' /\ RefsExact' /\ NoLostWakeup'
<1> TypeOK /\ Held /\ Placed /\ Fresh /\ RefsExact /\ NoLostWakeup
  BY Zenon DEF IInv
<1>1. \A q \in User : /\ Using(q)' <=> Using(q)
                      /\ pc'[q] = "idle" <=> pc[q] = "idle"
                      /\ pc'[q] = "asleep" <=> pc[q] = "asleep"
  BY Zenon DEF Using
<1>2. TypeOK'
  BY Zenon DEF TypeOK
<1>3. Held'
  BY <1>1 DEF Held
<1>4. Placed'
  BY Zenon DEF Placed
<1>5. RefsExact'
  BY <1>1, RefsKept
<1>6. NoLostWakeup'
  BY <1>1, Zenon DEF NoLostWakeup
<1> QED BY <1>2, <1>3, <1>4, <1>5, <1>6, Zenon

\* The rest of bread: a block whose buffer is not valid is neither pinned nor
\* just changed, so the disk has its latest contents.
LEMMA bread_Keeps ==
  ASSUME IInv, NEW p \in User, bread(p)
  PROVE  IInv'
<1> TypeOK /\ Held /\ Placed /\ Fresh /\ RefsExact /\ NoLostWakeup
  BY Zenon DEF IInv
<1>1. PICK b \in Buf : buf[p] = b
  BY Zenon DEF TypeOK
<1>a. /\ pc[p] = "read" /\ pc' = [pc EXCEPT ![p] = "use"]
      /\ UNCHANGED <<blockno, refcnt, lru, locked, disk, want, buf, pinned, latest, panicked>>
      /\ \/ valid[b] /\ UNCHANGED <<data, valid>>
         \/ /\ ~valid[b] /\ data' = [data EXCEPT ![b] = disk[blockno[b]]]
            /\ valid' = [valid EXCEPT ![b] = TRUE]
  BY <1>1, Zenon DEF bread, At, Goto
<1>b. /\ pc'[p] = "use" /\ \A q \in User : q /= p => pc'[q] = pc[q]
      /\ valid'[b]
      /\ ~valid[b] => data'[b] = disk[blockno[b]]
      /\ valid[b] => data'[b] = data[b]
      /\ \A c \in Buf : c /= b => data'[c] = data[c] /\ valid'[c] = valid[c]
  BY <1>a, ZenonT(30) DEF TypeOK
<1>c. blockno[b] \in Block
  BY <1>1, <1>a, Zenon DEF Held
<1>2. TypeOK' /\ Held' /\ Placed' /\ RefsExact' /\ NoLostWakeup'
  <2>1. pc' \in [User -> PCs]
    BY <1>a, Zenon DEF TypeOK, PCs
  <2>2. valid' \in [Buf -> BOOLEAN]
    BY <1>a, Zenon DEF TypeOK
  <2>3. data' \in [Buf -> Value]
    <3>1. disk[blockno[b]] \in Value
      BY <1>c, Zenon DEF TypeOK
    <3> QED BY <1>a, <3>1, Zenon DEF TypeOK
  <2>4. \A c \in Buf : valid[c] => valid'[c]
    BY <1>b, Zenon
  <2>5. Using(p) /\ Using(p)'
    BY <1>a, <1>b, Zenon DEF Using
  <2>6. disk' \in [Block -> Value] /\ latest' \in [Block -> Value]
    BY <1>a, Zenon DEF TypeOK
  <2> QED BY <1>a, <1>b, <2>1, <2>2, <2>3, <2>4, <2>5, <2>6, UserStep, Zenon
<1>3. ~valid[b] => disk[blockno[b]] = latest[blockno[b]]
  <2> SUFFICES ASSUME ~valid[b] PROVE disk[blockno[b]] = latest[blockno[b]]
    BY Zenon
  <2>1. blockno[b] /= NoBlock
    BY <1>c, BufAssumption, Zenon
  <2>2. blockno[b] \notin pinned
    BY <2>1, Zenon DEF Placed
  <2>3. ASSUME NEW q \in User, pc[q] = "changed", want[q] = blockno[b] PROVE FALSE
    <3>1. buf[q] \in Buf /\ valid[buf[q]] /\ blockno[buf[q]] = blockno[b]
      BY <2>3, Zenon DEF TypeOK, Fresh, Held
    <3> QED BY <2>1, <3>1, Zenon DEF Placed
  <2> QED BY <1>c, <2>2, <2>3, Zenon DEF Fresh
<1>4. Fresh'
  <2>1. ASSUME NEW q \in User, pc'[q] \in {"use", "changed", "done"} PROVE valid'[buf'[q]]
    BY <1>1, <1>a, <1>b, <2>1, ZenonT(30) DEF Fresh, TypeOK
  <2>2. ASSUME NEW c \in Buf, valid'[c], blockno'[c] /= NoBlock
        PROVE  data'[c] = latest'[blockno'[c]]
    BY <1>a, <1>b, <1>3, <2>2 DEF Fresh
  <2>3. ASSUME NEW k \in Block
        PROVE  \/ disk'[k] = latest'[k] \/ k \in pinned'
               \/ \E q \in User : pc'[q] = "changed" /\ want'[q] = k
    BY <1>a, <1>b DEF Fresh
  <2> QED BY <2>1, <2>2, <2>3, Zenon DEF Fresh
<1> QED BY <1>2, <1>4, Zenon DEF IInv

\* A change of the contents.
LEMMA Change_Keeps ==
  ASSUME IInv, NEW p \in User, NEW v \in Value, Change(p, v)
  PROVE  IInv'
<1> TypeOK /\ Held /\ Placed /\ Fresh /\ RefsExact /\ NoLostWakeup
  BY Zenon DEF IInv
<1>1. PICK b \in Buf : buf[p] = b
  BY Zenon DEF TypeOK
<1>a. /\ pc[p] = "use" /\ pc' = [pc EXCEPT ![p] = "changed"]
      /\ data' = [data EXCEPT ![b] = v] /\ latest' = [latest EXCEPT ![want[p]] = v]
      /\ UNCHANGED <<blockno, valid, refcnt, lru, locked, disk, want, buf, pinned, panicked>>
  BY <1>1, Zenon DEF Change, At, Goto
<1>c. blockno[b] = want[p] /\ want[p] \in Block /\ want[p] /= NoBlock
  BY <1>1, <1>a, BufAssumption, Zenon DEF Held
<1>b. /\ pc'[p] = "changed" /\ \A q \in User : q /= p => pc'[q] = pc[q]
      /\ data'[b] = v /\ \A c \in Buf : c /= b => data'[c] = data[c]
      /\ latest'[want[p]] = v /\ \A k \in Block : k /= want[p] => latest'[k] = latest[k]
  BY <1>a, <1>c, ZenonT(30) DEF TypeOK
<1>2. TypeOK' /\ Held' /\ Placed' /\ RefsExact' /\ NoLostWakeup'
  <2>1. pc' \in [User -> PCs]
    BY <1>a, Zenon DEF TypeOK, PCs
  <2>2. data' \in [Buf -> Value] /\ latest' \in [Block -> Value]
    BY <1>a, Zenon DEF TypeOK
  <2>3. valid' \in [Buf -> BOOLEAN] /\ disk' \in [Block -> Value]
    BY <1>a, Zenon DEF TypeOK
  <2>4. Using(p) /\ Using(p)'
    BY <1>a, <1>b, Zenon DEF Using
  <2> QED BY <1>a, <1>b, <2>1, <2>2, <2>3, <2>4, UserStep, Zenon
<1>3. Fresh'
  <2>1. ASSUME NEW q \in User, pc'[q] \in {"use", "changed", "done"} PROVE valid'[buf'[q]]
    BY <1>1, <1>a, <1>b, <2>1, Zenon DEF Fresh
  <2>2. ASSUME NEW c \in Buf, valid'[c], blockno'[c] /= NoBlock
        PROVE  data'[c] = latest'[blockno'[c]]
    <3>1. CASE c = b
      BY <1>a, <1>b, <1>c, <3>1, ZenonT(30)
    <3>2. CASE c /= b
      <4>1. blockno[c] /= want[p] /\ blockno[c] \in Block /\ data[c] = latest[blockno[c]]
        BY <1>a, <1>c, <2>2, <3>2 DEF Placed, Fresh, TypeOK
      <4> QED BY <1>a, <1>b, <3>2, <4>1, ZenonT(30)
    <3> QED BY <3>1, <3>2, Zenon
  <2>3. ASSUME NEW k \in Block
        PROVE  \/ disk'[k] = latest'[k] \/ k \in pinned'
               \/ \E q \in User : pc'[q] = "changed" /\ want'[q] = k
    <3>1. CASE k = want[p]
      BY <1>a, <1>b, <3>1, ZenonT(30)
    <3>2. CASE k /= want[p]
      BY <1>a, <1>b, <3>2 DEF Fresh
    <3> QED BY <3>1, <3>2, ZenonT(30)
  <2> QED BY <2>1, <2>2, <2>3, Zenon DEF Fresh
<1> QED BY <1>2, <1>3, Zenon DEF IInv

\* bwrite: the disk gets the latest contents; with bunpin the pin of the block
\* is given back, and with it one reference.
LEMMA bwrite_Keeps ==
  ASSUME IInv, NEW p \in User, NEW u \in BOOLEAN, bwrite(p, u)
  PROVE  IInv' /\ UNCHANGED panicked
<1> TypeOK /\ Held /\ Placed /\ Fresh /\ RefsExact /\ NoLostWakeup
  BY Zenon DEF IInv
<1>1. PICK b \in Buf : buf[p] = b
  BY Zenon DEF TypeOK
<1>a. /\ pc[p] \in {"use", "changed"} /\ pc' = [pc EXCEPT ![p] = "done"]
      /\ ~panicked /\ panicked' = (locked[b] /= p)
      /\ disk' = [disk EXCEPT ![blockno[b]] = data[b]]
      /\ UNCHANGED <<blockno, valid, data, lru, locked, want, buf, latest>>
      /\ u => want[p] \in pinned
      /\ refcnt' = [refcnt EXCEPT ![b] = IF u THEN @ - 1 ELSE @]
      /\ pinned' = IF u THEN pinned \ {want[p]} ELSE pinned
  BY <1>1, Zenon DEF bwrite, Goto, Written
<1>2. UNCHANGED panicked
  <2>1. Using(p)
    BY <1>a, Zenon DEF Using
  <2>2. locked[b] = p
    BY <1>1, <2>1, Zenon DEF Held
  <2> QED BY <1>a, <2>2, Zenon DEF TypeOK
<1>c. /\ blockno[b] = want[p] /\ want[p] \in Block /\ want[p] /= NoBlock
      /\ valid[b] /\ data[b] = latest[want[p]]
  <2>1. blockno[b] = want[p] /\ want[p] \in Block /\ want[p] /= NoBlock
    BY <1>1, <1>a, BufAssumption, ZenonT(30) DEF Held
  <2>2. valid[b]
    BY <1>1, <1>a, Zenon DEF Fresh
  <2> QED BY <2>1, <2>2, Zenon DEF Fresh
<1>b. /\ pc'[p] = "done" /\ \A q \in User : q /= p => pc'[q] = pc[q]
      /\ disk'[want[p]] = latest[want[p]]
      /\ \A k \in Block : k /= want[p] => disk'[k] = disk[k] /\ (k \in pinned' <=> k \in pinned)
  BY <1>a, <1>c, Zenon DEF TypeOK
<1>d. \A q \in User : /\ Using(q)' <=> Using(q)
                      /\ pc'[q] = "idle" <=> pc[q] = "idle"
                      /\ pc'[q] = "asleep" <=> pc[q] = "asleep"
  BY <1>a, <1>b, Zenon DEF Using
<1>3. RefsExact' /\ refcnt' \in [Buf -> Nat]
  <2>1. \A c \in Buf : Users(c)' = Users(c)
    BY <1>a, <1>d, Zenon DEF Users
  <2>2. CASE ~u
    <3>1. refcnt' = refcnt /\ pinned' = pinned
      BY <1>a, <2>2, Zenon DEF TypeOK
    <3> QED BY <1>a, <2>1, <3>1, ZenonT(30) DEF RefsExact, TypeOK
  <2>3. CASE u
    <3>1. refcnt[b] = Cardinality(Users(b)) + 1
      BY <1>a, <1>c, <2>3, Zenon DEF RefsExact
    <3>2. Cardinality(Users(b)) \in Nat
      <4>1. Users(b) \in SUBSET User
        BY Zenon DEF Users
      <4> QED BY <4>1, Counted, Zenon
    <3>3. refcnt[b] - 1 = Cardinality(Users(b)) + 0 /\ refcnt[b] - 1 \in Nat
      BY <3>1, <3>2
    <3>4. refcnt'[b] = refcnt[b] - 1 /\ \A c \in Buf : c /= b => refcnt'[c] = refcnt[c]
      BY <1>a, <2>3, Zenon DEF TypeOK
    <3>5. refcnt' \in [Buf -> Nat]
      BY <1>a, <2>3, <3>3, Zenon DEF TypeOK
    <3>6. ASSUME NEW c \in Buf
          PROVE  refcnt'[c] = Cardinality(Users(c)') + IF blockno'[c] \in pinned' THEN 1 ELSE 0
      <4>1. CASE c = b
        <5>1. blockno'[c] \notin pinned' /\ Users(c)' = Users(b)
          BY <1>a, <1>c, <2>1, <2>3, <4>1, Zenon
        <5> QED BY <3>3, <3>4, <4>1, <5>1, ZenonT(30)
      <4>2. CASE c /= b
        <5>1. blockno'[c] = blockno[c] /\ blockno[c] /= want[p]
          BY <1>a, <1>c, <4>2, Zenon DEF Placed
        <5>2. blockno'[c] \in pinned' <=> blockno[c] \in pinned
          BY <1>a, <2>3, <5>1, Zenon
        <5>3. Users(c)' = Users(c)
          BY <2>1, Zenon
        <5> QED BY <3>4, <4>2, <5>2, <5>3, ZenonT(30) DEF RefsExact
      <4> QED BY <4>1, <4>2, Zenon
    <3> QED BY <3>5, <3>6, Zenon DEF RefsExact
  <2> QED BY <2>2, <2>3, Zenon
<1>4. Placed'
  <2>1. pinned' \in SUBSET pinned
    BY <1>a, Zenon
  <2>2. IsFiniteSet(pinned') /\ Cardinality(pinned') <= Cardinality(pinned)
    BY <2>1, FS_Subset, Zenon DEF Placed
  <2>3. Cardinality(pinned') \in Nat /\ Cardinality(pinned) \in Nat
    BY <2>2, FS_CardinalityType, Zenon DEF Placed
  <2>4. Cardinality(pinned') <= MaxPins
    BY <2>2, <2>3, BufAssumption DEF Placed
  <2> QED BY <1>a, <2>1, <2>2, <2>4, Zenon DEF Placed
<1>5. TypeOK'
  <2>1. pc' \in [User -> PCs]
    BY <1>a, Zenon DEF TypeOK, PCs
  <2>2. disk' \in [Block -> Value]
    BY <1>a, Zenon DEF TypeOK
  <2>3. pinned' \subseteq Block
    BY <1>a, Zenon DEF TypeOK
  <2> QED BY <1>2, <1>3, <1>a, <2>1, <2>2, <2>3, Zenon DEF TypeOK
<1>6. Held'
  BY <1>a, <1>d DEF Held
<1>7. Fresh'
  <2>1. ASSUME NEW q \in User, pc'[q] \in {"use", "changed", "done"} PROVE valid'[buf'[q]]
    BY <1>1, <1>a, <1>b, <1>c, <2>1, Zenon DEF Fresh
  <2>2. ASSUME NEW k \in Block
        PROVE  \/ disk'[k] = latest'[k] \/ k \in pinned'
               \/ \E q \in User : pc'[q] = "changed" /\ want'[q] = k
    <3>1. CASE k = want[p]
      BY <1>a, <1>b, <3>1, Zenon
    <3>2. CASE k /= want[p]
      <4>1. \/ disk[k] = latest[k] \/ k \in pinned
            \/ \E q \in User : pc[q] = "changed" /\ want[q] = k
        BY Zenon DEF Fresh
      <4> QED BY <1>a, <1>b, <3>2, <4>1, Zenon
    <3> QED BY <3>1, <3>2, Zenon
  <2>3. \A c \in Buf : valid'[c] /\ blockno'[c] /= NoBlock => data'[c] = latest'[blockno'[c]]
    BY <1>a, Zenon DEF Fresh
  <2> QED BY <2>1, <2>2, <2>3, Zenon DEF Fresh
<1>8. NoLostWakeup'
  BY <1>a, <1>d, ZenonT(30) DEF NoLostWakeup
<1> QED BY <1>2, <1>3, <1>4, <1>5, <1>6, <1>7, <1>8, Zenon DEF IInv

\* bpin: a block that was not pinned gets its pin and a reference.
LEMMA bpin_Keeps ==
  ASSUME IInv, NEW p \in User, bpin(p)
  PROVE  IInv'
<1> TypeOK /\ Held /\ Placed /\ Fresh /\ RefsExact /\ NoLostWakeup
  BY Zenon DEF IInv
<1>1. PICK b \in Buf : buf[p] = b
  BY Zenon DEF TypeOK
<1>a. /\ pc[p] = "changed" /\ pc' = [pc EXCEPT ![p] = "done"]
      /\ want[p] \in pinned \/ Cardinality(pinned) < MaxPins
      /\ refcnt' = [refcnt EXCEPT ![b] = IF want[p] \in pinned THEN refcnt[b] ELSE refcnt[b] + 1]
      /\ pinned' = pinned \cup {want[p]}
      /\ UNCHANGED <<blockno, valid, data, lru, locked, disk, want, buf, latest, panicked>>
  BY <1>1, Zenon DEF bpin, At, Goto, Pins
<1>c. blockno[b] = want[p] /\ want[p] \in Block /\ want[p] /= NoBlock /\ valid[b]
  <2>1. blockno[b] = want[p] /\ want[p] \in Block /\ want[p] /= NoBlock
    BY <1>1, <1>a, BufAssumption, Zenon DEF Held
  <2>2. valid[b]
    BY <1>1, <1>a, Zenon DEF Fresh
  <2> QED BY <2>1, <2>2, Zenon
<1>b. pc'[p] = "done" /\ \A q \in User : q /= p => pc'[q] = pc[q]
  BY <1>a, Zenon DEF TypeOK
<1>d. \A q \in User : /\ Using(q)' <=> Using(q)
                      /\ pc'[q] = "idle" <=> pc[q] = "idle"
                      /\ pc'[q] = "asleep" <=> pc[q] = "asleep"
  BY <1>a, <1>b, Zenon DEF Using
<1>3. RefsExact' /\ refcnt' \in [Buf -> Nat]
  <2>1. \A c \in Buf : Users(c)' = Users(c)
    BY <1>a, <1>d, Zenon DEF Users
  <2>2. CASE want[p] \in pinned
    <3>1. refcnt' = refcnt /\ pinned' = pinned
      BY <1>a, <2>2, Zenon DEF TypeOK
    <3> QED BY <1>a, <2>1, <3>1, Zenon DEF RefsExact, TypeOK
  <2>3. CASE want[p] \notin pinned
    <3>1. refcnt[b] = Cardinality(Users(b)) + 0
      BY <1>a, <1>c, <2>3, Zenon DEF RefsExact
    <3>2. Cardinality(Users(b)) \in Nat
      <4>1. Users(b) \in SUBSET User
        BY Zenon DEF Users
      <4> QED BY <4>1, Counted, Zenon
    <3>3. refcnt[b] + 1 = Cardinality(Users(b)) + 1 /\ refcnt[b] + 1 \in Nat
      BY <3>1, <3>2
    <3>4. refcnt'[b] = refcnt[b] + 1 /\ \A c \in Buf : c /= b => refcnt'[c] = refcnt[c]
      BY <1>a, <2>3, Zenon DEF TypeOK
    <3>5. refcnt' \in [Buf -> Nat]
      BY <1>a, <2>3, <3>3, Zenon DEF TypeOK
    <3>6. ASSUME NEW c \in Buf
          PROVE  refcnt'[c] = Cardinality(Users(c)') + IF blockno'[c] \in pinned' THEN 1 ELSE 0
      <4>1. CASE c = b
        <5>1. blockno'[c] \in pinned' /\ Users(c)' = Users(b)
          BY <1>a, <1>c, <2>1, <2>3, <4>1, Zenon
        <5> QED BY <3>3, <3>4, <4>1, <5>1, ZenonT(30)
      <4>2. CASE c /= b
        <5>1. blockno'[c] = blockno[c] /\ blockno[c] /= want[p]
          BY <1>a, <1>c, <4>2, Zenon DEF Placed
        <5>2. blockno'[c] \in pinned' <=> blockno[c] \in pinned
          BY <1>a, <2>3, <5>1, Zenon
        <5>3. Users(c)' = Users(c)
          BY <2>1, Zenon
        <5> QED BY <3>4, <4>2, <5>2, <5>3, Zenon DEF RefsExact
      <4> QED BY <4>1, <4>2, Zenon
    <3> QED BY <3>5, <3>6, Zenon DEF RefsExact
  <2> QED BY <2>2, <2>3, Zenon
<1>4. Placed'
  <2>1. IsFiniteSet(pinned') /\ Cardinality(pinned') <= MaxPins
    <3>1. CASE want[p] \in pinned
      <4>1. pinned' = pinned
        BY <1>a, <3>1, Zenon
      <4> QED BY <4>1, Zenon DEF Placed
    <3>2. CASE want[p] \notin pinned
      <4>1. IsFiniteSet(pinned') /\ Cardinality(pinned') = Cardinality(pinned) + 1
        BY <1>a, <3>2, OneMore, Zenon DEF Placed
      <4>2. Cardinality(pinned) \in Nat /\ Cardinality(pinned) < MaxPins
        BY <1>a, <3>2, FS_CardinalityType, Zenon DEF Placed
      <4>3. Cardinality(pinned) + 1 <= MaxPins
        BY <4>2, BufAssumption
      <4> QED BY <4>1, <4>3, Zenon
    <3> QED BY <3>1, <3>2, Zenon
  <2>2. \A k \in pinned' : \E c \in Buf : blockno'[c] = k /\ valid'[c]
    BY <1>a, <1>c, Zenon DEF Placed
  <2> QED BY <1>a, <2>1, <2>2, Zenon DEF Placed
<1>5. TypeOK'
  <2>1. pc' \in [User -> PCs]
    BY <1>a, Zenon DEF TypeOK, PCs
  <2>2. pinned' \subseteq Block
    BY <1>a, <1>c, Zenon DEF TypeOK
  <2> QED BY <1>3, <1>a, <2>1, <2>2, Zenon DEF TypeOK
<1>6. Held'
  BY <1>a, <1>d DEF Held
<1>7. Fresh'
  <2>1. ASSUME NEW q \in User, pc'[q] \in {"use", "changed", "done"} PROVE valid'[buf'[q]]
    BY <1>1, <1>a, <1>b, <1>c, <2>1, ZenonT(30) DEF Fresh
  <2>2. ASSUME NEW k \in Block
        PROVE  \/ disk'[k] = latest'[k] \/ k \in pinned'
               \/ \E q \in User : pc'[q] = "changed" /\ want'[q] = k
    <3>1. \/ disk[k] = latest[k] \/ k \in pinned
          \/ \E q \in User : pc[q] = "changed" /\ want[q] = k
      BY Zenon DEF Fresh
    <3> QED BY <1>a, <1>b, <3>1, Zenon
  <2>3. \A c \in Buf : valid'[c] /\ blockno'[c] /= NoBlock => data'[c] = latest'[blockno'[c]]
    BY <1>a, Zenon DEF Fresh
  <2> QED BY <2>1, <2>2, <2>3, Zenon DEF Fresh
<1>8. NoLostWakeup'
  BY <1>a, <1>d, ZenonT(30) DEF NoLostWakeup
<1> QED BY <1>3, <1>4, <1>5, <1>6, <1>7, <1>8, Zenon DEF IInv

\* releasesleep: its caller has the lock, and everybody who sleeps for it is
\* woken.
LEMMA releasesleep_Keeps ==
  ASSUME IInv, NEW p \in User, releasesleep(p)
  PROVE  IInv' /\ UNCHANGED panicked
<1> TypeOK /\ Held /\ Placed /\ Fresh /\ RefsExact /\ NoLostWakeup
  BY Zenon DEF IInv
<1>1. PICK b \in Buf : buf[p] = b
  BY Zenon DEF TypeOK
<1>a. /\ pc[p] \in {"use", "done"} /\ ~panicked /\ panicked' = (locked[b] /= p)
      /\ locked' = [locked EXCEPT ![b] = NoUser]
      /\ pc' = [[q \in User |-> IF pc[q] = "asleep" /\ buf[q] = b THEN "woken" ELSE pc[q]]
                  EXCEPT ![p] = "unref"]
      /\ UNCHANGED <<blockno, valid, refcnt, data, lru, disk, want, buf, pinned, latest>>
  BY <1>1, Zenon DEF releasesleep, Awake, bufvars
<1>2. locked[b] = p /\ UNCHANGED panicked
  <2>1. Using(p)
    BY <1>a, Zenon DEF Using
  <2>2. locked[b] = p
    BY <1>1, <2>1, Zenon DEF Held
  <2> QED BY <1>a, <2>2, Zenon DEF TypeOK
<1>b. /\ pc'[p] = "unref"
      /\ \A q \in User : q /= p => pc'[q] = IF pc[q] = "asleep" /\ buf[q] = b THEN "woken" ELSE pc[q]
      /\ locked'[b] = NoUser /\ \A c \in Buf : c /= b => locked'[c] = locked[c]
  BY <1>a, Zenon DEF TypeOK
<1>d. \A q \in User : /\ q /= p => (Using(q)' <=> Using(q))
                      /\ pc'[q] = "idle" <=> pc[q] = "idle"
                      /\ pc'[q] \in {"use", "changed", "done"} => pc[q] = pc'[q]
                      /\ pc'[q] = "changed" <=> pc[q] = "changed"
  BY <1>a, <1>b DEF Using
<1>3. TypeOK'
  <2>1. pc' \in [User -> PCs]
    BY <1>a DEF TypeOK, PCs
  <2>2. locked' \in [Buf -> User \cup {NoUser}]
    BY <1>a, ZenonT(30) DEF TypeOK
  <2> QED BY <1>2, <1>a, <2>1, <2>2, ZenonT(30) DEF TypeOK
<1>4. Held'
  <2>1. ASSUME NEW q \in User, NEW c \in Buf
        PROVE  locked'[c] = q <=> Using(q)' /\ buf'[q] = c
    <3>0. (locked[c] = q <=> Using(q) /\ buf[q] = c) /\ q /= NoUser
      BY BufAssumption, Zenon DEF Held
    <3>1. ~Using(p)'
      BY <1>b, Zenon DEF Using
    <3>2. CASE q = p
      <4>1. locked'[c] /= p
        BY <1>1, <1>b, <3>0, <3>2, Zenon
      <4> QED BY <3>1, <3>2, <4>1, Zenon
    <3>3. CASE q /= p
      <4>1. CASE c = b
        BY <1>2, <1>a, <1>b, <1>d, <3>0, <3>3, <4>1, ZenonT(30)
      <4>2. CASE c /= b
        BY <1>a, <1>b, <1>d, <3>0, <3>3, <4>2, Zenon
      <4> QED BY <4>1, <4>2, ZenonT(30)
    <3> QED BY <3>2, <3>3, Zenon
  <2>2. ASSUME NEW q \in User, pc'[q] /= "idle"
        PROVE  want'[q] \in Block /\ blockno'[buf'[q]] = want'[q]
    BY <1>a, <1>d, <2>2, Zenon DEF Held
  <2> QED BY <2>1, <2>2, Zenon DEF Held
<1>5. Placed'
  BY <1>a, Zenon DEF Placed
<1>6. Fresh'
  <2>1. \A q \in User : pc'[q] \in {"use", "changed", "done"} => valid'[buf'[q]]
    BY <1>a, <1>d, Zenon DEF Fresh
  <2>2. ASSUME NEW k \in Block
        PROVE  \/ disk'[k] = latest'[k] \/ k \in pinned'
               \/ \E q \in User : pc'[q] = "changed" /\ want'[q] = k
    <3>1. \/ disk[k] = latest[k] \/ k \in pinned
          \/ \E q \in User : pc[q] = "changed" /\ want[q] = k
      BY Zenon DEF Fresh
    <3> QED BY <1>a, <1>d, <3>1, Zenon
  <2>3. \A c \in Buf : valid'[c] /\ blockno'[c] /= NoBlock => data'[c] = latest'[blockno'[c]]
    BY <1>a, Zenon DEF Fresh
  <2> QED BY <2>1, <2>2, <2>3, Zenon DEF Fresh
<1>7. RefsExact'
  BY <1>a, <1>d, RefsKept, Zenon
<1>8. NoLostWakeup'
  <2> SUFFICES ASSUME NEW q \in User, pc'[q] = "asleep"
               PROVE  locked'[buf[q]] \notin {NoUser, q}
    BY <1>a, Zenon DEF NoLostWakeup
  <2>1. q /= p /\ pc[q] = "asleep" /\ buf[q] /= b
    BY <1>b, Zenon
  <2>2. locked[buf[q]] \notin {NoUser, q} /\ buf[q] \in Buf
    BY <2>1, ZenonT(30) DEF NoLostWakeup, TypeOK
  <2> QED BY <1>b, <2>1, <2>2, Zenon
<1> QED BY <1>2, <1>3, <1>4, <1>5, <1>6, <1>7, <1>8, Zenon DEF IInv

\* The rest of brelse: the process gives back its reference.
LEMMA brelse_Keeps ==
  ASSUME IInv, NEW p \in User, brelse(p)
  PROVE  IInv' /\ UNCHANGED panicked
<1> TypeOK /\ Held /\ Placed /\ Fresh /\ RefsExact /\ NoLostWakeup
  BY Zenon DEF IInv
<1>1. PICK b \in Buf : buf[p] = b
  BY Zenon DEF TypeOK
<1>a. /\ pc[p] = "unref" /\ pc' = [pc EXCEPT ![p] = "idle"]
      /\ refcnt' = [refcnt EXCEPT ![b] = @ - 1]
      /\ lru' = lru \/ lru' = MoveFirst(b)
      /\ want' = [want EXCEPT ![p] = NoBlock]
      /\ buf' = [buf EXCEPT ![p] = 1]
      /\ UNCHANGED <<blockno, valid, data, locked, disk, pinned, latest, panicked>>
  BY <1>1, Zenon DEF brelse, At, Goto
<1>b. /\ pc'[p] = "idle" /\ refcnt'[b] = refcnt[b] - 1
      /\ \A q \in User : q /= p => pc'[q] = pc[q] /\ buf'[q] = buf[q] /\ want'[q] = want[q]
      /\ \A c \in Buf : c /= b => refcnt'[c] = refcnt[c]
  BY <1>a, Zenon DEF TypeOK
<1>2. 1 \in Buf
  BY BufAssumption DEF Buf
<1>3. /\ Users(b)' = Users(b) \ {p} /\ p \in Users(b) /\ Users(b) \in SUBSET User
      /\ \A c \in Buf : c /= b => Users(c)' = Users(c)
  <2>1. p \in Users(b) /\ Users(b) \in SUBSET User
    BY <1>1, <1>a, Zenon DEF Users
  <2>2. ASSUME NEW q, NEW c \in Buf PROVE q \in Users(c)' <=> q \in Users(c) /\ q /= p
    <3>1. CASE q = p
      BY <1>b, <3>1, Zenon DEF Users
    <3>2. CASE q /= p
      BY <1>b, <3>2, Zenon DEF Users
    <3> QED BY <3>1, <3>2, Zenon
  <2>3. ASSUME NEW c \in Buf PROVE Users(c)' = Users(c) \ {p}
    BY <2>2, Zenon
  <2>4. ASSUME NEW c \in Buf, c /= b PROVE Users(c) \ {p} = Users(c)
    BY <1>1, <2>4, Zenon DEF Users
  <2> QED BY <2>1, <2>3, <2>4, Zenon
<1>4. /\ refcnt[b] = Cardinality(Users(b)) + IF blockno[b] \in pinned THEN 1 ELSE 0
      /\ Cardinality(Users(b)') = Cardinality(Users(b)) - 1
      /\ Cardinality(Users(b)) \in Nat /\ Cardinality(Users(b)') \in Nat
  <2>1. IsFiniteSet(Users(b)) /\ Cardinality(Users(b)) \in Nat
    BY <1>3, Counted, Zenon
  <2>2. IsFiniteSet(Users(b)') /\ Cardinality(Users(b)') = Cardinality(Users(b)) - 1
    <3>1. /\ IsFiniteSet(Users(b) \ {p})
          /\ Cardinality(Users(b) \ {p}) = Cardinality(Users(b)) - 1
      BY <1>3, <2>1, OneLess, Zenon
    <3>2. Users(b)' = Users(b) \ {p}
      BY <1>3, Zenon
    <3> QED BY <3>1, <3>2, Zenon
  <2>3. Cardinality(Users(b)') \in Nat
    BY <2>2, FS_CardinalityType, Zenon
  <2> QED BY <2>1, <2>2, <2>3, Zenon DEF RefsExact
<1>5. /\ refcnt'[b] = Cardinality(Users(b)') + IF blockno[b] \in pinned THEN 1 ELSE 0
      /\ refcnt'[b] \in Nat
  <2> DEFINE m == Cardinality(Users(b))
             n == Cardinality(Users(b)')
             r == refcnt[b]
             s == refcnt'[b]
  <2>1. /\ r = m + IF blockno[b] \in pinned THEN 1 ELSE 0
        /\ n = m - 1 /\ m \in Nat /\ n \in Nat /\ s = r - 1
    BY <1>4, <1>b, Zenon
  <2> HIDE DEF m, n, r, s
  <2>2. (s = n + IF blockno[b] \in pinned THEN 1 ELSE 0) /\ s \in Nat
    BY <2>1
  <2> QED BY <2>2, Zenon DEF n, s
<1>6. RefsExact'
  <2> SUFFICES ASSUME NEW c \in Buf
               PROVE  refcnt'[c] = Cardinality(Users(c)') + IF blockno'[c] \in pinned' THEN 1 ELSE 0
    BY Zenon DEF RefsExact
  <2>1. CASE c = b
    BY <1>a, <1>5, <2>1, ZenonT(30)
  <2>2. CASE c /= b
    BY <1>a, <1>b, <1>3, <2>2, ZenonT(30) DEF RefsExact
  <2> QED BY <2>1, <2>2, Zenon
<1>7. TypeOK'
  <2>1. pc' \in [User -> PCs] /\ want' \in [User -> Block \cup {NoBlock}]
    BY <1>a, Zenon DEF TypeOK, PCs
  <2>2. buf' \in [User -> Buf]
    BY <1>a, <1>2, Zenon DEF TypeOK
  <2>3. refcnt' \in [Buf -> Nat]
    BY <1>a, <1>b, <1>5, Zenon DEF TypeOK
  <2>4. lru' \in [Buf -> Buf] /\ \A c \in Buf : \E k \in Buf : lru'[k] = c
    <3>1. CASE lru' = lru
      BY <3>1, ZenonT(30) DEF TypeOK
    <3>2. CASE lru' = MoveFirst(b)
      BY <3>2, MoveFirstKeeps, Zenon
    <3> QED BY <1>a, <3>1, <3>2, Zenon
  <2> QED BY <1>a, <2>1, <2>2, <2>3, <2>4, Zenon DEF TypeOK
<1>8. Held'
  <2>1. ASSUME NEW q \in User, NEW c \in Buf
        PROVE  locked'[c] = q <=> Using(q)' /\ buf'[q] = c
    <3>0. locked[c] = q <=> Using(q) /\ buf[q] = c
      BY Zenon DEF Held
    <3>1. CASE q = p
      BY <1>a, <1>b, <3>0, <3>1, ZenonT(30) DEF Using
    <3>2. CASE q /= p
      BY <1>a, <1>b, <3>0, <3>2, Zenon DEF Using
    <3> QED BY <3>1, <3>2, Zenon
  <2>2. ASSUME NEW q \in User, pc'[q] /= "idle"
        PROVE  want'[q] \in Block /\ blockno'[buf'[q]] = want'[q]
    BY <1>a, <1>b, <2>2, ZenonT(30) DEF Held
  <2> QED BY <2>1, <2>2, Zenon DEF Held
<1>9. Placed'
  BY <1>a, Zenon DEF Placed
<1>10. Fresh'
  <2>1. ASSUME NEW q \in User, pc'[q] \in {"use", "changed", "done"} PROVE valid'[buf'[q]]
    BY <1>a, <1>b, <2>1, Zenon DEF Fresh
  <2>2. ASSUME NEW k \in Block
        PROVE  \/ disk'[k] = latest'[k] \/ k \in pinned'
               \/ \E q \in User : pc'[q] = "changed" /\ want'[q] = k
    <3>1. \/ disk[k] = latest[k] \/ k \in pinned
          \/ \E q \in User : pc[q] = "changed" /\ want[q] = k
      BY Zenon DEF Fresh
    <3> QED BY <1>a, <1>b, <3>1, ZenonT(30)
  <2>3. \A c \in Buf : valid'[c] /\ blockno'[c] /= NoBlock => data'[c] = latest'[blockno'[c]]
    BY <1>a, Zenon DEF Fresh
  <2> QED BY <2>1, <2>2, <2>3, Zenon DEF Fresh
<1>11. NoLostWakeup'
  BY <1>a, <1>b, Zenon DEF NoLostWakeup
<1> QED BY <1>a, <1>6, <1>7, <1>8, <1>9, <1>10, <1>11, ZenonT(30) DEF IInv
----------------------------------------------------------------------------
(* The theorems. *)

LEMMA InitIInv == Init => IInv
<1> SUFFICES ASSUME Init PROVE IInv
  OBVIOUS
<1>1. NBUF \in Nat \ {0} /\ MaxPins \in Nat /\ 1 \in Buf
  BY BufAssumption DEF Buf
<1>2. lru \in [Buf -> Buf] /\ \A b \in Buf : \E k \in Buf : lru[k] = b
  <2>1. \A k \in Buf : NBUF + 1 - k \in Buf /\ NBUF + 1 - (NBUF + 1 - k) = k
    BY <1>1 DEF Buf
  <2> QED BY <2>1, Zenon DEF Init
<1>3. TypeOK
  <2>1. pc \in [User -> PCs] /\ buf \in [User -> Buf] /\ refcnt \in [Buf -> Nat]
    BY <1>1 DEF Init, PCs
  <2>2. data \in [Buf -> Value] /\ disk \in [Block -> Value] /\ latest \in [Block -> Value]
    BY Zenon DEF Init
  <2>3. /\ blockno \in [Buf -> Block \cup {NoBlock}] /\ valid \in [Buf -> BOOLEAN]
        /\ locked \in [Buf -> User \cup {NoUser}] /\ want \in [User -> Block \cup {NoBlock}]
        /\ pinned \subseteq Block /\ panicked \in BOOLEAN
    BY Zenon DEF Init
  <2> QED BY <1>2, <2>1, <2>2, <2>3, Zenon DEF TypeOK
<1>4. /\ \A b \in Buf : blockno[b] = NoBlock /\ locked[b] = NoUser /\ refcnt[b] = 0
      /\ \A p \in User : pc[p] = "idle" /\ p /= NoUser
      /\ pinned = {} /\ latest = disk
  BY BufAssumption, Zenon DEF Init
<1>5. Held
  BY <1>4, Zenon DEF Held, Using
<1>6. Placed
  <2>1. IsFiniteSet(pinned) /\ Cardinality(pinned) = 0
    BY <1>4, FS_EmptySet, Zenon
  <2>2. Cardinality(pinned) <= MaxPins
    BY <1>1, <2>1
  <2> QED BY <1>4, <2>1, <2>2, Zenon DEF Placed
<1>7. Fresh
  BY <1>4, Zenon DEF Fresh
<1>8. RefsExact
  <2> SUFFICES ASSUME NEW b \in Buf
               PROVE  refcnt[b] = Cardinality(Users(b)) + IF blockno[b] \in pinned THEN 1 ELSE 0
    BY Zenon DEF RefsExact
  <2>1. Users(b) = {} /\ blockno[b] \notin pinned
    BY <1>4, Zenon DEF Users
  <2>2. Cardinality(Users(b)) = 0
    BY <2>1, FS_EmptySet, Zenon
  <2>3. 0 = 0 + 0
    OBVIOUS
  <2> QED BY <1>4, <2>1, <2>2, <2>3, Zenon
<1>9. NoLostWakeup
  BY <1>4, Zenon DEF NoLostWakeup
<1> QED BY <1>3, <1>5, <1>6, <1>7, <1>8, <1>9, Zenon DEF IInv

LEMMA NextIInv == IInv /\ [Next]_vars => IInv'
<1> SUFFICES ASSUME IInv, [Next]_vars PROVE IInv'
  OBVIOUS
<1>1. CASE UNCHANGED vars
  <2> TypeOK /\ Held /\ Placed /\ Fresh /\ RefsExact /\ NoLostWakeup
    BY Zenon DEF IInv
  <2>a. UNCHANGED <<blockno, valid, refcnt, data, lru, locked, disk, pc, want, buf, pinned, latest,
                    panicked>>
    BY <1>1, Zenon DEF vars, bufvars, uservars
  <2>1. TypeOK' /\ Placed' /\ NoLostWakeup'
    BY <2>a, Zenon DEF TypeOK, Placed, NoLostWakeup
  <2>2. Held'
    BY <2>a DEF Held, Using
  <2>3. Fresh'
    BY <2>a, Zenon DEF Fresh
  <2>4. RefsExact'
    BY <2>a, RefsKept, Zenon
  <2> QED BY <2>1, <2>2, <2>3, <2>4, Zenon DEF IInv
<1>2. ASSUME NEW p \in User, NEW k \in Block, bget(p, k) PROVE IInv'
  BY <1>2, bget_Keeps, Zenon
<1>3. ASSUME NEW p \in User, acquiresleep(p) \/ bread(p) PROVE IInv'
  BY <1>3, acquiresleep_Keeps, bread_Keeps, Zenon
<1>4. ASSUME NEW p \in User, NEW v \in Value, Change(p, v) PROVE IInv'
  BY <1>4, Change_Keeps, Zenon
<1>5. ASSUME NEW p \in User, NEW u \in BOOLEAN, bwrite(p, u) PROVE IInv'
  BY <1>5, bwrite_Keeps, Zenon
<1>6. ASSUME NEW p \in User, bpin(p) \/ releasesleep(p) \/ brelse(p) PROVE IInv'
  BY <1>6, bpin_Keeps, releasesleep_Keeps, brelse_Keeps, Zenon
<1>7. CASE panic
  BY <1>1, <1>7, Zenon DEF panic
<1> QED BY <1>1, <1>2, <1>3, <1>4, <1>5, <1>6, <1>7, Zenon DEF Next

\* The inductive invariant of bio.c holds in every state.
THEOREM BufCacheInvariant == Spec => []IInv
BY InitIInv, NextIInv, PTL DEF Spec

\* Whatever is cached, recycled, pinned and waited for, bread returns the block
\* it was asked for, with the contents written last, and no change is lost with
\* its buffer (bio.c:55-104).
THEOREM BufCacheReadsLatest == Spec => []ReadsLatest
<1>1. IInv => ReadsLatest
  <2> SUFFICES ASSUME IInv PROVE ReadsLatest
    OBVIOUS
  <2> TypeOK /\ Held /\ Placed /\ Fresh
    BY Zenon DEF IInv
  <2>1. ASSUME NEW p \in User, pc[p] \in {"use", "changed", "done"}
        PROVE  blockno[buf[p]] = want[p] /\ data[buf[p]] = latest[want[p]]
    <3>1. PICK b \in Buf : buf[p] = b
      BY Zenon DEF TypeOK
    <3>2. blockno[b] = want[p] /\ want[p] /= NoBlock
      BY <2>1, <3>1, BufAssumption, ZenonT(30) DEF Held
    <3>3. valid[b]
      BY <2>1, <3>1, Zenon DEF Fresh
    <3> QED BY <3>1, <3>2, <3>3, ZenonT(30) DEF Fresh
  <2>2. ASSUME NEW k \in Block, k \notin pinned, \A p \in User : want[p] /= k
        PROVE  disk[k] = latest[k]
    BY <2>2, Zenon DEF Fresh
  <2> QED BY <2>1, <2>2, Zenon DEF ReadsLatest
<1> QED BY <1>1, BufCacheInvariant, PTL

\* A client sleeps for the lock of a buffer only while another one has it
\* (sleeplock.c:21-41).
THEOREM BufCacheNoLostWakeup == Spec => []NoLostWakeup
<1>1. IInv => NoLostWakeup
  BY Zenon DEF IInv
<1> QED BY <1>1, BufCacheInvariant, PTL

\* A block has one buffer, and a buffer one user: the holder of its lock.
LEMMA OneUserOnly == IInv => OneUser
<1> SUFFICES ASSUME IInv PROVE OneUser
  OBVIOUS
<1>1. ASSUME NEW p \in User, NEW q \in User, p /= q, Using(p), Using(q) PROVE buf[p] /= buf[q]
  <2>1. buf[p] \in Buf /\ buf[q] \in Buf
    BY Zenon DEF IInv, TypeOK
  <2>2. locked[buf[p]] = p /\ locked[buf[q]] = q
    BY <1>1, <2>1, Zenon DEF IInv, Held
  <2> QED BY <1>1, <2>2, Zenon
<1> QED BY <1>1, Zenon DEF OneUser, IInv, Placed

\* bget alone panics, and only when no buffer is unused.
Full == panicked => Unused = {}

\* A step keeps it: once the kernel has panicked nothing moves.
LEMMA NextFull == IInv /\ Full /\ [Next]_vars => Full'
<1> SUFFICES ASSUME IInv, Full, [Next]_vars PROVE Full'
  OBVIOUS
<1>1. CASE UNCHANGED vars
  BY <1>1, Zenon DEF vars, bufvars, Full, Unused
<1>2. ASSUME NEW p \in User, NEW k \in Block, bget(p, k) PROVE Full'
  <2>1. CASE Cached(k) = {} /\ Unused = {}
    BY <1>2, <2>1, Zenon DEF bget, bufvars, Full, Unused
  <2>2. CASE ~(Cached(k) = {} /\ Unused = {})
    BY <1>2, <2>2, Zenon DEF bget, At, Full
  <2> QED BY <2>1, <2>2, Zenon
<1>3. ASSUME NEW p \in User, acquiresleep(p) \/ bread(p) \/ bpin(p) PROVE Full'
  BY <1>3, Zenon DEF acquiresleep, bread, bpin, At, Full
<1>4. ASSUME NEW p \in User, NEW v \in Value, Change(p, v) PROVE Full'
  BY <1>4, Zenon DEF Change, At, Full
<1>5. ASSUME NEW p \in User, NEW u \in BOOLEAN, bwrite(p, u) PROVE Full'
  BY <1>5, bwrite_Keeps, Zenon DEF bwrite, Full
<1>6. ASSUME NEW p \in User, releasesleep(p) \/ brelse(p) PROVE Full'
  BY <1>6, releasesleep_Keeps, brelse_Keeps, Zenon DEF releasesleep, brelse, At, Full
<1> QED BY <1>1, <1>2, <1>3, <1>4, <1>5, <1>6, Zenon DEF Next, panic

\* However few buffers there are, a block is in one of them at most, one client
\* at a time uses a buffer, refcnt is exact, bget panics only when each buffer is
\* in use or pinned, and bwrite and brelse never do (bio.c:14, 55-152).
THEOREM BufCacheBuffersExact == Spec => []BuffersExact
<1>1. Init => Full
  BY Zenon DEF Init, Full
<1>2. IInv /\ Full => PanicOnlyFull
  <2> SUFFICES ASSUME IInv, Unused = {}, NEW b \in Buf, Users(b) = {}, blockno[b] \notin pinned
               PROVE  FALSE
    BY Zenon DEF Full, PanicOnlyFull
  <2>1. Cardinality(Users(b)) = 0
    BY FS_EmptySet, Zenon
  <2>2. refcnt[b] = 0 + 0
    BY <2>1, Zenon DEF IInv, RefsExact
  <2>3. 0 + 0 = 0
    OBVIOUS
  <2> QED BY <2>2, <2>3, Zenon DEF Unused
<1>3. IInv /\ Full => BuffersExact
  BY <1>2, OneUserOnly, Zenon DEF BuffersExact, IInv
<1> QED BY <1>1, <1>3, NextFull, BufCacheInvariant, PTL DEF Spec
============================================================================
