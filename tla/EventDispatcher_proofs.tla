----------------------- MODULE EventDispatcher_proofs -----------------------
(***************************************************************************)
(* Proofs about EventDispatcher, for any number of threads, any size of    *)
(* the ring and any interleaving.  A lock-free ring of which nobody knows  *)
(* how full it is cannot be reasoned about slot by slot once it has        *)
(* overflowed; what holds even then is a count for each slot: it is not    *)
(* released more often than it was claimed.                                *)
(***************************************************************************)
EXTENDS EventDispatcher, ClaimableResource, FiniteSetTheorems, SequenceTheorems, TLAPS

\* The numbers of claims of slot p among the first m.
Count(m, p) == (m \div Size) + (IF p < m % Size THEN 1 ELSE 0)

\* The threads that have claimed slot p and not published it
Places == {"out", "claim", "store", "check", "publish", "request", "aborted"}
PendingAt == {"store", "check", "publish"}
Pending(p) == {t \in Threads : at[t] \in PendingAt /\ local[t] = p}

\* The threads that are about to claim a slot
Claiming == {t \in Threads : at[t] = "claim"}

\* The actions that Schedule was called for
Begun == {a \in Actions : a[2] <= calls[a[1]]}

\* How many slots have been released, and how often the pop index has moved
Released == Len(executed) - (IF Executing THEN 1 ELSE 0)
Popped == IF run = "pop" THEN Released - 1 ELSE Released

Contents == (Threads \X Nat) \cup {NoAction}

Types ==
    /\ first \in [Slots -> Contents]
    /\ second \in [Slots -> BOOLEAN]
    /\ pushIndex \in Slots /\ popIndex \in Slots
    /\ at \in [Threads -> Places]
    /\ local \in [Threads -> Slots]
    /\ calls \in [Threads -> 0 .. MaxActions]
    /\ run \in {"try", "call", "execute", "release", "pop", "idle", "aborted"}
    /\ claimed \in Seq(Contents) /\ executed \in Seq(Contents)

\* Where the indices are, and that the slot being executed stays taken
Indices ==
    /\ Cardinality(Begun) = Len(claimed) + Cardinality(Claiming)
    /\ pushIndex = Len(claimed) % Size
    /\ popIndex = Popped % Size
    /\ Released \in Nat /\ Popped \in Nat
    /\ run \in {"call", "execute", "release"} => second[popIndex]

Taken(p) == IF second[p] THEN 1 ELSE 0

\* A slot is released, taken, or about to be published no more often than it was
\* claimed.
Counted ==
    \A p \in Slots :
        Count(Released, p) + Taken(p) + Cardinality(Pending(p)) <= Count(Len(claimed), p)

\* Without an overflow, the claims from number i on whose slots are not released
Unreleased(i) == Released <= i /\ i < Len(claimed)

\* Each thread has its own slot, and what is in the slots is what was claimed.
Ordered ==
    /\ Outstanding <= Size
    /\ \A t \in Threads : at[t] \in PendingAt =>
           \E i \in Nat : Unreleased(i) /\ claimed[i + 1] = ActionOf(t) /\ local[t] = i % Size
    /\ \A t \in Threads : at[t] \in {"check", "publish"} => first[local[t]] = ActionOf(t)
    /\ \A i \in Nat : Unreleased(i) /\ second[i % Size] /\ ~(i = Released /\ run = "release") =>
           first[i % Size] = claimed[i + 1]

DispatcherInv ==
    /\ Types
    /\ run = "aborted" => \A t \in Threads : at[t] = "aborted"
    /\ run # "aborted" => Indices /\ Counted
    /\ run # "aborted" /\ ~overflowed => Ordered
    /\ ExecutedInOrder

-----------------------------------------------------------------------------
(* Arithmetic of the ring.                                                  *)

LEMMA SizeFacts == Size \in Nat /\ Size >= 1 /\ MaxActions \in Nat /\ 0 \in Slots
BY DispatcherAssumption DEF Slots

LEMMA Division ==
    ASSUME NEW m \in Nat
    PROVE  m % Size \in Slots /\ m \div Size \in Nat /\ m = Size * (m \div Size) + (m % Size)
BY DispatcherAssumption DEF Slots

LEMMA DivisionUnique ==
    ASSUME NEW m \in Nat, NEW q \in Nat, NEW b \in Slots, m = Size * q + b
    PROVE  m % Size = b /\ m \div Size = q
BY DispatcherAssumption, SMTT(30) DEF Slots

LEMMA Successor ==
    ASSUME NEW m \in Nat
    PROVE  /\ m % Size = Size - 1 => (m + 1) % Size = 0 /\ (m + 1) \div Size = (m \div Size) + 1
           /\ m % Size # Size - 1 => (m + 1) % Size = (m % Size) + 1 /\ (m + 1) \div Size = m \div Size
           /\ (m + 1) % Size = ((m % Size) + 1) % Size
<1> DEFINE q == m \div Size
           b == m % Size
<1>1. q \in Nat /\ b \in Slots /\ m = Size * q + b
  BY Division
<1> HIDE DEF q, b
<1>2. CASE b = Size - 1
  <2>1. m + 1 = Size * (q + 1) + 0 /\ m + 1 \in Nat /\ q + 1 \in Nat
    BY <1>1, <1>2, SizeFacts
  <2>2. (m + 1) % Size = 0 /\ (m + 1) \div Size = q + 1
    BY <1>1, <2>1, SizeFacts, DivisionUnique
  <2>3. (b + 1) % Size = 0
    <3>1. b + 1 = Size * 1 + 0 /\ b + 1 \in Nat
      BY <1>2, SizeFacts
    <3> QED
      BY <3>1, SizeFacts, DivisionUnique
  <2> QED
    BY <1>2, <2>2, <2>3 DEF q, b
<1>3. CASE b # Size - 1
  <2>1. m + 1 = Size * q + (b + 1) /\ b + 1 \in Slots /\ b + 1 \in Nat
    BY <1>1, <1>3, SizeFacts DEF Slots
  <2>2. (m + 1) % Size = b + 1 /\ (m + 1) \div Size = q
    BY <1>1, <2>1, DivisionUnique
  <2>3. (b + 1) % Size = b + 1
    <3>1. b + 1 = Size * 0 + (b + 1)
      BY <2>1, SizeFacts
    <3> QED
      BY <2>1, <3>1, DivisionUnique
  <2> QED
    BY <1>3, <2>2, <2>3 DEF q, b
<1> QED
  BY <1>2, <1>3

LEMMA CountStep ==
    ASSUME NEW m \in Nat, NEW p \in Slots
    PROVE  /\ Count(m, p) \in Nat
           /\ Count(m + 1, p) = Count(m, p) + (IF p = m % Size THEN 1 ELSE 0)
<1> DEFINE q == m \div Size
           b == m % Size
<1>1. q \in Nat /\ b \in Slots
  BY Division
<1>2. Count(m, p) = q + (IF p < b THEN 1 ELSE 0)
  BY DEF Count
<1>3. p \in Nat /\ p <= Size - 1
  BY DEF Slots
<1> HIDE DEF q, b
<1>4. CASE b = Size - 1
  <2>1. Count(m + 1, p) = q + 1 + (IF p < 0 THEN 1 ELSE 0)
    BY <1>4, Successor DEF Count, q, b
  <2> QED
    BY <1>1, <1>2, <1>3, <1>4, <2>1, SizeFacts DEF Slots, b
<1>5. CASE b # Size - 1
  <2>1. Count(m + 1, p) = q + (IF p < b + 1 THEN 1 ELSE 0)
    BY <1>5, Successor DEF Count, q, b
  <2> QED
    BY <1>1, <1>2, <1>3, <1>5, <2>1 DEF Slots, b
<1> QED
  BY <1>4, <1>5

LEMMA LapsApart ==
    ASSUME NEW q \in Nat, NEW l \in Nat
    PROVE  /\ l >= q + 2 => Size * l >= Size * q + 2 * Size
           /\ l >= q + 1 => Size * l >= Size * q + Size
           /\ Size * l \in Nat /\ Size * q \in Nat
<1>1. Size \in Nat
  BY SizeFacts
<1>2. l >= q + 2 => Size * (l - q) >= Size * 2
  BY <1>1, SMTT(30)
<1>3. l >= q + 1 => Size * (l - q) >= Size * 1
  BY <1>1, SMTT(30)
<1>4. Size * (l - q) = Size * l - Size * q
  BY <1>1, SMTT(30)
<1>5. Size * l \in Nat /\ Size * q \in Nat
  BY <1>1, SMTT(30)
<1> QED
  BY <1>1, <1>2, <1>3, <1>4, <1>5

\* A slot claimed twice since it was released: more claims than slots
LEMMA CountFar ==
    ASSUME NEW n \in Nat, NEW r \in Nat, NEW p \in Slots
    PROVE  /\ Count(n, p) >= Count(r, p) + 2 => n - r > Size
           /\ Count(n, p) > Count(r, p) => n > r
<1> DEFINE l == n \div Size
           a == n % Size
           q == r \div Size
           b == r % Size
<1>1. l \in Nat /\ a \in Slots /\ n = Size * l + a /\ q \in Nat /\ b \in Slots /\ r = Size * q + b
  BY Division
<1>2. Count(n, p) = l + (IF p < a THEN 1 ELSE 0) /\ Count(r, p) = q + (IF p < b THEN 1 ELSE 0)
  BY DEF Count
<1> HIDE DEF l, a, q, b
<1> DEFINE x == Size * l
           y == Size * q
<1>3. /\ l >= q + 2 => x >= y + 2 * Size
      /\ l >= q + 1 => x >= y + Size
      /\ x \in Nat /\ y \in Nat /\ (l = q => x = y) /\ n = x + a /\ r = y + b
  BY <1>1, LapsApart
<1>4. /\ a \in Nat /\ a <= Size - 1 /\ b \in Nat /\ b <= Size - 1 /\ p \in Nat /\ p <= Size - 1
      /\ Size \in Nat /\ Size >= 1
  BY <1>1, SizeFacts DEF Slots
<1> HIDE DEF x, y
<1>5. l = q + 1 \/ l >= q + 2 \/ l = q \/ l < q
  BY <1>1
<1>6. ASSUME Count(n, p) >= Count(r, p) + 2
      PROVE  n - r > Size
  <2>1. l >= q + 2 \/ (l = q + 1 /\ p < a /\ ~(p < b))
    BY <1>1, <1>2, <1>6
  <2> QED
    BY <1>1, <1>3, <1>4, <2>1
<1>7. ASSUME Count(n, p) > Count(r, p)
      PROVE  n > r
  <2>1. l >= q + 1 \/ (l = q /\ p < a /\ ~(p < b))
    BY <1>1, <1>2, <1>7
  <2> QED
    BY <1>1, <1>3, <1>4, <2>1
<1> QED
  BY <1>6, <1>7

\* Claims less than a round apart have slots of their own.
LEMMA OwnSlot ==
    ASSUME NEW i \in Nat, NEW j \in Nat, i <= j, j < i + Size, i % Size = j % Size
    PROVE  i = j
<1> SUFFICES ASSUME i < j
             PROVE  FALSE
  OBVIOUS
<1> DEFINE p == i % Size
           q == i \div Size
           l == j \div Size
<1>1. p \in Slots /\ q \in Nat /\ l \in Nat /\ i = Size * q + p /\ j = Size * l + p
  BY Division
<1> HIDE DEF p, q, l
<1>2. l >= q + 1 \/ l = q \/ q >= l + 1
  BY <1>1
<1>3. l >= q + 1 => Size * l >= Size * q + Size
  BY <1>1, LapsApart
<1>4. q >= l + 1 => Size * q >= Size * l + Size
  BY <1>1, LapsApart
<1> DEFINE x == Size * l
           y == Size * q
<1>5. x \in Nat /\ y \in Nat /\ p \in Nat /\ Size \in Nat /\ Size >= 1 /\ i = y + p /\ j = x + p /\ (l = q => x = y)
  BY <1>1, LapsApart, SizeFacts DEF Slots
<1>6. (l >= q + 1 => x >= y + Size) /\ (q >= l + 1 => y >= x + Size)
  BY <1>3, <1>4
<1> HIDE DEF x, y
<1> QED
  BY <1>2, <1>5, <1>6

-----------------------------------------------------------------------------
(* Facts the proofs of the steps share.                                     *)

LEMMA Finite ==
    ASSUME NEW p
    PROVE  /\ IsFiniteSet(Begun) /\ Cardinality(Begun) \in Nat
           /\ IsFiniteSet(Claiming) /\ Cardinality(Claiming) \in Nat
           /\ IsFiniteSet(Pending(p)) /\ Cardinality(Pending(p)) \in Nat
<1>1. IsFiniteSet(Threads) /\ IsFiniteSet(1 .. MaxActions)
  BY DispatcherAssumption, SizeFacts, FS_Interval
<1>2. IsFiniteSet(Actions)
  BY <1>1, FS_Product DEF Actions
<1>3. IsFiniteSet(Begun) /\ IsFiniteSet(Claiming) /\ IsFiniteSet(Pending(p))
  <2>1. Begun \in SUBSET Actions /\ Claiming \in SUBSET Threads /\ Pending(p) \in SUBSET Threads
    BY DEF Begun, Claiming, Pending
  <2> QED
    BY <1>1, <1>2, <2>1, FS_Subset
<1> QED
  BY <1>3, FS_CardinalityType

LEMMA OutstandingIs ==
    ASSUME Types
    PROVE  /\ Outstanding = Cardinality(Begun) - Released
           /\ Len(claimed) \in Nat /\ Len(executed) \in Nat /\ Released \in Int
<1>1. Len(claimed) \in Nat /\ Len(executed) \in Nat
  BY DEF Types
<1>2. Cardinality(Begun) \in Nat
  BY Finite
<1> QED
  BY <1>1, <1>2 DEF Outstanding, Released, Begun

LEMMA OutstandingNext == (Types => Outstanding = Cardinality(Begun) - Released)'
<1>1. Types => Outstanding = Cardinality(Begun) - Released
  BY OutstandingIs
<1> QED
  BY <1>1, PTL

\* A thread goes from one place of Schedule to another.
LEMMA ThreadGoes ==
    ASSUME Types, NEW t \in Threads, NEW place \in Places, NEW p,
           at' = [at EXCEPT ![t] = place], \A u \in Threads \ {t} : local'[u] = local[u]
    PROVE  /\ at' \in [Threads -> Places] /\ at'[t] = place /\ \A u \in Threads \ {t} : at'[u] = at[u]
           /\ Claiming' = IF place = "claim" THEN Claiming \cup {t} ELSE Claiming \ {t}
           /\ Pending(p)' = IF place \in PendingAt /\ local'[t] = p THEN Pending(p) \cup {t} ELSE Pending(p) \ {t}
<1>1. at' \in [Threads -> Places] /\ at'[t] = place /\ \A u \in Threads \ {t} : at'[u] = at[u]
  BY DEF Types
<1>2. Claiming' = IF place = "claim" THEN Claiming \cup {t} ELSE Claiming \ {t}
  BY <1>1 DEF Claiming
<1>3. Pending(p)' = IF place \in PendingAt /\ local'[t] = p THEN Pending(p) \cup {t} ELSE Pending(p) \ {t}
  BY <1>1 DEF Pending
<1> QED
  BY <1>1, <1>2, <1>3

\* Without an overflow a slot has one owner.
LEMMA OneOwner ==
    ASSUME Types, Indices, Counted, Outstanding <= Size
    PROVE  /\ Len(claimed) <= Released + Size
           /\ \A t \in Threads : at[t] \in PendingAt => ~second[local[t]]
           /\ \A t, u \in Threads : at[t] \in PendingAt /\ at[u] \in PendingAt /\ local[t] = local[u] => t = u
<1>1. /\ Len(claimed) \in Nat /\ Released \in Nat /\ Size \in Nat
      /\ Cardinality(Begun) = Len(claimed) + Cardinality(Claiming)
      /\ Cardinality(Begun) - Released <= Size /\ Cardinality(Claiming) \in Nat
  BY OutstandingIs, Finite, SizeFacts DEF Indices
<1>2. Len(claimed) - Released <= Size
  BY <1>1
<1>3. ASSUME NEW t \in Threads, at[t] \in PendingAt
      PROVE  ~second[local[t]] /\ Pending(local[t]) = {t}
  <2> DEFINE p == local[t]
  <2>1. p \in Slots
    BY DEF Types
  <2>2. Count(Released, p) \in Nat /\ Count(Len(claimed), p) \in Nat
    BY <1>1, <2>1, CountStep
  <2>3. ~(Count(Len(claimed), p) >= Count(Released, p) + 2)
    BY <1>1, <1>2, <2>1, CountFar
  <2>4. t \in Pending(p)
    BY <1>3 DEF Pending
  <2>5. IsFiniteSet(Pending(p)) /\ Cardinality(Pending(p)) \in Nat /\ Cardinality(Pending(p)) # 0
    BY <2>4, Finite, FS_EmptySet
  <2>6. Count(Released, p) + Taken(p) + Cardinality(Pending(p)) <= Count(Len(claimed), p)
    BY <2>1 DEF Counted
  <2> HIDE DEF p
  <2>7. ~second[p] /\ Cardinality(Pending(p)) = 1
    BY <2>2, <2>3, <2>5, <2>6 DEF Taken
  <2>8. Pending(p) = {t}
    BY <2>4, <2>5, <2>7, FS_Singleton
  <2> QED
    BY <2>7, <2>8 DEF p
<1>4. ASSUME NEW t \in Threads, NEW u \in Threads, at[t] \in PendingAt, at[u] \in PendingAt, local[t] = local[u]
      PROVE  t = u
  <2>1. u \in Pending(local[t])
    BY <1>4 DEF Pending
  <2> QED
    BY <1>3, <1>4, <2>1
<1> QED
  BY <1>1, <1>2, <1>3, <1>4

Owned == \A t \in Threads : at[t] \in PendingAt => ~second[local[t]]

LEMMA OwnedNext == (Types /\ Indices /\ Counted /\ Outstanding <= Size => Owned)'
<1>1. Types /\ Indices /\ Counted /\ Outstanding <= Size => Owned
  BY OneOwner DEF Owned
<1> QED
  BY <1>1, PTL

LEMMA DispatcherInitInv == Init => DispatcherInv
<1> SUFFICES ASSUME Init
             PROVE  DispatcherInv
  OBVIOUS
<1>1. Types
  BY SizeFacts DEF Init, Types, Contents, Places
<1>2. Len(executed) = 0 /\ Len(claimed) = 0 /\ Released = 0 /\ Popped = 0
  BY DEF Init, Released, Popped, Executing
<1>3. Begun = {} /\ Claiming = {} /\ \A p : Pending(p) = {}
  BY SizeFacts DEF Init, Begun, Claiming, Pending, PendingAt, Actions
<1>4. 0 % Size = 0 /\ Cardinality({}) = 0
  <2>1. 0 = Size * 0 + 0
    BY SizeFacts
  <2> QED
    BY <2>1, SizeFacts, DivisionUnique, FS_EmptySet
<1>5. Indices
  BY <1>2, <1>3, <1>4 DEF Init, Indices
<1>6. Counted
  <2> SUFFICES ASSUME NEW p \in Slots
               PROVE  Count(Released, p) + Taken(p) + Cardinality(Pending(p)) <= Count(Len(claimed), p)
    BY DEF Counted
  <2>1. Count(0, p) \in Nat
    BY CountStep
  <2>2. Taken(p) = 0
    BY DEF Init, Taken
  <2>3. Cardinality(Pending(p)) = 0
    BY <1>3, <1>4
  <2> QED
    BY <1>2, <2>1, <2>2, <2>3
<1>7. Ordered
  BY <1>2, <1>3, <1>4, <1>1, OutstandingIs, SizeFacts DEF Init, Ordered, PendingAt, Unreleased
<1>8. ExecutedInOrder
  BY DEF Init, ExecutedInOrder, IsPrefix
<1> QED
  BY <1>1, <1>5, <1>6, <1>7, <1>8 DEF DispatcherInv, Init

-----------------------------------------------------------------------------
(* Prefixes.                                                                *)

LEMMA PrefixIs ==
    ASSUME NEW S, NEW s \in Seq(S), NEW u \in Seq(S)
    PROVE  IsPrefix(s, u) <=> Len(s) <= Len(u) /\ \A i \in 1 .. Len(s) : s[i] = u[i]
<1>1. Len(s) \in Nat /\ Len(u) \in Nat /\ 1 \in Int
  OBVIOUS
<1>2. SubSeq(s, 1, Len(s)) = [i \in 1 .. Len(s) |-> s[i]]
  BY <1>1
<1>3. Len(s) <= Len(u) => SubSeq(u, 1, Len(s)) = [i \in 1 .. Len(s) |-> u[i]]
  BY <1>1
<1>4. Len(s) <= Len(u) =>
        (SubSeq(s, 1, Len(s)) = SubSeq(u, 1, Len(s)) <=> \A i \in 1 .. Len(s) : s[i] = u[i])
  BY <1>2, <1>3, Zenon
<1> QED
  BY <1>4, Zenon DEF IsPrefix

LEMMA PrefixGrows ==
    ASSUME NEW S, NEW s \in Seq(S), NEW u \in Seq(S), NEW e \in S, IsPrefix(s, u)
    PROVE  IsPrefix(s, Append(u, e))
<1>1. Append(u, e) \in Seq(S) /\ Len(Append(u, e)) = Len(u) + 1 /\ \A i \in 1 .. Len(u) : Append(u, e)[i] = u[i]
  OBVIOUS
<1>2. Len(s) <= Len(u) /\ \A i \in 1 .. Len(s) : s[i] = u[i]
  BY PrefixIs
<1>3. Len(s) <= Len(Append(u, e)) /\ \A i \in 1 .. Len(s) : s[i] = Append(u, e)[i]
  BY <1>1, <1>2
<1> QED
  BY <1>1, <1>3, PrefixIs

LEMMA PrefixExtends ==
    ASSUME NEW S, NEW s \in Seq(S), NEW u \in Seq(S), IsPrefix(s, u), Len(s) < Len(u)
    PROVE  IsPrefix(Append(s, u[Len(s) + 1]), u)
<1> DEFINE e == u[Len(s) + 1]
<1>1. e \in S
  OBVIOUS
<1>2. Len(s) <= Len(u) /\ \A i \in 1 .. Len(s) : s[i] = u[i]
  BY PrefixIs
<1>3. /\ Append(s, e) \in Seq(S) /\ Len(Append(s, e)) = Len(s) + 1
      /\ Append(s, e)[Len(s) + 1] = e
      /\ \A i \in 1 .. Len(s) : Append(s, e)[i] = s[i]
  BY <1>1
<1>4. Len(Append(s, e)) <= Len(u) /\ \A i \in 1 .. Len(s) + 1 : Append(s, e)[i] = u[i]
  BY <1>2, <1>3
<1>5. \A i \in 1 .. Len(Append(s, e)) : Append(s, e)[i] = u[i]
  BY <1>3, <1>4
<1> HIDE DEF e
<1>6. IsPrefix(Append(s, e), u)
  BY <1>3, <1>4, <1>5, PrefixIs
<1> QED
  BY <1>6 DEF e

-----------------------------------------------------------------------------
(* The steps of Schedule.                                                   *)

\* What the counts have in common for a step that moves only one thread
LEMMA Uncounted ==
    ASSUME UNCHANGED <<claimed, executed, run>>
    PROVE  Released' = Released /\ Popped' = Popped /\ \A i \in Nat : Unreleased(i)' <=> Unreleased(i)
<1>1. Released' = Released
  BY DEF Released, Executing
<1> QED
  BY <1>1 DEF Popped, Unreleased

LEMMA Steady ==
    ASSUME Types, Indices, Counted, UNCHANGED <<claimed, executed, run, second, pushIndex, popIndex, calls>>,
           Claiming' = Claiming, \A p \in Slots : Pending(p)' = Pending(p)
    PROVE  Indices' /\ Counted' /\ Outstanding' = Outstanding
<1>1. Released' = Released /\ Popped' = Popped /\ Begun' = Begun
  BY Uncounted DEF Begun
<1>2. Indices'
  BY <1>1 DEF Indices
<1>3. Counted'
  BY <1>1 DEF Counted, Taken
<1>4. Outstanding' = Outstanding
  BY DEF Outstanding, Executing
<1> QED
  BY <1>2, <1>3, <1>4

LEMMA BeginKeeps ==
    ASSUME NEW t \in Threads, Types, Indices, Counted, ~overflowed => Ordered, ExecutedInOrder, ScheduleBegin(t)
    PROVE  Types' /\ Indices' /\ Counted' /\ (~overflowed' => Ordered') /\ ExecutedInOrder' /\ run' = run
<1> DEFINE a == <<t, calls[t] + 1>>
<1>1. UNCHANGED <<claimed, executed, run, first, second, pushIndex, popIndex>>
  BY DEF ScheduleBegin
<1>2. calls[t] \in 0 .. MaxActions /\ calls[t] + 1 \in 1 .. MaxActions /\ at[t] = "out" /\ pushIndex \in Slots
  BY SizeFacts DEF ScheduleBegin, Types
<1>3. /\ calls' \in [Threads -> 0 .. MaxActions] /\ calls'[t] = calls[t] + 1
      /\ \A u \in Threads \ {t} : calls'[u] = calls[u]
  BY <1>2 DEF ScheduleBegin, Types
<1>4. /\ local' \in [Threads -> Slots] /\ local'[t] = pushIndex
      /\ \A u \in Threads \ {t} : local'[u] = local[u]
  BY <1>2 DEF ScheduleBegin, Types
<1>5. /\ at' \in [Threads -> Places] /\ at'[t] = "claim" /\ \A u \in Threads \ {t} : at'[u] = at[u]
      /\ Claiming' = Claiming \cup {t}
      /\ \A p \in Slots : Pending(p)' = Pending(p) \ {t}
  BY <1>4, ThreadGoes DEF ScheduleBegin, Places, PendingAt
<1>6. t \notin Claiming /\ \A p \in Slots : Pending(p)' = Pending(p)
  BY <1>2, <1>5 DEF Claiming, Pending, PendingAt
<1>7. Released' = Released /\ Popped' = Popped /\ \A i \in Nat : Unreleased(i)' <=> Unreleased(i)
  BY <1>1, Uncounted
<1>8. Types'
  BY <1>1, <1>3, <1>4, <1>5 DEF Types
<1>9. Begun' = Begun \cup {a} /\ a \notin Begun
  <2>1. a \in Actions /\ a \notin Begun /\ a \in Begun'
    BY <1>2, <1>3 DEF Begun, Actions
  <2>2. ASSUME NEW b \in Actions, b # a
        PROVE  b \in Begun' <=> b \in Begun
    <3>1. PICK u \in Threads, k \in 1 .. MaxActions : b = <<u, k>>
      BY DEF Actions
    <3>2. CASE u = t
      BY <1>2, <1>3, <2>2, <3>1, <3>2 DEF Begun
    <3>3. CASE u # t
      BY <1>3, <3>1, <3>3 DEF Begun
    <3> QED
      BY <3>2, <3>3
  <2>3. Begun' \subseteq Actions /\ Begun \subseteq Actions
    BY DEF Begun
  <2> QED
    BY <2>1, <2>2, <2>3, Zenon
<1>10. /\ Cardinality(Begun') = Cardinality(Begun) + 1
       /\ Cardinality(Claiming') = Cardinality(Claiming) + 1
  BY <1>5, <1>6, <1>9, Finite, FS_AddElement
<1>11. Indices'
  BY <1>1, <1>7, <1>10, Finite, OutstandingIs DEF Indices
<1>12. Counted'
  BY <1>1, <1>6, <1>7 DEF Counted, Taken
<1>13. ASSUME ~overflowed'
       PROVE  Ordered'
  <2>1. ~overflowed /\ ~(Outstanding >= Size)
    BY <1>13 DEF ScheduleBegin
  <2>2. Ordered
    BY <2>1
  <2>3. Outstanding' <= Size
    <3>1. Outstanding = Cardinality(Begun) - Released /\ Outstanding' = Cardinality(Begun') - Released'
      BY <1>8, OutstandingIs, OutstandingNext
    <3>2. Released \in Nat /\ Cardinality(Begun) \in Nat
      BY Finite DEF Indices
    <3> QED
      BY <1>7, <1>10, <2>1, <3>1, <3>2, SizeFacts
  <2>4. \A u \in Threads : at'[u] \in PendingAt =>
             u # t /\ at[u] = at'[u] /\ local'[u] = local[u] /\ ActionOf(u)' = ActionOf(u)
    BY <1>3, <1>4, <1>5 DEF PendingAt, ActionOf
  <2>5. ASSUME NEW u \in Threads, at'[u] \in PendingAt
        PROVE  \E i \in Nat : Unreleased(i)' /\ claimed'[i + 1] = ActionOf(u)' /\ local'[u] = i % Size
    BY <1>1, <1>7, <2>2, <2>4, <2>5 DEF Ordered
  <2>6. ASSUME NEW u \in Threads, at'[u] \in {"check", "publish"}
        PROVE  first'[local'[u]] = ActionOf(u)'
    BY <1>1, <2>2, <2>4, <2>6 DEF Ordered, PendingAt
  <2>7. \A i \in Nat : Unreleased(i)' /\ second'[i % Size] /\ ~(i = Released' /\ run' = "release") =>
           first'[i % Size] = claimed'[i + 1]
    BY <1>1, <1>7, <2>2 DEF Ordered
  <2> QED
    BY <2>3, <2>5, <2>6, <2>7 DEF Ordered
<1>14. ExecutedInOrder'
  BY <1>1 DEF ExecutedInOrder, ScheduleBegin
<1> QED
  BY <1>1, <1>8, <1>11, <1>12, <1>13, <1>14

\* compare_exchange_weak fails: the thread only reads the push index again.
LEMMA RetryKeeps ==
    ASSUME NEW t \in Threads, Types, Indices, Counted, ~overflowed => Ordered, ExecutedInOrder,
           at[t] = "claim", local' = [local EXCEPT ![t] = pushIndex],
           UNCHANGED <<first, second, pushIndex, popIndex, at, calls, run, claimed, executed, overflowed>>
    PROVE  Types' /\ Indices' /\ Counted' /\ (~overflowed' => Ordered') /\ ExecutedInOrder'
<1>1. local' \in [Threads -> Slots] /\ \A u \in Threads \ {t} : local'[u] = local[u]
  BY DEF Types
<1>2. Types'
  BY <1>1 DEF Types
<1>3. Claiming' = Claiming /\ \A p \in Slots : Pending(p)' = Pending(p)
  BY <1>1 DEF Claiming, Pending, PendingAt
<1>4. Indices' /\ Counted' /\ Outstanding' = Outstanding
  BY <1>3, Steady
<1>5. Released' = Released /\ \A i \in Nat : Unreleased(i)' <=> Unreleased(i)
  BY Uncounted
<1>6. ASSUME Ordered
      PROVE  Ordered'
  <2>1. \A u \in Threads : at[u] \in PendingAt => local'[u] = local[u]
    BY <1>1 DEF PendingAt
  <2>2. \A u \in Threads : ActionOf(u)' = ActionOf(u)
    BY DEF ActionOf
  <2>3. ASSUME NEW u \in Threads, at'[u] \in PendingAt
        PROVE  \E i \in Nat : Unreleased(i)' /\ claimed'[i + 1] = ActionOf(u)' /\ local'[u] = i % Size
    BY <1>5, <1>6, <2>1, <2>2, <2>3 DEF Ordered
  <2>4. ASSUME NEW u \in Threads, at'[u] \in {"check", "publish"}
        PROVE  first'[local'[u]] = ActionOf(u)'
    BY <1>6, <2>1, <2>2, <2>4 DEF Ordered, PendingAt
  <2>5. \A i \in Nat : Unreleased(i)' /\ second'[i % Size] /\ ~(i = Released' /\ run' = "release") =>
           first'[i % Size] = claimed'[i + 1]
    BY <1>5, <1>6 DEF Ordered
  <2> QED
    BY <1>4, <1>6, <2>3, <2>4, <2>5 DEF Ordered
<1>7. ExecutedInOrder'
  BY DEF ExecutedInOrder
<1> QED
  BY <1>2, <1>4, <1>6, <1>7

\* compare_exchange_weak succeeds: the slot is the thread's.
LEMMA TakeKeeps ==
    ASSUME NEW t \in Threads, Types, Indices, Counted, ~overflowed => Ordered, ExecutedInOrder,
           at[t] = "claim", pushIndex = local[t], pushIndex' = (local[t] + 1) % Size,
           claimed' = Append(claimed, ActionOf(t)), at' = [at EXCEPT ![t] = "store"],
           UNCHANGED <<first, second, popIndex, local, calls, run, executed, overflowed>>
    PROVE  Types' /\ Indices' /\ Counted' /\ (~overflowed' => Ordered') /\ ExecutedInOrder'
<1> DEFINE n == Len(claimed)
<1>1. /\ n \in Nat /\ Released \in Nat /\ Popped \in Nat /\ pushIndex = n % Size /\ n % Size \in Slots
      /\ local[t] = n % Size
  BY OutstandingIs, Division DEF Indices
<1>2. ActionOf(t) \in Contents
  BY SizeFacts DEF ActionOf, Contents, Types
<1>3. /\ claimed \in Seq(Contents) /\ claimed' \in Seq(Contents) /\ Len(claimed') = n + 1
      /\ claimed'[n + 1] = ActionOf(t) /\ \A i \in 1 .. n : claimed'[i] = claimed[i]
  BY <1>2 DEF Types
<1>4. pushIndex' = (n + 1) % Size /\ pushIndex' \in Slots
  BY <1>1, Successor, Division
<1>5. /\ at' \in [Threads -> Places] /\ at'[t] = "store" /\ \A u \in Threads \ {t} : at'[u] = at[u]
      /\ Claiming' = Claiming \ {t}
      /\ \A p \in Slots : Pending(p)' = IF local[t] = p THEN Pending(p) \cup {t} ELSE Pending(p) \ {t}
  BY ThreadGoes DEF Places, PendingAt
<1>6. t \in Claiming /\ \A p \in Slots : t \notin Pending(p)
  BY DEF Claiming, Pending, PendingAt
<1>7. Types'
  BY <1>3, <1>4, <1>5 DEF Types
<1>8. Released' = Released /\ Popped' = Popped /\ Begun' = Begun
  BY DEF Released, Popped, Executing, Begun
<1> HIDE DEF n
<1>9. Indices'
  <2>1. Cardinality(Claiming') = Cardinality(Claiming) - 1 /\ Cardinality(Claiming) \in Nat
    BY <1>5, <1>6, Finite, FS_RemoveElement
  <2>2. Cardinality(Begun) = n + Cardinality(Claiming)
    BY DEF Indices, n
  <2>3. Cardinality(Begun') = Len(claimed') + Cardinality(Claiming')
    BY <1>1, <1>3, <1>8, <2>1, <2>2
  <2> QED
    BY <1>3, <1>4, <1>8, <2>3 DEF Indices
<1>10. Counted'
  <2> SUFFICES ASSUME NEW p \in Slots
               PROVE  Count(Released', p) + Taken(p)' + Cardinality(Pending(p)') <= Count(Len(claimed'), p)
    BY DEF Counted
  <2>1. Taken(p)' = Taken(p) /\ Taken(p) \in Nat
    BY DEF Taken
  <2>2. Count(Released, p) \in Nat /\ Count(n, p) \in Nat
        /\ Count(n + 1, p) = Count(n, p) + (IF p = n % Size THEN 1 ELSE 0)
    BY <1>1, CountStep
  <2>3. Cardinality(Pending(p)') = Cardinality(Pending(p)) + (IF p = n % Size THEN 1 ELSE 0)
        /\ Cardinality(Pending(p)) \in Nat
    <3>1. IsFiniteSet(Pending(p)) /\ Cardinality(Pending(p)) \in Nat /\ t \notin Pending(p)
      BY <1>6, Finite
    <3>2. CASE p = n % Size
      <4>1. Pending(p)' = Pending(p) \cup {t}
        BY <1>1, <1>5, <3>2
      <4> QED
        BY <3>1, <3>2, <4>1, FS_AddElement
    <3>3. CASE p # n % Size
      <4>1. Pending(p)' = Pending(p)
        <5>1. Pending(p)' = Pending(p) \ {t}
          BY <1>1, <1>5, <3>3
        <5> QED
          BY <3>1, <5>1, Zenon
      <4> QED
        BY <3>1, <3>3, <4>1
    <3> QED
      BY <3>2, <3>3
  <2>4. Count(Released, p) + Taken(p) + Cardinality(Pending(p)) <= Count(n, p)
    BY DEF Counted, n
  <2> QED
    BY <1>3, <1>8, <2>1, <2>2, <2>3, <2>4
<1>11. ASSUME Ordered
       PROVE  Ordered'
  <2>1. Outstanding' = Outstanding /\ Outstanding <= Size
    BY <1>11 DEF Outstanding, Executing, Ordered
  <2>2. ~second'[n % Size]
    <3>1. Types' /\ Indices' /\ Counted' /\ Outstanding' <= Size
      BY <1>7, <1>9, <1>10, <2>1
    <3>2. Owned'
      BY <3>1, OwnedNext
    <3> QED
      BY <1>1, <1>5, <3>2 DEF Owned, PendingAt
  <2>3. Released <= n
    <3> DEFINE p == n % Size
    <3>1. Count(Released, p) + Taken(p) + Cardinality(Pending(p)) <= Count(n, p)
      BY <1>1 DEF Counted, n
    <3>2. /\ Count(Released, p) \in Nat /\ Count(n, p) \in Nat /\ Count(n + 1, p) = Count(n, p) + 1
          /\ Taken(p) \in Nat /\ Cardinality(Pending(p)) \in Nat
      BY <1>1, CountStep, Finite DEF Taken
    <3>3. Count(n + 1, p) > Count(Released, p) /\ p \in Slots /\ n + 1 \in Nat
      BY <1>1, <3>1, <3>2
    <3> HIDE DEF p
    <3>4. n + 1 > Released
      BY <1>1, <3>3, CountFar
    <3> QED
      BY <1>1, <3>4
  <2>4. \A i \in Nat : (Unreleased(i) => Unreleased(i)' /\ claimed'[i + 1] = claimed[i + 1])
                       /\ (Unreleased(i)' => i = n \/ Unreleased(i))
    BY <1>1, <1>3, <1>8 DEF Unreleased, n
  <2>5. \A i \in Nat : i = n => Unreleased(i)'
    BY <1>1, <1>3, <1>8, <2>3 DEF Unreleased
  <2>6. \A u \in Threads : ActionOf(u)' = ActionOf(u)
    BY DEF ActionOf
  <2>7. ASSUME NEW u \in Threads, at'[u] \in PendingAt
        PROVE  \E i \in Nat : Unreleased(i)' /\ claimed'[i + 1] = ActionOf(u)' /\ local'[u] = i % Size
    <3>1. CASE u = t
      BY <1>1, <1>3, <2>5, <2>6, <3>1
    <3>2. CASE u # t
      <4>1. PICK i \in Nat : Unreleased(i) /\ claimed[i + 1] = ActionOf(u) /\ local[u] = i % Size
        BY <1>5, <1>11, <2>7, <3>2 DEF Ordered
      <4> QED
        BY <2>4, <2>6, <4>1
    <3> QED
      BY <3>1, <3>2
  <2>8. ASSUME NEW u \in Threads, at'[u] \in {"check", "publish"}
        PROVE  first'[local'[u]] = ActionOf(u)'
    BY <1>5, <1>11, <2>6, <2>8 DEF Ordered
  <2>9. \A i \in Nat : Unreleased(i)' /\ second'[i % Size] /\ ~(i = Released' /\ run' = "release") =>
           first'[i % Size] = claimed'[i + 1]
    BY <1>8, <1>11, <2>2, <2>4 DEF Ordered
  <2> QED
    BY <2>1, <2>7, <2>8, <2>9 DEF Ordered
<1>12. ExecutedInOrder'
  <2>1. executed \in Seq(Contents)
    BY DEF Types
  <2> QED
    BY <1>2, <1>3, <2>1, PrefixGrows DEF ExecutedInOrder
<1> QED
  BY <1>7, <1>9, <1>10, <1>11, <1>12

LEMMA StoreKeeps ==
    ASSUME NEW t \in Threads, Types, Indices, Counted, ~overflowed => Ordered, ExecutedInOrder, Store(t)
    PROVE  Types' /\ Indices' /\ Counted' /\ (~overflowed' => Ordered') /\ ExecutedInOrder' /\ run' = run
<1>1. /\ UNCHANGED <<second, pushIndex, popIndex, local, calls, run, claimed, executed, overflowed>>
      /\ at[t] = "store" /\ at' = [at EXCEPT ![t] = "check"] /\ first' = [first EXCEPT ![local[t]] = ActionOf(t)]
      /\ local[t] \in Slots
  BY DEF Store, Types
<1>2. ActionOf(t) \in Contents
  BY SizeFacts DEF ActionOf, Contents, Types
<1>3. /\ first' \in [Slots -> Contents] /\ first'[local[t]] = ActionOf(t)
      /\ \A p \in Slots : p # local[t] => first'[p] = first[p]
  BY <1>1, <1>2 DEF Types
<1>4. /\ at' \in [Threads -> Places] /\ at'[t] = "check" /\ \A u \in Threads \ {t} : at'[u] = at[u]
      /\ Claiming' = Claiming \ {t}
      /\ \A p \in Slots : Pending(p)' = IF local[t] = p THEN Pending(p) \cup {t} ELSE Pending(p) \ {t}
  BY <1>1, ThreadGoes DEF Places, PendingAt
<1>5. Claiming' = Claiming /\ \A p \in Slots : Pending(p)' = Pending(p)
  BY <1>1, <1>4 DEF Claiming, Pending, PendingAt
<1>6. Types'
  BY <1>1, <1>3, <1>4 DEF Types
<1>7. Indices' /\ Counted' /\ Outstanding' = Outstanding
  BY <1>1, <1>5, Steady
<1>8. Released' = Released /\ \A i \in Nat : Unreleased(i)' <=> Unreleased(i)
  BY <1>1, Uncounted
<1>9. ASSUME Ordered
      PROVE  Ordered'
  <2>1. \A u \in Threads : ActionOf(u)' = ActionOf(u)
    BY <1>1 DEF ActionOf
  <2>2. /\ ~second[local[t]]
        /\ \A u \in Threads : at[u] \in PendingAt /\ local[u] = local[t] => u = t
    BY <1>1, <1>9, OneOwner DEF Ordered, PendingAt
  <2>3. ASSUME NEW u \in Threads, at'[u] \in PendingAt
        PROVE  \E i \in Nat : Unreleased(i)' /\ claimed'[i + 1] = ActionOf(u)' /\ local'[u] = i % Size
    <3>1. at[u] \in PendingAt
      BY <1>1, <1>4, <2>3 DEF PendingAt
    <3> QED
      BY <1>1, <1>8, <1>9, <2>1, <3>1 DEF Ordered
  <2>4. ASSUME NEW u \in Threads, at'[u] \in {"check", "publish"}
        PROVE  first'[local'[u]] = ActionOf(u)'
    <3>1. CASE u = t
      BY <1>1, <1>3, <2>1, <3>1
    <3>2. CASE u # t
      <4>1. at[u] \in {"check", "publish"} /\ local[u] \in Slots
        BY <1>4, <2>4, <3>2 DEF Types
      <4>2. local[u] # local[t]
        BY <2>2, <3>2, <4>1 DEF PendingAt
      <4>3. first[local[u]] = ActionOf(u)
        BY <1>9, <4>1 DEF Ordered
      <4> QED
        BY <1>1, <1>3, <2>1, <4>1, <4>2, <4>3
    <3> QED
      BY <3>1, <3>2
  <2>5. \A i \in Nat : Unreleased(i)' /\ second'[i % Size] /\ ~(i = Released' /\ run' = "release") =>
           first'[i % Size] = claimed'[i + 1]
    <3>1. \A i \in Nat : i % Size \in Slots
      BY Division
    <3> QED
      BY <1>1, <1>3, <1>8, <1>9, <2>2, <3>1 DEF Ordered
  <2> QED
    BY <1>7, <1>9, <2>3, <2>4, <2>5 DEF Ordered
<1>10. ExecutedInOrder'
  BY <1>1 DEF ExecutedInOrder
<1> QED
  BY <1>1, <1>6, <1>7, <1>9, <1>10

\* The assertion in Schedule holds and the thread goes on; and the last step of a
\* thread, which lets go of its slot.
LEMMA MoveKeeps ==
    ASSUME NEW t \in Threads, Types, Indices, Counted, ~overflowed => Ordered, ExecutedInOrder,
           NEW place \in Places, at' = [at EXCEPT ![t] = place],
           \/ at[t] = "check" /\ place = "publish" /\ local' = local
           \/ at[t] = "request" /\ place = "out" /\ local' = [local EXCEPT ![t] = 0],
           UNCHANGED <<first, second, pushIndex, popIndex, calls, run, claimed, executed, overflowed>>
    PROVE  Types' /\ Indices' /\ Counted' /\ (~overflowed' => Ordered') /\ ExecutedInOrder'
<1>1. local' \in [Threads -> Slots] /\ \A u \in Threads \ {t} : local'[u] = local[u]
  BY SizeFacts DEF Types
<1>2. /\ at' \in [Threads -> Places] /\ at'[t] = place /\ \A u \in Threads \ {t} : at'[u] = at[u]
  BY <1>1, ThreadGoes
<1>3. Claiming' = Claiming
  BY <1>2 DEF Claiming
<1>4. /\ \A u \in Threads : at'[u] \in PendingAt => at[u] \in PendingAt /\ local'[u] = local[u]
      /\ \A u \in Threads : at[u] \in PendingAt => at'[u] \in PendingAt
      /\ \A u \in Threads : at'[u] \in {"check", "publish"} => at[u] \in {"check", "publish"}
  BY <1>1, <1>2 DEF PendingAt
<1>5. \A p \in Slots : Pending(p)' = Pending(p)
  BY <1>4 DEF Pending
<1>6. Types'
  BY <1>1, <1>2 DEF Types
<1>7. Indices' /\ Counted' /\ Outstanding' = Outstanding
  BY <1>3, <1>5, Steady
<1>8. Released' = Released /\ \A i \in Nat : Unreleased(i)' <=> Unreleased(i)
  BY Uncounted
<1>9. ASSUME Ordered
      PROVE  Ordered'
  <2>1. \A u \in Threads : ActionOf(u)' = ActionOf(u)
    BY DEF ActionOf
  <2>2. ASSUME NEW u \in Threads, at'[u] \in PendingAt
        PROVE  \E i \in Nat : Unreleased(i)' /\ claimed'[i + 1] = ActionOf(u)' /\ local'[u] = i % Size
    BY <1>4, <1>8, <1>9, <2>1, <2>2 DEF Ordered
  <2>3. ASSUME NEW u \in Threads, at'[u] \in {"check", "publish"}
        PROVE  first'[local'[u]] = ActionOf(u)'
    BY <1>4, <1>9, <2>1, <2>3 DEF Ordered, PendingAt
  <2>4. \A i \in Nat : Unreleased(i)' /\ second'[i % Size] /\ ~(i = Released' /\ run' = "release") =>
           first'[i % Size] = claimed'[i + 1]
    BY <1>8, <1>9 DEF Ordered
  <2> QED
    BY <1>7, <1>9, <2>2, <2>3, <2>4 DEF Ordered
<1>10. ExecutedInOrder'
  BY DEF ExecutedInOrder
<1> QED
  BY <1>6, <1>7, <1>9, <1>10

LEMMA PublishKeeps ==
    ASSUME NEW t \in Threads, Types, Indices, Counted, ~overflowed => Ordered, ExecutedInOrder, Publish(t)
    PROVE  Types' /\ Indices' /\ Counted' /\ (~overflowed' => Ordered') /\ ExecutedInOrder' /\ run' = run
<1>1. /\ UNCHANGED <<first, pushIndex, popIndex, local, calls, run, claimed, executed, overflowed>>
      /\ at[t] = "publish" /\ at' = [at EXCEPT ![t] = "request"]
      /\ local[t] \in Slots
  BY DEF Publish, Types
<1>2. second' = [second EXCEPT ![local[t]] = TRUE] /\ second \in [Slots -> BOOLEAN]
  BY DEF Publish, Types
<1>3. /\ second' \in [Slots -> BOOLEAN] /\ second'[local[t]]
      /\ \A p \in Slots : p # local[t] => (second'[p] <=> second[p])
  BY <1>1, <1>2
<1>4. /\ at' \in [Threads -> Places] /\ at'[t] = "request" /\ \A u \in Threads \ {t} : at'[u] = at[u]
      /\ Claiming' = Claiming \ {t}
      /\ \A p \in Slots : Pending(p)' = Pending(p) \ {t}
  BY <1>1, ThreadGoes DEF Places, PendingAt
<1>5. Claiming' = Claiming /\ \A p \in Slots : t \in Pending(p) <=> p = local[t]
  BY <1>1, <1>4 DEF Claiming, Pending, PendingAt
<1>6. Types'
  BY <1>1, <1>3, <1>4 DEF Types
<1>7. Released' = Released /\ Popped' = Popped /\ \A i \in Nat : Unreleased(i)' <=> Unreleased(i)
  BY <1>1, Uncounted
<1>8. Begun' = Begun
  BY <1>1 DEF Begun
<1>9. Indices'
  <2>1. run' \in {"call", "execute", "release"} => second'[popIndex']
    BY <1>1, <1>3 DEF Indices, Types
  <2> QED
    BY <1>1, <1>5, <1>7, <1>8, <2>1 DEF Indices
<1>10. Counted'
  <2> SUFFICES ASSUME NEW p \in Slots
               PROVE  Count(Released', p) + Taken(p)' + Cardinality(Pending(p)') <= Count(Len(claimed'), p)
    BY DEF Counted
  <2>1. Count(Released, p) + Taken(p) + Cardinality(Pending(p)) <= Count(Len(claimed), p)
    BY DEF Counted
  <2>2. IsFiniteSet(Pending(p)) /\ Cardinality(Pending(p)) \in Nat
    BY Finite
  <2>3. Count(Released, p) \in Nat /\ Count(Len(claimed), p) \in Nat
    BY OutstandingIs, CountStep DEF Indices
  <2>4. CASE p = local[t]
    <3>1. Cardinality(Pending(p)') = Cardinality(Pending(p)) - 1
      BY <1>4, <1>5, <2>2, <2>4, FS_RemoveElement
    <3>2. Taken(p)' = 1 /\ Taken(p) \in {0, 1}
      BY <1>3, <2>4 DEF Taken
    <3> QED
      BY <1>1, <1>7, <2>1, <2>2, <2>3, <3>1, <3>2
  <2>5. CASE p # local[t]
    <3>1. t \notin Pending(p) /\ Pending(p)' = Pending(p) \ {t}
      BY <1>4, <1>5, <2>5
    <3>2. Pending(p)' = Pending(p)
      BY <3>1, Zenon
    <3>3. Taken(p)' = Taken(p)
      BY <1>3, <2>5 DEF Taken
    <3> QED
      BY <1>1, <1>7, <2>1, <3>2, <3>3
  <2> QED
    BY <2>4, <2>5
<1>11. ASSUME Ordered
       PROVE  Ordered'
  <2>1. \A u \in Threads : ActionOf(u)' = ActionOf(u)
    BY <1>1 DEF ActionOf
  <2>2. Outstanding' = Outstanding
    BY <1>1 DEF Outstanding, Executing
  <2>3. ASSUME NEW u \in Threads, at'[u] \in PendingAt
        PROVE  \E i \in Nat : Unreleased(i)' /\ claimed'[i + 1] = ActionOf(u)' /\ local'[u] = i % Size
    <3>1. at[u] \in PendingAt
      BY <1>1, <1>4, <2>3 DEF PendingAt
    <3> QED
      BY <1>1, <1>7, <1>11, <2>1, <3>1 DEF Ordered
  <2>4. ASSUME NEW u \in Threads, at'[u] \in {"check", "publish"}
        PROVE  first'[local'[u]] = ActionOf(u)'
    <3>1. at[u] \in {"check", "publish"}
      BY <1>1, <1>4, <2>4
    <3> QED
      BY <1>1, <1>11, <2>1, <3>1 DEF Ordered
  <2>5. ASSUME NEW i \in Nat, Unreleased(i)', second'[i % Size], ~(i = Released' /\ run' = "release")
        PROVE  first'[i % Size] = claimed'[i + 1]
    <3>1. i % Size \in Slots /\ Unreleased(i)
      BY <1>7, <2>5, Division
    <3>2. CASE i % Size # local[t]
      <4>1. second[i % Size]
        BY <1>3, <2>5, <3>1, <3>2
      <4> QED
        BY <1>1, <1>7, <1>11, <2>5, <3>1, <4>1 DEF Ordered
    <3>3. CASE i % Size = local[t]
      <4>1. PICK j \in Nat : Unreleased(j) /\ claimed[j + 1] = ActionOf(t) /\ local[t] = j % Size
        BY <1>1, <1>11 DEF Ordered, PendingAt
      <4>2. /\ Len(claimed) <= Released + Size /\ Len(claimed) \in Nat /\ Released \in Nat
        BY <1>11, OneOwner, OutstandingIs DEF Ordered, Indices
      <4>3. i < j + Size /\ j < i + Size /\ (i <= j \/ j <= i)
        BY <3>1, <4>1, <4>2, SizeFacts DEF Unreleased
      <4>4. i = j
        BY <3>3, <4>1, <4>3, OwnSlot
      <4>5. first[local[t]] = ActionOf(t)
        BY <1>1, <1>11 DEF Ordered
      <4> QED
        BY <1>1, <3>3, <4>1, <4>4, <4>5
    <3> QED
      BY <3>2, <3>3
  <2> QED
    BY <1>11, <2>2, <2>3, <2>4, <2>5 DEF Ordered
<1>12. ExecutedInOrder'
  BY <1>1 DEF ExecutedInOrder
<1> QED
  BY <1>1, <1>6, <1>9, <1>10, <1>11, <1>12

-----------------------------------------------------------------------------
(* The steps of Run.                                                        *)

\* The dispatcher's steps move no thread.
LEMMA NoThreadMoves ==
    ASSUME UNCHANGED <<at, local, calls>>
    PROVE  /\ Begun' = Begun /\ Claiming' = Claiming /\ \A p : Pending(p)' = Pending(p)
           /\ \A u : ActionOf(u)' = ActionOf(u)
BY DEF Begun, Claiming, Pending, ActionOf

\* The dispatcher looks at a slot, waits, and moves the pop index.
LEMMA LookKeeps ==
    ASSUME Types, Indices, Counted, ~overflowed => Ordered, ExecutedInOrder,
           TryExecuteAction \/ Idle \/ Pop
    PROVE  Types' /\ Indices' /\ Counted' /\ (~overflowed' => Ordered') /\ ExecutedInOrder' /\ run' # "aborted"
<1>1. /\ UNCHANGED <<first, second, pushIndex, at, local, calls, claimed, executed, overflowed>>
      /\ run \in {"try", "idle", "pop"} /\ run' \in {"try", "call", "idle"}
  BY DEF TryExecuteAction, Idle, Pop
<1>2. Released' = Released /\ Released \in Nat /\ Popped' = Released
  BY <1>1 DEF Released, Popped, Executing, Indices
<1>3. popIndex' = Popped' % Size
  <2>1. CASE run = "pop"
    <3>1. popIndex' = (popIndex + 1) % Size /\ popIndex = Popped % Size /\ Popped \in Nat /\ Released = Popped + 1
      BY <1>2, <2>1 DEF TryExecuteAction, Idle, Pop, Indices, Popped
    <3> QED
      BY <1>2, <3>1, Successor
  <2>2. CASE run # "pop"
    BY <1>1, <1>2, <2>2 DEF TryExecuteAction, Idle, Pop, Indices, Popped
  <2> QED
    BY <2>1, <2>2
<1>4. popIndex' \in Slots
  BY <1>2, <1>3, Division
<1>5. Types'
  BY <1>1, <1>4 DEF Types
<1>6. /\ Begun' = Begun /\ Claiming' = Claiming /\ \A p : Pending(p)' = Pending(p)
      /\ \A u : ActionOf(u)' = ActionOf(u)
  BY <1>1, NoThreadMoves
<1>7. Indices'
  <2>1. run' \in {"call", "execute", "release"} => second'[popIndex']
    BY <1>1 DEF TryExecuteAction, Idle, Pop
  <2> QED
    BY <1>1, <1>2, <1>3, <1>6, <2>1 DEF Indices
<1>8. Counted'
  BY <1>1, <1>2, <1>6 DEF Counted, Taken
<1>9. ASSUME Ordered
      PROVE  Ordered'
  <2>1. Outstanding' = Outstanding
    BY <1>1 DEF Outstanding, Executing
  <2>2. \A i \in Nat : Unreleased(i)' <=> Unreleased(i)
    BY <1>1, <1>2 DEF Unreleased
  <2> QED
    BY <1>1, <1>2, <1>6, <1>9, <2>1, <2>2 DEF Ordered
<1>10. ExecutedInOrder'
  BY <1>1 DEF ExecutedInOrder
<1> QED
  BY <1>1, <1>5, <1>7, <1>8, <1>9, <1>10

\* The slot that the pop index points at holds the next action in order.
LEMMA ExecuteKeeps ==
    ASSUME Types, Indices, Counted, ~overflowed => Ordered, ExecutedInOrder, ExecuteFirstAction
    PROVE  Types' /\ Indices' /\ Counted' /\ (~overflowed' => Ordered') /\ ExecutedInOrder' /\ run' # "aborted"
<1>1. /\ UNCHANGED <<first, second, pushIndex, popIndex, at, local, calls, claimed, overflowed>>
      /\ run = "call" /\ run' = "execute" /\ executed' = Append(executed, first[popIndex])
  BY DEF ExecuteFirstAction
<1>2. first[popIndex] \in Contents /\ executed \in Seq(Contents) /\ claimed \in Seq(Contents)
  BY DEF Types
<1>3. executed' \in Seq(Contents) /\ Len(executed') = Len(executed) + 1 /\ Len(executed) \in Nat
  BY <1>1, <1>2
<1>4. /\ Released = Len(executed) /\ Popped = Released /\ Released' = Released /\ Popped' = Popped
      /\ Released \in Nat /\ popIndex = Released % Size
  BY <1>1, <1>3 DEF Released, Popped, Executing, Indices
<1>5. Types'
  BY <1>1, <1>3 DEF Types
<1>6. /\ Begun' = Begun /\ Claiming' = Claiming /\ \A p : Pending(p)' = Pending(p)
      /\ \A u : ActionOf(u)' = ActionOf(u)
  BY <1>1, NoThreadMoves
<1>7. Indices'
  BY <1>1, <1>4, <1>6 DEF Indices
<1>8. Counted'
  BY <1>1, <1>4, <1>6 DEF Counted, Taken
<1>9. ASSUME Ordered
      PROVE  Ordered'
  <2>1. Outstanding' = Outstanding
    <3>1. Outstanding = Cardinality(Begun) - Released /\ Outstanding' = Cardinality(Begun') - Released'
      BY <1>5, OutstandingIs, OutstandingNext
    <3> QED
      BY <1>4, <1>6, <3>1
  <2>2. \A i \in Nat : Unreleased(i)' <=> Unreleased(i)
    BY <1>1, <1>4 DEF Unreleased
  <2> QED
    BY <1>1, <1>4, <1>6, <1>9, <2>1, <2>2 DEF Ordered
<1>10. ASSUME ~overflowed'
       PROVE  IsPrefix(executed', claimed')
  <2>1. Ordered /\ IsPrefix(executed, claimed)
    BY <1>1, <1>10 DEF ExecutedInOrder
  <2>2. Released < Len(claimed)
    <3> DEFINE p == popIndex
    <3>1. p \in Slots /\ second[p]
      BY <1>1 DEF Types, Indices
    <3>2. Count(Released, p) + Taken(p) + Cardinality(Pending(p)) <= Count(Len(claimed), p) /\ Taken(p) = 1
      BY <3>1 DEF Counted, Taken
    <3>3. /\ Count(Released, p) \in Nat /\ Count(Len(claimed), p) \in Nat /\ Cardinality(Pending(p)) \in Nat
          /\ Len(claimed) \in Nat
      BY <1>4, <3>1, Finite, OutstandingIs, CountStep
    <3> HIDE DEF p
    <3>4. Count(Len(claimed), p) > Count(Released, p)
      BY <3>2, <3>3
    <3> QED
      BY <1>4, <3>1, <3>3, <3>4, CountFar
  <2>3. Unreleased(Released) /\ second[Released % Size]
    BY <1>1, <1>4, <2>2 DEF Unreleased, Indices
  <2>4. first[popIndex] = claimed[Released + 1]
    BY <1>1, <1>4, <2>1, <2>3 DEF Ordered
  <2>5. executed' = Append(executed, claimed[Len(executed) + 1]) /\ Len(executed) < Len(claimed)
    BY <1>1, <1>4, <2>2, <2>4
  <2> QED
    BY <1>1, <1>2, <2>1, <2>5, PrefixExtends
<1>11. ExecutedInOrder'
  BY <1>10 DEF ExecutedInOrder
<1> QED
  BY <1>1, <1>5, <1>7, <1>8, <1>9, <1>11

LEMMA DestructKeeps ==
    ASSUME Types, Indices, Counted, ~overflowed => Ordered, ExecutedInOrder, DestructAction
    PROVE  Types' /\ Indices' /\ Counted' /\ (~overflowed' => Ordered') /\ ExecutedInOrder' /\ run' # "aborted"
<1>1. /\ UNCHANGED <<second, pushIndex, popIndex, at, local, calls, claimed, executed, overflowed>>
      /\ run = "execute" /\ run' = "release" /\ first' = [first EXCEPT ![popIndex] = NoAction]
  BY DEF DestructAction
<1>2. first' \in [Slots -> Contents] /\ \A p \in Slots : p # popIndex => first'[p] = first[p]
  BY <1>1 DEF Types, Contents
<1>3. Types'
  BY <1>1, <1>2 DEF Types
<1>4. /\ Released' = Released /\ Popped' = Popped /\ Released \in Nat /\ popIndex = Released % Size /\ popIndex \in Slots
      /\ second[popIndex]
  BY <1>1 DEF Released, Popped, Executing, Indices, Types
<1>5. /\ Begun' = Begun /\ Claiming' = Claiming /\ \A p : Pending(p)' = Pending(p)
      /\ \A u : ActionOf(u)' = ActionOf(u)
  BY <1>1, NoThreadMoves
<1>6. Indices'
  BY <1>1, <1>4, <1>5 DEF Indices
<1>7. Counted'
  BY <1>1, <1>4, <1>5 DEF Counted, Taken
<1>8. ASSUME Ordered
      PROVE  Ordered'
  <2>1. Outstanding' = Outstanding
    BY <1>1 DEF Outstanding, Executing
  <2>2. \A i \in Nat : Unreleased(i)' <=> Unreleased(i)
    BY <1>1, <1>4 DEF Unreleased
  <2>3. /\ Len(claimed) <= Released + Size /\ Len(claimed) \in Nat
        /\ \A u \in Threads : at[u] \in PendingAt => ~second[local[u]]
    BY <1>8, OneOwner, OutstandingIs DEF Ordered
  <2>4. ASSUME NEW u \in Threads, at'[u] \in PendingAt
        PROVE  \E i \in Nat : Unreleased(i)' /\ claimed'[i + 1] = ActionOf(u)' /\ local'[u] = i % Size
    BY <1>1, <1>5, <1>8, <2>2, <2>4 DEF Ordered
  <2>5. ASSUME NEW u \in Threads, at'[u] \in {"check", "publish"}
        PROVE  first'[local'[u]] = ActionOf(u)'
    <3>1. local[u] # popIndex /\ local[u] \in Slots
      BY <1>1, <1>4, <2>3, <2>5 DEF PendingAt, Types
    <3> QED
      BY <1>1, <1>2, <1>5, <1>8, <2>5, <3>1 DEF Ordered
  <2>6. ASSUME NEW i \in Nat, Unreleased(i)', second'[i % Size], ~(i = Released' /\ run' = "release")
        PROVE  first'[i % Size] = claimed'[i + 1]
    <3>1. i # Released /\ Unreleased(i) /\ second[i % Size] /\ i % Size \in Slots
      BY <1>1, <1>4, <2>2, <2>6, Division
    <3>2. Released <= i /\ i < Released + Size
      BY <1>4, <2>3, <3>1, SizeFacts DEF Unreleased
    <3>3. i % Size # popIndex
      BY <1>4, <3>1, <3>2, OwnSlot
    <3>4. first[i % Size] = claimed[i + 1]
      BY <1>8, <3>1 DEF Ordered
    <3> QED
      BY <1>1, <1>2, <3>1, <3>3, <3>4
  <2> QED
    BY <1>8, <2>1, <2>4, <2>5, <2>6 DEF Ordered
<1>9. ExecutedInOrder'
  BY <1>1 DEF ExecutedInOrder
<1> QED
  BY <1>1, <1>3, <1>6, <1>7, <1>8, <1>9

LEMMA ReleaseKeeps ==
    ASSUME Types, Indices, Counted, ~overflowed => Ordered, ExecutedInOrder, ReleaseSlot
    PROVE  Types' /\ Indices' /\ Counted' /\ (~overflowed' => Ordered') /\ ExecutedInOrder' /\ run' # "aborted"
<1>1. /\ UNCHANGED <<first, pushIndex, popIndex, at, local, calls, claimed, executed, overflowed>>
      /\ run = "release" /\ run' = "pop"
  BY DEF ReleaseSlot
<1>2. second' = [second EXCEPT ![popIndex] = FALSE] /\ second \in [Slots -> BOOLEAN] /\ popIndex \in Slots
  BY DEF ReleaseSlot, Types
<1>3. /\ second' \in [Slots -> BOOLEAN] /\ ~second'[popIndex]
      /\ \A p \in Slots : p # popIndex => (second'[p] <=> second[p])
  BY <1>2
<1>4. Types'
  BY <1>1, <1>3 DEF Types
<1>5. /\ Released' = Released + 1 /\ Popped' = Released /\ Released \in Nat /\ popIndex = Released % Size
      /\ second[popIndex]
  BY <1>1, OutstandingIs DEF Released, Popped, Executing, Indices
<1>6. /\ Begun' = Begun /\ Claiming' = Claiming /\ \A p : Pending(p)' = Pending(p)
      /\ \A u : ActionOf(u)' = ActionOf(u)
  BY <1>1, NoThreadMoves
<1>7. Indices'
  BY <1>1, <1>5, <1>6 DEF Indices
<1>8. Counted'
  <2> SUFFICES ASSUME NEW p \in Slots
               PROVE  Count(Released', p) + Taken(p)' + Cardinality(Pending(p)') <= Count(Len(claimed'), p)
    BY DEF Counted
  <2>1. Count(Released, p) + Taken(p) + Cardinality(Pending(p)) <= Count(Len(claimed), p)
    BY DEF Counted
  <2>2. /\ Cardinality(Pending(p)) \in Nat /\ Count(Released, p) \in Nat /\ Count(Len(claimed), p) \in Nat
        /\ Count(Released + 1, p) = Count(Released, p) + (IF p = Released % Size THEN 1 ELSE 0)
    BY <1>5, Finite, OutstandingIs, CountStep
  <2>3. /\ p = popIndex => Taken(p) = 1 /\ Taken(p)' = 0
        /\ p # popIndex => Taken(p)' = Taken(p)
        /\ Taken(p) \in {0, 1}
    BY <1>3, <1>5 DEF Taken
  <2> QED
    BY <1>1, <1>5, <1>6, <2>1, <2>2, <2>3
<1>9. ASSUME Ordered
      PROVE  Ordered'
  <2>1. Outstanding' <= Size
    <3>1. Outstanding = Cardinality(Begun) - Released /\ Outstanding' = Cardinality(Begun') - Released'
      BY <1>4, OutstandingIs, OutstandingNext
    <3>2. Cardinality(Begun) \in Nat /\ Outstanding <= Size
      BY <1>9, Finite DEF Ordered
    <3> QED
      BY <1>5, <1>6, <3>1, <3>2, SizeFacts
  <2>2. \A i \in Nat : Unreleased(i)' <=> (Unreleased(i) /\ i # Released)
    BY <1>1, <1>5 DEF Unreleased
  <2>3. \A u \in Threads : at[u] \in PendingAt => ~second[local[u]]
    BY <1>9, OneOwner DEF Ordered
  <2>4. ASSUME NEW u \in Threads, at'[u] \in PendingAt
        PROVE  \E i \in Nat : Unreleased(i)' /\ claimed'[i + 1] = ActionOf(u)' /\ local'[u] = i % Size
    <3>1. PICK i \in Nat : Unreleased(i) /\ claimed[i + 1] = ActionOf(u) /\ local[u] = i % Size
      BY <1>1, <1>9, <2>4 DEF Ordered
    <3>2. i # Released
      BY <1>1, <1>5, <2>3, <2>4, <3>1
    <3> QED
      BY <1>1, <1>6, <2>2, <3>1, <3>2
  <2>5. ASSUME NEW u \in Threads, at'[u] \in {"check", "publish"}
        PROVE  first'[local'[u]] = ActionOf(u)'
    BY <1>1, <1>6, <1>9, <2>5 DEF Ordered
  <2>6. ASSUME NEW i \in Nat, Unreleased(i)', second'[i % Size], ~(i = Released' /\ run' = "release")
        PROVE  first'[i % Size] = claimed'[i + 1]
    <3>1. i # Released /\ Unreleased(i) /\ i % Size \in Slots
      BY <2>2, <2>6, Division
    <3>2. second[i % Size]
      BY <1>3, <2>6, <3>1
    <3> QED
      BY <1>1, <1>9, <3>1, <3>2 DEF Ordered
  <2> QED
    BY <2>1, <2>4, <2>5, <2>6 DEF Ordered
<1>10. ExecutedInOrder'
  BY <1>1 DEF ExecutedInOrder
<1> QED
  BY <1>1, <1>4, <1>7, <1>8, <1>9, <1>10

-----------------------------------------------------------------------------
(* Together.                                                                *)

\* The assertion fails only where another action still has the slot: two claims of
\* it that are not released, so more than a round of claims.
LEMMA FailsOnlyWhenFull ==
    ASSUME NEW t \in Threads, Types, Indices, Counted, at[t] = "check", second[local[t]]
    PROVE  Outstanding > Size
<1> DEFINE p == local[t]
<1>1. p \in Slots /\ Taken(p) = 1
  BY DEF Types, Taken
<1>2. Count(Released, p) + Taken(p) + Cardinality(Pending(p)) <= Count(Len(claimed), p)
  BY <1>1 DEF Counted
<1>3. /\ Len(claimed) \in Nat /\ Released \in Nat /\ Outstanding = Cardinality(Begun) - Released
      /\ Cardinality(Begun) = Len(claimed) + Cardinality(Claiming) /\ Cardinality(Claiming) \in Nat
  BY OutstandingIs, Finite DEF Indices
<1>4. Count(Released, p) \in Nat /\ Count(Len(claimed), p) \in Nat
  BY <1>1, <1>3, CountStep
<1>5. t \in Pending(p)
  BY DEF Pending, PendingAt
<1>6. Cardinality(Pending(p)) \in Nat /\ Cardinality(Pending(p)) # 0
  BY <1>5, Finite, FS_EmptySet
<1> HIDE DEF p
<1>7. Count(Len(claimed), p) >= Count(Released, p) + 2
  BY <1>1, <1>2, <1>4, <1>6
<1>8. Len(claimed) - Released > Size
  BY <1>1, <1>3, <1>7, CountFar
<1> QED
  BY <1>3, <1>8, SizeFacts

LEMMA ClaimKeeps ==
    ASSUME NEW t \in Threads, Types, Indices, Counted, ~overflowed => Ordered, ExecutedInOrder, ClaimSlot(t)
    PROVE  Types' /\ Indices' /\ Counted' /\ (~overflowed' => Ordered') /\ ExecutedInOrder' /\ run' = run
<1>1. CASE pushIndex = local[t]
  BY <1>1, TakeKeeps DEF ClaimSlot
<1>2. CASE pushIndex # local[t]
  BY <1>2, RetryKeeps DEF ClaimSlot
<1> QED
  BY <1>1, <1>2

LEMMA CheckKeeps ==
    ASSUME NEW t \in Threads, Types, Indices, Counted, ~overflowed => Ordered, ExecutedInOrder,
           run # "aborted", Check(t)
    PROVE  DispatcherInv' /\ (run' = "aborted" => Outstanding > Size)
<1>1. at[t] = "check"
  BY DEF Check
<1>2. CASE second[local[t]]
  <2>1. /\ at' = [u \in Threads |-> "aborted"] /\ run' = "aborted"
        /\ UNCHANGED <<first, second, pushIndex, popIndex, local, calls, claimed, executed, overflowed>>
    BY <1>2 DEF Check
  <2>2. Types'
    BY <2>1 DEF Types, Places
  <2>3. ExecutedInOrder' /\ \A u \in Threads : at'[u] = "aborted"
    BY <2>1 DEF ExecutedInOrder
  <2>4. Outstanding > Size
    BY <1>1, <1>2, FailsOnlyWhenFull
  <2> QED
    BY <2>1, <2>2, <2>3, <2>4 DEF DispatcherInv
<1>3. CASE ~second[local[t]]
  <2>1. /\ at' = [at EXCEPT ![t] = "publish"]
        /\ UNCHANGED <<first, second, pushIndex, popIndex, local, calls, run, claimed, executed, overflowed>>
    BY <1>3 DEF Check
  <2>2. "publish" \in Places
    BY DEF Places
  <2>3. Types' /\ Indices' /\ Counted' /\ (~overflowed' => Ordered') /\ ExecutedInOrder'
    BY <1>1, <2>1, <2>2, MoveKeeps
  <2> QED
    BY <2>1, <2>3 DEF DispatcherInv
<1> QED
  BY <1>2, <1>3

LEMMA RequestKeeps ==
    ASSUME NEW t \in Threads, Types, Indices, Counted, ~overflowed => Ordered, ExecutedInOrder, RequestExecution(t)
    PROVE  Types' /\ Indices' /\ Counted' /\ (~overflowed' => Ordered') /\ ExecutedInOrder' /\ run' = run
<1>1. /\ at[t] = "request" /\ at' = [at EXCEPT ![t] = "out"] /\ local' = [local EXCEPT ![t] = 0]
      /\ UNCHANGED <<first, second, pushIndex, popIndex, calls, run, claimed, executed, overflowed>>
  BY DEF RequestExecution
<1>2. "out" \in Places
  BY DEF Places
<1> QED
  BY <1>1, <1>2, MoveKeeps

LEMMA DispatcherStep ==
    ASSUME DispatcherInv, Next
    PROVE  DispatcherInv' /\ (run' = "aborted" => Outstanding > Size)
<1>1. run # "aborted"
  <2> SUFFICES ASSUME run = "aborted"
               PROVE  FALSE
    OBVIOUS
  <2>1. \A t \in Threads : at[t] = "aborted"
    BY DEF DispatcherInv
  <2>2. ~Run
    BY DEF Run, TryExecuteAction, ExecuteFirstAction, DestructAction, ReleaseSlot, Pop, Idle
  <2>3. \A t \in Threads : ~Schedule(t)
    BY <2>1 DEF Schedule, ScheduleBegin, ClaimSlot, Store, Check, Publish, RequestExecution
  <2> QED
    BY <2>2, <2>3 DEF Next
<1>2. Types /\ Indices /\ Counted /\ (~overflowed => Ordered) /\ ExecutedInOrder
  BY <1>1 DEF DispatcherInv
<1>3. CASE Run
  <2>1. Types' /\ Indices' /\ Counted' /\ (~overflowed' => Ordered') /\ ExecutedInOrder' /\ run' # "aborted"
    BY <1>2, <1>3, LookKeeps, ExecuteKeeps, DestructKeeps, ReleaseKeeps DEF Run
  <2> QED
    BY <2>1 DEF DispatcherInv
<1>4. ASSUME NEW t \in Threads, Schedule(t)
      PROVE  DispatcherInv' /\ (run' = "aborted" => Outstanding > Size)
  <2>1. CASE Check(t)
    BY <1>1, <1>2, <2>1, CheckKeeps
  <2>2. CASE ~Check(t)
    <3>1. Types' /\ Indices' /\ Counted' /\ (~overflowed' => Ordered') /\ ExecutedInOrder' /\ run' = run
      BY <1>2, <1>4, <2>2, BeginKeeps, ClaimKeeps, StoreKeeps, PublishKeeps, RequestKeeps DEF Schedule
    <3> QED
      BY <1>1, <3>1 DEF DispatcherInv
  <2> QED
    BY <2>1, <2>2
<1> QED
  BY <1>3, <1>4 DEF Next

LEMMA DispatcherStutter == DispatcherInv /\ UNCHANGED vars => DispatcherInv'
<1> SUFFICES ASSUME DispatcherInv, UNCHANGED vars
             PROVE  DispatcherInv'
  OBVIOUS
<1>1. Types' <=> Types
  BY DEF Types, vars
<1>2. Indices' <=> Indices
  BY DEF Indices, vars, Released, Popped, Executing, Begun, Claiming
<1>3. Counted' <=> Counted
  BY DEF Counted, vars, Taken, Released, Executing, Pending
<1>4. Ordered' <=> Ordered
  BY DEF Ordered, vars, Outstanding, Executing, Unreleased, Released, ActionOf
<1>5. ExecutedInOrder' <=> ExecutedInOrder
  BY DEF ExecutedInOrder, vars
<1>6. run' = run /\ at' = at /\ (overflowed' <=> overflowed)
  BY DEF vars
<1> QED
  BY <1>1, <1>2, <1>3, <1>4, <1>5, <1>6 DEF DispatcherInv

LEMMA DispatcherInvAlways == Spec => []DispatcherInv
<1>1. DispatcherInv /\ [Next]_vars => DispatcherInv'
  BY DispatcherStep, DispatcherStutter
<1> QED
  BY DispatcherInitInv, <1>1, PTL DEF Spec

\* EventDispatcherWithWeakPtrWorker executes the actions in the order in which
\* Schedule claimed their slots, each once, as long as the ring does not overflow:
\* for every number of threads and every size of the ring.
THEOREM ActionsExecutedInOrder == Spec => []ExecutedInOrder
<1>1. DispatcherInv => ExecutedInOrder
  BY DEF DispatcherInv
<1> QED
  BY <1>1, DispatcherInvAlways, PTL

\* The really_assert in Schedule never stops an application that has no more
\* actions outstanding than the ring has slots, whatever overflowed before.
THEOREM DispatcherStopsOnlyOnOverflow == Spec => StopsOnlyOnOverflow
<1>1. DispatcherInv /\ [Next]_vars => [run' = "aborted" => Outstanding > Size]_vars
  BY DispatcherStep
<1> QED
  BY <1>1, DispatcherInvAlways, PTL DEF Spec, StopsOnlyOnOverflow

\* The members keep their types; a thread that claims a slot has an action for it.
THEOREM DispatcherTypeCorrect == Spec => []TypeOK
<1> DEFINE Started == \A t \in Threads : at[t] \in {"claim", "store"} => calls[t] \in 1 .. MaxActions
           Typed == TypeOK /\ Started
<1>1. Init => Typed
  <2> SUFFICES ASSUME Init
               PROVE  Typed
    OBVIOUS
  <2>1. Started
    BY DEF Init
  <2>2. second \in [Slots -> BOOLEAN] /\ ready \in BOOLEAN
    BY DEF Init
  <2>3. TypeOK
    BY <2>2, SizeFacts DEF Init, TypeOK
  <2> QED
    BY <2>1, <2>3
<1>2. ASSUME Typed, Next
      PROVE  Typed'
  <2>1. ASSUME NEW m \in Nat
        PROVE  m % Size \in Slots
    BY Division
  <2>2. \A s \in Slots : (s + 1) % Size \in Slots
    BY <2>1, SizeFacts DEF Slots
  <2>3. ASSUME NEW t \in Threads, at[t] \in {"claim", "store"}
        PROVE  ActionOf(t) \in Actions
    BY <1>2, <2>3 DEF ActionOf, Actions
  <2>4. CASE Run
    BY <1>2, <2>2, <2>4, SizeFacts
       DEF TypeOK, Run, TryExecuteAction, ExecuteFirstAction, DestructAction, ReleaseSlot, Pop, Idle
  <2>5. ASSUME NEW t \in Threads, Schedule(t)
        PROVE  Typed'
    <3>1. CASE ScheduleBegin(t)
      BY <1>2, <3>1, SizeFacts DEF TypeOK, ScheduleBegin
    <3>2. CASE ClaimSlot(t)
      BY <1>2, <2>2, <3>2, SizeFacts DEF TypeOK, ClaimSlot
    <3>3. CASE Store(t)
      BY <1>2, <2>3, <3>3, SizeFacts DEF TypeOK, Store
    <3>4. CASE Check(t)
      BY <1>2, <3>4, SizeFacts DEF TypeOK, Check
    <3>5. CASE Publish(t)
      BY <1>2, <3>5, SizeFacts DEF TypeOK, Publish
    <3>6. CASE RequestExecution(t)
      BY <1>2, <3>6, SizeFacts DEF TypeOK, RequestExecution
    <3> QED
      BY <2>5, <3>1, <3>2, <3>3, <3>4, <3>5, <3>6 DEF Schedule
  <2> QED
    BY <1>2, <2>4, <2>5 DEF Next
<1>3. Typed /\ UNCHANGED vars => Typed'
  BY DEF TypeOK, vars
<1>4. Typed => TypeOK
  OBVIOUS
<1> HIDE DEF Typed
<1> QED
  BY <1>1, <1>2, <1>3, <1>4, PTL DEF Spec

-----------------------------------------------------------------------------
(* ClaimableResource, for any set of claimers.  Its re-evaluations are       *)
(* actions of the dispatcher; nothing else of the dispatcher is used.        *)

Has(q, c) == \E i \in DOMAIN q : q[i] = c
Distinct(q) == \A i, j \in DOMAIN q : q[i] = q[j] => i = j

\* The invariant that every operation preserves.
ClaimInv == ResourceTypeOK /\ GrantedExclusively /\ QueuedExactlyOnce /\ NoClaimForgotten

\* RemoveAt keeps the elements before i and shifts the others.
LEMMA RemoveAtElements ==
    ASSUME NEW S, NEW q \in Seq(S), NEW i \in DOMAIN q
    PROVE  /\ RemoveAt(q, i) \in Seq(S)
           /\ Len(RemoveAt(q, i)) = Len(q) - 1
           /\ \A k \in DOMAIN RemoveAt(q, i) :
                  RemoveAt(q, i)[k] = IF k < i THEN q[k] ELSE q[k + 1]
<1>1. i \in 1 .. Len(q)
  OBVIOUS
<1> DEFINE before == SubSeq(q, 1, i - 1)
           after == SubSeq(q, i + 1, Len(q))
<1>2. /\ before \in Seq(S)
      /\ Len(before) = i - 1
      /\ \A k \in 1 .. i - 1 : before[k] = q[k]
  BY <1>1
<1>3. /\ after \in Seq(S)
      /\ Len(after) = Len(q) - i
      /\ \A k \in 1 .. Len(q) - i : after[k] = q[i + k]
  BY <1>1
<1>4. RemoveAt(q, i) = before \o after
  BY DEF RemoveAt
<1> HIDE DEF before, after
<1>5. /\ before \o after \in Seq(S)
      /\ Len(before \o after) = Len(q) - 1
      /\ DOMAIN (before \o after) = 1 .. Len(q) - 1
  BY <1>1, <1>2, <1>3
<1>6. ASSUME NEW k \in 1 .. Len(q) - 1
      PROVE  (before \o after)[k] = IF k < i THEN q[k] ELSE q[k + 1]
  <2>1. CASE k < i
    BY <2>1, <1>1, <1>2, <1>3
  <2>2. CASE ~(k < i)
    <3>1. (before \o after)[k] = after[k - (i - 1)]
      BY SMTT(30), <2>2, <1>1, <1>2, <1>3
    <3>2. k - (i - 1) \in 1 .. Len(q) - i /\ i + (k - (i - 1)) = k + 1
      BY <2>2, <1>1
    <3> QED
      BY <2>2, <3>1, <3>2, <1>3
  <2> QED
    BY <2>1, <2>2
<1> QED
  BY <1>4, <1>5, <1>6

\* Removing an element of a list without duplicates removes it and nothing else.
LEMMA RemoveAtDistinct ==
    ASSUME NEW S, NEW q \in Seq(S), NEW i \in DOMAIN q, Distinct(q)
    PROVE  /\ RemoveAt(q, i) \in Seq(S)
           /\ Distinct(RemoveAt(q, i))
           /\ ~Has(RemoveAt(q, i), q[i])
           /\ \A d : d # q[i] => (Has(RemoveAt(q, i), d) <=> Has(q, d))
<1> DEFINE r == RemoveAt(q, i)
<1>1. /\ r \in Seq(S)
      /\ Len(r) = Len(q) - 1
      /\ DOMAIN r = 1 .. Len(q) - 1
      /\ DOMAIN q = 1 .. Len(q)
      /\ Len(q) \in Nat
      /\ i \in 1 .. Len(q)
      /\ \A k \in 1 .. Len(q) - 1 : r[k] = IF k < i THEN q[k] ELSE q[k + 1]
  BY RemoveAtElements
<1> HIDE DEF r
<1>2. \A k, l \in 1 .. Len(q) : q[k] = q[l] => k = l
  BY <1>1 DEF Distinct
<1>3. Distinct(r)
  <2> SUFFICES ASSUME NEW k \in 1 .. Len(q) - 1, NEW l \in 1 .. Len(q) - 1, r[k] = r[l]
               PROVE  k = l
    BY <1>1 DEF Distinct
  <2> DEFINE K == IF k < i THEN k ELSE k + 1
             L == IF l < i THEN l ELSE l + 1
  <2>1. K \in 1 .. Len(q) /\ L \in 1 .. Len(q) /\ q[K] = q[L]
    BY <1>1
  <2>2. K = L
    BY <2>1, <1>2
  <2> QED
    BY <2>2, <1>1
<1>4. ~Has(r, q[i])
  <2> SUFFICES ASSUME NEW k \in 1 .. Len(q) - 1, r[k] = q[i]
               PROVE  FALSE
    BY <1>1 DEF Has
  <2>1. CASE k < i
    BY <2>1, <1>1, <1>2
  <2>2. CASE ~(k < i)
    BY <2>2, <1>1, <1>2
  <2> QED
    BY <2>1, <2>2
<1>5. ASSUME NEW d, d # q[i], Has(q, d)
      PROVE  Has(r, d)
  <2>1. PICK k \in 1 .. Len(q) : q[k] = d
    BY <1>5, <1>1 DEF Has
  <2>2. k # i
    BY <2>1, <1>5
  <2>3. CASE k < i
    <3>1. k \in 1 .. Len(q) - 1 /\ r[k] = d
      BY <2>1, <2>3, <1>1
    <3> QED
      BY <3>1, <1>1 DEF Has
  <2>4. CASE k > i
    <3>1. k - 1 \in 1 .. Len(q) - 1 /\ r[k - 1] = d
      BY <2>1, <2>4, <1>1
    <3> QED
      BY <3>1, <1>1 DEF Has
  <2> QED
    BY <2>2, <2>3, <2>4, <1>1
<1>6. ASSUME NEW d, Has(r, d)
      PROVE  Has(q, d)
  <2>1. PICK k \in 1 .. Len(q) - 1 : r[k] = d
    BY <1>6, <1>1 DEF Has
  <2>2. k \in 1 .. Len(q) /\ k + 1 \in 1 .. Len(q)
    BY <1>1
  <2> QED
    BY <2>1, <2>2, <1>1 DEF Has
<1> QED
  BY <1>1, <1>3, <1>4, <1>5, <1>6 DEF r

\* DequeueClaimer takes a claimer out of the queue and leaves the others in it.
LEMMA DequeueFacts ==
    ASSUME NEW c \in Claimers, pendingClaims \in Seq(Claimers), Distinct(pendingClaims)
    PROVE  /\ DequeueClaimer(c) \in Seq(Claimers)
           /\ Distinct(DequeueClaimer(c))
           /\ ~Has(DequeueClaimer(c), c)
           /\ \A d \in Claimers : d # c => (Has(DequeueClaimer(c), d) <=> Has(pendingClaims, d))
           /\ DequeueClaimer(c) # <<>> => pendingClaims # <<>>
<1>1. CASE Has(pendingClaims, c)
  <2> DEFINE i == CHOOSE j \in DOMAIN pendingClaims : pendingClaims[j] = c
  <2>1. i \in DOMAIN pendingClaims /\ pendingClaims[i] = c
    BY <1>1 DEF Has
  <2>2. DequeueClaimer(c) = RemoveAt(pendingClaims, i)
    BY <1>1 DEF DequeueClaimer, Has
  <2>3. pendingClaims # <<>>
    BY <2>1
  <2> HIDE DEF i
  <2> QED
    BY <2>1, <2>2, <2>3, RemoveAtDistinct
<1>2. CASE ~Has(pendingClaims, c)
  BY <1>2 DEF DequeueClaimer, Has
<1> QED
  BY <1>1, <1>2

\* A claimer that is not in the queue can be added at either end.
LEMMA EnqueueFacts ==
    ASSUME NEW c \in Claimers, NEW urgent \in BOOLEAN,
           pendingClaims \in Seq(Claimers), Distinct(pendingClaims), ~Has(pendingClaims, c)
    PROVE  /\ EnqueueClaimer(c, urgent) \in Seq(Claimers)
           /\ Distinct(EnqueueClaimer(c, urgent))
           /\ Has(EnqueueClaimer(c, urgent), c)
           /\ \A d \in Claimers :
                  d # c => (Has(EnqueueClaimer(c, urgent), d) <=> Has(pendingClaims, d))
<1> DEFINE q == pendingClaims
           n == Len(pendingClaims)
<1>1. /\ q \in Seq(Claimers) /\ n \in Nat /\ DOMAIN q = 1 .. n /\ n = Len(q)
      /\ \A i, j \in 1 .. n : q[i] = q[j] => i = j
      /\ \A i \in 1 .. n : q[i] # c
  BY DEF Has, Distinct
<1> HIDE DEF q, n
<1>2. CASE ~urgent
  <2> DEFINE r == Append(q, c)
  <2>1. EnqueueClaimer(c, urgent) = r
    BY <1>2 DEF EnqueueClaimer, q
  <2>2. /\ r \in Seq(Claimers) /\ DOMAIN r = 1 .. n + 1
        /\ \A i \in 1 .. n : r[i] = q[i]
        /\ r[n + 1] = c
    BY <1>1
  <2> HIDE DEF r
  <2>3. Distinct(r) /\ Has(r, c)
    BY SMTT(30), <1>1, <2>2 DEF Distinct, Has
  <2>4. \A d \in Claimers : d # c => (Has(r, d) <=> Has(q, d))
    BY <1>1, <2>2 DEF Has
  <2> QED
    BY <2>1, <2>2, <2>3, <2>4 DEF q
<1>3. CASE urgent
  <2> DEFINE r == <<c>> \o q
  <2>1. EnqueueClaimer(c, urgent) = r
    BY <1>3 DEF EnqueueClaimer, q
  <2>2. /\ r \in Seq(Claimers) /\ DOMAIN r = 1 .. n + 1
        /\ r[1] = c
        /\ \A i \in 1 .. n : r[i + 1] = q[i]
    BY <1>1
  <2> HIDE DEF r
  <2>3. \A i \in 1 .. n + 1 : i # 1 => i - 1 \in 1 .. n /\ r[i] = q[i - 1]
    <3> TAKE i \in 1 .. n + 1
    <3> HAVE i # 1
    <3>1. i - 1 \in 1 .. n /\ (i - 1) + 1 = i
      BY <1>1
    <3> QED
      BY <3>1, <2>2
  <2>4. Distinct(r)
    <3> SUFFICES ASSUME NEW i \in 1 .. n + 1, NEW j \in 1 .. n + 1, r[i] = r[j]
                 PROVE  i = j
      BY <2>2 DEF Distinct
    <3>1. CASE i = 1 \/ j = 1
      BY <3>1, <1>1, <2>2, <2>3
    <3>2. CASE i # 1 /\ j # 1
      <4>1. i - 1 = j - 1
        BY <3>2, <1>1, <2>3
      <4> QED
        BY <4>1
    <3> QED
      BY <3>1, <3>2
  <2>5. Has(r, c)
    BY <1>1, <2>2 DEF Has
  <2>6. ASSUME NEW d \in Claimers, d # c
        PROVE  Has(r, d) <=> Has(q, d)
    <3>1. ASSUME Has(r, d) PROVE Has(q, d)
      <4>1. PICK i \in 1 .. n + 1 : r[i] = d
        BY <3>1, <2>2 DEF Has
      <4>2. i # 1
        BY <4>1, <2>6, <2>2
      <4>3. i - 1 \in DOMAIN q /\ q[i - 1] = d
        BY <4>1, <4>2, <1>1, <2>3
      <4> QED
        BY <4>3 DEF Has
    <3>2. ASSUME Has(q, d) PROVE Has(r, d)
      <4>1. PICK i \in 1 .. n : q[i] = d
        BY <3>2, <1>1 DEF Has
      <4>2. i + 1 \in DOMAIN r /\ r[i + 1] = d
        BY <4>1, <1>1, <2>2
      <4> QED
        BY <4>2 DEF Has
    <3> QED
      BY <3>1, <3>2
  <2> QED
    BY <2>1, <2>2, <2>4, <2>5, <2>6 DEF q
<1> QED
  BY <1>2, <1>3

\* Taking the first claimer off a queue leaves the others in it.
LEMMA TailFacts ==
    ASSUME NEW q \in Seq(Claimers), q # <<>>, Distinct(q)
    PROVE  /\ Head(q) \in Claimers
           /\ Has(q, Head(q))
           /\ Tail(q) \in Seq(Claimers)
           /\ Distinct(Tail(q))
           /\ ~Has(Tail(q), Head(q))
           /\ \A d \in Claimers : d # Head(q) => (Has(Tail(q), d) <=> Has(q, d))
<1> DEFINE n == Len(q)
           t == Tail(q)
<1>1. /\ n \in Nat /\ n > 0 /\ DOMAIN q = 1 .. n
      /\ Head(q) = q[1] /\ q[1] \in Claimers
      /\ t \in Seq(Claimers) /\ DOMAIN t = 1 .. n - 1
      /\ \A i \in 1 .. n - 1 : t[i] = q[i + 1]
  OBVIOUS
<1> HIDE DEF t, n
<1>2. \A i, j \in 1 .. n : q[i] = q[j] => i = j
  BY <1>1 DEF Distinct
<1>3. \A i \in 1 .. n - 1 : i + 1 \in 1 .. n /\ i + 1 # 1
  BY <1>1
<1>4. 1 \in DOMAIN q
  BY <1>1
<1>5. Has(q, Head(q))
  BY <1>1, <1>4 DEF Has
<1>6. Distinct(t)
  <2> SUFFICES ASSUME NEW i \in 1 .. n - 1, NEW j \in 1 .. n - 1, t[i] = t[j]
               PROVE  i = j
    BY <1>1 DEF Distinct
  <2>1. i + 1 = j + 1
    BY <1>1, <1>2, <1>3
  <2> QED
    BY <2>1
<1>7. ~Has(t, Head(q))
  <2> SUFFICES ASSUME NEW i \in 1 .. n - 1, t[i] = q[1]
               PROVE  FALSE
    BY <1>1 DEF Has
  <2> QED
    BY <1>1, <1>2, <1>3, <1>4
<1>8. ASSUME NEW d \in Claimers, d # Head(q)
      PROVE  Has(t, d) <=> Has(q, d)
  <2>1. ASSUME Has(t, d) PROVE Has(q, d)
    BY <2>1, <1>1, <1>3 DEF Has
  <2>2. ASSUME Has(q, d) PROVE Has(t, d)
    <3>1. PICK i \in 1 .. n : q[i] = d
      BY <2>2, <1>1 DEF Has
    <3>2. i # 1
      BY <3>1, <1>8, <1>1
    <3>3. i - 1 \in 1 .. n - 1 /\ (i - 1) + 1 = i
      BY <3>2, <1>1
    <3>4. i - 1 \in DOMAIN t /\ t[i - 1] = d
      BY <3>1, <3>3, <1>1
    <3> QED
      BY <3>4 DEF Has
  <2> QED
    BY <2>1, <2>2
<1> QED
  BY <1>1, <1>5, <1>6, <1>7, <1>8 DEF t

\* Replacing a claimer by one that is not in the queue keeps the places.
LEMMA ReplaceFacts ==
    ASSUME NEW q \in Seq(Claimers), Distinct(q),
           NEW from \in Claimers, NEW to \in Claimers, from # to, ~Has(q, to)
    PROVE  /\ ReplaceAll(q, from, to) \in Seq(Claimers)
           /\ Distinct(ReplaceAll(q, from, to))
           /\ Has(ReplaceAll(q, from, to), to) <=> Has(q, from)
           /\ ~Has(ReplaceAll(q, from, to), from)
           /\ \A d \in Claimers : d \notin {from, to} =>
                  (Has(ReplaceAll(q, from, to), d) <=> Has(q, d))
           /\ ReplaceAll(q, from, to) # <<>> => q # <<>>
<1> DEFINE r == ReplaceAll(q, from, to)
           n == Len(q)
<1>1. /\ n \in Nat /\ DOMAIN q = 1 .. n
      /\ r = [i \in 1 .. n |-> IF q[i] = from THEN to ELSE q[i]]
      /\ \A i \in 1 .. n : q[i] \in Claimers
  BY DEF ReplaceAll
<1>2. /\ r \in Seq(Claimers) /\ DOMAIN r = 1 .. n /\ Len(r) = n
      /\ \A i \in 1 .. n : r[i] = IF q[i] = from THEN to ELSE q[i]
  BY <1>1
<1> HIDE DEF r
<1>3. r # <<>> => q # <<>>
  BY <1>2
<1> HIDE DEF n
<1>4. \A i, j \in 1 .. n : q[i] = q[j] => i = j
  BY <1>1 DEF Distinct
<1>5. \A i \in 1 .. n : q[i] # to
  BY <1>1 DEF Has
<1>6. Distinct(r)
  BY <1>2, <1>4, <1>5 DEF Distinct
<1>7. /\ Has(r, to) <=> Has(q, from)
      /\ ~Has(r, from)
      /\ \A d \in Claimers : d \notin {from, to} => (Has(r, d) <=> Has(q, d))
  BY <1>1, <1>2, <1>5 DEF Has
<1> QED
  BY <1>2, <1>3, <1>6, <1>7 DEF r

-------------------------------------------------------------------------------
(* Every operation preserves the invariant.  A step lemma names the new queue  *)
(* and what the lemmas above say of it, then treats the four parts of ClaimInv.     *)

\* What the invariant says of the queue, in the terms of the lemmas above.
LEMMA InvQueue ==
    ASSUME ClaimInv
    PROVE  /\ pendingClaims \in Seq(Claimers)
           /\ Distinct(pendingClaims)
           /\ \A c \in Claimers : /\ isQueued[c] <=> Has(pendingClaims, c)
                                  /\ onGranted[c] <=> Has(pendingClaims, c)
BY DEF ClaimInv, ResourceTypeOK, QueuedExactlyOnce, InQueue, Has, Distinct

LEMMA InitClaimInv == ResourceInit => ClaimInv
<1> SUFFICES ASSUME ResourceInit
             PROVE  ClaimInv
  OBVIOUS
<1>1. ResourceTypeOK
  <2>1. pendingClaims \in Seq(Claimers)
    BY DEF ResourceInit
  <2>2. /\ isGranted \in [Claimers -> BOOLEAN]
        /\ isQueued \in [Claimers -> BOOLEAN]
        /\ onGranted \in [Claimers -> BOOLEAN]
    BY DEF ResourceInit
  <2> QED
    BY <2>1, <2>2 DEF ResourceInit, ResourceTypeOK
<1>2. GrantedExclusively
  BY ClaimersAssumption DEF ResourceInit, GrantedExclusively
<1>3. QueuedExactlyOnce
  <2>1. DOMAIN pendingClaims = {}
    BY DEF ResourceInit
  <2> QED
    BY <2>1 DEF ResourceInit, QueuedExactlyOnce, InQueue
<1>4. NoClaimForgotten
  BY DEF ResourceInit, NoClaimForgotten
<1> QED
  BY <1>1, <1>2, <1>3, <1>4 DEF ClaimInv

LEMMA ClaimStep ==
    ASSUME ClaimInv, NEW c \in Claimers, NEW urgent \in BOOLEAN, Claim(c, urgent)
    PROVE  ClaimInv'
<1>1. /\ Distinct(pendingClaims) /\ pendingClaims \in Seq(Claimers)
      /\ ~Has(pendingClaims, c)
  BY InvQueue DEF Claim
<1>2. /\ pendingClaims' \in Seq(Claimers)
      /\ Distinct(pendingClaims')
      /\ Has(pendingClaims', c)
      /\ \A d \in Claimers : d # c => (Has(pendingClaims', d) <=> Has(pendingClaims, d))
  BY <1>1, EnqueueFacts DEF Claim
<1>3. ResourceTypeOK'
  BY <1>2 DEF ClaimInv, ResourceTypeOK, Claim
<1>4. GrantedExclusively'
  BY DEF ClaimInv, GrantedExclusively, Claim
<1>5. QueuedExactlyOnce'
  <2>1. ASSUME NEW d \in Claimers
        PROVE  (isQueued'[d] <=> Has(pendingClaims', d)) /\ (onGranted'[d] <=> Has(pendingClaims', d))
    BY <1>2, InvQueue DEF ClaimInv, ResourceTypeOK, Claim
  <2> QED
    BY <2>1, <1>2 DEF QueuedExactlyOnce, InQueue, Has, Distinct
<1>6. NoClaimForgotten'
  BY DEF ClaimInv, ResourceTypeOK, NoClaimForgotten, Claim
<1> QED
  BY <1>3, <1>4, <1>5, <1>6 DEF ClaimInv

LEMMA ReEvaluateStep ==
    ASSUME ClaimInv, ReEvaluateClaim
    PROVE  ClaimInv'
<1>1. CASE currentClaim = None /\ pendingClaims # <<>>
  <2> DEFINE c == Head(pendingClaims)
  <2>1. /\ c \in Claimers
        /\ currentClaim' = c
        /\ pendingClaims' = Tail(pendingClaims)
        /\ isQueued' = [isQueued EXCEPT ![c] = FALSE]
        /\ isGranted' = [isGranted EXCEPT ![c] = TRUE]
        /\ onGranted' = [onGranted EXCEPT ![c] = FALSE]
        /\ reEvaluateClaimScheduled' = FALSE
    BY <1>1, InvQueue, TailFacts DEF ReEvaluateClaim
  <2>2. /\ pendingClaims' \in Seq(Claimers)
        /\ Distinct(pendingClaims')
        /\ ~Has(pendingClaims', c)
        /\ \A d \in Claimers : d # c => (Has(pendingClaims', d) <=> Has(pendingClaims, d))
    BY <1>1, <2>1, InvQueue, TailFacts
  <2> HIDE DEF c
  <2>3. ResourceTypeOK'
    BY <2>1, <2>2 DEF ClaimInv, ResourceTypeOK
  <2>4. GrantedExclusively'
    BY <1>1, <2>1, ClaimersAssumption DEF ClaimInv, ResourceTypeOK, GrantedExclusively
  <2>5. QueuedExactlyOnce'
    <3>1. ASSUME NEW d \in Claimers
          PROVE  (isQueued'[d] <=> Has(pendingClaims', d)) /\ (onGranted'[d] <=> Has(pendingClaims', d))
      BY <2>1, <2>2, InvQueue DEF ClaimInv, ResourceTypeOK
    <3> QED
      BY <3>1, <2>2 DEF QueuedExactlyOnce, InQueue, Has, Distinct
  <2>6. NoClaimForgotten'
    BY <2>1, ClaimersAssumption DEF NoClaimForgotten
  <2> QED
    BY <2>3, <2>4, <2>5, <2>6 DEF ClaimInv
<1>2. CASE currentClaim # None \/ pendingClaims = <<>>
  <2>1. UNCHANGED <<currentClaim, pendingClaims, isGranted, isQueued, onGranted>> /\ ~reEvaluateClaimScheduled'
    BY <1>2 DEF ReEvaluateClaim, claimer
  <2> QED
    BY <1>2, <2>1 DEF ClaimInv, ResourceTypeOK, GrantedExclusively, QueuedExactlyOnce, InQueue,
                      NoClaimForgotten, ReEvaluateClaim
<1> QED
  BY <1>1, <1>2

LEMMA ReleaseStep ==
    ASSUME ClaimInv, NEW c \in Claimers, Release(c)
    PROVE  ClaimInv'
<1>1. CASE currentClaim = c
  \* c has the resource, so c does not lose its place in the queue, if any
  <2>1. /\ currentClaim' = None /\ reEvaluateClaimScheduled' = TRUE
        /\ pendingClaims' = pendingClaims
        /\ isGranted' = [isGranted EXCEPT ![c] = FALSE]
        /\ isQueued' = isQueued /\ onGranted' = onGranted
    BY <1>1 DEF Release, RemoveClaim, ClaimInv, ResourceTypeOK, GrantedExclusively
  <2> QED
    BY <1>1, <2>1, ClaimersAssumption
       DEF ClaimInv, ResourceTypeOK, GrantedExclusively, QueuedExactlyOnce, InQueue, NoClaimForgotten
<1>2. CASE currentClaim # c
  <2>1. /\ pendingClaims' = DequeueClaimer(c)
        /\ UNCHANGED <<currentClaim, reEvaluateClaimScheduled>>
        /\ isGranted' = isGranted
        /\ isQueued' = [isQueued EXCEPT ![c] = FALSE]
        /\ onGranted' = [onGranted EXCEPT ![c] = FALSE]
    BY <1>2 DEF Release, RemoveClaim, ClaimInv, ResourceTypeOK, GrantedExclusively
  <2>2. /\ pendingClaims' \in Seq(Claimers)
        /\ Distinct(pendingClaims')
        /\ ~Has(pendingClaims', c)
        /\ \A d \in Claimers : d # c => (Has(pendingClaims', d) <=> Has(pendingClaims, d))
        /\ pendingClaims' # <<>> => pendingClaims # <<>>
    BY <2>1, InvQueue, DequeueFacts
  <2>3. ResourceTypeOK'
    BY <2>1, <2>2 DEF ClaimInv, ResourceTypeOK
  <2>4. GrantedExclusively'
    BY <2>1 DEF ClaimInv, GrantedExclusively
  <2>5. QueuedExactlyOnce'
    <3>1. ASSUME NEW d \in Claimers
          PROVE  (isQueued'[d] <=> Has(pendingClaims', d)) /\ (onGranted'[d] <=> Has(pendingClaims', d))
      BY <2>1, <2>2, InvQueue DEF ClaimInv, ResourceTypeOK
    <3> QED
      BY <3>1, <2>2 DEF QueuedExactlyOnce, InQueue, Has, Distinct
  <2>6. NoClaimForgotten'
    BY <2>1, <2>2 DEF ClaimInv, NoClaimForgotten
  <2> QED
    BY <2>3, <2>4, <2>5, <2>6 DEF ClaimInv
<1> QED
  BY <1>1, <1>2

\* What ReleaseAllClaims leaves of the queue.
LEMMA PendingWithoutFacts ==
    ASSUME ClaimInv, NEW c \in Claimers
    PROVE  /\ PendingWithout(c) \in Seq(Claimers)
           /\ Distinct(PendingWithout(c))
           /\ ~Has(PendingWithout(c), c)
           /\ \A d \in Claimers : d # c => (Has(PendingWithout(c), d) <=> Has(pendingClaims, d))
           /\ PendingWithout(c) # <<>> => pendingClaims # <<>>
<1>1. CASE isQueued[c]
  BY <1>1, InvQueue, DequeueFacts DEF PendingWithout
<1>2. CASE ~isQueued[c]
  BY <1>2, InvQueue DEF PendingWithout
<1> QED
  BY <1>1, <1>2

LEMMA DestructStep ==
    ASSUME ClaimInv, NEW c \in Claimers, Destruct(c)
    PROVE  ClaimInv'
<1>1. /\ pendingClaims' \in Seq(Claimers)
      /\ Distinct(pendingClaims')
      /\ ~Has(pendingClaims', c)
      /\ \A d \in Claimers : d # c => (Has(pendingClaims', d) <=> Has(pendingClaims, d))
      /\ pendingClaims' # <<>> => pendingClaims # <<>>
  BY PendingWithoutFacts DEF Destruct
<1>2. /\ currentClaim' = IF currentClaim = c THEN None ELSE currentClaim
      /\ reEvaluateClaimScheduled' = (reEvaluateClaimScheduled \/ currentClaim = c)
      /\ isGranted' = [isGranted EXCEPT ![c] = FALSE]
      /\ isQueued' = [isQueued EXCEPT ![c] = FALSE]
      /\ onGranted' = [onGranted EXCEPT ![c] = FALSE]
  BY DEF Destruct, CurrentWithout, ScheduledWithout, ClaimInv, GrantedExclusively
<1>3. ResourceTypeOK'
  BY <1>1, <1>2 DEF ClaimInv, ResourceTypeOK
<1>4. GrantedExclusively'
  BY <1>2, ClaimersAssumption DEF ClaimInv, ResourceTypeOK, GrantedExclusively
<1>5. QueuedExactlyOnce'
  <2>1. ASSUME NEW d \in Claimers
        PROVE  (isQueued'[d] <=> Has(pendingClaims', d)) /\ (onGranted'[d] <=> Has(pendingClaims', d))
    BY <1>1, <1>2, InvQueue DEF ClaimInv, ResourceTypeOK
  <2> QED
    BY <2>1, <1>1 DEF QueuedExactlyOnce, InQueue, Has, Distinct
<1>6. NoClaimForgotten'
  BY <1>1, <1>2 DEF ClaimInv, ResourceTypeOK, NoClaimForgotten
<1> QED
  BY <1>3, <1>4, <1>5, <1>6 DEF ClaimInv

LEMMA MoveStep ==
    ASSUME ClaimInv, NEW from \in Claimers, NEW to \in Claimers, Move(from, to)
    PROVE  ClaimInv'
<1>0. from # to
  BY DEF Move
<1> DEFINE q == PendingWithout(to)
<1>1. /\ q \in Seq(Claimers)
      /\ Distinct(q)
      /\ ~Has(q, to)
      /\ \A d \in Claimers : d # to => (Has(q, d) <=> Has(pendingClaims, d))
      /\ q # <<>> => pendingClaims # <<>>
  BY PendingWithoutFacts
<1>2. pendingClaims' = ReplaceAll(q, from, to)
  BY DEF Move
<1> HIDE DEF q
<1>3. /\ pendingClaims' \in Seq(Claimers)
      /\ Distinct(pendingClaims')
      /\ Has(pendingClaims', to) <=> Has(pendingClaims, from)
      /\ ~Has(pendingClaims', from)
      /\ \A d \in Claimers : d \notin {from, to} => (Has(pendingClaims', d) <=> Has(pendingClaims, d))
      /\ pendingClaims' # <<>> => pendingClaims # <<>>
  BY <1>0, <1>1, <1>2, ReplaceFacts
<1>4. /\ currentClaim' = IF currentClaim = to THEN None
                         ELSE IF currentClaim = from THEN to ELSE currentClaim
      /\ reEvaluateClaimScheduled' = (reEvaluateClaimScheduled \/ currentClaim = to)
      /\ isGranted' = [isGranted EXCEPT ![to] = isGranted[from], ![from] = FALSE]
      /\ isQueued' = [isQueued EXCEPT ![to] = isQueued[from], ![from] = FALSE]
      /\ onGranted' = [onGranted EXCEPT ![to] = onGranted[from], ![from] = FALSE]
  BY ClaimersAssumption
     DEF Move, CurrentWithout, ScheduledWithout, Replaced, ClaimInv, GrantedExclusively
<1>5. ResourceTypeOK'
  BY <1>3, <1>4 DEF ClaimInv, ResourceTypeOK
<1>6. GrantedExclusively'
  BY <1>0, <1>4, ClaimersAssumption DEF ClaimInv, ResourceTypeOK, GrantedExclusively
<1>7. QueuedExactlyOnce'
  <2>1. ASSUME NEW d \in Claimers
        PROVE  (isQueued'[d] <=> Has(pendingClaims', d)) /\ (onGranted'[d] <=> Has(pendingClaims', d))
    BY <1>0, <1>3, <1>4, InvQueue DEF ClaimInv, ResourceTypeOK
  <2> QED
    BY <2>1, <1>3 DEF QueuedExactlyOnce, InQueue, Has, Distinct
<1>8. NoClaimForgotten'
  BY <1>3, <1>4, ClaimersAssumption DEF ClaimInv, ResourceTypeOK, NoClaimForgotten
<1> QED
  BY <1>5, <1>6, <1>7, <1>8 DEF ClaimInv

LEMMA NextInv == ClaimInv /\ [ResourceNext]_resourceVars => ClaimInv'
<1> SUFFICES ASSUME ClaimInv, [ResourceNext]_resourceVars
             PROVE  ClaimInv'
  OBVIOUS
<1>1. CASE ClaimUrgent
  BY <1>1, ClaimStep DEF ClaimUrgent
<1>2. CASE ReEvaluateClaim
  BY <1>2, ReEvaluateStep
<1>3. ASSUME NEW c \in Claimers, Claim(c, FALSE) \/ Release(c) \/ Destruct(c)
      PROVE  ClaimInv'
  BY <1>3, ClaimStep, ReleaseStep, DestructStep
<1>4. CASE MoveClaimer
  BY <1>4, MoveStep DEF MoveClaimer
<1>5. CASE UNCHANGED resourceVars
  BY <1>5 DEF resourceVars, resource, claimer, ClaimInv, ResourceTypeOK, GrantedExclusively, QueuedExactlyOnce,
              InQueue, NoClaimForgotten
<1> QED
  BY <1>1, <1>2, <1>3, <1>4, <1>5 DEF ResourceNext

-------------------------------------------------------------------------------
(* The theorems, for any set of claimers and any sequence of claims, urgent    *)
(* claims, releases, destructions and moves.                                   *)

LEMMA InvAlways == ResourceSpec => []ClaimInv
BY InitClaimInv, NextInv, PTL DEF ResourceSpec

\* The members of ClaimableResource and of its claimers keep their types.
THEOREM ClaimableResourceTypeCorrect == ResourceSpec => []ResourceTypeOK
<1>1. ClaimInv => ResourceTypeOK
  BY DEF ClaimInv
<1> QED
  BY <1>1, InvAlways, PTL

\* Two claimers never have the resource at once, and a claimer never believes it
\* has what the resource has given away (currentClaim and isGranted).
THEOREM ResourceIsExclusive == ResourceSpec => []GrantedExclusively
<1>1. ClaimInv => GrantedExclusively
  BY DEF ClaimInv
<1> QED
  BY <1>1, InvAlways, PTL

\* pendingClaims holds each waiting claimer once, with its callback, and no other.
THEOREM WaitingIsQueuedOnce == ResourceSpec => []QueuedExactlyOnce
<1>1. ClaimInv => QueuedExactlyOnce
  BY DEF ClaimInv
<1> QED
  BY <1>1, InvAlways, PTL

\* A free resource that is waited for has a ReEvaluateClaim scheduled.
THEOREM NoClaimIsForgotten == ResourceSpec => []NoClaimForgotten
<1>1. ClaimInv => NoClaimForgotten
  BY DEF ClaimInv
<1> QED
  BY <1>1, InvAlways, PTL
=============================================================================
