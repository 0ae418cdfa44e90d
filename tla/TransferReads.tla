---------------------------- MODULE TransferReads ---------------------------
(***************************************************************************)
(* What a response to a transfer reads as.  The records of an AXFR or of   *)
(* an IXFR are read message by message; however many messages have come    *)
(* in, if what was read has an end, it is the version that was sent: the   *)
(* zone whole, or the peer's copy with the deltas of the journal applied.  *)
(* Lemmas about the operators of Transfers, for TransferProofs.            *)
(***************************************************************************)
EXTENDS Transfers, WellFoundedInduction, TLAPS

(* A set of natural numbers has a least one. *)
LEMMA LeastOf ==
    ASSUME NEW S \in SUBSET Nat, S # {}
    PROVE  \E m \in S : \A y \in S : m <= y
<1>1. \E x \in S : \A y \in S : ~(<<y, x>> \in OpToRel(<, Nat))
  BY NatLessThanWellFounded, WFMin, Zenon
<1>2. \A x \in Nat, y \in Nat : y < x => <<y, x>> \in OpToRel(<, Nat)
  BY Zenon DEF OpToRel
<1>3. \A x \in Nat, y \in Nat : ~(y < x) => x <= y
  OBVIOUS
<1> QED  BY <1>1, <1>2, <1>3, Zenon

(***************************************************************************)
(* What is computed step by step from a value of T, each step leading from *)
(* T to T, is a function: there is no least number of steps without one.   *)
(***************************************************************************)
Iterates(f, g, n, base) == f[0] = base /\ \A i \in 1..n : f[i] = g[i][f[i - 1]]

LEMMA Iterated ==
    ASSUME NEW T, NEW base \in T, NEW n \in Nat, NEW g \in [1..n -> [T -> T]]
    PROVE  \E f \in [0..n -> T] : Iterates(f, g, n, base)
<1> DEFINE Is(f, k) == f[0] = base /\ \A i \in 1..k : f[i] = g[i][f[i - 1]]
           S == {k \in 0..n : ~\E f \in [0..k -> T] : Is(f, k)}
<1> SUFFICES ASSUME S # {} PROVE FALSE
  <2>1. n \in 0..n  OBVIOUS
  <2>2. \E f \in [0..n -> T] : Is(f, n)  BY <2>1, Zenon
  <2> QED  BY <2>2, Zenon DEF Iterates
<1>1. PICK m \in S : \A y \in S : m <= y
  <2>1. S \in SUBSET Nat  OBVIOUS
  <2> QED  BY <2>1, LeastOf, Zenon
<1>2. m \in 0..n /\ ~\E f \in [0..m -> T] : Is(f, m)  BY <1>1, Zenon
<1>3. CASE m = 0
  <2> DEFINE f == [i \in 0..0 |-> base]
  <2>1. f \in [0..0 -> T] /\ Is(f, 0)  OBVIOUS
  <2> QED  BY <1>2, <1>3, <2>1, Zenon
<1>4. CASE m # 0
  <2>1. m \in Nat /\ m - 1 \in 0..n /\ ~(m <= m - 1) /\ m \in 1..n  BY <1>2, <1>4
  <2>2. m - 1 \notin S  BY <1>1, <2>1, Zenon
  <2>3. PICK f \in [0..(m - 1) -> T] : Is(f, m - 1)  BY <2>1, <2>2, Zenon
  <2> DEFINE q == [i \in 0..m |-> IF i = m THEN g[m][f[m - 1]] ELSE f[i]]
  <2>4. f[m - 1] \in T  BY <2>1, <2>3
  <2>5. g[m][f[m - 1]] \in T  BY <2>1, <2>4, ZenonT(60)
  <2>6. \A i \in 0..m : i # m => i \in 0..(m - 1) /\ f[i] \in T  BY <2>1, <2>3
  <2>7. q \in [0..m -> T]  BY <2>5, <2>6, Zenon
  <2>8. q[0] = base
    <3>1. 0 \in 0..m /\ 0 # m  BY <2>1, <1>4
    <3> QED  BY <2>3, <3>1, Zenon
  <2>9. ASSUME NEW i \in 1..m PROVE q[i] = g[i][q[i - 1]]
    <3>1. i \in 0..m /\ i - 1 \in 0..m /\ i - 1 # m  BY <2>1
    <3>2. q[i - 1] = f[i - 1]  BY <3>1, Zenon
    <3>3. i # m => i \in 1..(m - 1)  BY <2>1
    <3>4. q[i] = IF i = m THEN g[m][f[m - 1]] ELSE f[i]  BY <3>1, Zenon
    <3> HIDE DEF q
    <3> QED  BY <2>3, <3>2, <3>3, <3>4, Zenon
  <2> HIDE DEF q
  <2> QED  BY <1>2, <2>7, <2>8, <2>9, Zenon
<1> QED  BY <1>3, <1>4, Zenon

(* Two functions that go on alike go the same way. *)
StepAlike(f, h, n) == f[0] = h[0] /\ \A i \in 1..n : f[i - 1] = h[i - 1] => f[i] = h[i]

LEMMA AlikeAll ==
    ASSUME NEW f, NEW h, NEW n \in Nat, StepAlike(f, h, n)
    PROVE  \A i \in 0..n : f[i] = h[i]
<1> DEFINE S == {j \in 0..n : f[j] # h[j]}
<1> SUFFICES ASSUME S # {} PROVE FALSE  BY Zenon
<1>1. PICK m \in S : \A y \in S : m <= y
  <2>1. S \in SUBSET Nat  OBVIOUS
  <2> QED  BY <2>1, LeastOf, Zenon
<1>2. m \in 0..n /\ f[m] # h[m]  BY <1>1, Zenon
<1>3. m # 0  BY <1>2, Zenon DEF StepAlike
<1>4. PICK c : c = m - 1  BY Zenon
<1>5. c \in 0..n /\ ~(m <= c) /\ m \in 1..n  BY <1>2, <1>3, <1>4
<1>6. f[c] = h[c]  BY <1>1, <1>5, Zenon
<1>7. f[c] = h[c] => f[m] = h[m]  BY <1>4, <1>5, Zenon DEF StepAlike
<1> QED  BY <1>2, <1>6, <1>7, Zenon

(* Records of the zone other than its SOA, and all there are in a transfer. *)
Plain == FirstRecords \cup UNION {Updates[i].add : i \in DOMAIN Updates}
Records == {Soa(n) : n \in Nat} \cup Plain
Versions == [serial : Nat, records : SUBSET Plain]

LEMMA PlainIsNoSoa == \A r \in Plain : ~IsSoa(r)
  BY RecordsAssumption, Zenon DEF Plain, IsSoa

LEMMA SoaIsSoa == \A n : IsSoa(Soa(n)) /\ Soa(n)[2] = n
  BY Zenon DEF IsSoa, Soa

(* Listed gives out the records of the zone, each at its place in the order. *)
Lists(f, R) ==
    /\ f[0] = <<>>
    /\ \A i \in 1..Len(HashOrder) :
          f[i] = IF HashOrder[i] \in R THEN Append(f[i - 1], HashOrder[i]) ELSE f[i - 1]

LEMMA ListedUnfold ==
    ASSUME NEW R
    PROVE  \E f \in [0..Len(HashOrder) -> Seq(R)] : Lists(f, R) /\ Listed(R) = f[Len(HashOrder)]
<1> DEFINE N == Len(HashOrder)
           T == Seq(R)
           g == [i \in 1..N |-> [t \in T |-> IF HashOrder[i] \in R THEN Append(t, HashOrder[i]) ELSE t]]
           upTo[i \in 0..N] ==
               IF i = 0 THEN <<>>
               ELSE IF HashOrder[i] \in R THEN Append(upTo[i - 1], HashOrder[i]) ELSE upTo[i - 1]
<1>0. N \in Nat /\ <<>> \in T  BY RecordsAssumption
<1>1. \A i \in 1..N : \A t \in T : (IF HashOrder[i] \in R THEN Append(t, HashOrder[i]) ELSE t) \in T
  OBVIOUS
<1> HIDE DEF N, T
<1>2. g \in [1..N -> [T -> T]]  BY <1>1, Zenon
<1>3. \A i \in 1..N : \A t \in T :
          g[i][t] = IF HashOrder[i] \in R THEN Append(t, HashOrder[i]) ELSE t
  BY Zenon
<1> HIDE DEF g
<1>4. PICK f : f \in [0..N -> T] /\ Iterates(f, g, N, <<>>)  BY <1>0, <1>2, Iterated, Zenon
<1>5. f[0] = <<>> /\ \A i \in 1..N :
          f[i] = IF HashOrder[i] \in R THEN Append(f[i - 1], HashOrder[i]) ELSE f[i - 1]
  <2>1. \A i \in 1..N : i - 1 \in 0..N  BY <1>0
  <2>2. \A i \in 1..N : f[i - 1] \in T  BY <1>4, <2>1, Zenon
  <2> QED  BY <1>3, <1>4, <2>2, Zenon DEF Iterates
<1>6. \A i \in 0..N : f[i] = IF i = 0 THEN <<>>
                             ELSE IF HashOrder[i] \in R THEN Append(f[i - 1], HashOrder[i]) ELSE f[i - 1]
  <2>1. \A i \in 0..N : i = 0 \/ i \in 1..N  BY <1>0
  <2> QED  BY <1>5, <2>1, Zenon
<1>7. f = [i \in 0..N |-> IF i = 0 THEN <<>>
                          ELSE IF HashOrder[i] \in R THEN Append(f[i - 1], HashOrder[i]) ELSE f[i - 1]]
  BY <1>4, <1>6, Zenon
<1>8. upTo = [i \in 0..N |-> IF i = 0 THEN <<>>
                             ELSE IF HashOrder[i] \in R THEN Append(upTo[i - 1], HashOrder[i])
                             ELSE upTo[i - 1]]
  BY <1>7, Zenon
<1>9. Listed(R) = upTo[N]  BY Zenon DEF Listed, N
<1> HIDE DEF upTo
<1>10. StepAlike(upTo, f, N)
  <2>1. 0 \in 0..N /\ \A i \in 1..N : i \in 0..N /\ i # 0  BY <1>0
  <2>2. upTo[0] = <<>>  BY <1>8, <2>1, Zenon
  <2>3. \A i \in 1..N : upTo[i] = IF HashOrder[i] \in R THEN Append(upTo[i - 1], HashOrder[i])
                                  ELSE upTo[i - 1]
    BY <1>8, <2>1, Zenon
  <2> QED  BY <1>5, <2>2, <2>3, Zenon DEF StepAlike
<1>11. upTo[N] = f[N]
  <2>1. N \in 0..N  BY <1>0
  <2> QED  BY <1>0, <1>10, <2>1, AlikeAll, Zenon
<1> QED  BY <1>4, <1>5, <1>9, <1>11, Zenon DEF Lists, N, T

LEMMA ListedAll ==
    ASSUME NEW R \in SUBSET Plain
    PROVE  /\ Listed(R) \in Seq(Plain)
           /\ {Listed(R)[i] : i \in 1..Len(Listed(R))} = R
<1> DEFINE N == Len(HashOrder)
           Has(s, x) == \E i \in 1..Len(s) : s[i] = x
<1>0. N \in Nat  BY RecordsAssumption
<1>1. PICK f : f \in [0..N -> Seq(R)] /\ Lists(f, R) /\ Listed(R) = f[N]  BY ListedUnfold, Zenon
<1>2. \A s \in Seq(R) : \A x \in R :
          Has(Append(s, x), x) /\ \A y : Has(s, y) => Has(Append(s, x), y)
  <2>1. \A s \in Seq(R) : \A x \in R :
            /\ Len(s) \in Nat /\ Len(Append(s, x)) = Len(s) + 1 /\ Append(s, x)[Len(s) + 1] = x
            /\ \A i \in 1..Len(s) : Append(s, x)[i] = s[i]
    OBVIOUS
  <2>2. \A k \in Nat : k + 1 \in 1..(k + 1) /\ \A i \in 1..k : i \in 1..(k + 1)  OBVIOUS
  <2> QED  BY <2>1, <2>2, Zenon
<1>3. \A s \in Seq(R) : \A i \in 1..Len(s) : s[i] \in R  OBVIOUS
<1>4. \A s : s \in Seq(R) => s \in Seq(Plain)  OBVIOUS
<1> DEFINE S == {k \in 0..N : \E j \in 1..k : HashOrder[j] \in R /\ ~Has(f[k], HashOrder[j])}
<1> HIDE DEF N, Has
<1>5. S = {}
  <2> SUFFICES ASSUME S # {} PROVE FALSE  BY Zenon
  <2>1. PICK m \in S : \A y \in S : m <= y
    <3>1. S \in SUBSET Nat  OBVIOUS
    <3> QED  BY <3>1, LeastOf, Zenon
  <2>2. PICK j : j \in 1..m /\ HashOrder[j] \in R /\ ~Has(f[m], HashOrder[j])  BY <2>1, Zenon
  <2>3. m \in 0..N  BY <2>1, Zenon
  <2>4. PICK h : h = m - 1  BY Zenon
  <2>5. h \in 0..N /\ ~(m <= h) /\ m \in 1..N /\ (j = m \/ j \in 1..h)  BY <1>0, <2>2, <2>3, <2>4
  <2>6. f[m] = IF HashOrder[m] \in R THEN Append(f[h], HashOrder[m]) ELSE f[h]
    BY <1>1, <2>4, <2>5, Zenon DEF Lists, N
  <2>7. f[h] \in Seq(R)  BY <1>1, <2>5, Zenon
  <2>8. h \notin S  BY <2>1, <2>5, Zenon
  <2>9. j = m \/ Has(f[h], HashOrder[j])  BY <2>2, <2>5, <2>8, Zenon
  <2>10. CASE HashOrder[m] \in R
    <3>1. f[m] = Append(f[h], HashOrder[m])  BY <2>6, <2>10, Zenon
    <3>2. Has(f[m], HashOrder[m])  BY <1>2, <2>7, <2>10, <3>1, Zenon
    <3>3. Has(f[h], HashOrder[j]) => Has(f[m], HashOrder[j])  BY <1>2, <2>7, <2>10, <3>1, Zenon
    <3> QED  BY <2>2, <2>9, <3>2, <3>3, Zenon
  <2>11. CASE HashOrder[m] \notin R
    <3>1. f[m] = f[h]  BY <2>6, <2>11, Zenon
    <3> QED  BY <2>2, <2>9, <2>11, <3>1, Zenon
  <2> QED  BY <2>10, <2>11, Zenon
<1>6. ASSUME NEW x \in R PROVE Has(f[N], x)
  <2>1. PICK j : j \in 1..N /\ HashOrder[j] = x  BY RecordsAssumption, Zenon DEF Plain, N
  <2>2. N \in 0..N  BY <1>0
  <2> QED  BY <1>5, <2>1, <2>2, Zenon
<1>7. f[N] \in Seq(R)
  <2>1. N \in 0..N  BY <1>0
  <2> QED  BY <1>1, <2>1, Zenon
<1>8. {Listed(R)[i] : i \in 1..Len(Listed(R))} = R
  <2>1. \A i \in 1..Len(Listed(R)) : Listed(R)[i] \in R  BY <1>1, <1>3, <1>7, Zenon DEF N
  <2>2. \A x \in R : \E i \in 1..Len(Listed(R)) : Listed(R)[i] = x  BY <1>1, <1>6, Zenon DEF Has, N
  <2> QED  BY <2>1, <2>2, Zenon
<1> QED  BY <1>1, <1>4, <1>7, <1>8, Zenon DEF N

(* Zone::all_records: the SOA, then the others. *)
LEMMA AllRecordsRight ==
    ASSUME NEW z \in Versions
    PROVE  LET rs == AllRecords(z) IN
           /\ rs \in Seq(Records) /\ Len(rs) >= 1 /\ rs[1] = Soa(z.serial)
           /\ \A i \in 2..Len(rs) : rs[i] \in Plain
           /\ {rs[i] : i \in 2..Len(rs)} = z.records
<1> DEFINE ls == Listed(z.records)
           rs == AllRecords(z)
<1>1. z.serial \in Nat /\ z.records \in SUBSET Plain
  BY Zenon DEF Versions
<1>2. ls \in Seq(Plain) /\ {ls[i] : i \in 1..Len(ls)} = z.records
  BY <1>1, ListedAll, Zenon
<1>3. rs = <<Soa(z.serial)>> \o ls  BY Zenon DEF AllRecords
<1> HIDE DEF ls, rs
<1>4. Soa(z.serial) \in Records /\ Plain \subseteq Records  BY <1>1, Zenon DEF Records
<1>s. ls \in Seq(Records) /\ Len(ls) \in Nat
  BY <1>2, <1>4
<1>t. rs \in Seq(Records) /\ Len(rs) = 1 + Len(ls) /\ rs[1] = Soa(z.serial)
  BY <1>3, <1>4, <1>s
<1>u. \A i \in 1..Len(ls) : rs[i + 1] = ls[i]
  BY <1>3, <1>4, <1>s
<1>5. /\ \A i \in 2..Len(rs) : i - 1 \in 1..Len(ls) /\ rs[i] = ls[i - 1]
      /\ \A i \in 1..Len(ls) : i + 1 \in 2..Len(rs) /\ rs[i + 1] = ls[i]
  <2>1. \A i \in 2..Len(rs) : i - 1 \in 1..Len(ls) /\ (i - 1) + 1 = i
    BY <1>s, <1>t
  <2>2. \A i \in 1..Len(ls) : i + 1 \in 2..Len(rs)
    BY <1>s, <1>t
  <2> QED  BY <1>u, <2>1, <2>2, Zenon
<1>6. {rs[i] : i \in 2..Len(rs)} = {ls[i] : i \in 1..Len(ls)}
  <2>1. \A i \in 2..Len(rs) : rs[i] \in {ls[j] : j \in 1..Len(ls)}
    BY <1>5, Zenon
  <2>2. \A j \in 1..Len(ls) : ls[j] \in {rs[i] : i \in 2..Len(rs)}
    BY <1>5, Zenon
  <2> QED  BY <2>1, <2>2, Zenon
<1>7. \A i \in 2..Len(rs) : rs[i] \in Plain
  BY <1>2, <1>5
<1>8. Len(rs) >= 1
  BY <1>s, <1>t
<1> QED  BY <1>2, <1>t, <1>6, <1>7, <1>8, Zenon DEF rs

(* How many SOA records there are so far. *)
Counts(f, rs, n) ==
    f[0] = 0 /\ \A i \in 1..n : f[i] = IF IsSoa(rs[i]) THEN f[i - 1] + 1 ELSE f[i - 1]

LEMMA SoasUnfold ==
    ASSUME NEW rs, NEW n \in Nat
    PROVE  \E f \in [0..n -> Nat] : Counts(f, rs, n) /\ Soas(rs, n) = f[n]
<1> DEFINE g == [i \in 1..n |-> [t \in Nat |-> IF IsSoa(rs[i]) THEN t + 1 ELSE t]]
           upTo[i \in 0..n] ==
               IF i = 0 THEN 0 ELSE IF IsSoa(rs[i]) THEN upTo[i - 1] + 1 ELSE upTo[i - 1]
<1>0. 0 \in Nat /\ \A t \in Nat : t + 1 \in Nat  OBVIOUS
<1>2. g \in [1..n -> [Nat -> Nat]]
  <2>1. \A i \in 1..n : \A t \in Nat : (IF IsSoa(rs[i]) THEN t + 1 ELSE t) \in Nat  BY <1>0, Zenon
  <2> QED  BY <2>1, Zenon
<1>3. \A i \in 1..n : \A t \in Nat : g[i][t] = IF IsSoa(rs[i]) THEN t + 1 ELSE t  BY Zenon
<1> HIDE DEF g
<1>4. PICK f : f \in [0..n -> Nat] /\ Iterates(f, g, n, 0)  BY <1>0, <1>2, Iterated, Zenon
<1>5. f[0] = 0 /\ \A i \in 1..n : f[i] = IF IsSoa(rs[i]) THEN f[i - 1] + 1 ELSE f[i - 1]
  <2>1. \A i \in 1..n : i - 1 \in 0..n  OBVIOUS
  <2>2. \A i \in 1..n : f[i - 1] \in Nat  BY <1>4, <2>1, Zenon
  <2> QED  BY <1>3, <1>4, <2>2, Zenon DEF Iterates
<1>6. f = [i \in 0..n |-> IF i = 0 THEN 0 ELSE IF IsSoa(rs[i]) THEN f[i - 1] + 1 ELSE f[i - 1]]
  <2>1. \A i \in 0..n : i = 0 \/ i \in 1..n  OBVIOUS
  <2>2. \A i \in 0..n : f[i] = IF i = 0 THEN 0 ELSE IF IsSoa(rs[i]) THEN f[i - 1] + 1 ELSE f[i - 1]
    BY <1>5, <2>1, Zenon
  <2> QED  BY <1>4, <2>2, Zenon
<1>7. upTo = [i \in 0..n |-> IF i = 0 THEN 0 ELSE IF IsSoa(rs[i]) THEN upTo[i - 1] + 1 ELSE upTo[i - 1]]
  BY <1>6, Zenon
<1>8. Soas(rs, n) = upTo[n]  BY Zenon DEF Soas
<1> HIDE DEF upTo
<1>9. StepAlike(upTo, f, n)
  <2>1. 0 \in 0..n /\ \A i \in 1..n : i \in 0..n /\ i # 0  OBVIOUS
  <2>2. upTo[0] = 0  BY <1>7, <2>1, Zenon
  <2>3. \A i \in 1..n : upTo[i] = IF IsSoa(rs[i]) THEN upTo[i - 1] + 1 ELSE upTo[i - 1]
    BY <1>7, <2>1, Zenon
  <2> QED  BY <1>5, <2>2, <2>3, Zenon DEF StepAlike
<1>10. upTo[n] = f[n]
  <2>1. n \in 0..n  OBVIOUS
  <2> QED  BY <1>9, <2>1, AlikeAll, Zenon
<1> QED  BY <1>4, <1>5, <1>8, <1>10, Zenon DEF Counts

(* The count of a prefix is that of the records it has. *)
SameUpTo(p, rs, qs) == \A j \in 1..p : rs[j] = qs[j]

LEMMA SoasPrefix ==
    ASSUME NEW rs, NEW qs, NEW n \in Nat, NEW p \in 0..n, SameUpTo(p, rs, qs),
           NEW f, Counts(f, rs, n)
    PROVE  f[p] = Soas(qs, p)
<1>1. p \in Nat /\ p \in 0..p /\ \A i \in 1..p : i \in 1..n  OBVIOUS
<1>2. PICK h : Counts(h, qs, p) /\ Soas(qs, p) = h[p]  BY <1>1, SoasUnfold, Zenon
<1>3. StepAlike(f, h, p)  BY <1>1, <1>2, Zenon DEF Counts, StepAlike, SameUpTo
<1>4. \A i \in 0..p : f[i] = h[i]  BY <1>1, <1>3, AlikeAll, Zenon
<1> QED  BY <1>1, <1>2, <1>4, Zenon

LEMMA SoasSame ==
    ASSUME NEW rs, NEW qs, NEW n \in Nat, SameUpTo(n, rs, qs)
    PROVE  Soas(rs, n) = Soas(qs, n)
<1>1. n \in 0..n  OBVIOUS
<1>2. PICK f : Counts(f, rs, n) /\ Soas(rs, n) = f[n]  BY SoasUnfold, Zenon
<1> QED  BY <1>1, <1>2, SoasPrefix, ZenonT(60)

LEMMA SoasCount ==
    ASSUME NEW rs, NEW n \in Nat
    PROVE  /\ Soas(rs, n) \in Nat /\ Soas(rs, 0) = 0
           /\ Soas(rs, n + 1) = IF IsSoa(rs[n + 1]) THEN Soas(rs, n) + 1 ELSE Soas(rs, n)
<1>1. PICK m : m = n + 1  BY Zenon
<1>2. m \in Nat /\ n \in 0..m /\ 0 \in 0..m /\ m \in 1..m /\ m - 1 = n  BY <1>1
<1>3. PICK f : f \in [0..m -> Nat] /\ Counts(f, rs, m) /\ Soas(rs, m) = f[m]
  BY <1>2, SoasUnfold, Zenon
<1>4. f[n] = Soas(rs, n) /\ f[0] = Soas(rs, 0)  
  <2>1. SameUpTo(n, rs, rs) /\ SameUpTo(0, rs, rs)  BY Zenon DEF SameUpTo
  <2> QED  BY <1>2, <1>3, <2>1, SoasPrefix
<1>5. f[n] \in Nat /\ f[0] = 0 /\ f[m] = IF IsSoa(rs[m]) THEN f[n] + 1 ELSE f[n]
  BY <1>2, <1>3, Zenon DEF Counts
<1> QED  BY <1>1, <1>3, <1>4, <1>5, Zenon

LEMMA SoasFlat ==
    ASSUME NEW rs, NEW p \in Nat, NEW q \in Nat, p <= q, \A j \in (p + 1)..q : ~IsSoa(rs[j])
    PROVE  Soas(rs, q) = Soas(rs, p)
<1>1. p \in 0..q /\ q \in p..q  OBVIOUS
<1>2. PICK f : Counts(f, rs, q) /\ Soas(rs, q) = f[q]  BY SoasUnfold, Zenon
<1>3. f[p] = Soas(rs, p)  
  <2>1. SameUpTo(p, rs, rs)  BY Zenon DEF SameUpTo
  <2> QED  BY <1>1, <1>2, <2>1, SoasPrefix
<1> DEFINE S == {k \in p..q : f[k] # f[p]}
<1>4. S = {}
  <2> SUFFICES ASSUME S # {} PROVE FALSE  BY Zenon
  <2>1. PICK m \in S : \A y \in S : m <= y
    <3>1. S \in SUBSET Nat  OBVIOUS
    <3> QED  BY <3>1, LeastOf, Zenon
  <2>2. m \in p..q /\ m # p  BY <2>1, Zenon
  <2>3. PICK h : h = m - 1  BY Zenon
  <2>4. h \in p..q /\ ~(m <= h) /\ m \in (p + 1)..q /\ m \in 1..q  BY <2>2, <2>3
  <2>5. f[h] = f[p]  BY <2>1, <2>4, Zenon
  <2>6. f[m] = f[h]  BY <1>2, <2>3, <2>4, Zenon DEF Counts
  <2> QED  BY <2>1, <2>5, <2>6, Zenon
<1> QED  BY <1>1, <1>2, <1>3, <1>4, Zenon

(***************************************************************************)
(* However the records rs are cut into messages, whoever has the copy and  *)
(* reads them finds no end but one at which it has v.                      *)
(***************************************************************************)
Reads(kind, copy, rs, v) ==
    \A m \in 1..Len(rs) : \A n \in EndOf(kind, copy, SubSeq(rs, 1, m)) :
        PulledZone(kind, copy, SubSeq(rs, 1, m), n) = v

LEMMA Appended ==
    ASSUME NEW S, NEW s \in Seq(S), NEW x \in S
    PROVE  /\ Append(s, x) \in Seq(S) /\ Len(Append(s, x)) = Len(s) + 1
           /\ Append(s, x)[Len(s) + 1] = x
  OBVIOUS

(* A transfer of the whole zone. *)
LEMMA AxfrReads ==
    ASSUME NEW z \in Versions, NEW kind, NEW copy,
           kind = "AXFR" \/ (z.records # {} /\ copy.serial # z.serial)
    PROVE  LET rs == Append(AllRecords(z), Soa(z.serial))
           IN  rs \in Seq(Records) /\ Reads(kind, copy, rs, z)
<1> DEFINE as == AllRecords(z)
           rs == Append(as, Soa(z.serial))
           N == Len(as)
<1>0. /\ as \in Seq(Records) /\ N >= 1 /\ as[1] = Soa(z.serial)
      /\ \A i \in 2..N : as[i] \in Plain
      /\ {as[i] : i \in 2..N} = z.records
  BY AllRecordsRight, Zenon
<1>1. as \in Seq(Records) /\ N \in Nat /\ N >= 1 /\ as[1] = Soa(z.serial)
  BY <1>0
<1>2. Soa(z.serial) \in Records  BY Zenon DEF Records, Versions
<1> HIDE DEF as
<1>b. /\ rs \in Seq(Records) /\ Len(rs) = N + 1
      /\ rs[N + 1] = Soa(z.serial) /\ \A i \in 1..N : rs[i] = as[i]
  <2>0. as \in Seq(Records)  BY <1>1, Zenon
  <2>1. rs \in Seq(Records)  BY <2>0, <1>2, Appended, Zenon
  <2>2. Len(rs) = N + 1  BY <2>0, <1>2, Appended, Zenon
  <2>3. rs[N + 1] = Soa(z.serial)  BY <2>0, <1>2, Appended, Zenon
  <2>4. \A i \in 1..N : rs[i] = as[i]  BY <1>1, <1>2
  <2> QED  BY <2>1, <2>2, <2>3, <2>4, Zenon
<1> HIDE DEF rs, N
<1>3. /\ rs \in Seq(Records) /\ Len(rs) = N + 1 /\ rs[1] = Soa(z.serial)
      /\ rs[N + 1] = Soa(z.serial) /\ \A i \in 1..N : rs[i] = as[i]
  <2>1. 1 \in 1..N  BY <1>1
  <2> QED  BY <1>1, <1>b, <2>1, Zenon
<1>4. \A i \in 2..N : rs[i] \in Plain /\ ~IsSoa(rs[i])
  <2>1. \A i \in 2..N : i \in 1..N  BY <1>1
  <2> QED  BY <1>0, <1>3, <2>1, PlainIsNoSoa, Zenon
<1>5. {rs[i] : i \in 2..N} = z.records
  <2>1. \A i \in 2..N : rs[i] = as[i]
    <3>1. \A i \in 2..N : i \in 1..N  BY <1>1
    <3> QED  BY <1>3, <3>1, Zenon
  <2> QED  BY <1>0, <2>1, Zenon
<1>6. \A n \in 1..N : Soas(rs, n) = 1
  <2>1. Soas(rs, 1) = 1
    <3>1. Soas(rs, 0) = 0 /\ Soas(rs, 0 + 1) = IF IsSoa(rs[0 + 1]) THEN Soas(rs, 0) + 1 ELSE Soas(rs, 0)
      BY SoasCount, Zenon
    <3> QED  BY <1>3, <3>1, SoaIsSoa
  <2>2. ASSUME NEW n \in 1..N PROVE Soas(rs, n) = Soas(rs, 1)
    <3>1. n \in Nat /\ 1 <= n /\ \A j \in (1 + 1)..n : j \in 2..N  BY <1>1
    <3> QED  BY <1>4, <3>1, SoasFlat, Zenon
  <2> QED  BY <2>1, <2>2, Zenon
<1>7. ASSUME NEW m \in 1..Len(rs), NEW n \in EndOf(kind, copy, SubSeq(rs, 1, m))
      PROVE  PulledZone(kind, copy, SubSeq(rs, 1, m), n) = z
  <2> DEFINE got == SubSeq(rs, 1, m)
  <2>1. Len(got) = m /\ DOMAIN got = 1..m /\ \A i \in 1..m : got[i] = rs[i]
    BY <1>1, <1>3
  <2>2. n \in 1..m /\ Ends(kind, copy, got, n)  BY <1>7, <2>1, Zenon DEF EndOf
  <2> HIDE DEF got
  <2>3. CASE kind = "AXFR" \/ IsWhole(got)
    <3>1. Soas(got, n) = 2  BY <2>2, <2>3, Zenon DEF Ends
    <3>2. Soas(got, n) = Soas(rs, n)
      <4>1. \A j \in 1..n : got[j] = rs[j]  BY <2>1, <2>2
      <4>2. n \in Nat  BY <2>1, <2>2
      <4> QED  BY <4>1, <4>2, SoasSame, Zenon DEF SameUpTo
    <3>3. n = N + 1 /\ m = N + 1  BY <1>1, <1>3, <1>6, <2>2, <3>1, <3>2
    <3>4. {got[i] : i \in 2..(n - 1)} = {rs[i] : i \in 2..N}
      <4>1. n - 1 = N /\ \A i \in 2..N : got[i] = rs[i]  BY <1>1, <2>1, <3>3
      <4> QED  BY <4>1, Zenon
    <3>5. got[1][2] = z.serial  BY <1>1, <1>3, <2>1, <3>3, SoaIsSoa
    <3>6. PulledZone(kind, copy, got, n) = [serial |-> got[1][2], records |-> {got[i] : i \in 2..(n - 1)}]
      BY <2>3, Zenon DEF PulledZone, WholeZone
    <3>7. z = [serial |-> z.serial, records |-> z.records]  BY Zenon DEF Versions
    <3> QED  BY <1>5, <3>4, <3>5, <3>6, <3>7, Zenon DEF got
  <2>4. CASE ~(kind = "AXFR" \/ IsWhole(got))
    <3>1. N >= 2
      <4>1. \E i : i \in 2..N  BY <1>5, <2>4, Zenon
      <4> QED  BY <1>1, <4>1
    <3>2. m = 1
      <4>1. m > 1 => ~IsSoa(got[2])  BY <1>1, <1>3, <1>4, <2>1, <3>1
      <4>2. ~(Len(got) > 1)  BY <2>1, <2>4, <4>1, Zenon DEF IsWhole
      <4> QED  BY <1>3, <2>1, <4>2
    <3>3. got[1] = Soa(copy.serial)  BY <2>1, <2>2, <2>4, <3>2, Zenon DEF Ends
    <3>4. got[1] = Soa(z.serial)  BY <1>3, <2>1, <3>2
    <3>5. copy.serial = z.serial  BY <3>3, <3>4 DEF Soa
    <3> QED  BY <2>4, <3>5, Zenon
  <2> QED  BY <2>3, <2>4, Zenon DEF got
<1> QED  BY <1>3, <1>7, Zenon DEF Reads, rs, as, N

----------------------------------------------------------------------------

(* The records rs[q + 1] to rs[e] taken away, or added, one after another. *)
Run(rs, q, e) == {rs[j] : j \in (q + 1)..e}
Deletes(f, rs, q, e) == \A j \in (q + 1)..e : f[j] = f[j - 1] \ {rs[j]}
Deleted(f, rs, q, e) == f[e] = f[q] \ Run(rs, q, e)
Adds(f, rs, q, e) == \A j \in (q + 1)..e : f[j] = f[j - 1] \cup {rs[j]}
Added(f, rs, q, e) == f[e] = f[q] \cup Run(rs, q, e)

(* Records between two markers are deleted one after the other, or added. *)
LEMMA RunDeleted ==
    ASSUME NEW rs, NEW f, NEW q \in Nat, NEW e \in Nat, q <= e, Deletes(f, rs, q, e)
    PROVE  Deleted(f, rs, q, e)
<1> DEFINE S == {k \in q..e : f[k] # f[q] \ Run(rs, q, k)}
<1>0. \A k, x : x \in Run(rs, q, k) <=> \E j \in (q + 1)..k : x = rs[j]  BY Zenon DEF Run
<1>1. S = {}
  <2> SUFFICES ASSUME S # {} PROVE FALSE  BY Zenon
  <2>1. PICK m \in S : \A y \in S : m <= y
    <3>1. S \in SUBSET Nat  OBVIOUS
    <3> QED  BY <3>1, LeastOf, Zenon
  <2>2. m \in q..e /\ f[m] # f[q] \ Run(rs, q, m)  BY <2>1, Zenon
  <2>3. m # q
    <3>1. \A j : j \notin (q + 1)..q  OBVIOUS
    <3>2. Run(rs, q, q) = {}  BY <1>0, <3>1, Zenon
    <3> QED  BY <2>2, <3>2, Zenon
  <2>4. m - 1 \in q..e /\ ~(m <= m - 1) /\ m \in (q + 1)..e  BY <2>2, <2>3
  <2>5. f[m - 1] = f[q] \ Run(rs, q, m - 1)  BY <2>1, <2>4, Zenon
  <2>6. \A j : j \in (q + 1)..m <=> j \in (q + 1)..(m - 1) \/ j = m  BY <2>4
  <2>7. Run(rs, q, m) = Run(rs, q, m - 1) \cup {rs[m]}
    <3>1. \A x : x \in Run(rs, q, m) <=> \E j \in (q + 1)..m : x = rs[j]  BY <1>0, Zenon
    <3>2. \A x : x \in Run(rs, q, m - 1) <=> \E j \in (q + 1)..(m - 1) : x = rs[j]  BY <1>0, Zenon
    <3>3. \A x \in Run(rs, q, m) : x \in Run(rs, q, m - 1) \/ x = rs[m]  BY <2>6, <3>1, <3>2, Zenon
    <3>4. rs[m] \in Run(rs, q, m)  BY <2>6, <3>1, Zenon
    <3>5. \A x \in Run(rs, q, m - 1) : x \in Run(rs, q, m)  BY <2>6, <3>1, <3>2, Zenon
    <3> QED  BY <3>3, <3>4, <3>5, Zenon
  <2>8. f[m] = f[m - 1] \ {rs[m]}  BY <2>4, Zenon DEF Deletes
  <2> QED  BY <2>2, <2>5, <2>7, <2>8, Zenon
<1>2. e \in q..e  OBVIOUS
<1> QED  BY <1>1, <1>2, Zenon DEF Deleted

LEMMA RunAdded ==
    ASSUME NEW rs, NEW f, NEW q \in Nat, NEW e \in Nat, q <= e, Adds(f, rs, q, e)
    PROVE  Added(f, rs, q, e)
<1> DEFINE S == {k \in q..e : f[k] # f[q] \cup Run(rs, q, k)}
<1>0. \A k, x : x \in Run(rs, q, k) <=> \E j \in (q + 1)..k : x = rs[j]  BY Zenon DEF Run
<1>1. S = {}
  <2> SUFFICES ASSUME S # {} PROVE FALSE  BY Zenon
  <2>1. PICK m \in S : \A y \in S : m <= y
    <3>1. S \in SUBSET Nat  OBVIOUS
    <3> QED  BY <3>1, LeastOf, Zenon
  <2>2. m \in q..e /\ f[m] # f[q] \cup Run(rs, q, m)  BY <2>1, Zenon
  <2>3. m # q
    <3>1. \A j : j \notin (q + 1)..q  OBVIOUS
    <3>2. Run(rs, q, q) = {}  BY <1>0, <3>1, Zenon
    <3> QED  BY <2>2, <3>2, Zenon
  <2>4. m - 1 \in q..e /\ ~(m <= m - 1) /\ m \in (q + 1)..e  BY <2>2, <2>3
  <2>5. f[m - 1] = f[q] \cup Run(rs, q, m - 1)  BY <2>1, <2>4, Zenon
  <2>6. \A j : j \in (q + 1)..m <=> j \in (q + 1)..(m - 1) \/ j = m  BY <2>4
  <2>7. Run(rs, q, m) = Run(rs, q, m - 1) \cup {rs[m]}
    <3>1. \A x : x \in Run(rs, q, m) <=> \E j \in (q + 1)..m : x = rs[j]  BY <1>0, Zenon
    <3>2. \A x : x \in Run(rs, q, m - 1) <=> \E j \in (q + 1)..(m - 1) : x = rs[j]  BY <1>0, Zenon
    <3>3. \A x \in Run(rs, q, m) : x \in Run(rs, q, m - 1) \/ x = rs[m]  BY <2>6, <3>1, <3>2, Zenon
    <3>4. rs[m] \in Run(rs, q, m)  BY <2>6, <3>1, Zenon
    <3>5. \A x \in Run(rs, q, m - 1) : x \in Run(rs, q, m)  BY <2>6, <3>1, <3>2, Zenon
    <3> QED  BY <3>3, <3>4, <3>5, Zenon
  <2>8. f[m] = f[m - 1] \cup {rs[m]}  BY <2>4, Zenon DEF Adds
  <2> QED  BY <2>2, <2>5, <2>7, <2>8, Zenon
<1>2. e \in q..e  OBVIOUS
<1> QED  BY <1>1, <1>2, Zenon DEF Added

LEMMA WithoutRight ==
    ASSUME NEW z \in Versions, NEW w \in Versions
    PROVE  /\ Without(z, w) \in Versions
           /\ Without(z, w).serial = z.serial /\ Without(z, w).records = z.records \ w.records
<1>1. z.serial \in Nat /\ z.records \in SUBSET Plain  BY Zenon DEF Versions
<1>2. z.records \ w.records \in SUBSET Plain  BY <1>1, Zenon
<1>3. Without(z, w) = [serial |-> z.serial, records |-> z.records \ w.records]
  BY Zenon DEF Without
<1> QED  BY <1>1, <1>2, <1>3 DEF Versions

(* A delta behind a prefix of the response with 4 i + 1 SOA records.  Its  *)
(* records are deleted, or added, as the journal recorded them.            *)
Follows(ds, rs, p) == \A j \in 1..Len(ds) : rs[p + j] = ds[j]
Applies(f, rs, p, q) == \A j \in (p + 1)..q : f[j] = Applied(rs, j, f[j - 1])
Reached(f, rs, p, i, records) == Soas(rs, p) = 4 * i + 1 /\ f[p] = records
MaybeEnd(rs, n) == IsSoa(rs[n]) /\ (Soas(rs, n) - 1) % 4 = 1
EndsWith(rs, p, q, r) == p + 4 <= q /\ \A n \in (p + 1)..q : MaybeEnd(rs, n) => rs[n] = r

LEMMA DeltaApplied ==
    ASSUME SoasPerMarker = 2,
           NEW old \in Versions, NEW new \in Versions, NEW rs, NEW f, NEW p \in Nat, NEW i \in Nat,
           NEW L \in Nat, L = Len(DeltaRecords(Delta(old, new))),
           Follows(DeltaRecords(Delta(old, new)), rs, p),
           Reached(f, rs, p, i, old.records), Applies(f, rs, p, p + L)
    PROVE  /\ IsSoa(rs[p + 1])
           /\ Reached(f, rs, p + L, i + 1, new.records)
           /\ EndsWith(rs, p, p + L, Soa(old.serial))
<1>0. Soas(rs, p) = 4 * i + 1 /\ f[p] = old.records  BY Zenon DEF Reached
<1> DEFINE from == Soa(old.serial)
           to == Soa(new.serial)
           dels == AllRecords(Without(old, new))
           adds == AllRecords(Without(new, old))
           D == DeltaRecords(Delta(old, new))
           a == Len(dels)
           b == Len(adds)
<1>1. /\ Without(old, new) \in Versions /\ Without(new, old) \in Versions
      /\ Without(old, new).serial = old.serial /\ Without(old, new).records = old.records \ new.records
      /\ Without(new, old).serial = new.serial /\ Without(new, old).records = new.records \ old.records
  BY WithoutRight, Zenon
<1>2. /\ dels \in Seq(Records) /\ a >= 1 /\ dels[1] = from /\ \A j \in 2..a : dels[j] \in Plain
      /\ {dels[j] : j \in 2..a} = old.records \ new.records
  BY <1>1, AllRecordsRight, Zenon
<1>3. /\ adds \in Seq(Records) /\ b >= 1 /\ adds[1] = to /\ \A j \in 2..b : adds[j] \in Plain
      /\ {adds[j] : j \in 2..b} = new.records \ old.records
  BY <1>1, AllRecordsRight, Zenon
<1>4. D = <<from>> \o dels \o <<to>> \o adds  BY Zenon DEF DeltaRecords, Delta
<1>5. from \in Records /\ to \in Records  BY Zenon DEF Records, Versions
<1>6. dels \in Seq(Records) /\ adds \in Seq(Records) /\ a \in Nat /\ b \in Nat /\ a >= 1 /\ b >= 1
  BY <1>2, <1>3
<1> HIDE DEF dels, adds
<1>7. /\ Len(D) = a + b + 2 /\ D[1] = from /\ D[a + 2] = to
      /\ \A j \in 1..a : D[1 + j] = dels[j]
      /\ \A j \in 1..b : D[a + 2 + j] = adds[j]
  <2> HIDE DEF from, to, D
  <2> QED  BY <1>4, <1>5, <1>6
<1>8. L = a + b + 2  BY <1>7, Zenon
<1>h. \A j \in 1..L : rs[p + j] = D[j]  BY Zenon DEF Follows
<1> HIDE DEF from, to, a, b, D
<1>9. /\ rs[p + 1] = from /\ rs[p + 2] = from /\ rs[p + a + 2] = to /\ rs[p + a + 3] = to
  <2>1. 1 \in 1..L /\ 2 \in 1..L /\ a + 2 \in 1..L /\ a + 3 \in 1..L /\ 1 \in 1..a /\ 1 \in 1..b
    BY <1>6, <1>8
  <2>2. D[2] = from /\ D[a + 3] = to
    <3>1. D[1 + 1] = from /\ D[a + 2 + 1] = to  BY <1>2, <1>3, <1>7, <2>1, Zenon
    <3> QED  BY <1>6, <3>1
  <2>3. p + (a + 2) = p + a + 2 /\ p + (a + 3) = p + a + 3  BY <1>6
  <2>4. rs[p + 1] = D[1] /\ rs[p + 2] = D[2]  BY <1>h, <2>1, Zenon
  <2>5. rs[p + (a + 2)] = D[a + 2] /\ rs[p + (a + 3)] = D[a + 3]  BY <1>h, <2>1, Zenon
  <2> QED  BY <1>7, <2>2, <2>3, <2>4, <2>5, Zenon
<1>d. \A j \in (p + 3)..(p + a + 1) :
          j - (p + 1) \in 2..a /\ rs[j] = dels[j - (p + 1)] /\ ~IsSoa(rs[j])
  <2> SUFFICES ASSUME NEW j \in (p + 3)..(p + a + 1)
               PROVE  j - (p + 1) \in 2..a /\ rs[j] = dels[j - (p + 1)] /\ ~IsSoa(rs[j])
    BY Zenon
  <2> DEFINE h == j - (p + 1)
  <2>1. h \in 2..a /\ h \in 1..a /\ 1 + h \in 1..L /\ p + (1 + h) = j  BY <1>6, <1>8
  <2> HIDE DEF h
  <2>2. rs[p + (1 + h)] = D[1 + h] /\ D[1 + h] = dels[h]  BY <1>7, <1>h, <2>1, Zenon
  <2>3. rs[j] = dels[h]  BY <2>1, <2>2, Zenon
  <2>4. ~IsSoa(dels[h])  BY <1>2, <2>1, PlainIsNoSoa, Zenon
  <2> QED  BY <2>1, <2>3, <2>4, Zenon DEF h
<1>a. \A j \in (p + a + 4)..(p + L) :
          j - (p + a + 2) \in 2..b /\ rs[j] = adds[j - (p + a + 2)] /\ ~IsSoa(rs[j])
  <2> SUFFICES ASSUME NEW j \in (p + a + 4)..(p + L)
               PROVE  j - (p + a + 2) \in 2..b /\ rs[j] = adds[j - (p + a + 2)] /\ ~IsSoa(rs[j])
    BY Zenon
  <2> DEFINE h == j - (p + a + 2)
  <2>1. h \in 2..b /\ h \in 1..b /\ a + 2 + h \in 1..L /\ p + (a + 2 + h) = j  BY <1>6, <1>8
  <2> HIDE DEF h
  <2>2. rs[p + (a + 2 + h)] = D[a + 2 + h] /\ D[a + 2 + h] = adds[h]  BY <1>7, <1>h, <2>1, Zenon
  <2>3. rs[j] = adds[h]  BY <2>1, <2>2, Zenon
  <2>4. ~IsSoa(adds[h])  BY <1>3, <2>1, PlainIsNoSoa, Zenon
  <2> QED  BY <2>1, <2>3, <2>4, Zenon DEF h
<1>e. {rs[j] : j \in (p + 3)..(p + a + 1)} = old.records \ new.records
  <2>1. \A h \in 2..a : p + 1 + h \in (p + 3)..(p + a + 1) /\ (p + 1 + h) - (p + 1) = h  BY <1>6
  <2>2. \A h \in 2..a : dels[h] = rs[p + 1 + h] /\ p + 1 + h \in (p + 3)..(p + a + 1)
    <3> TAKE h \in 2..a
    <3>1. rs[p + 1 + h] = dels[(p + 1 + h) - (p + 1)]  BY <1>d, <2>1, Zenon
    <3> QED  BY <2>1, <3>1, Zenon
  <2>3. \A j \in (p + 3)..(p + a + 1) : rs[j] \in {dels[h] : h \in 2..a}  BY <1>d, Zenon
  <2>4. \A h \in 2..a : dels[h] \in {rs[j] : j \in (p + 3)..(p + a + 1)}  BY <2>2, Zenon
  <2>5. {rs[j] : j \in (p + 3)..(p + a + 1)} = {dels[h] : h \in 2..a}  BY <2>3, <2>4, Zenon
  <2> QED  BY <1>2, <2>5, Zenon
<1>g. {rs[j] : j \in (p + a + 4)..(p + L)} = new.records \ old.records
  <2>1. \A h \in 2..b : /\ p + a + 2 + h \in (p + a + 4)..(p + L)
                        /\ (p + a + 2 + h) - (p + a + 2) = h
    BY <1>6, <1>8
  <2>2. \A h \in 2..b : adds[h] = rs[p + a + 2 + h] /\ p + a + 2 + h \in (p + a + 4)..(p + L)
    <3> TAKE h \in 2..b
    <3>1. rs[p + a + 2 + h] = adds[(p + a + 2 + h) - (p + a + 2)]  BY <1>a, <2>1, Zenon
    <3> QED  BY <2>1, <3>1, Zenon
  <2>3. \A j \in (p + a + 4)..(p + L) : rs[j] \in {adds[h] : h \in 2..b}  BY <1>a, Zenon
  <2>4. \A h \in 2..b : adds[h] \in {rs[j] : j \in (p + a + 4)..(p + L)}  BY <2>2, Zenon
  <2>5. {rs[j] : j \in (p + a + 4)..(p + L)} = {adds[h] : h \in 2..b}  BY <2>3, <2>4, Zenon
  <2> QED  BY <1>3, <2>5, Zenon
<1>k. /\ IsSoa(rs[p + 1]) /\ IsSoa(rs[p + 2]) /\ IsSoa(rs[p + a + 2]) /\ IsSoa(rs[p + a + 3])
  BY <1>9, SoaIsSoa, Zenon DEF from, to
<1>m. /\ Soas(rs, p + 1) = 4 * i + 2
      /\ \A n \in (p + 2)..(p + a + 1) : Soas(rs, n) = 4 * i + 3
      /\ Soas(rs, p + a + 2) = 4 * i + 4
      /\ \A n \in (p + a + 3)..(p + L) : Soas(rs, n) = 4 * i + 5
  <2>1. Soas(rs, p + 1) = 4 * i + 2
    <3>1. Soas(rs, p + 1) = Soas(rs, p) + 1  BY <1>k, SoasCount, Zenon
    <3> QED  BY <1>0, <3>1
  <2>2. Soas(rs, p + 2) = 4 * i + 3
    <3>1. p + 1 \in Nat /\ (p + 1) + 1 = p + 2  OBVIOUS
    <3>2. Soas(rs, (p + 1) + 1) = IF IsSoa(rs[(p + 1) + 1]) THEN Soas(rs, p + 1) + 1 ELSE Soas(rs, p + 1)
      BY <3>1, SoasCount, Zenon
    <3> QED  BY <1>k, <2>1, <3>1, <3>2
  <2>3. ASSUME NEW n \in (p + 2)..(p + a + 1) PROVE Soas(rs, n) = 4 * i + 3
    <3>1. p + 2 \in Nat /\ n \in Nat /\ p + 2 <= n /\ \A j \in (p + 2 + 1)..n : j \in (p + 3)..(p + a + 1)
      BY <1>6
    <3>2. Soas(rs, n) = Soas(rs, p + 2)  BY <1>d, <3>1, SoasFlat, Zenon
    <3> QED  BY <2>2, <3>2, Zenon
  <2>4. Soas(rs, p + a + 2) = 4 * i + 4
    <3>1. p + a + 1 \in Nat /\ (p + a + 1) + 1 = p + a + 2 /\ p + a + 1 \in (p + 2)..(p + a + 1)  BY <1>6
    <3>2. Soas(rs, (p + a + 1) + 1) = IF IsSoa(rs[(p + a + 1) + 1]) THEN Soas(rs, p + a + 1) + 1
                                      ELSE Soas(rs, p + a + 1)
      BY <3>1, SoasCount, Zenon
    <3> QED  BY <1>k, <2>3, <3>1, <3>2
  <2>5. Soas(rs, p + a + 3) = 4 * i + 5
    <3>1. p + a + 2 \in Nat /\ (p + a + 2) + 1 = p + a + 3  BY <1>6
    <3>2. Soas(rs, (p + a + 2) + 1) = IF IsSoa(rs[(p + a + 2) + 1]) THEN Soas(rs, p + a + 2) + 1
                                      ELSE Soas(rs, p + a + 2)
      BY <3>1, SoasCount, Zenon
    <3> QED  BY <1>k, <2>4, <3>1, <3>2
  <2>6. ASSUME NEW n \in (p + a + 3)..(p + L) PROVE Soas(rs, n) = 4 * i + 5
    <3>1. /\ p + a + 3 \in Nat /\ n \in Nat /\ p + a + 3 <= n
          /\ \A j \in (p + a + 3 + 1)..n : j \in (p + a + 4)..(p + L)
      BY <1>6
    <3>2. Soas(rs, n) = Soas(rs, p + a + 3)  BY <1>a, <3>1, SoasFlat, Zenon
    <3> QED  BY <2>5, <3>2, Zenon
  <2> QED  BY <2>1, <2>3, <2>4, <2>6, Zenon
<1>n. \A j \in (p + 1)..(p + L) : f[j] = Applied(rs, j, f[j - 1])
  BY Zenon DEF Applies
<1>l. \A j \in (p + 1)..(p + L) : \A h : h = j - 1 /\ IsSoa(rs[j]) => f[j] = f[h]
  BY <1>n, Zenon DEF Applied
<1>o. f[p + 2] = old.records
  <2>1. p + 1 \in (p + 1)..(p + L) /\ p = p + 1 - 1  BY <1>6, <1>8
  <2>2. p + 2 \in (p + 1)..(p + L) /\ p + 1 = p + 2 - 1  BY <1>6, <1>8
  <2>3. f[p + 1] = f[p]  BY <1>k, <1>l, <2>1
  <2>4. f[p + 2] = f[p + 1]  BY <1>k, <1>l, <2>2
  <2> QED  BY <1>0, <2>3, <2>4, Zenon
<1>q. f[p + a + 1] = old.records \ (old.records \ new.records)
  <2> DEFINE q == p + 2
             e == p + a + 1
  <2>0. q + 1 = p + 3  BY <1>6
  <2>1. q \in Nat /\ e \in Nat /\ q <= e  BY <1>6
  <2>2. ASSUME NEW j \in (q + 1)..e PROVE f[j] = f[j - 1] \ {rs[j]}
    <3>1. j \in (p + 1)..(p + L) /\ j \in (p + 3)..(p + a + 1) /\ j \in (p + 2)..(p + a + 1)
      BY <1>6, <1>8
    <3>2. ((Soas(rs, j) - 2) \div SoasPerMarker) % 2 = 0
      <4>1. Soas(rs, j) = 4 * i + 3 /\ SoasPerMarker = 2  BY <1>m, <3>1, Zenon
      <4>2. (4 * i + 3 - 2) \div 2 = 2 * i /\ (2 * i) % 2 = 0  OBVIOUS
      <4>3. (Soas(rs, j) - 2) \div SoasPerMarker = 2 * i  BY <4>1, <4>2
      <4> QED  BY <4>2, <4>3, Zenon
    <3>3. ~IsSoa(rs[j])  BY <1>d, <3>1, Zenon
    <3>4. f[j] = Applied(rs, j, f[j - 1])  BY <1>n, <3>1, Zenon
    <3> QED  BY <3>2, <3>3, <3>4, Zenon DEF Applied
  <2> HIDE DEF q, e
  <2>3. Run(rs, q, e) = old.records \ new.records  BY <1>e, <2>0, Zenon DEF Run, e
  <2>4. Deletes(f, rs, q, e)  BY <2>2, Zenon DEF Deletes
  <2>5. Deleted(f, rs, q, e)  BY <2>1, <2>4, RunDeleted, Zenon
  <2> QED  BY <1>o, <2>3, <2>5, Zenon DEF q, e, Deleted
<1>r. f[p + a + 3] = f[p + a + 1]
  <2>1. PICK h1, h2, h3 : h1 = p + a + 1 /\ h2 = p + a + 2 /\ h3 = p + a + 3  BY Zenon
  <2>2. h2 \in (p + 1)..(p + L) /\ h1 = h2 - 1  BY <1>6, <1>8, <2>1
  <2>3. h3 \in (p + 1)..(p + L) /\ h2 = h3 - 1  BY <1>6, <1>8, <2>1
  <2>4. IsSoa(rs[h2]) /\ IsSoa(rs[h3])  BY <1>k, <2>1, Zenon
  <2>5. f[h2] = f[h1]  BY <1>l, <2>2, <2>4, Zenon
  <2>6. f[h3] = f[h2]  BY <1>l, <2>3, <2>4, Zenon
  <2> QED  BY <2>1, <2>5, <2>6, Zenon
<1>s. f[p + L] = f[p + a + 3] \cup (new.records \ old.records)
  <2> DEFINE q == p + a + 3
             e == p + L
  <2>0. q + 1 = p + a + 4  BY <1>6
  <2>1. q \in Nat /\ e \in Nat /\ q <= e  BY <1>6, <1>8
  <2>2. ASSUME NEW j \in (q + 1)..e PROVE f[j] = f[j - 1] \cup {rs[j]}
    <3>1. j \in (p + 1)..(p + L) /\ j \in (p + a + 4)..(p + L) /\ j \in (p + a + 3)..(p + L)
      BY <1>6, <1>8
    <3>2. ~(((Soas(rs, j) - 2) \div SoasPerMarker) % 2 = 0)
      <4>1. Soas(rs, j) = 4 * i + 5 /\ SoasPerMarker = 2  BY <1>m, <3>1, Zenon
      <4>2. ~(((4 * i + 5 - 2) \div 2) % 2 = 0)  OBVIOUS
      <4> QED  BY <4>1, <4>2
    <3>3. ~IsSoa(rs[j])  BY <1>a, <3>1, Zenon
    <3>4. f[j] = Applied(rs, j, f[j - 1])  BY <1>n, <3>1, Zenon
    <3> QED  BY <3>2, <3>3, <3>4, Zenon DEF Applied
  <2> HIDE DEF q, e
  <2>3. Run(rs, q, e) = new.records \ old.records  BY <1>g, <2>0, Zenon DEF Run, e
  <2>4. Adds(f, rs, q, e)  BY <2>2, Zenon DEF Adds
  <2>5. Added(f, rs, q, e)  BY <2>1, <2>4, RunAdded, Zenon
  <2> QED  BY <2>3, <2>5, Zenon DEF q, e, Added
<1>t. f[p + L] = new.records  BY <1>q, <1>r, <1>s, Zenon
<1>u. ASSUME NEW n \in (p + 1)..(p + L), MaybeEnd(rs, n)
      PROVE  rs[n] = Soa(old.serial)
  <2>1. \/ n = p + 1 \/ n = p + a + 2
        \/ n \in (p + 2)..(p + a + 1) \/ n \in (p + a + 3)..(p + L)
    BY <1>6, <1>8
  <2>2. n = p + 1
    <3>1. /\ ~((4 * i + 3 - 1) % 4 = 1) /\ ~((4 * i + 4 - 1) % 4 = 1) /\ ~((4 * i + 5 - 1) % 4 = 1)
      OBVIOUS
    <3> QED  BY <1>m, <1>u, <2>1, <3>1 DEF MaybeEnd
  <2> QED  BY <1>9, <2>2, Zenon DEF from
<1>v. p + 4 <= p + L /\ p + L \in (p + a + 3)..(p + L) /\ 4 * i + 5 = 4 * (i + 1) + 1  BY <1>6, <1>8
<1> QED  BY <1>k, <1>m, <1>t, <1>u, <1>v, Zenon DEF Reached, EndsWith

----------------------------------------------------------------------------

LEMMA DeltaIsRecords ==
    ASSUME NEW old \in Versions, NEW new \in Versions
    PROVE  DeltaRecords(Delta(old, new)) \in Seq(Records)
<1> DEFINE dels == AllRecords(Without(old, new))
           adds == AllRecords(Without(new, old))
<1>1. Without(old, new) \in Versions /\ Without(new, old) \in Versions
  BY WithoutRight, Zenon
<1>2. dels \in Seq(Records) /\ adds \in Seq(Records)  BY <1>1, AllRecordsRight, Zenon
<1>3. Soa(old.serial) \in Records /\ Soa(new.serial) \in Records  BY Zenon DEF Records, Versions
<1>4. DeltaRecords(Delta(old, new)) = <<Soa(old.serial)>> \o dels \o <<Soa(new.serial)>> \o adds
  BY Zenon DEF DeltaRecords, Delta
<1> HIDE DEF dels, adds
<1> QED  BY <1>2, <1>3, <1>4

(* What the copy becomes, record by record. *)
Unfolds(f, copy, rs, n) ==
    /\ f[0] = copy.records /\ Applies(f, rs, 0, n)
    /\ DeltasOn(copy, rs, n) = [serial |-> rs[1][2], records |-> f[n]]

LEMMA DeltasUnfold ==
    ASSUME NEW rs \in Seq(Records), NEW copy, copy.records \in SUBSET Records, NEW n \in 1..Len(rs)
    PROVE  \E f : Unfolds(f, copy, rs, n)
<1> DEFINE g == [i \in 1..n |-> [t \in SUBSET Records |-> Applied(rs, i, t)]]
           after[j \in 0..n] == IF j = 0 THEN copy.records ELSE Applied(rs, j, after[j - 1])
<1>0. n \in Nat  OBVIOUS
<1>1. \A i \in 1..n : \A t \in SUBSET Records : g[i][t] = Applied(rs, i, t)  BY Zenon
<1>2. g \in [1..n -> [SUBSET Records -> SUBSET Records]]
  <2>1. \A i \in 1..n : rs[i] \in Records  OBVIOUS
  <2>2. \A i \in 1..n : \A t \in SUBSET Records : Applied(rs, i, t) \in SUBSET Records
    BY <2>1, Zenon DEF Applied
  <2> QED  BY <2>2, Zenon
<1> HIDE DEF g
<1>3. PICK f \in [0..n -> SUBSET Records] :
          f[0] = copy.records /\ \A i \in 1..n : f[i] = g[i][f[i - 1]]
  <2> DEFINE T == SUBSET Records
             base == copy.records
  <2>1. base \in T /\ g \in [1..n -> [T -> T]]  BY <1>2, Zenon
  <2> HIDE DEF T, base
  <2>2. \E f \in [0..n -> T] : Iterates(f, g, n, base)  BY <1>0, <2>1, Iterated, Zenon
  <2> QED  BY <2>2, Zenon DEF T, base, Iterates
<1>4. \A i \in 1..n : f[i] = Applied(rs, i, f[i - 1])
  <2>1. \A i \in 1..n : f[i - 1] \in SUBSET Records  BY <1>0, <1>3
  <2> QED  BY <1>1, <1>3, <2>1, Zenon
<1>5. f = [j \in 0..n |-> IF j = 0 THEN copy.records ELSE Applied(rs, j, f[j - 1])]
  <2>1. \A j \in 0..n : f[j] = IF j = 0 THEN copy.records ELSE Applied(rs, j, f[j - 1])
    <3>1. \A j \in 0..n : j = 0 \/ j \in 1..n  BY <1>0
    <3> QED  BY <1>3, <1>4, <3>1, Zenon
  <2> QED  BY <1>3, <2>1, Zenon
<1>6. after = [j \in 0..n |-> IF j = 0 THEN copy.records ELSE Applied(rs, j, after[j - 1])]
  BY <1>5, Zenon
<1> HIDE DEF after
<1>7. \A j \in 0..n : after[j] = IF j = 0 THEN copy.records ELSE Applied(rs, j, after[j - 1])
  BY <1>6, Zenon
<1>8. after[n] = f[n]
  <2>1. after[0] = f[0]
    <3>1. 0 \in 0..n  OBVIOUS
    <3> QED  BY <1>3, <1>7, <3>1, Zenon
  <2>2. ASSUME NEW i \in 1..n, after[i - 1] = f[i - 1] PROVE after[i] = f[i]
    <3>1. i \in 0..n /\ i # 0  OBVIOUS
    <3> QED  BY <1>4, <1>7, <2>2, <3>1, Zenon
  <2>3. StepAlike(after, f, n)  BY <2>1, <2>2, Zenon DEF StepAlike
  <2>4. n \in 0..n  OBVIOUS
  <2> QED  BY <1>0, <2>3, <2>4, AlikeAll, Zenon
<1>9. DeltasOn(copy, rs, n) = [serial |-> rs[1][2], records |-> after[n]]
  BY Zenon DEF DeltasOn, after
<1>10. Applies(f, rs, 0, n)
  <2>1. 0 + 1 = 1  OBVIOUS
  <2> QED  BY <1>4, <2>1, Zenon DEF Applies
<1> QED  BY <1>3, <1>8, <1>9, <1>10, Zenon DEF Unfolds

(* The deltas of an IXFR take a peer from the version it has to the newest. *)
LEMMA DeltasRead ==
    ASSUME SoasPerMarker = 2, NEW k \in Nat, k # 0, NEW vs \in [0..k -> Versions],
           \A i \in 1..k : vs[i - 1].serial # vs[k].serial,
           NEW U \in [0..k -> Seq(Records)], U[0] = <<Soa(vs[k].serial)>>,
           \A i \in 1..k : U[i] = U[i - 1] \o DeltaRecords(Delta(vs[i - 1], vs[i]))
    PROVE  LET rs == Append(U[k], Soa(vs[k].serial))
           IN  rs \in Seq(Records) /\ Reads("IXFR", vs[0], rs, vs[k])
<1> DEFINE last == Soa(vs[k].serial)
           rs == Append(U[k], last)
           N == Len(U[k])
           Dl(i) == DeltaRecords(Delta(vs[i - 1], vs[i]))
<1>1. last \in Records /\ \A i \in 0..k : vs[i] \in Versions
  <2>1. k \in 0..k  OBVIOUS
  <2> QED  BY <2>1, Zenon DEF Records, Versions
<1>2. \A i \in 1..k : Dl(i) \in Seq(Records) /\ Len(Dl(i)) \in Nat
  <2>1. \A i \in 1..k : i \in 0..k /\ i - 1 \in 0..k  OBVIOUS
  <2>2. \A i \in 1..k : Dl(i) \in Seq(Records)  BY <1>1, <2>1, DeltaIsRecords, Zenon
  <2> HIDE DEF Dl
  <2> QED  BY <2>2
<1> HIDE DEF Dl
<1>3. \A i \in 1..k : U[i] = U[i - 1] \o Dl(i)  BY Zenon DEF Dl
<1>4. \A i \in 0..k : U[i] \in Seq(Records) /\ Len(U[i]) \in Nat  OBVIOUS
<1>5. U[k] \in Seq(Records) /\ N \in Nat
  <2>1. k \in 0..k  OBVIOUS
  <2> QED  BY <1>4, <2>1, Zenon
<1> HIDE DEF last
<1>6. /\ rs \in Seq(Records) /\ Len(rs) = N + 1 /\ rs[N + 1] = last
      /\ \A j \in 1..N : rs[j] = U[k][j]
  BY <1>1, <1>5
<1> HIDE DEF rs, N
<1>7. \A i \in 1..k : /\ Len(U[i]) = Len(U[i - 1]) + Len(Dl(i))
                      /\ \A j \in 1..Len(U[i - 1]) : U[i][j] = U[i - 1][j]
                      /\ \A j \in 1..Len(Dl(i)) : U[i][Len(U[i - 1]) + j] = Dl(i)[j]
  <2> SUFFICES ASSUME NEW i \in 1..k
               PROVE  /\ Len(U[i]) = Len(U[i - 1]) + Len(Dl(i))
                      /\ \A j \in 1..Len(U[i - 1]) : U[i][j] = U[i - 1][j]
                      /\ \A j \in 1..Len(Dl(i)) : U[i][Len(U[i - 1]) + j] = Dl(i)[j]
    BY Zenon
  <2>1. i - 1 \in 0..k  OBVIOUS
  <2>2. PICK u, d, w : u = U[i - 1] /\ d = Dl(i) /\ w = U[i]  BY Zenon
  <2>3. u \in Seq(Records) /\ d \in Seq(Records) /\ w = u \o d  BY <1>2, <1>3, <1>4, <2>1, <2>2, Zenon
  <2>4. /\ Len(w) = Len(u) + Len(d) /\ \A j \in 1..Len(u) : w[j] = u[j]
        /\ \A j \in 1..Len(d) : w[Len(u) + j] = d[j]
    BY <2>3
  <2> QED  BY <2>2, <2>4, Zenon
<1>8. \A i \in 0..k : Len(U[i]) <= N /\ \A j \in 1..Len(U[i]) : rs[j] = U[i][j]
  <2> DEFINE P(i) == Len(U[i]) <= N /\ \A j \in 1..Len(U[i]) : rs[j] = U[i][j]
             S == {h \in 0..k : ~P(k - h)}
  <2> SUFFICES ASSUME S # {} PROVE FALSE
    <3>1. \A i \in 0..k : k - i \in 0..k /\ k - (k - i) = i  OBVIOUS
    <3>2. \A i \in 0..k : P(k - (k - i))  BY <3>1, Zenon
    <3> HIDE DEF P
    <3>3. \A i \in 0..k : P(i)  BY <3>1, <3>2, Zenon
    <3> QED  BY <3>3, Zenon DEF P
  <2>1. PICK h \in S : \A y \in S : h <= y
    <3>1. S \in SUBSET Nat  OBVIOUS
    <3> QED  BY <3>1, LeastOf, Zenon
  <2>2. h \in 0..k /\ ~P(k - h)  BY <2>1, Zenon
  <2>3. h # 0
    <3>1. k - 0 = k  OBVIOUS
    <3>2. P(k)  BY <1>5, <1>6 DEF N
    <3> QED  BY <2>2, <3>1, <3>2, Zenon
  <2>4. h - 1 \in 0..k /\ ~(h <= h - 1)  BY <2>2, <2>3
  <2>5. P(k - (h - 1))  BY <2>1, <2>4, Zenon
  <2>6. PICK i, c : i = k - (h - 1) /\ c = k - h  BY Zenon
  <2>7. i \in 1..k /\ i - 1 = c /\ i \in 0..k /\ c \in 0..k  BY <2>2, <2>3, <2>6
  <2>8. P(i) /\ ~P(c)  BY <2>2, <2>5, <2>6, Zenon
  <2>9. /\ Len(U[i]) = Len(U[c]) + Len(Dl(i)) /\ \A j \in 1..Len(U[c]) : U[i][j] = U[c][j]
        /\ Len(Dl(i)) \in Nat /\ Len(U[c]) \in Nat
    BY <1>2, <1>4, <1>7, <2>7, Zenon
  <2>10. Len(U[c]) <= N /\ \A j \in 1..Len(U[c]) : j \in 1..Len(U[i])  BY <1>5, <2>8, <2>9
  <2>11. \A j \in 1..Len(U[c]) : rs[j] = U[c][j]  BY <2>8, <2>9, <2>10, Zenon
  <2> QED  BY <2>8, <2>10, <2>11, Zenon
<1>9. PICK f : Unfolds(f, vs[0], rs, N + 1)
  <2>1. 0 \in 0..k  OBVIOUS
  <2>2. vs[0].records \in SUBSET Records  BY <1>1, <2>1, Zenon DEF Versions, Records
  <2>3. rs \in Seq(Records) /\ N + 1 \in 1..Len(rs)  BY <1>5, <1>6
  <2> QED  BY <2>2, <2>3, DeltasUnfold, Zenon
<1>10. Len(U[0]) = 1 /\ U[0][1] = last
  <2>1. U[0] = <<last>>  BY Zenon DEF last
  <2> QED  BY <2>1
<1>f. \A j \in 1..(N + 1) : f[j] = Applied(rs, j, f[j - 1])  
  <2>1. Applies(f, rs, 0, N + 1)  BY <1>9, Zenon DEF Unfolds
  <2> QED  BY <2>1 DEF Applies
<1> DEFINE Early(n) == MaybeEnd(rs, n) /\ rs[n] = last
           P(i) == /\ Len(U[i]) >= 1 /\ Reached(f, rs, Len(U[i]), i, vs[i].records)
                   /\ \A n \in 2..Len(U[i]) : ~Early(n)
                   /\ i # 0 => Len(U[i]) >= 2 /\ IsSoa(rs[2])
<1>11. P(0)
  <2>1. 0 \in 0..k  OBVIOUS
  <2>2. rs[1] = last /\ IsSoa(rs[1])
    <3>0. 1 \in 1..Len(U[0])  BY <1>10
    <3>1. rs[1] = U[0][1]  BY <1>8, <2>1, <3>0, Zenon
    <3> QED  BY <1>10, <3>1, SoaIsSoa, Zenon DEF last
  <2>3. Soas(rs, 1) = 1
    <3>1. Soas(rs, 0) = 0 /\ Soas(rs, 0 + 1) = IF IsSoa(rs[0 + 1]) THEN Soas(rs, 0) + 1 ELSE Soas(rs, 0)
      BY SoasCount, Zenon
    <3> QED  BY <2>2, <3>1
  <2>4. f[1] = vs[0].records
    <3>1. 1 \in 1..(N + 1) /\ 1 - 1 = 0  BY <1>5
    <3>2. f[1] = Applied(rs, 1, f[0])  BY <1>f, <3>1, Zenon
    <3> QED  BY <1>9, <2>2, <3>2, Zenon DEF Applied, Unfolds
  <2>5. 1 >= 1 /\ 1 = 4 * 0 + 1 /\ \A n : n \notin 2..1  OBVIOUS
  <2> HIDE DEF Early
  <2> QED  BY <1>10, <2>3, <2>4, <2>5, Zenon DEF Reached
<1>12. \A i \in 0..k : P(i)
  <2> DEFINE S == {i \in 0..k : ~P(i)}
  <2> SUFFICES ASSUME S # {} PROVE FALSE  BY Zenon
  <2> HIDE DEF P
  <2>1. PICK i \in S : \A y \in S : i <= y
    <3>1. S \in SUBSET Nat  OBVIOUS
    <3> QED  BY <3>1, LeastOf, Zenon
  <2>2. i \in 0..k /\ ~P(i) /\ i # 0  BY <1>11, <2>1, Zenon
  <2>3. PICK c : c = i - 1  BY Zenon
  <2>4. c \in 0..k /\ ~(i <= c) /\ i \in 1..k /\ c \in Nat /\ i = c + 1  BY <2>2, <2>3
  <2>5. P(c)  BY <2>1, <2>4, Zenon
  <2> DEFINE p == Len(U[c])
             D == DeltaRecords(Delta(vs[c], vs[i]))
             L == Len(D)
  <2>6. D = Dl(i)  BY <2>3, Zenon DEF Dl
  <2>7. p \in Nat /\ L \in Nat /\ Len(U[i]) = p + L /\ p + L <= N
    <3>1. Len(U[i]) = Len(U[c]) + Len(Dl(i))  BY <1>7, <2>3, <2>4, Zenon
    <3>2. Len(U[c]) \in Nat /\ Len(Dl(i)) \in Nat /\ Len(U[i]) <= N  BY <1>2, <1>4, <1>8, <2>2, <2>4, Zenon
    <3> QED  BY <2>6, <3>1, <3>2, Zenon
  <2>8. Follows(D, rs, p)
    <3>1. \A h \in 1..Len(Dl(i)) : U[i][Len(U[c]) + h] = Dl(i)[h]  BY <1>7, <2>3, <2>4, Zenon
    <3>2. \A h \in 1..L : U[i][p + h] = D[h]  BY <2>6, <3>1, Zenon
    <3> HIDE DEF p, L
    <3>3. ASSUME NEW h \in 1..L PROVE rs[p + h] = D[h]
      <4>1. p + h \in 1..Len(U[i])  BY <2>7
      <4>2. rs[p + h] = U[i][p + h]  BY <1>8, <2>2, <4>1, Zenon
      <4> QED  BY <3>2, <4>2, Zenon
    <3> QED  BY <3>3, Zenon DEF Follows, L
  <2>9. Reached(f, rs, p, c, vs[c].records) /\ p >= 1  BY <2>5, Zenon DEF P
  <2> HIDE DEF p, L
  <2>10. Applies(f, rs, p, p + L)
    <3>1. \A j \in (p + 1)..(p + L) : j \in 1..(N + 1)  BY <1>5, <2>7
    <3> QED  BY <1>f, <3>1, Zenon DEF Applies
  <2>11. vs[c] \in Versions /\ vs[i] \in Versions /\ vs[c].serial # vs[k].serial
    <3>1. vs[i - 1].serial # vs[k].serial  BY <2>4, Zenon
    <3> QED  BY <1>1, <2>2, <2>3, <2>4, <3>1, Zenon
  <2>12. /\ IsSoa(rs[p + 1])
         /\ Reached(f, rs, p + L, c + 1, vs[i].records)
         /\ EndsWith(rs, p, p + L, Soa(vs[c].serial))
    <3>1. L = Len(D)  BY Zenon DEF L
    <3> QED  BY <2>4, <2>7, <2>8, <2>9, <2>10, <2>11, <3>1, DeltaApplied, Zenon
  <2>13. ASSUME NEW n \in 2..(p + L) PROVE ~Early(n)
    <3>1. n \in 2..p \/ n \in (p + 1)..(p + L)  BY <2>7
    <3>2. CASE n \in 2..p  BY <2>5, <3>2, Zenon DEF P, p
    <3>3. CASE n \in (p + 1)..(p + L)
      <4>1. Soa(vs[c].serial) # last  BY <2>11, SoaIsSoa, Zenon DEF last
      <4> QED  BY <2>12, <3>3, <4>1, Zenon DEF EndsWith
    <3> QED  BY <3>1, <3>2, <3>3, Zenon
  <2>14. p + L >= 2 /\ p + L >= 1
    <3>1. p + 4 <= p + L  BY <2>12, Zenon DEF EndsWith
    <3> QED  BY <3>1, <2>7, <2>9, <2>12
  <2>15. IsSoa(rs[2])
    <3>1. c = 0 => p = 1  BY <1>10, Zenon DEF p
    <3>2. c = 0 => p + 1 = 2  BY <3>1
    <3> QED  BY <2>5, <2>12, <3>2, Zenon DEF P
  <2> HIDE DEF Early
  <2>16. P(i)  BY <2>4, <2>7, <2>12, <2>13, <2>14, <2>15, Zenon DEF P
  <2> QED  BY <2>2, <2>16, Zenon
<1>13. rs[1] = last /\ IsSoa(rs[2]) /\ f[N] = vs[k].records /\ N >= 2 /\ \A n \in 2..N : ~Early(n)
  <2>1. k \in 0..k /\ 0 \in 0..k  OBVIOUS
  <2>2. 1 \in 1..Len(U[0])  BY <1>10
  <2>3. rs[1] = last  BY <1>8, <1>10, <2>1, <2>2, Zenon
  <2>4. P(k)  BY <1>12, <2>1, Zenon
  <2> HIDE DEF Early
  <2> QED  BY <2>3, <2>4, Zenon DEF Reached, N
<1> HIDE DEF P
<1>14. IsSoa(rs[N + 1]) /\ f[N + 1] = vs[k].records /\ rs[1][2] = vs[k].serial
  <2>1. N + 1 \in 1..(N + 1) /\ N + 1 - 1 = N  BY <1>5
  <2>2. f[N + 1] = Applied(rs, N + 1, f[N])
    <3>1. PICK h : h = N + 1  BY Zenon
    <3>2. h \in 1..(N + 1) /\ h - 1 = N  BY <1>5, <3>1
    <3>3. f[h] = Applied(rs, h, f[h - 1])  BY <1>f, <3>2, Zenon
    <3> QED  BY <3>1, <3>2, <3>3, Zenon
  <2>3. IsSoa(rs[N + 1])  BY <1>6, SoaIsSoa, Zenon DEF last
  <2> QED  BY <1>13, <2>2, <2>3, SoaIsSoa, Zenon DEF Applied, last
<1>15. ASSUME NEW m \in 1..Len(rs), NEW n \in EndOf("IXFR", vs[0], SubSeq(rs, 1, m))
       PROVE  PulledZone("IXFR", vs[0], SubSeq(rs, 1, m), n) = vs[k]
  <2> DEFINE got == SubSeq(rs, 1, m)
  <2>1. Len(got) = m /\ DOMAIN got = 1..m /\ \A i \in 1..m : got[i] = rs[i]  BY <1>5, <1>6
  <2>2. n \in 1..m /\ Ends("IXFR", vs[0], got, n)  BY <1>15, <2>1, Zenon DEF EndOf
  <2> HIDE DEF got
  <2>3. ~IsWhole(got)
    <3>1. m > 1 => IsSoa(got[2])  BY <1>13, <2>1
    <3> QED  BY <2>1, <3>1, Zenon DEF IsWhole
  <2>4. Len(got) # 1
    <3> SUFFICES ASSUME Len(got) = 1 PROVE FALSE  BY Zenon
    <3>1. got[1] = Soa(vs[0].serial)  BY <2>2, <2>3, Zenon DEF Ends
    <3>2. got[1] = last  BY <1>13, <2>1
    <3>3. vs[0].serial # vs[k].serial
      <4>1. 1 \in 1..k /\ 1 - 1 = 0  OBVIOUS
      <4> QED  BY <4>1, Zenon
    <3> QED  BY <3>1, <3>2, <3>3, SoaIsSoa, Zenon DEF last
  <2>5. /\ IsSoa(got[n]) /\ n > 1 /\ got[n] = got[1] /\ (Soas(got, n) - 1) % (2 * SoasPerMarker) = 1
    BY <2>2, <2>3, <2>4, Zenon DEF Ends
  <2>6. Soas(got, n) = Soas(rs, n)
    <3>1. \A j \in 1..n : got[j] = rs[j]  BY <2>1, <2>2, SMTT(60)
    <3>2. n \in Nat  BY <2>1, <2>2
    <3> QED  BY <3>1, <3>2, SoasSame, Zenon DEF SameUpTo
  <2>7. got[n] = rs[n] /\ got[1] = rs[1]  BY <2>1, <2>2
  <2>8. Early(n)
    <3>1. (Soas(rs, n) - 1) % 4 = 1  BY <2>5, <2>6
    <3> QED  BY <1>13, <2>5, <2>7, <3>1, Zenon DEF MaybeEnd
  <2>9. n = N + 1 /\ m = N + 1
    <3>1. n \notin 2..N  BY <1>13, <2>8, Zenon
    <3> QED  BY <1>5, <1>6, <2>2, <2>5, <3>1
  <2>10. got = rs
    <3>1. m = Len(rs)  BY <1>6, <2>9, Zenon
    <3>2. SubSeq(rs, 1, Len(rs)) = rs  BY <1>6
    <3> QED  BY <3>1, <3>2, Zenon DEF got
  <2>11. PulledZone("IXFR", vs[0], got, n) = DeltasOn(vs[0], rs, N + 1)
    BY <2>3, <2>4, <2>9, <2>10, Zenon DEF PulledZone
  <2>12. DeltasOn(vs[0], rs, N + 1) = [serial |-> vs[k].serial, records |-> vs[k].records]
    BY <1>9, <1>14, Zenon DEF Unfolds
  <2>13. vs[k] = [serial |-> vs[k].serial, records |-> vs[k].records]
    <3>1. k \in 0..k  OBVIOUS
    <3> QED  BY <1>1, <3>1, Zenon DEF Versions
  <2> QED  BY <2>11, <2>12, <2>13, Zenon DEF got
<1> QED  BY <1>6, <1>15, Zenon DEF Reads, rs, last

----------------------------------------------------------------------------

(***************************************************************************)
(* Every version has a serial of its own, and the journal has the deltas   *)
(* between the last ones, in order.                                        *)
(***************************************************************************)
Recorded(i) ==
    \E old \in versions, new \in versions :
        /\ journal[i] = Delta(old, new)
        /\ old.serial = zone.serial - Len(journal) + i - 1 /\ new.serial = old.serial + 1

Deltas == {Delta(old, new) : old \in Versions, new \in Versions}

HistoryInv ==
    /\ updates \in Nat
    /\ \A u \in datagrams : \E i \in DOMAIN Updates : u.body = Updates[i]
    /\ zone \in versions
    /\ \A v \in versions : v \in Versions /\ v.serial >= 1 /\ v.serial <= zone.serial
    /\ \A v \in versions, w \in versions : v.serial = w.serial => v = w
    /\ journal \in Seq(Deltas)
    /\ \A i \in 1..Len(journal) : Recorded(i)

LEMMA SoaReads ==
    ASSUME NEW v
    PROVE  LET rs == <<Soa(v.serial)>> IN Reads("IXFR", v, rs, v)
<1> DEFINE rs == <<Soa(v.serial)>>
<1> SUFFICES ASSUME NEW m \in 1..Len(rs), NEW n \in EndOf("IXFR", v, SubSeq(rs, 1, m))
             PROVE  PulledZone("IXFR", v, SubSeq(rs, 1, m), n) = v
  BY Zenon DEF Reads
<1>1. m = 1 /\ Len(SubSeq(rs, 1, m)) = 1  OBVIOUS
<1>2. ~IsWhole(SubSeq(rs, 1, m))  BY <1>1 DEF IsWhole
<1> QED  BY <1>1, <1>2, Zenon DEF PulledZone

(* The deltas of the journal from the serial of the copy on. *)
LEMMA ChainRight ==
    ASSUME HistoryInv, NEW copy \in versions \cup {NoZone}, HasChain(copy.serial),
           copy.serial # zone.serial
    PROVE  LET ds == Chain(copy.serial)
               k == Len(ds)
           IN  /\ k \in Nat /\ k # 0
               /\ \E vs \in [0..k -> Versions] :
                     /\ vs[0] = copy /\ vs[k] = zone
                     /\ \A i \in 1..k : vs[i - 1].serial # zone.serial
                     /\ \A i \in 1..k : ds[i] = Delta(vs[i - 1], vs[i])
<1> DEFINE M == Len(journal)
           a == CHOOSE i \in DOMAIN journal : journal[i].from = copy.serial
           ds == Chain(copy.serial)
           k == Len(ds)
           s == zone.serial
           c == copy.serial
<1>1. journal \in Seq(Deltas) /\ M \in Nat /\ DOMAIN journal = 1..M
  <2>1. journal \in Seq(Deltas)  BY Zenon DEF HistoryInv
  <2> QED  BY <2>1
<1>2. a \in 1..M /\ journal[a].from = c
  <2>1. \E i \in DOMAIN journal : journal[i].from = copy.serial  BY Zenon DEF HasChain
  <2> QED  BY <1>1, <2>1, Zenon
<1>3. \A i \in 1..M : \E old \in versions, new \in versions :
          journal[i] = Delta(old, new) /\ old.serial = s - M + i - 1 /\ new.serial = old.serial + 1
  BY Zenon DEF HistoryInv, Recorded
<1>4. ds = SubSeq(journal, a, M)  BY Zenon DEF Chain
<1> HIDE DEF a, M, ds
<1>5. k = M - a + 1 /\ k \in Nat /\ k # 0  BY <1>1, <1>2, <1>4
<1>e. \A i \in 1..k : ds[i] = journal[a + i - 1]  BY <1>1, <1>2, <1>4
<1>6. s \in Nat /\ \A v \in versions : v.serial \in Nat /\ v.serial >= 1 /\ v \in Versions
  BY Zenon DEF HistoryInv, Versions
<1>7. \A v \in versions, w \in versions : v.serial = w.serial => v = w  BY Zenon DEF HistoryInv
<1>8. c = s - M + a - 1 /\ copy \in versions /\ c \in Nat
  <2>1. PICK old \in versions, new \in versions :
            journal[a] = Delta(old, new) /\ old.serial = s - M + a - 1
    BY <1>2, <1>3, Zenon
  <2>2. journal[a].from = old.serial
    <3>1. Delta(old, new).from = old.serial  BY Zenon DEF Delta
    <3> QED  BY <2>1, <3>1, Zenon
  <2>3. c = s - M + a - 1 /\ c = old.serial  BY <1>2, <2>1, <2>2, Zenon
  <2>4. c \in Nat /\ c >= 1  BY <1>6, <2>3, Zenon
  <2>5. copy # NoZone
    <3>1. NoZone.serial = 0 /\ ~(0 >= 1)  BY DEF NoZone
    <3> QED  BY <2>4, <3>1, Zenon
  <2> QED  BY <2>3, <2>4, <2>5, Zenon
<1> DEFINE Is(v, j) == v \in versions /\ v.serial = c + j
           vs == [j \in 0..k |-> CHOOSE v \in versions : v.serial = c + j]
<1>9. ASSUME NEW i \in 1..k
      PROVE  \E old, new : Is(old, i - 1) /\ Is(new, i) /\ ds[i] = Delta(old, new)
  <2>1. a + i - 1 \in 1..M  BY <1>1, <1>2, <1>5
  <2>2. PICK old \in versions, new \in versions :
            /\ journal[a + i - 1] = Delta(old, new)
            /\ old.serial = s - M + (a + i - 1) - 1 /\ new.serial = old.serial + 1
    BY <1>3, <2>1, Zenon
  <2>3. ds[i] = journal[a + i - 1]  BY <1>e, Zenon
  <2>4. old.serial = c + (i - 1) /\ new.serial = c + i  BY <1>1, <1>2, <1>6, <1>8, <2>2, SMTT(60)
  <2>5. ds[i] = Delta(old, new)  BY <2>2, <2>3, Zenon
  <2> QED  BY <2>2, <2>4, <2>5, Zenon
<1>10. ASSUME NEW j \in 0..k, NEW v, Is(v, j) PROVE vs[j] = v
  <2>1. \E w \in versions : w.serial = c + j  BY <1>10, Zenon
  <2>2. vs[j] \in versions /\ vs[j].serial = c + j  BY <2>1, Zenon
  <2> QED  BY <1>7, <1>10, <2>2, Zenon
<1>11. vs[0] = copy /\ vs[k] = zone
  <2>1. c + 0 = c /\ c + k = s /\ 0 \in 0..k /\ k \in 0..k
    <3> HIDE DEF c, s, k
    <3> QED  BY <1>1, <1>2, <1>5, <1>6, <1>8
  <2>2. zone \in versions  BY Zenon DEF HistoryInv
  <2>3. Is(copy, 0) /\ Is(zone, k)  BY <1>8, <2>1, <2>2, Zenon
  <2> HIDE DEF vs, Is
  <2> QED  BY <1>10, <2>1, <2>3, Zenon
<1>12. ASSUME NEW j \in 0..k PROVE vs[j] \in versions /\ vs[j].serial = c + j
  <2>1. CASE j = 0
    <3>1. c + 0 = c  BY <1>8
    <3> QED  BY <1>8, <1>11, <2>1, <3>1, Zenon
  <2>2. CASE j # 0
    <3>1. j \in 1..k  BY <1>5, <2>2
    <3>2. PICK new : Is(new, j)  BY <1>9, <3>1, Zenon
    <3> QED  BY <3>2, Zenon
  <2> QED  BY <2>1, <2>2, Zenon
<1>13. vs \in [0..k -> Versions]  BY <1>6, <1>12, Zenon
<1>14. ASSUME NEW i \in 1..k
       PROVE  vs[i - 1].serial # zone.serial /\ ds[i] = Delta(vs[i - 1], vs[i])
  <2>1. i \in 0..k /\ i - 1 \in 0..k /\ c + (i - 1) # s  BY <1>1, <1>2, <1>5, <1>6, <1>8
  <2>2. PICK old, new : Is(old, i - 1) /\ Is(new, i) /\ ds[i] = Delta(old, new)  BY <1>9, Zenon
  <2> HIDE DEF vs
  <2>3. vs[i - 1] = old /\ vs[i] = new  BY <1>10, <2>1, <2>2, Zenon
  <2> QED  BY <1>12, <2>1, <2>2, <2>3, Zenon
<1> HIDE DEF vs
<1> QED  BY <1>5, <1>11, <1>13, <1>14, Zenon DEF ds

(* The deltas of a chain in the response, one behind the other. *)
Incremented(copy, k, vs, f) ==
    /\ k \in Nat /\ k # 0
    /\ vs \in [0..k -> Versions] /\ vs[0] = copy /\ vs[k] = zone
    /\ \A i \in 1..k : vs[i - 1].serial # vs[k].serial
    /\ f \in [0..k -> Seq(Records)] /\ f[0] = <<Soa(vs[k].serial)>>
    /\ \A i \in 1..k : f[i] = f[i - 1] \o DeltaRecords(Delta(vs[i - 1], vs[i]))
    /\ IxfrRecords(copy.serial) = Append(f[k], Soa(vs[k].serial))

LEMMA IxfrChain ==
    ASSUME HistoryInv, NEW copy \in versions \cup {NoZone},
           HasChain(copy.serial), copy.serial # zone.serial
    PROVE  \E k, vs, f : Incremented(copy, k, vs, f)
<1>0. zone \in Versions /\ zone \in versions  BY Zenon DEF HistoryInv
<1> DEFINE ds == Chain(copy.serial)
           k == Len(ds)
           base == <<Soa(zone.serial)>>
           upTo[i \in 0..k] == IF i = 0 THEN base ELSE upTo[i - 1] \o DeltaRecords(ds[i])
           T == Seq(Records)
           g == [i \in 1..k |-> [t \in T |-> t \o DeltaRecords(ds[i])]]
<1>1. /\ k \in Nat /\ k # 0
      /\ \E vs \in [0..k -> Versions] :
            /\ vs[0] = copy /\ vs[k] = zone
            /\ \A i \in 1..k : vs[i - 1].serial # zone.serial
            /\ \A i \in 1..k : ds[i] = Delta(vs[i - 1], vs[i])
  BY ChainRight, Zenon
<1>2. PICK vs :
            /\ vs \in [0..k -> Versions]
            /\ vs[0] = copy /\ vs[k] = zone
            /\ \A i \in 1..k : vs[i - 1].serial # zone.serial
            /\ \A i \in 1..k : ds[i] = Delta(vs[i - 1], vs[i])
  BY <1>1, Zenon
<1>a. k \in Nat /\ k # 0  BY <1>1, Zenon
<1>3. IxfrRecords(copy.serial) = Append(upTo[k], Soa(zone.serial))
  BY Zenon DEF IxfrRecords
<1> HIDE DEF ds, k
<1>4. \A i \in 1..k : DeltaRecords(ds[i]) \in T
  <2> SUFFICES ASSUME NEW i \in 1..k PROVE DeltaRecords(ds[i]) \in Seq(Records)  BY Zenon
  <2>1. i \in 0..k /\ i - 1 \in 0..k  BY <1>a
  <2>2. vs[i - 1] \in Versions /\ vs[i] \in Versions  BY <1>2, <2>1, Zenon
  <2>3. ds[i] = Delta(vs[i - 1], vs[i])  BY <1>2, Zenon
  <2> QED  BY <2>2, <2>3, DeltaIsRecords, Zenon
<1>5. base \in T
  <2>1. Soa(zone.serial) \in Records  BY <1>0, Zenon DEF Records, Versions
  <2> QED  BY <2>1
<1>6. g \in [1..k -> [T -> T]]
  <2>1. \A t \in T, d \in T : t \o d \in T  OBVIOUS
  <2> HIDE DEF T
  <2> QED  BY <1>4, <2>1, Zenon
<1>7. \A i \in 1..k : \A t \in T : g[i][t] = t \o DeltaRecords(ds[i])
  <2> HIDE DEF T
  <2> QED  BY Zenon
<1> HIDE DEF T, g, base
<1>8. PICK f : f \in [0..k -> T] /\ Iterates(f, g, k, base)  BY <1>a, <1>5, <1>6, Iterated, Zenon
<1>9. \A i \in 1..k : f[i] = f[i - 1] \o DeltaRecords(ds[i])
  <2>1. \A i \in 1..k : f[i - 1] \in T  BY <1>a, <1>8
  <2>2. \A i \in 1..k : f[i] = g[i][f[i - 1]]  BY <1>8, Zenon DEF Iterates
  <2> QED  BY <1>7, <2>1, <2>2, Zenon
<1>10. f[0] = base  BY <1>8, Zenon DEF Iterates
<1>11. f = [i \in 0..k |-> IF i = 0 THEN base ELSE f[i - 1] \o DeltaRecords(ds[i])]
  <2>1. \A i \in 0..k : f[i] = IF i = 0 THEN base ELSE f[i - 1] \o DeltaRecords(ds[i])
    <3>1. \A i \in 0..k : i = 0 \/ i \in 1..k  BY <1>a
    <3> QED  BY <1>9, <1>10, <3>1, Zenon
  <2> QED  BY <1>8, <2>1, Zenon
<1>12. upTo = [i \in 0..k |-> IF i = 0 THEN base ELSE upTo[i - 1] \o DeltaRecords(ds[i])]
  BY <1>11, Zenon
<1> HIDE DEF upTo
<1>13. \A i \in 0..k : upTo[i] = IF i = 0 THEN base ELSE upTo[i - 1] \o DeltaRecords(ds[i])
  BY <1>12, Zenon
<1>u. PICK u, n : u = upTo /\ n = k  BY Zenon
<1>14. StepAlike(u, f, n)
  <2>1. upTo[0] = base
    <3>1. 0 \in 0..k  BY <1>a
    <3> QED  BY <1>13, <3>1, Zenon
  <2>2. ASSUME NEW i \in 1..k, upTo[i - 1] = f[i - 1] PROVE upTo[i] = f[i]
    <3>1. i \in 0..k /\ i # 0  BY <1>a
    <3> QED  BY <1>9, <1>13, <2>2, <3>1, Zenon
  <2>3. StepAlike(upTo, f, k)  BY <1>10, <2>1, <2>2, Zenon DEF StepAlike
  <2> QED  BY <1>u, <2>3, Zenon
<1>15. upTo[k] = f[k]
  <2>1. k \in 0..k  BY <1>a
  <2>2. n \in Nat  BY <1>a, <1>u, Zenon
  <2>3. \A i \in 0..n : u[i] = f[i]  BY <1>14, <2>2, AlikeAll, ZenonT(60)
  <2> QED  BY <1>u, <2>1, <2>3, Zenon
<1> DEFINE rs == Append(f[k], Soa(vs[k].serial))
<1>16. IxfrRecords(copy.serial) = rs  BY <1>2, <1>3, <1>15, Zenon
<1>17. \A i \in 1..k : f[i] = f[i - 1] \o DeltaRecords(Delta(vs[i - 1], vs[i]))
  BY <1>2, <1>9, Zenon
<1>18. \A i \in 1..k : vs[i - 1].serial # vs[k].serial  BY <1>2, Zenon
<1>19. f \in [0..k -> Seq(Records)] /\ f[0] = <<Soa(vs[k].serial)>>
  BY <1>2, <1>8, <1>10, Zenon DEF T, base
<1>20. Incremented(copy, k, vs, f)  BY <1>a, <1>2, <1>16, <1>17, <1>18, <1>19, Zenon DEF Incremented
<1> QED  BY <1>20, Zenon

LEMMA IxfrSeq ==
    ASSUME HistoryInv, NEW copy \in versions \cup {NoZone}
    PROVE  IxfrRecords(copy.serial) \in Seq(Records)
<1>0. zone \in Versions  BY Zenon DEF HistoryInv
<1>1. Soa(zone.serial) \in Records  BY <1>0, Zenon DEF Records, Versions
<1>2. CASE ~HasChain(copy.serial)
  <2>1. IxfrRecords(copy.serial) = Append(AllRecords(zone), Soa(zone.serial))
    BY <1>2, Zenon DEF IxfrRecords, AxfrRecords
  <2>2. Append(AllRecords(zone), Soa(zone.serial)) \in Seq(Records)  BY <1>0, AxfrReads, Zenon
  <2> QED  BY <2>1, <2>2, Zenon
<1>3. CASE HasChain(copy.serial) /\ copy.serial = zone.serial
  <2>1. IxfrRecords(copy.serial) = <<Soa(zone.serial)>>  BY <1>3, Zenon DEF IxfrRecords
  <2> QED  BY <1>1, <2>1
<1>4. CASE HasChain(copy.serial) /\ copy.serial # zone.serial
  <2>1. PICK k, vs, f : Incremented(copy, k, vs, f)  BY <1>4, IxfrChain, Zenon
  <2>2. /\ k \in Nat /\ f \in [0..k -> Seq(Records)] /\ vs[k] = zone
        /\ IxfrRecords(copy.serial) = Append(f[k], Soa(vs[k].serial))
    BY <2>1, Zenon DEF Incremented
  <2>3. f[k] \in Seq(Records)
    <3>1. k \in 0..k  BY <2>2
    <3> QED  BY <2>2, <3>1, Zenon
  <2> QED  BY <1>1, <2>2, <2>3
<1> QED  BY <1>2, <1>3, <1>4, Zenon

(* ixfr_response: nothing new, the deltas, or the whole zone. *)
LEMMA IxfrReads ==
    ASSUME SoasPerMarker = 2, HistoryInv, zone.records # {}, NEW copy \in versions \cup {NoZone}
    PROVE  /\ IxfrRecords(copy.serial) \in Seq(Records)
           /\ Reads("IXFR", copy, IxfrRecords(copy.serial), zone)
<1>0. zone \in Versions /\ zone \in versions  BY Zenon DEF HistoryInv
<1>1. CASE ~HasChain(copy.serial)
  <2>1. copy.serial # zone.serial  BY <1>1, Zenon DEF HasChain
  <2>2. IxfrRecords(copy.serial) = Append(AllRecords(zone), Soa(zone.serial))
    BY <1>1, Zenon DEF IxfrRecords, AxfrRecords
  <2> QED  BY <1>0, <2>1, <2>2, AxfrReads, Zenon
<1>2. CASE HasChain(copy.serial) /\ copy.serial = zone.serial
  <2>1. IxfrRecords(copy.serial) = <<Soa(copy.serial)>>  BY <1>2, Zenon DEF IxfrRecords
  <2>2. copy = zone
    <3>1. zone.serial >= 1 /\ NoZone.serial = 0 /\ ~(0 >= 1)  BY <1>0 DEF HistoryInv, NoZone
    <3>2. copy # NoZone  BY <1>2, <3>1, Zenon
    <3> QED  BY <1>0, <1>2, <3>2, Zenon DEF HistoryInv
  <2>3. Soa(copy.serial) \in Records  BY <1>0, <2>2, Zenon DEF Records, Versions
  <2>4. <<Soa(copy.serial)>> \in Seq(Records)  BY <2>3
  <2> QED  BY <2>1, <2>2, <2>4, SoaReads, Zenon
<1>3. CASE HasChain(copy.serial) /\ copy.serial # zone.serial
  <2>1. PICK k, vs, f : Incremented(copy, k, vs, f)  BY <1>3, IxfrChain, Zenon
  <2> DEFINE rs == Append(f[k], Soa(vs[k].serial))
  <2>2. /\ k \in Nat /\ k # 0
        /\ vs \in [0..k -> Versions] /\ vs[0] = copy /\ vs[k] = zone
        /\ \A i \in 1..k : vs[i - 1].serial # vs[k].serial
        /\ f \in [0..k -> Seq(Records)] /\ f[0] = <<Soa(vs[k].serial)>>
        /\ \A i \in 1..k : f[i] = f[i - 1] \o DeltaRecords(Delta(vs[i - 1], vs[i]))
        /\ IxfrRecords(copy.serial) = rs
    BY <2>1, Zenon DEF Incremented
  <2>3. rs \in Seq(Records) /\ Reads("IXFR", vs[0], rs, vs[k])  BY <2>2, DeltasRead, Zenon
  <2> QED  BY <2>2, <2>3, Zenon
<1> QED  BY <1>1, <1>2, <1>3, Zenon

----------------------------------------------------------------------------
LEMMA HistoryInit == TransferInit => HistoryInv
<1> SUFFICES ASSUME TransferInit PROVE HistoryInv  BY Zenon
<1>1. zone = [serial |-> 1, records |-> FirstRecords] /\ versions = {zone} /\ journal = <<>>
  BY Zenon DEF TransferInit
<1>2. zone \in Versions
  <2>1. FirstRecords \in SUBSET Plain  BY Zenon DEF Plain
  <2> QED  BY <1>1, <2>1, Zenon DEF Versions
<1>3. zone.serial = 1  BY <1>1, Zenon
<1>4. journal \in Seq(Deltas) /\ \A i \in 1..Len(journal) : FALSE  BY <1>1
<1>5. updates \in Nat /\ datagrams = {}  BY Zenon DEF TransferInit
<1>6. 1 >= 1 /\ 1 <= 1  OBVIOUS
<1> QED  BY <1>1, <1>2, <1>3, <1>4, <1>5, <1>6, Zenon DEF HistoryInv

(* handle_update makes a version with a serial of its own. *)
LEMMA UpdatedVersion ==
    ASSUME NEW z \in Versions, NEW i \in DOMAIN Updates
    PROVE  Updated(z, Updates[i]) \in Versions /\ Updated(z, Updates[i]).serial = z.serial + 1
<1>1. z.serial \in Nat /\ z.records \in SUBSET Plain  BY Zenon DEF Versions
<1> DEFINE R == (z.records \cup Updates[i].add) \ Updates[i].delete
<1>2. R \in SUBSET Plain
  <2>1. Updates[i].add \in SUBSET Plain  BY Zenon DEF Plain
  <2> QED  BY <1>1, <2>1, Zenon
<1>3. Updated(z, Updates[i]) = [serial |-> z.serial + 1, records |-> R]  BY Zenon DEF Updated
<1> HIDE DEF R
<1>4. z.serial + 1 \in Nat  BY <1>1
<1> QED  BY <1>2, <1>3, <1>4 DEF Versions

(* Journal::record keeps the last deltas in order. *)
LastOf(log2, log, d) ==
    LET M == Len(log)
        K == Len(log2)
    IN  /\ K \in Nat /\ K <= M + 1
        /\ \A i \in 1..K : log2[i] = IF i = K THEN d ELSE log[M + 1 - K + i]

LEMMA JournaledRight ==
    ASSUME NEW log \in Seq(Deltas), NEW old \in Versions, NEW new \in Versions
    PROVE  /\ Journaled(log, old, new) \in Seq(Deltas)
           /\ LastOf(Journaled(log, old, new), log, Delta(old, new))
<1> DEFINE M == Len(log)
           longer == Append(log, Delta(old, new))
           N == Len(longer)
           K == IF N > Depth THEN Depth ELSE N
           log2 == SubSeq(longer, N - K + 1, N)
<1>1. Delta(old, new) \in Deltas  BY DEF Deltas
<1>2. M \in Nat /\ Depth \in Nat  BY RecordsAssumption
<1>3. longer \in Seq(Deltas) /\ N = M + 1
  BY <1>1
<1>4. longer[M + 1] = Delta(old, new)  BY <1>1
<1>5. \A i \in 1..M : longer[i] = log[i]  BY <1>1, <1>2
<1>6. Journaled(log, old, new) = log2  BY Zenon DEF Journaled
<1> HIDE DEF longer, M, N
<1>7. K \in Nat /\ K <= M + 1  BY <1>2, <1>3
<1> HIDE DEF K
<1>8. log2 \in Seq(Deltas) /\ Len(log2) = K /\ \A i \in 1..K : log2[i] = longer[M + 1 - K + i]
  BY <1>2, <1>3, <1>7 DEF N
<1> HIDE DEF log2
<1>9. ASSUME NEW i \in 1..K PROVE log2[i] = IF i = K THEN Delta(old, new) ELSE log[M + 1 - K + i]
  <2>1. log2[i] = longer[M + 1 - K + i]  BY <1>8, Zenon
  <2>2. CASE i = K
    <3>1. M + 1 - K + i = M + 1  BY <1>2, <1>7, <2>2
    <3> QED  BY <1>4, <2>1, <2>2, <3>1, Zenon
  <2>3. CASE i # K
    <3>1. M + 1 - K + i \in 1..M  BY <1>2, <1>7, <2>3
    <3> QED  BY <1>5, <2>1, <2>3, <3>1, Zenon
  <2> QED  BY <2>2, <2>3, Zenon
<1> QED  BY <1>6, <1>7, <1>8, <1>9, Zenon DEF M, LastOf

LEMMA HistoryStep == HistoryInv /\ [TransferNext]_transferVars => HistoryInv'
<1> SUFFICES ASSUME HistoryInv, [TransferNext]_transferVars PROVE HistoryInv'  BY Zenon
<1> DEFINE Same == UNCHANGED <<zone, journal, versions>>
<1>1. ASSUME Same, updates' \in Nat,
             \A u \in datagrams' : \E i \in DOMAIN Updates : u.body = Updates[i]
      PROVE  HistoryInv'
  <2>1. \A i : Recorded(i)' <=> Recorded(i)  BY <1>1, Zenon DEF Recorded
  <2> QED  BY <1>1, <2>1, Zenon DEF HistoryInv
<1>2. ASSUME NEW p \in Updaters, SendUpdate(p) PROVE HistoryInv'
  <2>1. /\ Same /\ updates < Len(Updates) /\ updates' = updates + 1
        /\ \E u : datagrams' = datagrams \cup {u} /\ u.body = Updates[updates']
    <3> DEFINE u == [peer |-> p, body |-> Updates[updates'],
                     tsig |-> Signature(p, Updates[updates']), sent |-> now]
    <3>1. datagrams' = datagrams \cup {u} /\ u.body = Updates[updates']  BY <1>2, Zenon DEF SendUpdate
    <3> HIDE DEF u
    <3> QED  BY <1>2, <3>1, Zenon DEF SendUpdate
  <2>2. updates' \in Nat /\ updates' \in DOMAIN Updates
    <3>1. updates \in Nat  BY Zenon DEF HistoryInv
    <3> QED  BY <2>1, <3>1, RecordsAssumption
  <2>3. \A u \in datagrams' : \E i \in DOMAIN Updates : u.body = Updates[i]
    <3>1. \A u \in datagrams : \E i \in DOMAIN Updates : u.body = Updates[i]  BY Zenon DEF HistoryInv
    <3> QED  BY <2>1, <2>2, <3>1, Zenon
  <2> QED  BY <1>1, <2>1, <2>2, <2>3, Zenon
<1>3. ASSUME NEW u \in datagrams, HandleUpdate(u) PROVE HistoryInv'
  <2>1. datagrams' \subseteq datagrams /\ updates' = updates  BY <1>3, Zenon DEF HandleUpdate
  <2>2. updates' \in Nat /\ \A w \in datagrams' : \E i \in DOMAIN Updates : w.body = Updates[i]
    BY <2>1, Zenon DEF HistoryInv
  <2>3. CASE Same  BY <1>1, <2>2, <2>3, Zenon
  <2>4. CASE ~Same
    <3>1. /\ zone' = Updated(zone, u.body) /\ journal' = Journaled(journal, zone, zone')
          /\ versions' = versions \cup {zone'}
      BY <1>3, <2>4, Zenon DEF HandleUpdate
    <3>2. zone \in versions /\ zone \in Versions /\ journal \in Seq(Deltas)  BY Zenon DEF HistoryInv
    <3>3. zone' \in Versions /\ zone'.serial = zone.serial + 1
      <4>1. PICK i \in DOMAIN Updates : u.body = Updates[i]  BY Zenon DEF HistoryInv
      <4> QED  BY <3>1, <3>2, <4>1, UpdatedVersion, Zenon
    <3> DEFINE s == zone.serial
               M == Len(journal)
               K == Len(journal')
    <3>4. s \in Nat /\ s >= 1 /\ zone'.serial >= 1 /\ zone'.serial <= zone'.serial
      <4>1. s \in Nat /\ s >= 1  BY <3>2, Zenon DEF HistoryInv, Versions
      <4> QED  BY <3>3, <4>1
    <3>5. ASSUME NEW v \in versions PROVE v \in Versions /\ v.serial >= 1 /\ v.serial <= zone'.serial
                                          /\ v.serial # zone'.serial
      <4>1. v \in Versions /\ v.serial >= 1 /\ v.serial <= s /\ v.serial \in Nat
        BY Zenon DEF HistoryInv, Versions
      <4> QED  BY <3>3, <3>4, <4>1
    <3>6. \A v \in versions' : v \in Versions /\ v.serial >= 1 /\ v.serial <= zone'.serial
      BY <3>1, <3>3, <3>4, <3>5, Zenon
    <3>7. \A v \in versions', w \in versions' : v.serial = w.serial => v = w
      <4>1. \A v \in versions, w \in versions : v.serial = w.serial => v = w  BY Zenon DEF HistoryInv
      <4> QED  BY <3>1, <3>5, <4>1, Zenon
    <3>8. /\ journal' \in Seq(Deltas) /\ K \in Nat /\ K <= M + 1
          /\ \A i \in 1..K : journal'[i] = IF i = K THEN Delta(zone, zone') ELSE journal[M + 1 - K + i]
      <4>1. journal' \in Seq(Deltas) /\ LastOf(journal', journal, Delta(zone, zone'))
        BY <3>1, <3>2, <3>3, JournaledRight, Zenon
      <4> QED  BY <4>1, Zenon DEF LastOf
    <3>9. M \in Nat  BY <3>2
    <3>10. ASSUME NEW i \in 1..K PROVE Recorded(i)'
      <4>1. CASE i = K
        <5>1. journal'[i] = Delta(zone, zone')  BY <3>8, <4>1, Zenon
        <5>2. zone.serial = zone'.serial - K + i - 1  BY <3>3, <3>4, <3>8, <4>1
        <5> QED  BY <3>1, <3>2, <3>3, <5>1, <5>2, Zenon DEF Recorded
      <4>2. CASE i # K
        <5> DEFINE q == M + 1 - K + i
        <5>1. q \in 1..M  BY <3>8, <3>9, <4>2
        <5>2. Recorded(q)  BY <5>1, Zenon DEF HistoryInv
        <5>3. PICK old \in versions, new \in versions :
                  /\ journal[q] = Delta(old, new)
                  /\ old.serial = zone.serial - Len(journal) + q - 1 /\ new.serial = old.serial + 1
          BY <5>2, Zenon DEF Recorded
        <5>4. journal'[i] = Delta(old, new)  BY <3>8, <4>2, <5>3, Zenon
        <5>5. old.serial = zone'.serial - K + i - 1  BY <3>3, <3>4, <3>8, <3>9, <5>3
        <5> QED  BY <3>1, <5>3, <5>4, <5>5, Zenon DEF Recorded
      <4> QED  BY <4>1, <4>2, Zenon
    <3> QED  BY <2>2, <3>1, <3>6, <3>7, <3>8, <3>10, Zenon DEF HistoryInv
  <2> QED  BY <2>3, <2>4, Zenon
<1>4. CASE \/ \E p \in Peers, o \in Origins : StartPull(p, "AXFR", o, NoZone)
           \/ \E p \in Incremental, copy \in versions \cup {NoZone} : StartPull(p, "IXFR", "zone", copy)
           \/ TransferOut \/ ReadFrame \/ Break \/ PullTimeout
           \/ TransferTick \/ UNCHANGED transferVars
           \/ \E u \in datagrams : LoseUpdate(u)
  <2>1. Same /\ updates' = updates /\ datagrams' \subseteq datagrams
    BY <1>4, Zenon DEF StartPull, TransferOut, ReadFrame, Break, PullTimeout, TransferTick, LoseUpdate,
                       transferVars
  <2>2. updates' \in Nat /\ \A w \in datagrams' : \E i \in DOMAIN Updates : w.body = Updates[i]
    BY <2>1, Zenon DEF HistoryInv
  <2> QED  BY <1>1, <2>1, <2>2, Zenon
<1> QED  BY <1>2, <1>3, <1>4, Zenon DEF TransferNext

----------------------------------------------------------------------------
(* The messages carry rs, cut behind its elements e[1], e[2], ... *)
IsSeq(s) == \E X : s \in Seq(X)
Cut(frames, rs, e) ==
    /\ e \in [0..Len(frames) -> 0..Len(rs)]
    /\ \A j \in 1..Len(frames) :
          /\ frames[j].rcode = "NOERROR"
          /\ e[j - 1] <= e[j] /\ frames[j].records = SubSeq(rs, e[j - 1] + 1, e[j])

(* frame_transfer *)
LEMMA FramesBounds ==
    ASSUME NEW L \in Nat, NEW C \in Nat \ {0}, NEW i \in 1..((L + C - 1) \div C)
    PROVE  /\ (i - 1) * C \in Nat /\ (i - 1) * C < L
           /\ i * C \in Nat /\ (i - 1) * C <= i * C
<1> DEFINE d == (L + C - 1) \div C
<1>1. d \in Int /\ C * d <= L + C - 1  OBVIOUS
<1>2. i <= d /\ i \in Nat /\ i >= 1  BY <1>1
<1> HIDE DEF d
<1>3. C * i <= C * d  BY <1>1, <1>2
<1>4. (i - 1) * C = C * i - C /\ i * C = C * i  BY <1>2
<1>5. C * i \in Nat /\ C * i >= C  BY <1>2
<1> QED  BY <1>1, <1>3, <1>4, <1>5

(* sign_transfer_frames: each signature covers the MAC of the one before. *)
Signed(i, fs, tsig, t, mac) ==
    SignWith(tsig.key, KeyRing[tsig.key], FrameBody(fs[i]), t, mac)
Chained(sig, fs, tsig, t) ==
    sig[0] = tsig /\ \A i \in 1..Len(fs) : sig[i] = Signed(i, fs, tsig, t, sig[i - 1].mac)

Resigned(m, t) == [m EXCEPT !.tsig = t]
With(fs, sig) == [i \in DOMAIN fs |-> Resigned(fs[i], sig[i])]

LEMMA SignedRight ==
    ASSUME NEW fs, NEW tsig, Len(fs) \in Nat
    PROVE  \E sig : /\ Chained(sig, fs, tsig, now)
                   /\ SignFrames(fs, tsig) = With(fs, sig)
<1> DEFINE n == Len(fs)
           Is(f, k) == f = [i \in 0..k |-> IF i = 0 THEN tsig ELSE Signed(i, fs, tsig, now, f[i - 1].mac)]
           S == {k \in 0..n : ~\E f : Is(f, k)}
<1>1. S = {}
  <2> SUFFICES ASSUME S # {} PROVE FALSE  BY Zenon
  <2>1. PICK m \in S : \A y \in S : m <= y
    <3>1. S \in SUBSET Nat  OBVIOUS
    <3> QED  BY <3>1, LeastOf, Zenon
  <2>2. m \in 0..n /\ ~\E f : Is(f, m)  BY <2>1, Zenon
  <2>3. m # 0
    <3> DEFINE f == [i \in 0..0 |-> tsig]
    <3>1. \A i \in 0..0 : i = 0  OBVIOUS
    <3>2. Is(f, 0)  BY <3>1, Zenon
    <3> QED  BY <2>2, <3>2, Zenon
  <2>4. m \in Nat /\ m - 1 \in 0..n /\ ~(m <= m - 1) /\ m \in 1..n  BY <2>2, <2>3
  <2>5. m - 1 \notin S  BY <2>1, <2>4, Zenon
  <2>6. PICK f : Is(f, m - 1)  BY <2>4, <2>5, Zenon
  <2> DEFINE q == [i \in 0..m |-> IF i = m THEN Signed(m, fs, tsig, now, f[m - 1].mac) ELSE f[i]]
  <2>7. \A i \in 0..m : q[i] = IF i = 0 THEN tsig ELSE Signed(i, fs, tsig, now, q[i - 1].mac)
    <3> SUFFICES ASSUME NEW i \in 0..m
                 PROVE  q[i] = IF i = 0 THEN tsig ELSE Signed(i, fs, tsig, now, q[i - 1].mac)
      BY Zenon
    <3>1. i # m => i \in 0..(m - 1)  BY <2>4
    <3>2. i # 0 => i - 1 \in 0..m /\ i - 1 # m  BY <2>4
    <3>3. i # 0 => q[i - 1] = f[i - 1]  BY <3>2, Zenon
    <3>4. i # m => f[i] = IF i = 0 THEN tsig ELSE Signed(i, fs, tsig, now, f[i - 1].mac)
      BY <2>6, <3>1, Zenon
    <3>5. q[i] = IF i = m THEN Signed(m, fs, tsig, now, f[m - 1].mac) ELSE f[i]  BY Zenon
    <3> HIDE DEF q
    <3> QED  BY <2>3, <3>3, <3>4, <3>5, Zenon
  <2>8. Is(q, m)
    <3>1. q = [i \in 0..m |-> q[i]]  BY Zenon
    <3> HIDE DEF q
    <3> QED  BY <2>7, <3>1, Zenon
  <2> QED  BY <2>2, <2>8, Zenon
<1>2. n \in 0..n  OBVIOUS
<1>3. \E f : Is(f, n)  BY <1>1, <1>2, Zenon
<1> DEFINE sig == CHOOSE f : Is(f, n)
<1>4. Is(sig, n)  BY <1>3, Zenon
<1>5. SignFrames(fs, tsig) = With(fs, sig)
  BY Zenon DEF SignFrames, Signed, With, Resigned
<1> HIDE DEF sig
<1>6. Chained(sig, fs, tsig, now)
  <2>1. \A i \in 1..n : i \in 0..n /\ i # 0  OBVIOUS
  <2>2. 0 \in 0..n  OBVIOUS
  <2>3. sig[0] = tsig  BY <1>4, <2>2, Zenon
  <2>4. \A i \in 1..n : sig[i] = Signed(i, fs, tsig, now, sig[i - 1].mac)  BY <1>4, <2>1, Zenon
  <2> QED  BY <2>3, <2>4, Zenon DEF Chained
<1> QED  BY <1>5, <1>6, Zenon

(* The answer to a transfer: the messages, each with a signature or none. *)
Message(R, t) == [rcode |-> "NOERROR", records |-> R, tsig |-> t]
Part(rs, i) == SubSeq(rs, (i - 1) * Chunk + 1, IF i * Chunk < Len(rs) THEN i * Chunk ELSE Len(rs))
Parts(rs) == (Len(rs) + Chunk - 1) \div Chunk
Answer(rs, sig) == [i \in 1..Parts(rs) |-> Message(Part(rs, i), sig[i])]
Signatures(sig, rs, tsig) ==
    IF tsig = NoTsig THEN \A i \in 1..Parts(rs) : sig[i] = NoTsig
    ELSE Chained(sig, Frames(rs), tsig, now)

LEMMA FramesAre ==
    ASSUME NEW rs \in Seq(Records)
    PROVE  /\ Parts(rs) \in Nat /\ Len(Frames(rs)) = Parts(rs) /\ DOMAIN Frames(rs) = 1..Parts(rs)
           /\ \A i \in 1..Parts(rs) : Frames(rs)[i] = Message(Part(rs, i), NoTsig)
           /\ Frames(rs) = [i \in 1..Parts(rs) |-> Message(Part(rs, i), NoTsig)]
<1>1. Parts(rs) \in Nat
  <2>1. Len(rs) \in Nat /\ Chunk \in Nat \ {0}  BY RecordsAssumption
  <2> QED  BY <2>1 DEF Parts
<1>2. Frames(rs) = [i \in 1..Parts(rs) |-> Message(Part(rs, i), NoTsig)]
  BY Zenon DEF Frames, Parts, Part, Message
<1>3. Len(Frames(rs)) = Parts(rs)  BY <1>1, <1>2
<1> QED  BY <1>1, <1>2, <1>3, Zenon

LEMMA AnswerIs ==
    ASSUME NEW rs \in Seq(Records), NEW tsig
    PROVE  \E sig : SignedIfAsked(Frames(rs), tsig) = Answer(rs, sig) /\ Signatures(sig, rs, tsig)
<1> DEFINE fs == SignedIfAsked(Frames(rs), tsig)
<1>1. CASE tsig = NoTsig
  <2> DEFINE sig == [i \in 1..Parts(rs) |-> NoTsig]
  <2>1. \A i \in 1..Parts(rs) : sig[i] = NoTsig  BY Zenon
  <2>2. Frames(rs) = Answer(rs, sig)
    <3>1. \A i \in 1..Parts(rs) : Message(Part(rs, i), sig[i]) = Message(Part(rs, i), NoTsig)  BY <2>1, Zenon
    <3> HIDE DEF sig
    <3>2. Answer(rs, sig) = [i \in 1..Parts(rs) |-> Message(Part(rs, i), NoTsig)]
      BY <3>1, Zenon DEF Answer
    <3> QED  BY <3>2, FramesAre, Zenon
  <2> QED  BY <1>1, <2>1, <2>2, Zenon DEF SignedIfAsked, Signatures
<1>2. CASE tsig # NoTsig
  <2>1. Len(Frames(rs)) \in Nat  BY FramesAre, Zenon
  <2>2. \E sig : Chained(sig, Frames(rs), tsig, now) /\ SignFrames(Frames(rs), tsig) = With(Frames(rs), sig)
    BY <2>1, SignedRight, Zenon
  <2>3. PICK sig : Chained(sig, Frames(rs), tsig, now) /\ SignFrames(Frames(rs), tsig) = With(Frames(rs), sig)
    BY <2>2, Zenon
  <2>4. \A R, t, u : Resigned(Message(R, t), u) = Message(R, u)  BY DEF Message, Resigned
  <2>5. With(Frames(rs), sig) = Answer(rs, sig)
    <3>1. With(Frames(rs), sig) = [i \in 1..Parts(rs) |-> Resigned(Frames(rs)[i], sig[i])]
      BY FramesAre, Zenon DEF With
    <3>2. \A i \in 1..Parts(rs) : Resigned(Frames(rs)[i], sig[i]) = Message(Part(rs, i), sig[i])
      <4> TAKE i \in 1..Parts(rs)
      <4>1. Frames(rs)[i] = Message(Part(rs, i), NoTsig)  BY FramesAre, Zenon
      <4>2. Resigned(Message(Part(rs, i), NoTsig), sig[i]) = Message(Part(rs, i), sig[i])  BY <2>4, Zenon
      <4> QED  BY <4>1, <4>2, Zenon
    <3> QED  BY <3>1, <3>2, Zenon DEF Answer
  <2> QED  BY <1>2, <2>3, <2>5, Zenon DEF SignedIfAsked, Signatures
<1> QED  BY <1>1, <1>2, Zenon

LEMMA AnswerSeq ==
    ASSUME NEW rs \in Seq(Records), NEW sig
    PROVE  /\ IsSeq(Answer(rs, sig)) /\ Len(Answer(rs, sig)) = Parts(rs)
           /\ \A i \in 1..Parts(rs) : Answer(rs, sig)[i] = Message(Part(rs, i), sig[i])
<1> DEFINE X == {Message(Part(rs, i), sig[i]) : i \in 1..Parts(rs)}
<1>1. Parts(rs) \in Nat  BY FramesAre, Zenon
<1>2. Answer(rs, sig) \in [1..Parts(rs) -> X]  BY Zenon DEF Answer
<1>3. \A i \in 1..Parts(rs) : Answer(rs, sig)[i] = Message(Part(rs, i), sig[i])  BY Zenon DEF Answer
<1> HIDE DEF X
<1>4. Answer(rs, sig) \in Seq(X) /\ Len(Answer(rs, sig)) = Parts(rs)  BY <1>1, <1>2
<1> QED  BY <1>3, <1>4, Zenon DEF IsSeq

LEMMA AnswerCut ==
    ASSUME NEW rs \in Seq(Records), NEW sig
    PROVE  \E e : Cut(Answer(rs, sig), rs, e) /\ e[0] = 0
<1> DEFINE L == Len(rs)
           d == Parts(rs)
           end(i) == IF i * Chunk < L THEN i * Chunk ELSE L
           fs == Answer(rs, sig)
           e == [i \in 0..d |-> IF i = 0 THEN 0 ELSE end(i)]
<1>1. L \in Nat /\ Chunk \in Nat \ {0} /\ d \in Nat
  <2>1. L \in Nat /\ Chunk \in Nat \ {0}  BY RecordsAssumption
  <2>2. Parts(rs) \in Nat  BY FramesAre, Zenon
  <2> QED  BY <2>1, <2>2, Zenon
<1>6. Len(fs) = d  BY AnswerSeq, Zenon
<1>7. \A i \in 1..d : fs[i].rcode = "NOERROR" /\ fs[i].records = SubSeq(rs, (i - 1) * Chunk + 1, end(i))
  <2>1. \A R, t : Message(R, t).rcode = "NOERROR" /\ Message(R, t).records = R  BY Zenon DEF Message
  <2>2. \A i \in 1..d : fs[i] = Message(Part(rs, i), sig[i])  BY AnswerSeq, Zenon
  <2>3. \A i : Part(rs, i) = SubSeq(rs, (i - 1) * Chunk + 1, end(i))  BY Zenon DEF Part
  <2> HIDE DEF fs, d, end
  <2> TAKE i \in 1..d
  <2>4. fs[i].rcode = "NOERROR" /\ fs[i].records = Part(rs, i)
    <3>1. fs[i] = Message(Part(rs, i), sig[i])  BY <2>2, Zenon
    <3> QED  BY <2>1, <3>1, SMT
  <2> QED  BY <2>3, <2>4, Zenon
<1> HIDE DEF fs, d
<1>8. ASSUME NEW i \in 1..d
      PROVE  /\ e[i] = end(i) /\ e[i - 1] = (i - 1) * Chunk
             /\ (i - 1) * Chunk <= end(i) /\ end(i) \in 0..L
  <2>1. /\ (i - 1) * Chunk \in Nat /\ (i - 1) * Chunk < L
        /\ i * Chunk \in Nat /\ (i - 1) * Chunk <= i * Chunk
    BY <1>1, FramesBounds, Zenon DEF d, Parts
  <2>2. i \in 0..d /\ i - 1 \in 0..d /\ i # 0  BY <1>1
  <2>3. (i - 1) * Chunk <= end(i) /\ end(i) \in 0..L  BY <1>1, <2>1
  <2>4. end(i - 1) = (i - 1) * Chunk  BY <2>1, Zenon
  <2>5. i - 1 = 0 => (i - 1) * Chunk = 0  BY <1>1
  <2> HIDE DEF end
  <2> QED  BY <2>2, <2>3, <2>4, <2>5, Zenon
<1>9. Cut(fs, rs, e)
  <2>1. e \in [0..d -> 0..L]
    <3>1. ASSUME NEW i \in 0..d PROVE (IF i = 0 THEN 0 ELSE end(i)) \in 0..L
      <4>1. 0 \in 0..L  BY <1>1
      <4>2. i # 0 => i \in 1..d  BY <1>1
      <4> QED  BY <1>8, <4>1, <4>2, Zenon
    <3> QED  BY <3>1, Zenon
  <2> HIDE DEF e, end
  <2> QED  BY <1>6, <1>7, <1>8, <2>1, Zenon DEF Cut
<1>10. e[0] = 0
  <2>1. 0 \in 0..d  BY <1>1
  <2> QED  BY <2>1, Zenon
<1> HIDE DEF e
<1> QED  BY <1>9, <1>10, Zenon DEF fs

(* One message read from the connection. *)
LEMMA CutTail ==
    ASSUME NEW rs \in Seq(Records), NEW fs, IsSeq(fs), fs # <<>>, NEW e, Cut(fs, rs, e)
    PROVE  /\ Head(fs).rcode = "NOERROR" /\ IsSeq(Tail(fs))
           /\ e[1] \in 0..Len(rs) /\ SubSeq(rs, 1, e[0]) \o Head(fs).records = SubSeq(rs, 1, e[1])
           /\ \E h : Cut(Tail(fs), rs, h) /\ h[0] = e[1]
<1>1. PICK X : fs \in Seq(X)  BY Zenon DEF IsSeq
<1>2. /\ Len(fs) \in Nat /\ Len(fs) >= 1 /\ Head(fs) = fs[1]
      /\ Tail(fs) \in Seq(X) /\ Len(Tail(fs)) = Len(fs) - 1
      /\ \A i \in 1..(Len(fs) - 1) : Tail(fs)[i] = fs[i + 1]
  BY <1>1
<1> DEFINE n == Len(fs)
           h == [i \in 0..(n - 1) |-> e[i + 1]]
<1>3. /\ e \in [0..n -> 0..Len(rs)]
      /\ \A j \in 1..n : /\ fs[j].rcode = "NOERROR"
                         /\ e[j - 1] <= e[j] /\ fs[j].records = SubSeq(rs, e[j - 1] + 1, e[j])
  BY Zenon DEF Cut
<1>4. 1 \in 1..n /\ 0 \in 0..n /\ 1 \in 0..n /\ 1 - 1 = 0  BY <1>2
<1>5. /\ fs[1].rcode = "NOERROR" /\ e[0] <= e[1] /\ fs[1].records = SubSeq(rs, e[0] + 1, e[1])
      /\ e[0] \in 0..Len(rs) /\ e[1] \in 0..Len(rs)
  <2>1. e[1 - 1] <= e[1] /\ fs[1].records = SubSeq(rs, e[1 - 1] + 1, e[1])  BY <1>3, <1>4, Zenon
  <2> QED  BY <1>3, <1>4, <2>1, Zenon
<1>6. SubSeq(rs, 1, e[0]) \o SubSeq(rs, e[0] + 1, e[1]) = SubSeq(rs, 1, e[1])
  <2>1. PICK a, b : a = e[0] /\ b = e[1]  BY Zenon
  <2>2. a \in 0..Len(rs) /\ b \in a..Len(rs) /\ 1 \in 1..(Len(rs) + 1) /\ 0 = 1 - 1  BY <1>5, <2>1
  <2>3. a \in (1 - 1)..Len(rs)  BY <2>2, Zenon
  <2>4. SubSeq(rs, 1, a) \o SubSeq(rs, a + 1, b) = SubSeq(rs, 1, b)
    BY <2>2, <2>3
  <2> QED  BY <2>1, <2>4, Zenon
<1> HIDE DEF n
<1>7. Cut(Tail(fs), rs, h) /\ h[0] = e[1]
  <2>1. h \in [0..(n - 1) -> 0..Len(rs)] /\ h[0] = e[1]
    <3>1. n \in Nat /\ n >= 1  BY <1>2, Zenon DEF n
    <3> QED  BY <1>3, <3>1
  <2>2. ASSUME NEW j \in 1..(n - 1)
        PROVE  /\ Tail(fs)[j].rcode = "NOERROR"
               /\ h[j - 1] <= h[j] /\ Tail(fs)[j].records = SubSeq(rs, h[j - 1] + 1, h[j])
    <3>0. n \in Nat  BY <1>2, Zenon DEF n
    <3>1. PICK k : k = j + 1  BY Zenon
    <3>2. k \in 1..n /\ j \in 0..(n - 1) /\ j - 1 \in 0..(n - 1) /\ (j - 1) + 1 = j /\ k - 1 = j  BY <3>0, <3>1
    <3>3. h[j] = e[k] /\ h[j - 1] = e[j] /\ Tail(fs)[j] = fs[k]
      <4>1. h[j] = e[j + 1] /\ h[j - 1] = e[(j - 1) + 1]  BY <3>2, Zenon
      <4>2. Tail(fs)[j] = fs[j + 1]  BY <1>2, Zenon DEF n
      <4> QED  BY <3>1, <3>2, <4>1, <4>2, Zenon
    <3>4. fs[k].rcode = "NOERROR" /\ e[j] <= e[k] /\ fs[k].records = SubSeq(rs, e[j] + 1, e[k])
      BY <1>3, <3>2, Zenon
    <3> QED  BY <3>3, <3>4, Zenon
  <2> HIDE DEF h
  <2>3. Len(Tail(fs)) = n - 1  BY <1>2, Zenon DEF n
  <2> QED  BY <2>1, <2>2, <2>3, Zenon DEF Cut
<1> HIDE DEF h
<1> QED  BY <1>2, <1>5, <1>6, <1>7, Zenon DEF IsSeq
=============================================================================
