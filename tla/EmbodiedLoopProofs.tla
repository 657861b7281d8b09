------------------------- MODULE EmbodiedLoopProofs -------------------------
(***************************************************************************)
(* An env worker acts on the answers to its own latest observations, and   *)
(* the actors train on every environment of every stage once, for any      *)
(* number of workers, stages, chunks, epochs and actors.                   *)
(*                                                                         *)
(* First CommMapper: the map of a source and that of a destination agree,  *)
(* as both are the cells between the borders of two even cuts.  Then the   *)
(* way of a batch: what an env worker has asked, cut into shards, is in    *)
(* the queues of each of its rollout workers, answers before questions, in *)
(* the order in which it takes the stages (Flows, Fed).  Then the loops:   *)
(* how many stages a worker waits for follows from where it is in them     *)
(* (AwaitedOf, FirstOf), and every step keeps it so (LoopInv).             *)
(*                                                                         *)
(* For what the actors train on, the answers are counted: an answer has    *)
(* the version that belongs to its number on both sides (Answered), so a   *)
(* worker has recorded what follows from where it is (Keeps).  No two      *)
(* trajectories on their way share an environment of a stage (Delivered);  *)
(* the actors wait for as many as it takes for all environments, so they   *)
(* have each of them, and nobody still interacts (WholeInv).               *)
(***************************************************************************)
EXTENDS EmbodiedLoop, WellFoundedInduction, SequenceTheorems, FiniteSetTheorems, FunctionTheorems, TLAPS

LEMMA NatMin == ASSUME NEW T \in SUBSET Nat, T # {} PROVE \E x \in T : \A y \in T : x <= y
<1>1. IsWellFoundedOn(OpToRel(<, Nat), Nat)
  BY NatLessThanWellFounded
<1>2. PICK x \in T : \A y \in T : ~(<<y, x>> \in OpToRel(<, Nat))
  BY <1>1, WFMin
<1>3. \A y \in T : ~(y < x)
  BY <1>2 DEF OpToRel
<1> QED BY <1>3

\* Induction up to m.
LEMMA Climb ==
    ASSUME NEW m \in Nat, NEW T, 0 \in T, \A n \in 1 .. m : n - 1 \in T => n \in T
    PROVE  \A n \in 0 .. m : n \in T
<1> DEFINE U == {n \in 0 .. m : n \notin T}
<1> SUFFICES ASSUME U # {} PROVE FALSE
  OBVIOUS
<1>1. PICK x \in U : \A y \in U : x <= y
  <2>1. U \in SUBSET Nat
    OBVIOUS
  <2> HIDE DEF U
  <2> QED BY <2>1, NatMin
<1>2. x \in 1 .. m /\ x - 1 \in 0 .. m /\ x - 1 \notin U
  BY <1>1
<1> QED BY <1>2

Recurs(f, X, a, m, h) ==
    f \in [0 .. m -> X] /\ f[0] = a /\ \A n \in 1 .. m : f[n] = h[<<n, f[n - 1]>>]

\* A function defined by its first value and the step from one value to the next.
LEMMA Recursion ==
    ASSUME NEW X, NEW a \in X, NEW m \in Nat, NEW h \in [(1 .. m) \X X -> X]
    PROVE  \E f : Recurs(f, X, a, m, h)
<1> DEFINE Upto(k, f) == f \in [0 .. k -> X] /\ f[0] = a /\ \A n \in 1 .. k : f[n] = h[<<n, f[n - 1]>>]
           T == {k \in 0 .. m : \E f : Upto(k, f)}
<1>1. 0 \in T
  <2>1. Upto(0, [k \in 0 .. 0 |-> a])
    OBVIOUS
  <2> HIDE DEF Upto
  <2> QED BY <2>1
<1>2. ASSUME NEW k \in 1 .. m, k - 1 \in T PROVE k \in T
  <2>1. PICK f : Upto(k - 1, f)
    BY <1>2
  <2> DEFINE e == [i \in 0 .. k |-> IF i = k THEN h[<<k, f[k - 1]>>] ELSE f[i]]
  <2>2. /\ \A i \in 0 .. k - 1 : f[i] \in X
        /\ f[0] = a /\ \A n \in 1 .. k - 1 : f[n] = h[<<n, f[n - 1]>>]
    BY <2>1
  <2>3. h[<<k, f[k - 1]>>] \in X
    BY <2>2
  <2>4. e \in [0 .. k -> X] /\ e[0] = a
    BY <2>2, <2>3
  <2>5. ASSUME NEW n \in 1 .. k PROVE e[n] = h[<<n, e[n - 1]>>]
    <3>1. n - 1 \in 0 .. k /\ n - 1 # k /\ e[n - 1] = f[n - 1]
      OBVIOUS
    <3> QED BY SMTT(60), <2>2, <3>1
  <2> HIDE DEF e
  <2>6. Upto(k, e)
    BY <2>4, <2>5
  <2> QED BY <2>6
<1> HIDE DEF T
<1>3. m \in T
  BY <1>1, <1>2, Climb
<1> QED BY <1>3 DEF T, Recurs

\* What is joined after each sequence.
Joins(f, seqs, S) ==
    /\ f \in [0 .. Len(seqs) -> Seq(S)]
    /\ f[0] = <<>>
    /\ \A n \in 1 .. Len(seqs) : f[n] = f[n - 1] \o seqs[n]

LEMMA FlattenIs ==
    ASSUME NEW S, NEW seqs \in Seq(Seq(S))
    PROVE  \E f : Joins(f, seqs, S) /\ FlattenSeq(seqs) = f[Len(seqs)]
<1>1. PICK m \in Nat : m = Len(seqs)
  OBVIOUS
<1> DEFINE X == Seq(S)
           h == [p \in (1 .. m) \X X |-> p[2] \o seqs[p[1]]]
<1>0. \A n \in 1 .. m : seqs[n] \in Seq(S)
  BY <1>1, ElementOfSeq
<1>2. h \in [(1 .. m) \X X -> X] /\ <<>> \in X
  <2>1. \A n \in 1 .. m, x \in X : x \o seqs[n] \in X
    BY <1>0
  <2>2. <<>> \in X
    OBVIOUS
  <2> HIDE DEF X
  <2> QED BY <2>1, <2>2
<1> HIDE DEF h
<1>3. PICK f : Recurs(f, X, <<>>, m, h)
  <2> HIDE DEF X
  <2> QED BY <1>2, Recursion
<1>30. f \in [0 .. m -> Seq(S)] /\ f[0] = <<>> /\ \A n \in 1 .. m : f[n] = h[<<n, f[n - 1]>>]
  BY <1>3 DEF Recurs
<1>4. ASSUME NEW n \in 1 .. m PROVE f[n] = f[n - 1] \o seqs[n]
  <2>1. f[n - 1] \in Seq(S)
    BY <1>30
  <2> QED BY <1>30, <2>1 DEF h
<1>5. Joins(f, seqs, S)
  BY <1>1, <1>30, <1>4 DEF Joins
<1>6. CASE m = 0
  <2>1. seqs = <<>>
    BY <1>1, <1>6, EmptySeq
  <2> QED BY <2>1, <1>1, <1>5, <1>6 DEF Joins, FlattenSeq
<1>7. CASE m # 0
  <2>0. seqs[1] \in Seq(S) /\ f[1] = f[0] \o seqs[1]
    <3>1. 1 \in 1 .. m /\ 1 - 1 = 0
      BY <1>7
    <3> QED BY <1>0, <1>4, <3>1
  <2>00. f[1] = seqs[1]
    BY <1>30, <2>0
  <2> DEFINE Fits(g) == g = [i \in 1 .. m |-> IF i = 1 THEN seqs[i] ELSE g[i - 1] \o seqs[i]]
             g == CHOOSE g : Fits(g)
  <2>1. Fits([i \in 1 .. m |-> f[i]])
    <3> DEFINE e == [i \in 1 .. m |-> f[i]]
    <3>1. ASSUME NEW i \in 1 .. m PROVE f[i] = IF i = 1 THEN seqs[i] ELSE e[i - 1] \o seqs[i]
      <4>1. CASE i = 1
        BY <2>00, <4>1
      <4>2. CASE i # 1
        <5>1. e[i - 1] = f[i - 1]
          BY SMTT(60), <4>2
        <5> HIDE DEF e
        <5> QED BY ZenonT(60), <1>4, <4>2, <5>1
      <4> QED BY <4>1, <4>2
    <3> QED BY <3>1
  <2>2. Fits(g)
    BY ZenonT(60), <2>1
  <2>3. \A i \in 1 .. m : g[i] = IF i = 1 THEN seqs[i] ELSE g[i - 1] \o seqs[i]
    BY Zenon, <2>2
  <2>4. FlattenSeq(seqs) = g[m]
    BY <1>1, <1>7 DEF FlattenSeq
  <2> HIDE DEF g, Fits
  <2> DEFINE T == {n \in 0 .. m : n # 0 => g[n] = f[n]}
  <2>5. ASSUME NEW n \in 1 .. m, n - 1 \in T PROVE n \in T
    <3>1. CASE n = 1
      BY <2>00, <2>3, <3>1
    <3>2. CASE n # 1
      <4>1. g[n - 1] = f[n - 1] /\ g[n] = g[n - 1] \o seqs[n]
        <5>1. n - 1 # 0
          BY <3>2
        <5> QED BY <2>3, <2>5, <3>2, <5>1
      <4>2. g[n] = f[n]
        <5> HIDE DEF T
        <5> QED BY <1>4, <4>1
      <4> QED BY <4>2
    <3> QED BY <3>1, <3>2
  <2>6. 0 \in T
    OBVIOUS
  <2> HIDE DEF T
  <2>7. \A n \in 0 .. m : n \in T
    BY <2>5, <2>6, Climb
  <2>8. g[m] = f[m]
    BY <1>7, <2>7 DEF T
  <2> QED BY <1>1, <1>5, <2>4, <2>8
<1> QED BY <1>6, <1>7

Sized(parts) == Len(parts) \in Nat /\ \A n \in 1 .. Len(parts) : parts[n].size \in Nat

LEMMA BeforeFacts ==
    ASSUME NEW parts, Sized(parts)
    PROVE  /\ Before(parts, 1) = 0
           /\ \A n \in 1 .. Len(parts) :
                 /\ Before(parts, n) \in Nat /\ Before(parts, n + 1) \in Nat
                 /\ Before(parts, n + 1) = Before(parts, n) + parts[n].size
<1>1. PICK m \in Nat : m = Len(parts) /\ \A n \in 1 .. m : parts[n].size \in Nat
  BY DEF Sized
<1> DEFINE h == [p \in (1 .. m) \X Nat |-> p[2] + parts[p[1]].size]
<1>2. h \in [(1 .. m) \X Nat -> Nat]
  BY <1>1
<1> HIDE DEF h
<1>3. PICK f : Recurs(f, Nat, 0, m, h)
  BY <1>2, Recursion
<1>30. f \in [0 .. m -> Nat] /\ f[0] = 0 /\ \A n \in 1 .. m : f[n] = h[<<n, f[n - 1]>>]
  BY <1>3 DEF Recurs
<1>4. ASSUME NEW n \in 1 .. m PROVE f[n] = f[n - 1] + parts[n].size
  <2>1. f[n - 1] \in Nat
    BY <1>30
  <2> QED BY <1>30, <2>1 DEF h
<1> DEFINE Fits(g) == g = [i \in 0 .. m |-> IF i = 0 THEN 0 ELSE g[i - 1] + parts[i].size]
           g == CHOOSE g : Fits(g)
<1>5. Fits(f)
  BY <1>30, <1>4
<1>6. Fits(g)
  BY <1>5
<1>7. \A i \in 0 .. m : g[i] = IF i = 0 THEN 0 ELSE g[i - 1] + parts[i].size
  BY <1>6
<1>8. \A n : Before(parts, n) = g[n - 1]
  BY <1>1 DEF Before
<1> HIDE DEF g, Fits
<1> DEFINE T == {n \in 0 .. m : g[n] = f[n]}
<1>9. 0 \in T
  BY <1>30, <1>7
<1>10. ASSUME NEW n \in 1 .. m, n - 1 \in T PROVE n \in T
  BY <1>4, <1>7, <1>10
<1> HIDE DEF T
<1>11. \A n \in 0 .. m : n \in T
  BY <1>9, <1>10, Climb
<1>12. \A n \in 0 .. m : g[n] = f[n]
  BY <1>11 DEF T
<1>13. Before(parts, 1) = 0
  BY <1>30, <1>8, <1>12
<1>14. ASSUME NEW n \in 1 .. m
       PROVE  /\ Before(parts, n) \in Nat /\ Before(parts, n + 1) \in Nat
              /\ Before(parts, n + 1) = Before(parts, n) + parts[n].size
  <2>1. n - 1 \in 0 .. m /\ n \in 0 .. m /\ (n + 1) - 1 = n
    OBVIOUS
  <2>2. Before(parts, n) = f[n - 1] /\ Before(parts, n + 1) = f[n]
    BY <1>8, <1>12, <2>1
  <2> QED BY <1>30, <1>4, <2>1, <2>2
<1> QED BY <1>1, <1>13, <1>14

\* Every place in what is cut is in one part.
LEMMA BeforeCovers ==
    ASSUME NEW parts, Sized(parts), NEW p \in Nat, 0 < p, p <= Before(parts, Len(parts) + 1)
    PROVE  \E n \in 1 .. Len(parts) : \E j \in 1 .. parts[n].size : p = Before(parts, n) + j
<1>1. PICK m \in Nat : m = Len(parts) /\ \A n \in 1 .. m : parts[n].size \in Nat
  BY DEF Sized
<1>2. /\ Before(parts, 1) = 0
      /\ \A n \in 1 .. m : /\ Before(parts, n) \in Nat /\ Before(parts, n + 1) \in Nat
                           /\ Before(parts, n + 1) = Before(parts, n) + parts[n].size
  BY <1>1, BeforeFacts
<1> DEFINE T == {n \in 0 .. m : p <= Before(parts, n + 1)}
<1>3. m \in T /\ T \in SUBSET Nat
  BY <1>1
<1>4. PICK n \in T : \A y \in T : n <= y
  BY <1>3, NatMin
<1>5. n \in 1 .. m
  <2>1. n \in 0 .. m /\ p <= Before(parts, n + 1)
    BY <1>4
  <2>2. n # 0
    BY <1>2, <2>1
  <2> QED BY <2>1, <2>2
<1>6. ~(p <= Before(parts, n))
  <2>1. n - 1 \in 0 .. m /\ n - 1 \notin T /\ (n - 1) + 1 = n
    BY <1>4, <1>5
  <2> QED BY <2>1
<1>7. p <= Before(parts, n + 1)
  BY <1>4
<1>8. PICK b \in Nat, k \in Nat : b = Before(parts, n) /\ k = parts[n].size /\ Before(parts, n + 1) = b + k
  BY <1>1, <1>2, <1>5
<1>9. p - b \in 1 .. k /\ p = b + (p - b)
  BY <1>6, <1>7, <1>8
<1> QED BY <1>1, <1>5, <1>8, <1>9

\* The sequences have the sizes of the parts.
Fit(seqs, parts) ==
    Sized(parts) /\ Len(parts) = Len(seqs) /\ \A n \in 1 .. Len(seqs) : Len(seqs[n]) = parts[n].size

LEMMA FlattenPlaces ==
    ASSUME NEW S, NEW seqs \in Seq(Seq(S)), NEW parts, Fit(seqs, parts)
    PROVE  /\ FlattenSeq(seqs) \in Seq(S)
           /\ Len(FlattenSeq(seqs)) = Before(parts, Len(parts) + 1)
           /\ \A n \in 1 .. Len(seqs) :
                 /\ Before(parts, n) + Len(seqs[n]) <= Len(FlattenSeq(seqs))
                 /\ \A j \in 1 .. Len(seqs[n]) :
                       FlattenSeq(seqs)[Before(parts, n) + j] = seqs[n][j]
<1>1. PICK m \in Nat : m = Len(seqs) /\ m = Len(parts) /\ \A n \in 1 .. m : seqs[n] \in Seq(S)
  BY ElementOfSeq DEF Fit
<1>2. /\ Before(parts, 1) = 0
      /\ \A n \in 1 .. m : /\ Before(parts, n) \in Nat /\ Before(parts, n + 1) \in Nat
                           /\ Before(parts, n + 1) = Before(parts, n) + Len(seqs[n])
  BY <1>1, BeforeFacts DEF Fit
<1>3. PICK f : Joins(f, seqs, S) /\ FlattenSeq(seqs) = f[m]
  BY <1>1, FlattenIs
<1>4. /\ \A n \in 0 .. m : f[n] \in Seq(S)
      /\ f[0] = <<>>
      /\ \A n \in 1 .. m : f[n] = f[n - 1] \o seqs[n]
  BY <1>1, <1>3 DEF Joins
<1> DEFINE Placed(n) ==
             /\ Len(f[n]) = Before(parts, n + 1)
             /\ \A k \in 1 .. n : /\ Before(parts, k) + Len(seqs[k]) <= Len(f[n])
                                  /\ \A j \in 1 .. Len(seqs[k]) : f[n][Before(parts, k) + j] = seqs[k][j]
           T == {n \in 0 .. m : Placed(n)}
<1>5. 0 \in T
  BY <1>2, <1>4
<1>6. ASSUME NEW n \in 1 .. m, n - 1 \in T PROVE n \in T
  <2>1. Placed(n - 1) /\ (n - 1) + 1 = n /\ n - 1 \in 0 .. m
    BY <1>6
  <2>2. PICK g \in Seq(S), s \in Seq(S) : g = f[n - 1] /\ s = seqs[n] /\ f[n] = g \o s
    BY <1>1, <1>4, <2>1
  <2>3. Len(g) = Before(parts, n)
    BY <2>1, <2>2
  <2>4. /\ Len(g \o s) = Len(g) + Len(s)
        /\ \A i \in 1 .. Len(g) : (g \o s)[i] = g[i]
        /\ \A i \in 1 .. Len(s) : (g \o s)[Len(g) + i] = s[i]
    OBVIOUS
  <2>5. Len(f[n]) = Before(parts, n + 1)
    BY <1>2, <2>2, <2>3, <2>4
  <2>6. ASSUME NEW k \in 1 .. n
        PROVE  /\ Before(parts, k) + Len(seqs[k]) <= Len(f[n])
               /\ \A j \in 1 .. Len(seqs[k]) : f[n][Before(parts, k) + j] = seqs[k][j]
    <3>1. CASE k = n
      <4>1. Len(g) \in Nat /\ Len(s) \in Nat
        OBVIOUS
      <4>2. seqs[k] = s /\ Before(parts, k) = Len(g) /\ f[n] = g \o s
        BY <2>2, <2>3, <3>1
      <4>3. Len(g) + Len(s) <= Len(g \o s)
        BY <2>4, <4>1
      <4> QED BY <2>4, <4>2, <4>3
    <3>2. CASE k # n
      <4>1. /\ k \in 1 .. n - 1 /\ k \in 1 .. m
        BY <3>2
      <4>2. PICK q \in Seq(S), b \in Nat : q = seqs[k] /\ b = Before(parts, k)
        BY <1>1, <1>2, <4>1
      <4>3. b + Len(q) <= Len(g) /\ \A j \in 1 .. Len(q) : g[b + j] = q[j]
        BY <2>1, <2>2, <4>1, <4>2
      <4>4. Len(g) \in Nat /\ Len(s) \in Nat /\ Len(q) \in Nat
        OBVIOUS
      <4>5. \A j \in 1 .. Len(q) : (g \o s)[b + j] = q[j]
        BY <2>4, <4>3, <4>4
      <4>6. b + Len(q) <= Len(g \o s)
        BY <2>4, <4>3, <4>4
      <4> QED BY <2>2, <4>2, <4>5, <4>6
    <3> QED BY <3>1, <3>2
  <2> QED BY <2>5, <2>6
<1> HIDE DEF T
<1>7. \A n \in 0 .. m : n \in T
  BY <1>5, <1>6, Climb
<1>8. Placed(m)
  BY <1>7 DEF T
<1> QED BY <1>1, <1>3, <1>4, <1>8

-----------------------------------------------------------------------------
(* The maps of the ranks.  The places begin, ..., end - 1 lie in cells of    *)
(* equal length: Cells lists those they meet, with how many are in each.     *)

Lesser(x, y) == IF x <= y THEN x ELSE y
Greater(x, y) == IF x <= y THEN y ELSE x
Cell(begin, end, per, q) ==
    [rank |-> q, size |-> Lesser(end, q * per + per) - Greater(begin, q * per)]
Count(begin, end, per) == IF begin = end THEN 0 ELSE ((end - 1) \div per) - (begin \div per) + 1
Cells(begin, end, per) ==
    [n \in 1 .. Count(begin, end, per) |-> Cell(begin, end, per, (begin \div per) + (n - 1))]

SizeAt(begin, end, per) == Min({((begin \div per) + 1) * per - begin, end - begin})

FirstCell(begin, end, per) ==
    /\ SizeAt(begin, end, per) \in 1 .. end - begin
    /\ Cells(begin, end, per) = <<[rank |-> begin \div per, size |-> SizeAt(begin, end, per)]>>
                                    \o Cells(begin + SizeAt(begin, end, per), end, per)

LEMMA DivIs ==
    ASSUME NEW per \in Nat \ {0}, NEW x \in Nat
    PROVE  /\ x \div per \in Nat
           /\ (x \div per) * per <= x /\ x < (x \div per) * per + per
<1> DEFINE q == x \div per
           r == x % per
<1>1. q \in Nat /\ r \in 0 .. per - 1 /\ x = q * per + r
  OBVIOUS
<1> HIDE DEF q, r
<1>3. q * per \in Nat
  BY <1>1
<1> QED BY <1>1, <1>3 DEF q

LEMMA IsDiv ==
    ASSUME NEW per \in Nat \ {0}, NEW x \in Nat, NEW q \in Nat, q * per <= x, x < q * per + per
    PROVE  x \div per = q
<1>1. PICK r \in 0 .. per - 1 : x = q * per + r
  <2>1. q * per \in Nat
    OBVIOUS
  <2>2. x - q * per \in 0 .. per - 1 /\ x = q * per + (x - q * per)
    BY <2>1
  <2> QED BY <2>2
<1> QED BY <1>1

\* Products grow with their factors.
LEMMA Times ==
    ASSUME NEW per \in Nat \ {0}, NEW p \in Nat, NEW q \in Nat
    PROVE  /\ p * per \in Nat /\ (p + 1) * per = p * per + per
           /\ p < q => p * per + per <= q * per
           /\ p <= q => p * per <= q * per
<1>1. p * per \in Nat /\ (p + 1) * per = p * per + per
  OBVIOUS
<1>2. ASSUME p < q PROVE p * per + per <= q * per
  <2>1. PICK d \in Nat : q = p + 1 + d
    <3>1. q - p - 1 \in Nat /\ q = p + 1 + (q - p - 1)
      BY <1>2
    <3> QED BY <3>1
  <2>2. (p + 1 + d) * per = p * per + per + d * per /\ d * per \in Nat /\ p * per \in Nat
    OBVIOUS
  <2> QED BY <2>1, <2>2
<1>3. ASSUME p <= q PROVE p * per <= q * per
  <2>1. CASE p = q
    BY <1>1, <2>1
  <2>2. CASE p # q
    <3>1. p * per + per <= q * per
      BY <1>2, <1>3, <2>2
    <3>2. q * per \in Nat
      OBVIOUS
    <3> QED BY <1>1, <3>1, <3>2
  <2> QED BY <2>1, <2>2
<1> QED BY <1>1, <1>2, <1>3

LEMMA CellsNext ==
    ASSUME NEW per \in Nat \ {0}, NEW begin \in Nat, NEW end \in Nat, begin < end
    PROVE  FirstCell(begin, end, per)
<1>q. PICK q \in Nat : q = begin \div per
  BY DivIs
<1>size. PICK size : size = SizeAt(begin, end, per)
  OBVIOUS
<1> SUFFICES /\ size \in 1 .. end - begin
             /\ Cells(begin, end, per) =
                   <<[rank |-> q, size |-> size]>> \o Cells(begin + size, end, per)
  BY <1>q, <1>size DEF FirstCell
<1>1. PICK c \in Nat : q \in Nat /\ q = begin \div per /\ c = q * per /\ c <= begin /\ begin < c + per
  BY <1>q, DivIs, Times
<1>2. PICK l \in Nat, d \in Nat : l = (end - 1) \div per /\ d = l * per /\ d <= end - 1 /\ end - 1 < d + per
  <2>1. end - 1 \in Nat
    OBVIOUS
  <2> QED BY <2>1, DivIs
<1>3. (q + 1) * per = c + per
  BY <1>1, Times
<1>4. size = Lesser(c + per, end) - begin /\ size \in 1 .. end - begin
  <2> DEFINE x == c + per - begin
             y == end - begin
  <2>1. x \in Nat /\ y \in Nat /\ x > 0 /\ y > 0
    BY <1>1
  <2> HIDE DEF x, y
  <2>2. Min({x, y}) = IF x <= y THEN x ELSE y
    <3>1. CASE x <= y
      BY <2>1, <3>1 DEF Min
    <3>2. CASE ~(x <= y)
      BY <2>1, <3>2 DEF Min
    <3> QED BY <3>1, <3>2
  <2>3. size = Min({x, y})
    <3>1. (q + 1) * per - begin = x /\ end - begin = y
      BY <1>3 DEF x, y
    <3> QED BY <1>q, <1>size, <3>1 DEF SizeAt
  <2> QED BY <1>1, <2>1, <2>2, <2>3 DEF Lesser, x, y
<1>5. Count(begin, end, per) = l - q + 1
  BY <1>1, <1>2 DEF Count
<1>6. q <= l
  <2>1. l < q => d + per <= c
    BY <1>1, <1>2, Times
  <2> QED BY <1>1, <1>2, <2>1
<1>7. Cell(begin, end, per, q) = [rank |-> q, size |-> size]
  <2>1. Lesser(end, c + per) - Greater(begin, c) = size
    <3>1. Greater(begin, c) = begin
      BY <1>1 DEF Greater
    <3>2. Lesser(end, c + per) = Lesser(c + per, end)
      BY <1>1 DEF Lesser
    <3> QED BY <1>4, <3>1, <3>2
  <2> QED BY <1>1, <2>1 DEF Cell
<1>71. PICK next : next = begin + size
  OBVIOUS
<1> DEFINE head == <<[rank |-> q, size |-> size]>>
<1>8. CASE end <= c + per
  <2>1. next = end
    BY <1>1, <1>4, <1>71, <1>8 DEF Lesser
  <2>2. l = q
    <3>1. q < l => c + per <= d
      BY <1>1, <1>2, Times
    <3> QED BY <1>1, <1>2, <1>6, <1>8, <3>1
  <2>3. Cells(next, end, per) = <<>>
    BY <2>1 DEF Cells, Count
  <2>4. Cells(begin, end, per) = [n \in 1 .. 1 |-> Cell(begin, end, per, q + (n - 1))]
    BY <1>1, <1>5, <2>2 DEF Cells
  <2>5. Cells(begin, end, per) = <<Cell(begin, end, per, q)>>
    BY <2>4
  <2>6. Cells(begin, end, per) = head \o <<>>
    BY <1>7, <2>5
  <2> QED BY <1>4, <1>71, <2>3, <2>6
<1>9. CASE ~(end <= c + per)
  <2>1. next = c + per /\ next \in Nat /\ next # end
    BY <1>1, <1>4, <1>71, <1>9 DEF Lesser
  <2>2. next \div per = q + 1
    <3>1. (q + 1) * per <= next /\ next < (q + 1) * per + per
      BY <1>3, <2>1
    <3> QED BY <2>1, <3>1, IsDiv
  <2>3. Count(next, end, per) = l - q
    BY <1>2, <2>1, <2>2 DEF Count
  <2>4. q < l
    <3>1. l <= q => d <= c
      BY <1>1, <1>2, Times
    <3> QED BY <1>1, <1>2, <1>6, <1>9, <3>1
  <2>5. Cells(next, end, per) = [n \in 1 .. l - q |-> Cell(next, end, per, q + 1 + (n - 1))]
    BY <2>2, <2>3 DEF Cells
  <2>6. Cells(begin, end, per) = [n \in 1 .. l - q + 1 |-> Cell(begin, end, per, q + (n - 1))]
    BY <1>1, <1>5 DEF Cells
  <2>7. ASSUME NEW n \in 1 .. l - q PROVE Cell(next, end, per, q + n) = Cell(begin, end, per, q + n)
    <3>1. PICK p \in Nat, e \in Nat : p = q + n /\ e = p * per /\ c + per <= e
      <4>1. q + n \in Nat /\ q < q + n
        OBVIOUS
      <4> QED BY <1>1, <4>1, Times
    <3> QED BY <1>1, <2>1, <3>1 DEF Cell, Greater
  <2>8. Cells(begin, end, per) = head \o Cells(next, end, per)
    <3> DEFINE G(n) == Cell(begin, end, per, q + n)
               H(n) == Cell(next, end, per, q + n)
    <3>1. Cells(begin, end, per) = [n \in 1 .. l - q + 1 |-> G(n - 1)]
      BY <2>6
    <3>2. Cells(next, end, per) = [n \in 1 .. l - q |-> H(n)]
      <4>1. \A n \in 1 .. l - q : q + 1 + (n - 1) = q + n
        OBVIOUS
      <4> QED BY <2>5, <4>1
    <3>3. \A n \in 1 .. l - q : H(n) = G(n)
      BY <2>7
    <3>4. head = <<G(0)>>
      BY <1>7
    <3>5. l - q \in Nat
      BY <2>4
    <3> HIDE DEF G, H, head
    <3>6. [n \in 1 .. l - q + 1 |-> G(n - 1)] = <<G(0)>> \o [n \in 1 .. l - q |-> G(n)]
      BY <3>5
    <3>7. [n \in 1 .. l - q |-> H(n)] = [n \in 1 .. l - q |-> G(n)]
      BY <3>3
    <3> QED BY <3>1, <3>2, <3>4, <3>6, <3>7
  <2> QED BY <1>4, <1>71, <2>8
<1> QED BY <1>8, <1>9

CellList == Seq([rank : Nat, size : Nat])

LEMMA CellsType ==
    ASSUME NEW per \in Nat \ {0}, NEW end \in Nat, NEW begin \in 0 .. end
    PROVE  Cells(begin, end, per) \in CellList
<1> DEFINE T == {d \in 0 .. end : Cells(end - d, end, per) \notin CellList}
<1> SUFFICES T = {}
  <2>1. end - begin \in 0 .. end /\ end - (end - begin) = begin
    OBVIOUS
  <2> QED BY <2>1
<1> SUFFICES ASSUME T # {} PROVE FALSE
  OBVIOUS
<1>1. PICK d \in T : \A y \in T : d <= y
  <2>1. T \in SUBSET Nat
    OBVIOUS
  <2> HIDE DEF T
  <2> QED BY <2>1, NatMin
<1>2. CASE d = 0
  <2>1. Cells(end, end, per) = <<>>
    BY DEF Cells, Count
  <2> QED BY <1>1, <1>2, <2>1 DEF CellList
<1>3. CASE d # 0
  <2>1. end - d \in Nat /\ end - d < end /\ d \in 0 .. end
    BY <1>1, <1>3
  <2>2. PICK x \in Nat : x = end - d
    BY <2>1
  <2>3. PICK size \in 1 .. end - x : size = SizeAt(x, end, per)
    BY <2>1, <2>2, CellsNext DEF FirstCell
  <2>4. PICK q \in Nat : q = x \div per
    BY DivIs
  <2>30. Cells(x, end, per) = <<[rank |-> q, size |-> size]>> \o Cells(x + size, end, per)
    BY <2>1, <2>2, <2>3, <2>4, CellsNext DEF FirstCell
  <2>5. d - size \in 0 .. end /\ d - size < d /\ x + size = end - (d - size)
    BY <2>1, <2>2, <2>3
  <2>6. Cells(x + size, end, per) \in CellList
    BY <1>1, <2>5
  <2>7. <<[rank |-> q, size |-> size]>> \in CellList
    <3>1. [rank |-> q, size |-> size] \in [rank : Nat, size : Nat]
      BY <2>3, <2>4
    <3> QED BY <3>1 DEF CellList
  <2>8. Cells(x, end, per) \in CellList
    BY <2>6, <2>7, <2>30 DEF CellList
  <2> QED BY <1>1, <2>2, <2>8
<1> QED BY <1>2, <1>3

LEMMA DstRanksIs ==
    ASSUME NEW batch \in Nat, NEW srcSize, NEW dstSize, NEW src \in Nat,
           NEW a \in Nat, NEW b \in Nat \ {0}, a = batch \div srcSize, b = batch \div dstSize
    PROVE  DstRanks(batch, srcSize, dstSize, src) = Cells(src * a, (src + 1) * a, b)
<1>1. PICK end \in Nat : end = (src + 1) * a /\ src * a \in 0 .. end
  <2>1. (src + 1) * a = src * a + a /\ src * a \in Nat
    OBVIOUS
  <2> QED BY <2>1
<1> DEFINE Size(begin) == SizeAt(begin, end, b)
           Fits(g) == g = [begin \in 0 .. end |->
                              IF begin = end THEN <<>>
                              ELSE <<[rank |-> begin \div b, size |-> Size(begin)]>> \o g[begin + Size(begin)]]
           g == CHOOSE g : Fits(g)
           f == [begin \in 0 .. end |-> Cells(begin, end, b)]
<1>2. ASSUME NEW begin \in 0 .. end, begin # end
      PROVE  /\ Size(begin) \in 1 .. end - begin
             /\ Cells(begin, end, b) =
                   <<[rank |-> begin \div b, size |-> Size(begin)]>> \o Cells(begin + Size(begin), end, b)
  <2>1. begin \in Nat /\ begin < end
    BY <1>2
  <2> QED BY SMTT(60), <2>1, CellsNext DEF FirstCell
<1>3. Cells(end, end, b) = <<>>
  BY DEF Cells, Count
<1>4. DstRanks(batch, srcSize, dstSize, src) = g[src * a]
  BY ZenonT(60), <1>1 DEF DstRanks, SizeAt
<1> HIDE DEF Size
<1>5. Fits(f)
  <2>1. ASSUME NEW begin \in 0 .. end
        PROVE  f[begin] = IF begin = end THEN <<>>
                          ELSE <<[rank |-> begin \div b, size |-> Size(begin)]>> \o f[begin + Size(begin)]
    <3>1. CASE begin = end
      BY <1>3, <3>1
    <3>2. CASE begin # end
      <4>1. begin + Size(begin) \in 0 .. end
        <5>1. Size(begin) \in 1 .. end - begin
          BY <1>2, <3>2
        <5> QED BY <5>1
      <4>2. f[begin + Size(begin)] = Cells(begin + Size(begin), end, b)
        BY <4>1
      <4> QED BY <1>2, <3>2, <4>2
    <3> QED BY <3>1, <3>2
  <2>2. f = [begin \in 0 .. end |-> f[begin]]
    OBVIOUS
  <2> HIDE DEF f
  <2> QED BY <2>1, <2>2
<1>6. Fits(g)
  BY ZenonT(60), <1>5
<1>7. \A begin \in 0 .. end :
        g[begin] = IF begin = end THEN <<>>
                   ELSE <<[rank |-> begin \div b, size |-> Size(begin)]>> \o g[begin + Size(begin)]
  BY Zenon, <1>6
<1> HIDE DEF g, f, Fits
<1> DEFINE T == {d \in 0 .. end : g[end - d] # Cells(end - d, end, b)}
<1>8. T = {}
  <2> SUFFICES ASSUME T # {} PROVE FALSE
    OBVIOUS
  <2>1. PICK d \in T : \A y \in T : d <= y
    <3>1. T \in SUBSET Nat
      OBVIOUS
    <3> HIDE DEF T
    <3> QED BY <3>1, NatMin
  <2>2. PICK x \in 0 .. end : x = end - d
    BY <2>1
  <2>3. g[x] # Cells(x, end, b)
    BY <2>1, <2>2
  <2>4. x # end
    BY <1>3, <1>7, <2>3
  <2>5. Size(x) \in 1 .. end - x
    BY <1>2, <2>4
  <2>6. d - Size(x) \in 0 .. end /\ d - Size(x) < d /\ x + Size(x) = end - (d - Size(x))
    BY <2>1, <2>2, <2>5
  <2>7. g[x + Size(x)] = Cells(x + Size(x), end, b)
    BY <2>1, <2>6
  <2> QED BY <1>2, <1>7, <2>3, <2>4, <2>7
<1>9. PICK x \in 0 .. end : x = src * a
  BY <1>1
<1>10. g[x] = Cells(x, end, b)
  <2>1. end - x \in 0 .. end /\ end - (end - x) = x
    OBVIOUS
  <2> QED BY <1>8, <2>1
<1> QED BY <1>1, <1>4, <1>9, <1>10

LEMMA DivOrder ==
    ASSUME NEW per \in Nat \ {0}, NEW x \in Nat, NEW d \in Nat
    PROVE  /\ x \div per <= d <=> x < d * per + per
           /\ d <= x \div per <=> d * per <= x
<1>1. PICK q \in Nat, c \in Nat : /\ q = x \div per /\ c = q * per
                                 /\ c <= x /\ x < c + per
  BY DivIs, Times
<1>2. PICK e \in Nat : e = d * per
  BY Times
<1>3. /\ q < d => c + per <= e
      /\ d < q => e + per <= c
      /\ q = d => c = e
  BY <1>1, <1>2, Times
<1> QED BY <1>1, <1>2, <1>3

\* Cell s of length a and cell d of length b have a place in common.
Meets(a, b, s, d) == s * a < d * b + b /\ d * b < s * a + a
Common(a, b, s, d) == Lesser(s * a + a, d * b + b) - Greater(s * a, d * b)

\* `to` lists the cells of length b that meet cell s of length a, which are q, ..., l.
Lists(to, a, b, s, q, l) ==
    /\ q <= l
    /\ \A d \in Nat : d \in q .. l <=> Meets(a, b, s, d)
    /\ to = [n \in 1 .. l - q + 1 |-> [rank |-> q + (n - 1), size |-> Common(a, b, s, q + (n - 1))]]

LEMMA CellsOf ==
    ASSUME NEW a \in Nat \ {0}, NEW b \in Nat \ {0}, NEW s \in Nat
    PROVE  \E q, l \in Nat : Lists(Cells(s * a, (s + 1) * a, b), a, b, s, q, l)
<1>1. PICK lo \in Nat : lo = s * a /\ (s + 1) * a = lo + a
  BY Times
<1>2. PICK q \in Nat, l \in Nat : q = lo \div b /\ l = (lo + a - 1) \div b
  BY DivIs
<1>3. ASSUME NEW d \in Nat
      PROVE  /\ q <= d <=> lo < d * b + b
             /\ d <= l <=> d * b <= lo + a - 1
             /\ d * b \in Nat
  <2>1. lo + a - 1 \in Nat
    OBVIOUS
  <2> QED BY <1>2, <2>1, DivOrder, Times
<1>4. q <= l
  <2>1. q * b <= lo
    BY <1>2, DivIs
  <2> QED BY <1>3, <2>1
<1>5. ASSUME NEW d \in Nat PROVE d \in q .. l <=> Meets(a, b, s, d)
  BY <1>1, <1>3 DEF Meets
<1>6. Count(lo, lo + a, b) = l - q + 1
  BY <1>2 DEF Count
<1>7. ASSUME NEW d \in Nat
      PROVE  Cell(lo, lo + a, b, d) = [rank |-> d, size |-> Common(a, b, s, d)]
  BY <1>1 DEF Cell, Common
<1>8. Cells(lo, lo + a, b) = [n \in 1 .. l - q + 1 |-> [rank |-> q + (n - 1), size |-> Common(a, b, s, q + (n - 1))]]
  <2>1. Cells(lo, lo + a, b) = [n \in 1 .. l - q + 1 |-> Cell(lo, lo + a, b, q + (n - 1))]
    BY <1>2, <1>6 DEF Cells
  <2>2. \A n \in 1 .. l - q + 1 : q + (n - 1) \in Nat
    OBVIOUS
  <2> QED BY <1>7, <2>1, <2>2
<1>9. Lists(Cells(lo, lo + a, b), a, b, s, q, l)
  BY <1>4, <1>5, <1>8 DEF Lists
<1> QED BY <1>1, <1>9

LEMMA CommonSize ==
    ASSUME NEW a \in Nat \ {0}, NEW b \in Nat \ {0}, NEW s \in Nat, NEW d \in Nat, Meets(a, b, s, d)
    PROVE  Common(a, b, s, d) \in Nat \ {0} /\ Common(a, b, s, d) = Common(b, a, d, s)
<1>1. PICK x \in Nat, y \in Nat : x = s * a /\ y = d * b
  BY Times
<1> QED BY <1>1 DEF Meets, Common, Lesser, Greater

CellRec == [rank : Nat, size : Nat]
Pair(a, b, s, d) ==
    IF Meets(a, b, s, d) THEN <<[rank |-> s, size |-> Common(a, b, s, d)]>> ELSE <<>>

NamedPair(a, b, s, d) == Named(Cells(s * a, (s + 1) * a, b), s, d) = Pair(a, b, s, d)

LEMMA NamedIs ==
    ASSUME NEW a \in Nat \ {0}, NEW b \in Nat \ {0}, NEW s \in Nat, NEW d \in Nat
    PROVE  NamedPair(a, b, s, d)
<1>1. PICK to : to = Cells(s * a, (s + 1) * a, b)
  OBVIOUS
<1>0. PICK q \in Nat, l \in Nat : Lists(to, a, b, s, q, l)
  BY <1>1, CellsOf
<1>2. /\ q <= l
      /\ \A e \in Nat : e \in q .. l <=> Meets(a, b, s, e)
      /\ to = [n \in 1 .. l - q + 1 |-> [rank |-> q + (n - 1), size |-> Common(a, b, s, q + (n - 1))]]
  BY <1>0 DEF Lists
<1>3. PICK m \in Nat : m = l - q + 1
  BY <1>2
<1> DEFINE seq(n) == IF to[n].rank = d THEN <<[rank |-> s, size |-> to[n].size]>> ELSE <<>>
           seqs == [n \in 1 .. m |-> seq(n)]
<1>4. ASSUME NEW n \in 1 .. m
      PROVE  seq(n) = IF n = d - q + 1 THEN Pair(a, b, s, d) ELSE <<>>
  <2>1. to[n] = [rank |-> q + (n - 1), size |-> Common(a, b, s, q + (n - 1))]
    BY <1>2, <1>3
  <2>2. CASE n = d - q + 1
    <3>1. q + (n - 1) = d /\ d \in q .. l
      BY <1>3, <2>2
    <3>2. Meets(a, b, s, d)
      BY <1>2, <3>1
    <3> QED BY <2>1, <2>2, <3>1, <3>2 DEF Pair
  <2>3. CASE n # d - q + 1
    <3>1. q + (n - 1) # d
      BY <2>3
    <3> QED BY <2>1, <2>3, <3>1
  <2> QED BY <2>2, <2>3
<1>5. Pair(a, b, s, d) \in Seq(CellRec)
  <2>1. <<>> \in Seq(CellRec)
    OBVIOUS
  <2>2. CASE Meets(a, b, s, d)
    <3>1. [rank |-> s, size |-> Common(a, b, s, d)] \in CellRec
      BY <2>2, CommonSize DEF CellRec
    <3> QED BY <2>2, <3>1 DEF Pair
  <2> QED BY <2>1, <2>2 DEF Pair
<1>6. Named(to, s, d) = FlattenSeq(seqs)
  <2>1. DOMAIN to = 1 .. m
    BY <1>2, <1>3
  <2> QED BY <2>1 DEF Named
<1>7. seqs \in Seq(Seq(CellRec)) /\ Len(seqs) = m /\ \A n \in 1 .. m : seqs[n] = seq(n)
  <2>1. \A n \in 1 .. m : seq(n) \in Seq(CellRec)
    <3> HIDE DEF seq
    <3>1. <<>> \in Seq(CellRec)
      OBVIOUS
    <3> QED BY <1>4, <1>5, <3>1
  <2> HIDE DEF seq
  <2> QED BY <2>1
<1> HIDE DEF seqs, seq
<1>8. PICK f : Joins(f, seqs, CellRec) /\ FlattenSeq(seqs) = f[m]
  BY <1>7, FlattenIs
<1>9. f[0] = <<>> /\ \A n \in 1 .. m : f[n] = f[n - 1] \o seq(n)
  BY <1>7, <1>8 DEF Joins
<1> DEFINE V(n) == IF d \in q .. q + n - 1 THEN Pair(a, b, s, d) ELSE <<>>
           T == {n \in 0 .. m : f[n] = V(n)}
<1>10. 0 \in T
  BY <1>9
<1>11. ASSUME NEW n \in 1 .. m, n - 1 \in T PROVE n \in T
  <2>1. f[n] = V(n - 1) \o seq(n)
    BY <1>9, <1>11
  <2>2. CASE n = d - q + 1
    <3>1. d \in q .. q + n - 1 /\ d \notin q .. q + (n - 1) - 1
      BY <2>2
    <3>2. V(n - 1) = <<>> /\ V(n) = Pair(a, b, s, d)
      BY <3>1
    <3> HIDE DEF V
    <3>3. f[n] = <<>> \o Pair(a, b, s, d)
      BY <1>4, <2>1, <2>2, <3>2
    <3> QED BY <1>5, <3>2, <3>3
  <2>3. CASE n # d - q + 1
    <3>1. d \in q .. q + n - 1 <=> d \in q .. q + (n - 1) - 1
      BY <2>3
    <3>2. V(n - 1) = V(n) /\ V(n) \in Seq(CellRec)
      BY <1>5, <3>1
    <3> HIDE DEF V
    <3>3. f[n] = V(n) \o <<>>
      BY <1>4, <2>1, <2>3, <3>2
    <3> QED BY <3>2, <3>3
  <2> QED BY <2>2, <2>3
<1> HIDE DEF T
<1>12. \A n \in 0 .. m : n \in T
  BY <1>10, <1>11, Climb
<1>13. f[m] = V(m)
  BY <1>12 DEF T
<1>14. q + m - 1 = l
  BY <1>3
<1>15. V(m) = Pair(a, b, s, d)
  BY <1>2, <1>14 DEF Pair
<1> QED BY <1>1, <1>6, <1>8, <1>13, <1>15 DEF NamedPair

SrcCells(batch, srcSize, dstSize, d, a, b) ==
    SrcRanks(batch, srcSize, dstSize, d) = Cells(d * b, (d + 1) * b, a)

\* The two maps agree: a destination's sources are the destinations of a source that has its part.
LEMMA SrcRanksIs ==
    ASSUME NEW batch \in Nat, NEW srcSize \in Nat, NEW dstSize \in Nat, NEW d \in Nat, d < dstSize,
           NEW a \in Nat \ {0}, NEW b \in Nat \ {0}, a = batch \div srcSize, b = batch \div dstSize,
           srcSize * a = batch, dstSize * b = batch
    PROVE  SrcCells(batch, srcSize, dstSize, d, a, b)
<1>0. d \in Nat /\ d < dstSize
  OBVIOUS
<1>1. PICK to : to = Cells(d * b, (d + 1) * b, a)
  OBVIOUS
<1>2. PICK q \in Nat, l \in Nat : Lists(to, b, a, d, q, l)
  BY <1>0, <1>1, CellsOf
<1> DEFINE Entry(s) == [rank |-> s, size |-> Common(b, a, d, s)]
<1>3. /\ q <= l
      /\ \A s \in Nat : s \in q .. l <=> Meets(b, a, d, s)
      /\ to = [n \in 1 .. l - q + 1 |-> Entry(q + (n - 1))]
  BY <1>2 DEF Lists
<1> DEFINE seq(n) == Pair(a, b, n - 1, d)
           seqs == [n \in 1 .. srcSize |-> seq(n)]
<1>4. SrcRanks(batch, srcSize, dstSize, d) = FlattenSeq(seqs)
  <2>1. ASSUME NEW n \in 1 .. srcSize
        PROVE  Named(DstRanks(batch, srcSize, dstSize, n - 1), n - 1, d) = seq(n)
    <3>1. PICK s \in Nat : s = n - 1
      OBVIOUS
    <3> HIDE DEF seq
    <3>2. DstRanks(batch, srcSize, dstSize, s) = Cells(s * a, (s + 1) * a, b)
      BY DstRanksIs
    <3>3. Named(Cells(s * a, (s + 1) * a, b), s, d) = Pair(a, b, s, d)
      <4>1. NamedPair(a, b, s, d)
        BY <1>0, NamedIs
      <4> QED BY <4>1 DEF NamedPair
    <3> QED BY <3>1, <3>2, <3>3 DEF seq
  <2> HIDE DEF seq
  <2> QED BY <2>1 DEF SrcRanks
<1>5. ASSUME NEW n \in 1 .. srcSize
      PROVE  /\ seq(n) = IF n - 1 \in q .. l THEN <<Entry(n - 1)>> ELSE <<>>
             /\ seq(n) \in Seq(CellRec)
  <2>1. n - 1 \in Nat
    OBVIOUS
  <2>2. Meets(a, b, n - 1, d) <=> n - 1 \in q .. l
    <3>1. Meets(a, b, n - 1, d) <=> Meets(b, a, d, n - 1)
      BY DEF Meets
    <3> QED BY <1>3, <2>1, <3>1
  <2>3. CASE n - 1 \in q .. l
    <3>1. /\ Common(a, b, n - 1, d) \in Nat
          /\ Common(a, b, n - 1, d) = Common(b, a, d, n - 1)
      BY <2>1, <2>2, <2>3, CommonSize
    <3>2. seq(n) = <<Entry(n - 1)>>
      BY <2>2, <2>3, <3>1 DEF Pair
    <3>3. Entry(n - 1) \in CellRec
      BY <2>1, <3>1 DEF CellRec
    <3> HIDE DEF Entry, seq
    <3> QED BY <2>3, <3>2, <3>3
  <2>4. CASE n - 1 \notin q .. l
    <3>1. seq(n) = <<>>
      BY <2>2, <2>4 DEF Pair
    <3> HIDE DEF Entry, seq
    <3>2. <<>> \in Seq(CellRec)
      OBVIOUS
    <3> QED BY <2>4, <3>1, <3>2
  <2> QED BY <2>3, <2>4
<1> HIDE DEF seq, Entry
<1>6. seqs \in Seq(Seq(CellRec)) /\ Len(seqs) = srcSize /\ \A n \in 1 .. srcSize : seqs[n] = seq(n)
  BY <1>5
<1> HIDE DEF seqs
<1>7. PICK f : Joins(f, seqs, CellRec) /\ FlattenSeq(seqs) = f[srcSize]
  BY <1>6, FlattenIs
<1>8. f[0] = <<>> /\ \A n \in 1 .. srcSize : f[n] = f[n - 1] \o seq(n)
  BY <1>6, <1>7 DEF Joins
<1> DEFINE L(n) == IF n <= q THEN 0 ELSE IF n <= l + 1 THEN n - q ELSE l - q + 1
           V(n) == [i \in 1 .. L(n) |-> Entry(q + (i - 1))]
           T == {n \in 0 .. srcSize : f[n] = V(n)}
<1>9. 0 \in T
  <2>1. L(0) = 0
    OBVIOUS
  <2>2. V(0) = <<>>
    BY <2>1
  <2> QED BY <1>8, <2>2
<1>10. ASSUME NEW n \in 1 .. srcSize, n - 1 \in T PROVE n \in T
  <2>1. f[n] = V(n - 1) \o seq(n)
    BY <1>8, <1>10
  <2>2. CASE n - 1 \in q .. l
    <3>1. PICK k \in Nat : k = n - 1 - q /\ L(n - 1) = k /\ L(n) = k + 1
      <4>1. n - 1 - q \in Nat /\ L(n - 1) = n - 1 - q /\ L(n) = (n - 1 - q) + 1
        BY <1>3, <2>2
      <4> QED BY <4>1
    <3>2. n - 1 = q + ((k + 1) - 1)
      BY <3>1
    <3>3. [i \in 1 .. k |-> Entry(q + (i - 1))] \o <<Entry(q + ((k + 1) - 1))>>
             = [i \in 1 .. k + 1 |-> Entry(q + (i - 1))]
      <4> DEFINE G(i) == Entry(q + (i - 1))
      <4>1. [i \in 1 .. k |-> G(i)] \o <<G(k + 1)>> = [i \in 1 .. k + 1 |-> G(i)]
        <5> HIDE DEF G
        <5> QED OBVIOUS
      <4> QED BY <4>1
    <3>4. f[n] = V(n)
      BY <1>5, <2>1, <2>2, <3>1, <3>2, <3>3
    <3> QED BY <3>4
  <2>3. CASE n - 1 \notin q .. l
    <3>1. PICK k \in Nat : L(n - 1) = k /\ L(n) = k
      <4>1. L(n - 1) \in Nat /\ L(n) = L(n - 1)
        BY <1>3, <2>3
      <4> QED BY <4>1
    <3>2. [i \in 1 .. k |-> Entry(q + (i - 1))] \o <<>> = [i \in 1 .. k |-> Entry(q + (i - 1))]
      <4> DEFINE G(i) == Entry(q + (i - 1))
      <4>1. [i \in 1 .. k |-> G(i)] \o <<>> = [i \in 1 .. k |-> G(i)]
        <5> HIDE DEF G
        <5> QED OBVIOUS
      <4> QED BY <4>1
    <3>3. f[n] = V(n)
      BY <1>5, <2>1, <2>3, <3>1, <3>2
    <3> QED BY <3>3
  <2> QED BY <2>2, <2>3
<1> HIDE DEF T
<1>11. \A n \in 0 .. srcSize : n \in T
  BY <1>9, <1>10, Climb
<1>12. f[srcSize] = V(srcSize)
  BY <1>11 DEF T
<1>13. L(srcSize) = l - q + 1
  <2>1. l \in q .. l
    BY <1>3
  <2>2. l * a < d * b + b
    BY <1>3, <2>1 DEF Meets
  <2>3. d * b + b <= batch
    <3>1. d * b + b <= dstSize * b
      BY <1>0, Times
    <3> QED BY <3>1
  <2>4. l < srcSize
    <3>1. srcSize <= l => srcSize * a <= l * a
      BY Times
    <3>2. l * a \in Nat /\ d * b \in Nat
      BY <1>0, Times
    <3> QED BY <2>2, <2>3, <3>1, <3>2
  <2> QED BY <1>3, <2>4
<1>14. V(srcSize) = to
  BY <1>3, <1>13
<1> QED BY <1>1, <1>4, <1>7, <1>12, <1>14 DEF SrcCells

\* The cells that cell s meets: each once, in order, and all of s is in them.
Shares(parts, total, size) ==
    /\ parts \in Seq(CellRec) /\ Sized(parts)
    /\ Before(parts, Len(parts) + 1) = total
    /\ \A n \in 1 .. Len(parts) : parts[n].rank \in 0 .. size - 1 /\ parts[n].size > 0
    /\ \A n, k \in 1 .. Len(parts) : n # k => parts[n].rank # parts[k].rank

LEMMA CellsShares ==
    ASSUME NEW a \in Nat \ {0}, NEW b \in Nat \ {0}, NEW s \in Nat, NEW size \in Nat, s * a + a <= size * b
    PROVE  Shares(Cells(s * a, (s + 1) * a, b), a, size)
<1>1. PICK to : to = Cells(s * a, (s + 1) * a, b)
  OBVIOUS
<1>2. PICK q \in Nat, l \in Nat : Lists(to, a, b, s, q, l)
  BY <1>1, CellsOf
<1>3. /\ q <= l
      /\ \A e \in Nat : e \in q .. l <=> Meets(a, b, s, e)
      /\ to = [n \in 1 .. l - q + 1 |-> [rank |-> q + (n - 1), size |-> Common(a, b, s, q + (n - 1))]]
  BY <1>2 DEF Lists
<1>4. PICK m \in Nat : m = l - q + 1 /\ m > 0
  BY <1>3
<1>5. PICK lo \in Nat : lo = s * a /\ lo + a <= size * b
  BY Times
<1>6. ASSUME NEW n \in 1 .. m
      PROVE  \E d \in Nat : /\ d = q + (n - 1) /\ Meets(a, b, s, d)
                            /\ to[n] \in CellRec /\ to[n].rank = d /\ to[n].size = Common(a, b, s, d)
                            /\ to[n].size > 0 /\ d < size
  <2>1. PICK d \in Nat : d = q + (n - 1) /\ d \in q .. l
    <3>1. q + (n - 1) \in Nat /\ q + (n - 1) \in q .. l
      BY <1>4
    <3> QED BY <3>1
  <2>2. Meets(a, b, s, d)
    BY <1>3, <2>1
  <2>3. to[n] = [rank |-> d, size |-> Common(a, b, s, d)]
    BY <1>3, <1>4, <2>1
  <2>4. Common(a, b, s, d) \in Nat \ {0}
    BY <2>2, CommonSize
  <2>5. d < size
    <3>1. d * b < lo + a
      BY <1>5, <2>2 DEF Meets
    <3>2. size <= d => size * b <= d * b
      BY Times
    <3>3. d * b \in Nat /\ size * b \in Nat
      BY Times
    <3> QED BY <1>5, <3>1, <3>2, <3>3
  <2>6. to[n] \in CellRec /\ to[n].rank = d /\ to[n].size = Common(a, b, s, d) /\ to[n].size > 0
    BY <2>3, <2>4 DEF CellRec
  <2> QED BY <2>1, <2>2, <2>5, <2>6
<1>60. ASSUME NEW n \in 1 .. m
       PROVE  /\ to[n] \in CellRec /\ to[n].rank = q + (n - 1) /\ to[n].rank \in 0 .. size - 1
              /\ to[n].size \in Nat /\ to[n].size > 0
  <2>1. PICK d \in Nat : /\ d = q + (n - 1) /\ to[n] \in CellRec /\ to[n].rank = d
                        /\ to[n].size > 0 /\ d < size
    BY <1>6
  <2> QED BY <2>1 DEF CellRec
<1>7. to \in Seq(CellRec) /\ Len(to) = m
  <2>1. ASSUME NEW n \in 1 .. m PROVE to[n] \in CellRec
    BY <1>60
  <2>2. to = [n \in 1 .. m |-> to[n]]
    BY <1>3, <1>4
  <2> QED BY SMTT(60), <2>1, <2>2
<1>8. Sized(to)
  BY <1>60, <1>7 DEF Sized
<1>9. \A n, k \in 1 .. m : n # k => to[n].rank # to[k].rank
  <2>1. \A n \in 1 .. m : to[n].rank = q + (n - 1)
    BY <1>60
  <2> QED BY <2>1
<1>10. q * b <= lo /\ q * b \in Nat
  <2>1. CASE q = 0
    BY <2>1
  <2>2. CASE q # 0
    <3>1. PICK e \in Nat : q = e + 1 /\ e \notin q .. l
      <4>1. q - 1 \in Nat /\ q = (q - 1) + 1 /\ q - 1 \notin q .. l
        BY <2>2
      <4> QED BY <4>1
    <3>2. ~Meets(a, b, s, e)
      BY <1>3, <3>1
    <3>3. q * b = e * b + b /\ e * b \in Nat
      BY <3>1, Times
    <3>4. q * b < lo + a
      <4>1. Meets(a, b, s, q)
        BY <1>3
      <4> QED BY <1>5, <4>1 DEF Meets
    <3> QED BY <1>5, <3>2, <3>3, <3>4 DEF Meets
  <2> QED BY <2>1, <2>2
<1>11. lo + a <= l * b + b /\ l * b \in Nat
  <2>1. ~Meets(a, b, s, l + 1)
    BY <1>3
  <2>2. (l + 1) * b = l * b + b /\ l * b \in Nat
    BY Times
  <2>3. lo < l * b + b
    <3>1. Meets(a, b, s, l)
      BY <1>3
    <3> QED BY <1>5, <3>1 DEF Meets
  <2> QED BY <1>5, <2>1, <2>2, <2>3 DEF Meets
<1>12. /\ Before(to, 1) = 0
       /\ \A n \in 1 .. m : /\ Before(to, n) \in Nat /\ Before(to, n + 1) \in Nat
                            /\ Before(to, n + 1) = Before(to, n) + to[n].size
  BY <1>7, <1>8, BeforeFacts
<1> DEFINE V(n) == IF n = 0 THEN 0 ELSE Lesser(lo + a, (q + (n - 1)) * b + b) - lo
           T == {n \in 0 .. m : Before(to, n + 1) = V(n)}
<1>13. 0 \in T
  BY <1>12
<1>14. ASSUME NEW n \in 1 .. m, n - 1 \in T PROVE n \in T
  <2>1. PICK d \in Nat, e \in Nat : d = q + (n - 1) /\ e = d * b
    <3>1. q + (n - 1) \in Nat
      OBVIOUS
    <3> QED BY <3>1, Times
  <2>0. Meets(a, b, s, d) /\ to[n].size = Common(a, b, s, d)
    BY <1>6, <2>1
  <2>2. lo < e + b /\ e < lo + a
    BY <1>5, <2>0, <2>1 DEF Meets
  <2>3. to[n].size = Lesser(lo + a, e + b) - Greater(lo, e)
    BY <1>5, <2>0, <2>1 DEF Common
  <2>4. Before(to, n) = V(n - 1)
    BY <1>14
  <2>5. V(n - 1) = Greater(lo, e) - lo
    <3>1. CASE n = 1
      BY <1>10, <2>1, <3>1 DEF Greater
    <3>2. CASE n # 1
      <4>1. PICK p \in Nat : p = q + ((n - 1) - 1) /\ d = p + 1
        BY <2>1, <3>2
      <4>2. e = p * b + b /\ p * b \in Nat
        BY <2>1, <4>1, Times
      <4>3. V(n - 1) = Lesser(lo + a, e) - lo
        BY <3>2, <4>1, <4>2
      <4>4. q * b + b <= e
        <5>1. q < d
          BY <2>1, <3>2
        <5> QED BY <2>1, <5>1, Times
      <4>5. lo < q * b + b
        <5>1. Meets(a, b, s, q)
          BY <1>3
        <5> QED BY <1>5, <5>1 DEF Meets
      <4>6. Greater(lo, e) = e /\ Lesser(lo + a, e) = e
        BY <1>10, <2>2, <4>4, <4>5 DEF Greater, Lesser
      <4> QED BY <4>3, <4>6
    <3> QED BY <3>1, <3>2
  <2>6. V(n) = Lesser(lo + a, e + b) - lo
    BY <2>1
  <2> HIDE DEF V
  <2>7. Before(to, n + 1) = V(n)
    BY <1>12, <2>2, <2>3, <2>4, <2>5, <2>6 DEF Greater, Lesser
  <2> QED BY <2>7
<1> HIDE DEF T
<1>15. \A n \in 0 .. m : n \in T
  BY <1>13, <1>14, Climb
<1>16. Before(to, m + 1) = V(m)
  BY <1>15 DEF T
<1>17. V(m) = a
  <2>1. q + (m - 1) = l
    BY <1>4
  <2>2. V(m) = Lesser(lo + a, l * b + b) - lo
    BY <1>4, <2>1
  <2> QED BY <1>11, <2>2 DEF Lesser
<1> HIDE DEF V
<1> QED BY <1>1, <1>60, <1>7, <1>8, <1>9, <1>16, <1>17 DEF Shares

-----------------------------------------------------------------------------
(* The maps of the ranks of a job.                                           *)

LEMMA JobFacts ==
    ASSUME NEW c \in Configs, Validated(c), Mapped(c)
    PROVE  \E a \in Nat \ {0}, b \in Nat \ {0} :
              /\ a = PerWorker(c) /\ a = StageBatch(c) \div c.envWorkers
              /\ b = StageBatch(c) \div c.rolloutWorkers
              /\ StageBatch(c) \in Nat
              /\ c.envWorkers * a = StageBatch(c) /\ c.rolloutWorkers * b = StageBatch(c)
<1>1. /\ c.numEnvs \in Nat /\ c.envWorkers \in Nat \ {0} /\ c.rolloutWorkers \in Nat \ {0}
      /\ c.stages \in Nat \ {0}
  BY ConfigsAssumption DEF JobType
<1>2. PICK n \in Nat, E \in Nat \ {0}, R \in Nat \ {0}, S \in Nat \ {0} :
        n = c.numEnvs /\ E = c.envWorkers /\ R = c.rolloutWorkers /\ S = c.stages
  BY <1>1
<1>3. PICK x \in Nat, y \in Nat : x = n \div S /\ y = n \div E
  BY DivIs
<1>4. PICK a \in Nat, b \in Nat, p \in Nat : a = x \div E /\ b = x \div R /\ p = y \div S
  BY DivIs
<1>5. x % E = 0 /\ x % R = 0 /\ p > 0 /\ x = StageBatch(c) /\ p = PerWorker(c)
  BY <1>2, <1>3, <1>4 DEF Validated, Mapped, Divides, StageBatch, PerWorker
<1>6. x = E * a /\ x = R * b
  BY <1>4, <1>5
<1>7. p = a
  <2>1. PICK k \in Nat : k = a * S /\ x * S = k * E
    <3>1. a * S \in Nat /\ (E * a) * S = (a * S) * E
      OBVIOUS
    <3> QED BY <1>6, <3>1
  <2>2. x * S <= n /\ n < x * S + S /\ y * E <= n /\ n < y * E + E
    BY <1>3, DivIs
  <2>3. y < k => y * E + E <= k * E
    BY Times
  <2>4. k + S <= y => (k + S) * E <= y * E
    BY Times
  <2>5. (k + S) * E = k * E + S * E /\ S <= S * E /\ S * E \in Nat /\ k * E \in Nat /\ y * E \in Nat
    <3>1. (k + S) * E = k * E + S * E /\ S * E \in Nat /\ k * E \in Nat /\ y * E \in Nat
      OBVIOUS
    <3>2. S <= S * E
      <4>1. PICK z \in Nat : E = z + 1
        <5>1. E - 1 \in Nat /\ E = (E - 1) + 1
          OBVIOUS
        <5> QED BY <5>1
      <4>2. S * (z + 1) = S * z + S /\ S * z \in Nat
        OBVIOUS
      <4> QED BY <4>1, <4>2
    <3> QED BY <3>1, <3>2
  <2>6. k <= y /\ y < k + S
    BY <2>1, <2>2, <2>3, <2>4, <2>5
  <2> QED BY <1>4, <2>1, <2>6, IsDiv
<1>8. b # 0
  <2>1. E * a # 0
    BY <1>5, <1>7
  <2> QED BY <1>6, <2>1
<1> QED BY <1>2, <1>4, <1>5, <1>6, <1>7, <1>8

\* What the workers know of each other.
Maps(c, map) ==
    /\ \A e \in 0 .. c.envWorkers - 1 :
          /\ map.fromRollout[e] = map.toRollout[e]
          /\ Shares(map.toRollout[e], PerWorker(c), c.rolloutWorkers)
    /\ \A r \in 0 .. c.rolloutWorkers - 1 :
          /\ map.fromEnv[r] = map.toEnv[r]
          /\ Shares(map.toEnv[r], StageBatch(c) \div c.rolloutWorkers, c.envWorkers)

LEMMA MapsAgree ==
    ASSUME NEW c \in Configs, Validated(c), Mapped(c)
    PROVE  Maps(c, RankMaps(c))
<1>1. /\ c.envWorkers \in Nat \ {0} /\ c.rolloutWorkers \in Nat \ {0}
  BY ConfigsAssumption DEF JobType
<1>2. PICK a \in Nat \ {0}, b \in Nat \ {0} :
        /\ a = PerWorker(c) /\ a = StageBatch(c) \div c.envWorkers /\ b = StageBatch(c) \div c.rolloutWorkers
        /\ StageBatch(c) \in Nat
        /\ c.envWorkers * a = StageBatch(c) /\ c.rolloutWorkers * b = StageBatch(c)
  BY JobFacts
<1>3. PICK batch \in Nat, E \in Nat \ {0}, R \in Nat \ {0} :
        /\ batch = StageBatch(c) /\ E = c.envWorkers /\ R = c.rolloutWorkers
        /\ a = batch \div E /\ b = batch \div R /\ E * a = batch /\ R * b = batch
  BY <1>1, <1>2
<1> DEFINE map == RankMaps(c)
<1>4. ASSUME NEW e \in 0 .. E - 1
      PROVE  map.fromRollout[e] = map.toRollout[e] /\ Shares(map.toRollout[e], a, R)
  <2>1. e \in Nat /\ e < E
    OBVIOUS
  <2>2. map.toRollout[e] = DstRanks(batch, E, R, e) /\ map.fromRollout[e] = SrcRanks(batch, R, E, e)
    BY <1>3 DEF RankMaps
  <2>3. DstRanks(batch, E, R, e) = Cells(e * a, (e + 1) * a, b)
    BY <1>3, <2>1, DstRanksIs
  <2>4. SrcRanks(batch, R, E, e) = Cells(e * a, (e + 1) * a, b)
    <3>1. SrcCells(batch, R, E, e, b, a)
      BY <1>3, <2>1, SrcRanksIs
    <3> QED BY <3>1 DEF SrcCells
  <2>5. e * a + a <= R * b
    <3>1. e * a + a <= E * a
      BY <2>1, Times
    <3> QED BY <1>3, <3>1
  <2>6. Shares(Cells(e * a, (e + 1) * a, b), a, R)
    BY <2>1, <2>5, CellsShares
  <2> QED BY <2>2, <2>3, <2>4, <2>6
<1>5. ASSUME NEW r \in 0 .. R - 1
      PROVE  map.fromEnv[r] = map.toEnv[r] /\ Shares(map.toEnv[r], b, E)
  <2>1. r \in Nat /\ r < R
    OBVIOUS
  <2>2. map.toEnv[r] = DstRanks(batch, R, E, r) /\ map.fromEnv[r] = SrcRanks(batch, E, R, r)
    BY <1>3 DEF RankMaps
  <2>3. DstRanks(batch, R, E, r) = Cells(r * b, (r + 1) * b, a)
    BY <1>3, <2>1, DstRanksIs
  <2>4. SrcRanks(batch, E, R, r) = Cells(r * b, (r + 1) * b, a)
    <3>1. SrcCells(batch, E, R, r, a, b)
      BY <1>3, <2>1, SrcRanksIs
    <3> QED BY <3>1 DEF SrcCells
  <2>5. r * b + b <= E * a
    <3>1. r * b + b <= R * b
      BY <2>1, Times
    <3> QED BY <1>3, <3>1
  <2>6. Shares(Cells(r * b, (r + 1) * b, a), b, E)
    BY <2>1, <2>5, CellsShares
  <2> QED BY <2>2, <2>3, <2>4, <2>6
<1> HIDE DEF map
<1> QED BY <1>2, <1>3, <1>4, <1>5 DEF Maps, map

-----------------------------------------------------------------------------
(* The way of the shards of one env worker through one rollout worker.       *)

LEMMA Shorter ==
    ASSUME NEW T, NEW s \in Seq(T), s # <<>>
    PROVE  \E k \in Nat : /\ Len(s) = k + 1 /\ Tail(s) \in Seq(T) /\ Len(Tail(s)) = k
                          /\ \A i \in 1 .. k : Tail(s)[i] = s[i + 1]
                          /\ Head(s) = s[1] /\ Head(s) \in T
<1>1. /\ Head(s) \in T /\ Tail(s) \in Seq(T) /\ Len(Tail(s)) = Len(s) - 1 
      /\ \A i \in 1 .. Len(Tail(s)) : Tail(s)[i] = s[i + 1]
  BY SMTT(60), HeadTailProperties
<1>2. PICK k \in Nat : Len(s) = k + 1
  <2>1. Len(s) \in Nat \ {0}
    BY EmptySeq
  <2>2. Len(s) - 1 \in Nat /\ Len(s) = (Len(s) - 1) + 1
    BY <2>1
  <2> QED BY <2>2
<1>3. Len(Tail(s)) = k
  BY <1>1, <1>2
<1>4. Head(s) = s[1]
  OBVIOUS
<1> QED BY <1>1, <1>2, <1>3, <1>4

Joins2(s, t, u, T, k, h) ==
    /\ Len(s) = k /\ Len(t) = h /\ u = s \o t /\ u \in Seq(T) /\ Len(u) = k + h
    /\ \A i \in 1 .. k : u[i] = s[i]
    /\ \A i \in 1 .. h : u[k + i] = t[i]

LEMMA Joined ==
    ASSUME NEW T, NEW s \in Seq(T), NEW t \in Seq(T), NEW k, NEW h, Len(s) = k, Len(t) = h
    PROVE  Joins2(s, t, s \o t, T, k, h)
<1>1. /\ s \o t \in Seq(T) /\ Len(s \o t) = Len(s) + Len(t)
      /\ \A i \in 1 .. Len(s) + Len(t) : (s \o t)[i] = IF i <= Len(s) THEN s[i] ELSE t[i - Len(s)]
  BY ConcatProperties
<1>2. k \in Nat /\ h \in Nat
  BY LenProperties
<1>3. ASSUME NEW i \in 1 .. k PROVE (s \o t)[i] = s[i]
  <2>1. i \in 1 .. k + h /\ i <= k
    BY <1>2
  <2> QED BY <1>1, <1>2, <2>1
<1>4. ASSUME NEW i \in 1 .. h PROVE (s \o t)[k + i] = t[i]
  <2>1. k + i \in 1 .. k + h /\ ~(k + i <= k) /\ (k + i) - k = i
    BY <1>2
  <2> QED BY <1>1, <1>2, <2>1
<1> QED BY <1>1, <1>2, <1>3, <1>4 DEF Joins2

Observation == Mode \X Nat \X Nat \X Nat
Reply == [to : Observation, version : Int]
Questions(answer) == [j \in 1 .. Len(answer) |-> answer[j].to]

\* The n-th shards of the batches that wait for an answer: those answered, then those asked.
Flows(answers, asked, pend, parts, n) ==
    /\ answers \in Seq(Seq(Reply)) /\ asked \in Seq(Seq(Observation)) /\ pend \in Seq(Seq(Observation))
    /\ Len(answers) + Len(asked) = Len(pend)
    /\ \A i \in 1 .. Len(answers) : Questions(answers[i]) = Split(pend[i], parts)[n]
    /\ \A i \in 1 .. Len(asked) : asked[i] = Split(pend[Len(answers) + i], parts)[n]

Flowing(answers, asked, pend, parts, n, k, l) ==
    /\ answers \in Seq(Seq(Reply)) /\ asked \in Seq(Seq(Observation)) /\ pend \in Seq(Seq(Observation))
    /\ Len(answers) = k /\ Len(asked) = l /\ Len(pend) = k + l
    /\ \A i \in 1 .. k : Questions(answers[i]) = Split(pend[i], parts)[n]
    /\ \A i \in 1 .. l : asked[i] = Split(pend[k + i], parts)[n]

LEMMA FlowLens ==
    ASSUME NEW answers, NEW asked, NEW pend, NEW parts, NEW n, Flows(answers, asked, pend, parts, n)
    PROVE  \E k \in Nat, l \in Nat : Flowing(answers, asked, pend, parts, n, k, l)
<1>1. /\ answers \in Seq(Seq(Reply)) /\ asked \in Seq(Seq(Observation)) /\ pend \in Seq(Seq(Observation))
      /\ Len(answers) + Len(asked) = Len(pend)
      /\ \A i \in 1 .. Len(answers) : Questions(answers[i]) = Split(pend[i], parts)[n]
      /\ \A i \in 1 .. Len(asked) : asked[i] = Split(pend[Len(answers) + i], parts)[n]
  BY DEF Flows
<1>2. PICK k \in Nat, l \in Nat : k = Len(answers) /\ l = Len(asked)
  <2>1. Len(answers) \in Nat /\ Len(asked) \in Nat
    BY <1>1, LenProperties
  <2> QED BY <2>1
<1> QED BY <1>1, <1>2 DEF Flowing

LEMMA LensFlow ==
    ASSUME NEW parts, NEW n, NEW k \in Nat, NEW l \in Nat, NEW answers, NEW asked, NEW pend,
           Flowing(answers, asked, pend, parts, n, k, l)
    PROVE  Flows(answers, asked, pend, parts, n)
<1> USE DEF Flowing
<1>1. \A i \in 1 .. Len(answers) : Questions(answers[i]) = Split(pend[i], parts)[n]
  OBVIOUS
<1>2. \A i \in 1 .. Len(asked) : asked[i] = Split(pend[Len(answers) + i], parts)[n]
  OBVIOUS
<1>3. Len(answers) + Len(asked) = Len(pend)
  OBVIOUS
<1> QED BY <1>1, <1>2, <1>3 DEF Flows

\* An answer is received.
LEMMA FlowTake ==
    ASSUME NEW answers, NEW asked, NEW pend, NEW parts, NEW n,
           Flows(answers, asked, pend, parts, n), answers # <<>>
    PROVE  Flows(Tail(answers), asked, Tail(pend), parts, n)
<1>0. PICK m \in Nat, l \in Nat : Flowing(answers, asked, pend, parts, n, m, l)
  BY FlowLens
<1>1. /\ answers \in Seq(Seq(Reply)) /\ asked \in Seq(Seq(Observation)) /\ pend \in Seq(Seq(Observation))
      /\ Len(answers) = m /\ Len(asked) = l /\ Len(pend) = m + l
      /\ \A i \in 1 .. m : Questions(answers[i]) = Split(pend[i], parts)[n]
      /\ \A i \in 1 .. l : asked[i] = Split(pend[m + i], parts)[n]
  BY <1>0 DEF Flowing
<1>3. PICK k \in Nat : /\ Len(answers) = k + 1 /\ Tail(answers) \in Seq(Seq(Reply)) /\ Len(Tail(answers)) = k
      /\ \A i \in 1 .. k : Tail(answers)[i] = answers[i + 1]
  BY <1>1, Shorter
<1>2. m = k + 1
  BY <1>1, <1>3
<1>4. /\ Tail(pend) \in Seq(Seq(Observation)) /\ Len(Tail(pend)) = k + l
      /\ \A i \in 1 .. k + l : Tail(pend)[i] = pend[i + 1]
  <2>1. pend # <<>>
    BY <1>1, <1>2, EmptySeq
  <2>2. PICK h \in Nat : /\ Len(pend) = h + 1 /\ Tail(pend) \in Seq(Seq(Observation)) /\ Len(Tail(pend)) = h
      /\ \A i \in 1 .. h : Tail(pend)[i] = pend[i + 1]
    BY <1>1, <2>1, Shorter
  <2>3. h = k + l
    BY <1>1, <1>2, <2>2
  <2> QED BY <2>2, <2>3
<1>5. ASSUME NEW i \in 1 .. k PROVE Questions(Tail(answers)[i]) = Split(Tail(pend)[i], parts)[n]
  <2>1. i + 1 \in 1 .. m /\ i \in 1 .. k + l
    BY <1>2
  <2> QED BY <1>1, <1>3, <1>4, <2>1
<1>6. ASSUME NEW i \in 1 .. l PROVE asked[i] = Split(Tail(pend)[k + i], parts)[n]
  <2>1. k + i \in 1 .. k + l /\ (k + i) + 1 = m + i /\ i \in 1 .. l
    BY <1>2
  <2> QED BY ZenonT(60), <1>1, <1>4, <2>1
<1>7. Flowing(Tail(answers), asked, Tail(pend), parts, n, k, l)
  BY <1>1, <1>3, <1>4, <1>5, <1>6 DEF Flowing
<1> QED BY <1>7, LensFlow

\* New batches are sent.
LEMMA FlowSend ==
    ASSUME NEW answers, NEW asked, NEW pend, NEW parts, NEW n, NEW new \in Seq(Seq(Observation)), NEW more,
           Flows(answers, asked, pend, parts, n),
           more \in Seq(Seq(Observation)), Len(more) = Len(new),
           \A b \in 1 .. Len(new) : more[b] = Split(new[b], parts)[n]
    PROVE  Flows(answers, asked \o more, pend \o new, parts, n)
<1>0. PICK k \in Nat, l \in Nat : Flowing(answers, asked, pend, parts, n, k, l)
  BY FlowLens
<1>1. /\ answers \in Seq(Seq(Reply)) /\ asked \in Seq(Seq(Observation)) /\ pend \in Seq(Seq(Observation))
      /\ Len(answers) = k /\ Len(asked) = l /\ Len(pend) = k + l
      /\ \A i \in 1 .. k : Questions(answers[i]) = Split(pend[i], parts)[n]
      /\ \A i \in 1 .. l : asked[i] = Split(pend[k + i], parts)[n]
  BY <1>0 DEF Flowing
<1>2. PICK h \in Nat : h = Len(new) /\ h = Len(more)
  <2>1. Len(new) \in Nat
    BY LenProperties
  <2> QED BY <2>1
<1> DEFINE asks == asked \o more
           pends == pend \o new
<1>3. /\ asks \in Seq(Seq(Observation)) /\ Len(asks) = l + h
      /\ \A i \in 1 .. l : asks[i] = asked[i]
      /\ \A i \in 1 .. h : asks[l + i] = more[i]
  <2>1. Joins2(asked, more, asks, Seq(Observation), l, h)
    BY <1>1, <1>2, Joined
  <2> HIDE DEF asks
  <2> QED BY <2>1 DEF Joins2
<1>4. /\ pends \in Seq(Seq(Observation)) /\ Len(pends) = (k + l) + h
      /\ \A i \in 1 .. k + l : pends[i] = pend[i]
      /\ \A i \in 1 .. h : pends[(k + l) + i] = new[i]
  <2>1. Joins2(pend, new, pends, Seq(Observation), k + l, h)
    BY <1>1, <1>2, Joined
  <2> HIDE DEF pends
  <2> QED BY <2>1 DEF Joins2
<1> HIDE DEF asks, pends
<1>5. ASSUME NEW i \in 1 .. k PROVE Questions(answers[i]) = Split(pends[i], parts)[n]
  <2>1. i \in 1 .. k + l
    OBVIOUS
  <2> QED BY <1>1, <1>4, <2>1
<1>6. ASSUME NEW i \in 1 .. l + h PROVE asks[i] = Split(pends[k + i], parts)[n]
  <2>1. CASE i \in 1 .. l
    <3>1. k + i \in 1 .. k + l
      BY <2>1
    <3> QED BY ZenonT(60), <1>1, <1>3, <1>4, <2>1, <3>1
  <2>2. CASE i \notin 1 .. l
    <3>1. PICK j \in 1 .. h : i = l + j /\ k + i = (k + l) + j
      <4>1. i - l \in 1 .. h /\ i = l + (i - l) /\ k + i = (k + l) + (i - l)
        BY <2>2
      <4> QED BY <4>1
    <3>2. asks[i] = more[j] /\ pends[k + i] = new[j]
      BY <1>3, <1>4, <3>1
    <3>3. more[j] = Split(new[j], parts)[n]
      BY <1>2
    <3> QED BY <3>2, <3>3
  <2> QED BY <2>1, <2>2
<1>7. (k + l) + h = k + (l + h) /\ l + h \in Nat
  OBVIOUS
<1>8. Flowing(answers, asks, pends, parts, n, k, l + h)
  BY <1>1, <1>3, <1>4, <1>5, <1>6, <1>7 DEF Flowing
<1> QED BY <1>7, <1>8, LensFlow DEF asks, pends

\* The rollout worker answers the first shard it was asked for.
LEMMA FlowAnswer ==
    ASSUME NEW answers, NEW asked, NEW pend, NEW parts, NEW n, NEW x \in Seq(Reply),
           Flows(answers, asked, pend, parts, n), asked # <<>>, Questions(x) = Head(asked)
    PROVE  Flows(answers \o <<x>>, Tail(asked), pend, parts, n)
<1>0. PICK k \in Nat, m \in Nat : Flowing(answers, asked, pend, parts, n, k, m)
  BY FlowLens
<1>1. /\ answers \in Seq(Seq(Reply)) /\ asked \in Seq(Seq(Observation)) /\ pend \in Seq(Seq(Observation))
      /\ Len(answers) = k /\ Len(asked) = m /\ Len(pend) = k + m
      /\ \A i \in 1 .. k : Questions(answers[i]) = Split(pend[i], parts)[n]
      /\ \A i \in 1 .. m : asked[i] = Split(pend[k + i], parts)[n]
  BY <1>0 DEF Flowing
<1>2. PICK l \in Nat : /\ Len(asked) = l + 1 /\ Tail(asked) \in Seq(Seq(Observation)) /\ Len(Tail(asked)) = l
                       /\ \A i \in 1 .. l : Tail(asked)[i] = asked[i + 1]
                       /\ Head(asked) = asked[1]
  BY <1>1, Shorter
<1>3. m = l + 1
  BY <1>1, <1>2
<1>4. /\ answers \o <<x>> \in Seq(Seq(Reply)) /\ Len(answers \o <<x>>) = k + 1
      /\ \A i \in 1 .. k : (answers \o <<x>>)[i] = answers[i]
      /\ (answers \o <<x>>)[k + 1] = x
  <2>1. /\ Append(answers, x) \in Seq(Seq(Reply)) /\ Len(Append(answers, x)) = Len(answers) + 1
        /\ \A i \in 1 .. Len(answers) : Append(answers, x)[i] = answers[i]
        /\ Append(answers, x)[Len(answers) + 1] = x
    BY <1>1, AppendProperties
  <2>2. Append(answers, x) = answers \o <<x>>
    BY <1>1, AppendIsConcat
  <2> QED BY <1>1, <2>1, <2>2
<1>5. ASSUME NEW i \in 1 .. k + 1 PROVE Questions((answers \o <<x>>)[i]) = Split(pend[i], parts)[n]
  <2>1. CASE i \in 1 .. k
    BY <1>1, <1>4, <2>1
  <2>2. CASE i \notin 1 .. k
    <3>1. i = k + 1 /\ 1 \in 1 .. m
      BY <1>3, <2>2
    <3>2. asked[1] = Split(pend[k + 1], parts)[n]
      BY <1>1, <3>1
    <3> QED BY <1>2, <1>4, <3>1, <3>2
  <2> QED BY <2>1, <2>2
<1>6. ASSUME NEW i \in 1 .. l PROVE Tail(asked)[i] = Split(pend[(k + 1) + i], parts)[n]
  <2>1. i + 1 \in 1 .. m /\ k + (i + 1) = (k + 1) + i
    BY <1>3
  <2> QED BY <1>1, <1>2, <2>1
<1>7. k + m = (k + 1) + l /\ k + 1 \in Nat
  BY <1>3
<1>8. Flowing(answers \o <<x>>, Tail(asked), pend, parts, n, k + 1, l)
  BY <1>1, <1>2, <1>4, <1>5, <1>6, <1>7 DEF Flowing
<1> QED BY <1>7, <1>8, LensFlow

-----------------------------------------------------------------------------
(* The stages take turns.                                                    *)

InTurn(S, first, i) == IF first + i - 1 <= S THEN first + i - 1 ELSE first + i - 1 - S
NextOf(S, s) == IF s < S THEN s + 1 ELSE 1
Waiting(view, S, first, count) == [i \in 1 .. count |-> view[InTurn(S, first, i)]]

OfStages(S, X) == [1 .. S -> X]

LEMMA WaitType ==
    ASSUME NEW S \in Nat \ {0}, NEW first \in 1 .. S, NEW count \in 0 .. S, NEW X, NEW view \in OfStages(S, X)
    PROVE  /\ Waiting(view, S, first, count) \in Seq(X) /\ Len(Waiting(view, S, first, count)) = count
           /\ count > 0 => Waiting(view, S, first, count)[1] = view[first]
<1>1. \A i \in 1 .. count : InTurn(S, first, i) \in 1 .. S
  BY DEF InTurn
<1>2. InTurn(S, first, 1) = first
  BY DEF InTurn
<1> QED BY <1>1, <1>2 DEF Waiting, OfStages

AllBut(view, view2, S, s) == \A x \in 1 .. S : x # s => view2[x] = view[x]

\* The batch of the first stage is answered.
LEMMA WaitPop ==
    ASSUME NEW S \in Nat \ {0}, NEW s \in 1 .. S, NEW count \in 1 .. S,
           NEW X, NEW view \in OfStages(S, X), NEW view2 \in OfStages(S, X),
           AllBut(view, view2, S, s)
    PROVE  Waiting(view2, S, NextOf(S, s), count - 1) = Tail(Waiting(view, S, s, count))
<1> DEFINE u == Waiting(view, S, s, count)
           v == Waiting(view2, S, NextOf(S, s), count - 1)
<1>1. NextOf(S, s) \in 1 .. S /\ count - 1 \in 0 .. S
  BY DEF NextOf
<1>2. u \in Seq(X) /\ Len(u) = count /\ v \in Seq(X) /\ Len(v) = count - 1
  <2>1. count \in 0 .. S
    OBVIOUS
  <2>2. u \in Seq(X) /\ Len(u) = count
    BY <2>1, WaitType
  <2>3. v \in Seq(X) /\ Len(v) = count - 1
    <3>1. PICK f \in 1 .. S, k \in 0 .. S : f = NextOf(S, s) /\ k = count - 1
      BY <1>1
    <3>2. Waiting(view2, S, f, k) \in Seq(X) /\ Len(Waiting(view2, S, f, k)) = k
      BY WaitType
    <3> QED BY <3>1, <3>2
  <2> QED BY <2>2, <2>3
<1>3. ASSUME NEW i \in 1 .. count - 1 PROVE v[i] = u[i + 1]
  <2>1. InTurn(S, NextOf(S, s), i) = InTurn(S, s, i + 1) /\ i + 1 \in 1 .. count
    BY DEF InTurn, NextOf
  <2>2. InTurn(S, s, i + 1) \in 1 .. S /\ InTurn(S, s, i + 1) # s
    BY DEF InTurn
  <2>3. view2[InTurn(S, s, i + 1)] = view[InTurn(S, s, i + 1)]
    BY <2>2 DEF AllBut
  <2> QED BY <2>1, <2>3 DEF Waiting
<1> HIDE DEF u, v
<1>4. u # <<>>
  BY <1>2, EmptySeq
<1>5. Tail(u) \in Seq(X) /\ Len(Tail(u)) = count - 1 /\ \A i \in 1 .. count - 1 : Tail(u)[i] = u[i + 1]
  BY <1>2, <1>4, HeadTailProperties
<1>6. v = Tail(u)
  BY <1>2, <1>3, <1>5, SeqEqual
<1> QED BY <1>6 DEF u, v

\* The next batch of the same stage is asked.
LEMMA WaitPush ==
    ASSUME NEW S \in Nat \ {0}, NEW s \in 1 .. S, NEW X, NEW view \in OfStages(S, X)
    PROVE  Waiting(view, S, NextOf(S, s), S)
              = Waiting(view, S, NextOf(S, s), S - 1) \o <<view[s]>>
<1> DEFINE u == Waiting(view, S, NextOf(S, s), S - 1)
           v == Waiting(view, S, NextOf(S, s), S)
<1>1. NextOf(S, s) \in 1 .. S /\ S - 1 \in 0 .. S /\ S \in 0 .. S
  BY DEF NextOf
<1>2. u \in Seq(X) /\ Len(u) = S - 1 /\ v \in Seq(X) /\ Len(v) = S
  <2>1. PICK f \in 1 .. S, k \in 0 .. S, l \in 0 .. S : f = NextOf(S, s) /\ k = S - 1 /\ l = S
    BY <1>1
  <2>2. Waiting(view, S, f, k) \in Seq(X) /\ Len(Waiting(view, S, f, k)) = k
    BY WaitType
  <2>3. Waiting(view, S, f, l) \in Seq(X) /\ Len(Waiting(view, S, f, l)) = l
    BY WaitType
  <2> QED BY <2>1, <2>2, <2>3
<1>3. \A i \in 1 .. S - 1 : v[i] = u[i]
  BY DEF Waiting
<1>4. v[S] = view[s]
  <2>1. InTurn(S, NextOf(S, s), S) = s
    BY DEF InTurn, NextOf
  <2> QED BY <2>1 DEF Waiting
<1> HIDE DEF u, v
<1>5. /\ Append(u, view[s]) \in Seq(X) /\ Len(Append(u, view[s])) = S
      /\ \A i \in 1 .. S - 1 : Append(u, view[s])[i] = u[i]
      /\ Append(u, view[s])[S] = view[s]
  <2>1. view[s] \in X
    BY DEF OfStages
  <2>2. (S - 1) + 1 = S
    OBVIOUS
  <2> QED BY <1>2, <2>1, <2>2, AppendProperties
<1>6. Append(u, view[s]) = u \o <<view[s]>>
  BY <1>2, AppendIsConcat
<1>7. \A i \in 1 .. S : v[i] = Append(u, view[s])[i]
  <2> SUFFICES ASSUME NEW i \in 1 .. S PROVE v[i] = Append(u, view[s])[i]
    OBVIOUS
  <2>1. i = S \/ i \in 1 .. S - 1
    OBVIOUS
  <2> QED BY <1>3, <1>4, <1>5, <2>1
<1>8. v = Append(u, view[s])
  BY <1>2, <1>5, <1>7, SeqEqual
<1> QED BY <1>6, <1>8 DEF u, v

\* All stages have been asked, from the first on.
LEMMA WaitAll ==
    ASSUME NEW S \in Nat \ {0}, NEW X, NEW view \in OfStages(S, X)
    PROVE  Waiting(view, S, 1, S) = view
<1>1. \A i \in 1 .. S : InTurn(S, 1, i) = i
  BY DEF InTurn
<1> QED BY <1>1 DEF Waiting, OfStages

-----------------------------------------------------------------------------
(* The latest observations of the stages of an env worker.                   *)

View(e, size, m, s, time) == [n \in 1 .. size |-> <<m, s, e * size + n - 1, time>>]
Views(e, size, S, m, clock) == [s \in 1 .. S |-> View(e, size, m, s, clock[m][s])]
Clocks(S) == [Mode -> [1 .. S -> Nat]]

LEMMA ViewType ==
    ASSUME NEW e \in Nat, NEW size \in Nat, NEW m \in Mode, NEW s \in Nat, NEW time \in Nat
    PROVE  View(e, size, m, s, time) \in Seq(Observation) /\ Len(View(e, size, m, s, time)) = size
<1>1. e * size \in Nat
  OBVIOUS
<1>2. PICK b \in Nat : b = e * size
  BY <1>1
<1>3. \A n \in 1 .. size : b + n - 1 \in Nat
  OBVIOUS
<1>4. \A n \in 1 .. size : <<m, s, b + n - 1, time>> \in Observation
  BY <1>3 DEF Observation
<1>5. View(e, size, m, s, time) = [n \in 1 .. size |-> <<m, s, b + n - 1, time>>]
  BY <1>2 DEF View
<1>6. [n \in 1 .. size |-> <<m, s, b + n - 1, time>>] \in Seq(Observation)
  BY <1>4
<1>7. Len([n \in 1 .. size |-> <<m, s, b + n - 1, time>>]) = size
  OBVIOUS
<1> QED BY <1>5, <1>6, <1>7

LEMMA ViewsType ==
    ASSUME NEW e \in Nat, NEW size \in Nat, NEW S \in Nat \ {0}, NEW m \in Mode, NEW clock \in Clocks(S)
    PROVE  Views(e, size, S, m, clock) \in OfStages(S, Seq(Observation))
<1>1. ASSUME NEW s \in 1 .. S PROVE View(e, size, m, s, clock[m][s]) \in Seq(Observation)
  <2>1. clock[m][s] \in Nat
    BY DEF Clocks
  <2>2. s \in Nat
    OBVIOUS
  <2> QED BY <2>1, <2>2, ViewType
<1> QED BY <1>1 DEF Views, OfStages

-----------------------------------------------------------------------------
(* Cutting and merging.                                                      *)

LEMMA BeforeWithin ==
    ASSUME NEW parts, Sized(parts), NEW n \in 1 .. Len(parts)
    PROVE  Before(parts, n + 1) <= Before(parts, Len(parts) + 1)
<1>1. PICK m \in Nat : m = Len(parts) /\ n \in 1 .. m
  BY DEF Sized
<1>2. \A i \in 1 .. m : /\ Before(parts, i) \in Nat /\ Before(parts, i + 1) \in Nat
                        /\ Before(parts, i + 1) = Before(parts, i) + parts[i].size
                        /\ parts[i].size \in Nat
  BY <1>1, BeforeFacts DEF Sized
<1> DEFINE T == {d \in 0 .. m - n : Before(parts, (m - d) + 1) <= Before(parts, m + 1)}
<1>3. 0 \in T
  <2>1. m - 0 = m /\ 0 \in 0 .. m - n /\ m \in 1 .. m
    BY <1>1
  <2>2. Before(parts, m + 1) \in Nat
    BY <1>2, <2>1
  <2> QED BY <2>1, <2>2
<1>4. ASSUME NEW d \in 1 .. m - n, d - 1 \in T PROVE d \in T
  <2>1. PICK i \in 1 .. m : i = (m - (d - 1)) /\ (m - d) + 1 = i /\ m - d \in Nat /\ d \in 0 .. m - n
    <3>1. m - (d - 1) \in 1 .. m /\ (m - d) + 1 = m - (d - 1) /\ m - d \in Nat /\ d \in 0 .. m - n
      BY <1>1
    <3> QED BY <3>1
  <2>2. Before(parts, i + 1) <= Before(parts, m + 1)
    BY <1>4, <2>1
  <2>3. m \in 1 .. m
    BY <1>1
  <2>4. Before(parts, i) <= Before(parts, m + 1)
    <3>1. PICK u \in Nat, v \in Nat, w \in Nat, h \in Nat :
             /\ u = Before(parts, i) /\ v = Before(parts, i + 1) /\ w = Before(parts, m + 1)
             /\ h = parts[i].size
             /\ v = u + h
      BY <1>2, <2>3
    <3> QED BY SMTT(60), <2>2, <3>1
  <2> QED BY <2>1, <2>4
<1> HIDE DEF T
<1>5. m - n \in Nat /\ m - n \in 0 .. m - n /\ m - (m - n) = n
  BY <1>1
<1>6. m - n \in T
  BY <1>3, <1>4, <1>5, Climb
<1> QED BY <1>1, <1>5, <1>6 DEF T

\* One shard of a batch.
IsShard(x, batch, parts, n, T) ==
    /\ x \in Seq(T) /\ Len(x) = parts[n].size
    /\ \A j \in 1 .. parts[n].size : x[j] = batch[Before(parts, n) + j]

LEMMA CutIs ==
    ASSUME NEW T, NEW batch \in Seq(T), NEW parts, NEW total, NEW size, Shares(parts, total, size),
           Len(batch) = total, NEW n \in 1 .. Len(parts)
    PROVE  IsShard(Split(batch, parts)[n], batch, parts, n, T)
<1>1. /\ parts \in Seq(CellRec) /\ Sized(parts) /\ Before(parts, Len(parts) + 1) = total
  BY DEF Shares
<1>2. PICK b \in Nat, h \in Nat : b = Before(parts, n) /\ h = parts[n].size /\ Before(parts, n + 1) = b + h
  <2>1. parts[n].size \in Nat
    BY <1>1 DEF Sized
  <2> QED BY <1>1, <2>1, BeforeFacts
<1>3. b + h <= total
  BY <1>1, <1>2, BeforeWithin
<1>4. PICK k \in Nat : k = Len(batch) /\ b + h <= k
  <2>1. Len(batch) \in Nat
    BY LenProperties
  <2> QED BY <1>3, <2>1
<1>5. DOMAIN parts = 1 .. Len(parts)
  BY <1>1, LenProperties
<1>6. Split(batch, parts)[n] = SubSeq(batch, b + 1, b + h)
  BY <1>2, <1>5 DEF Split
<1> DEFINE x == SubSeq(batch, b + 1, b + h)
<1>7. x = [j \in 1 .. h |-> batch[b + j]]
  OBVIOUS
<1>8. \A j \in 1 .. h : batch[b + j] \in T
  <2> SUFFICES ASSUME NEW j \in 1 .. h PROVE batch[b + j] \in T
    OBVIOUS
  <2>1. b + j \in 1 .. Len(batch)
    BY <1>4
  <2> QED BY <2>1, ElementOfSeq
<1> HIDE DEF x
<1>9. x \in Seq(T) /\ Len(x) = h /\ \A j \in 1 .. h : x[j] = batch[b + j]
  BY <1>7, <1>8
<1> QED BY <1>2, <1>6, <1>9 DEF IsShard, x

\* The shards of the answers to a batch, merged, answer the batch.
LEMMA MergeIs ==
    ASSUME NEW batch \in Seq(Observation), NEW parts, NEW total, NEW size, Shares(parts, total, size),
           Len(batch) = total, NEW seqs \in Seq(Seq(Reply)), Len(seqs) = Len(parts),
           \A n \in 1 .. Len(parts) : Questions(seqs[n]) = Split(batch, parts)[n]
    PROVE  FlattenSeq(seqs) \in Seq(Reply) /\ Questions(FlattenSeq(seqs)) = batch
<1>1. /\ parts \in Seq(CellRec) /\ Sized(parts) /\ Before(parts, Len(parts) + 1) = total
  BY DEF Shares
<1>2. PICK m \in Nat : m = Len(parts) /\ m = Len(seqs)
  BY <1>1 DEF Sized
<1>3. ASSUME NEW n \in 1 .. m
      PROVE  /\ Len(seqs[n]) = parts[n].size /\ parts[n].size \in Nat
             /\ \A j \in 1 .. parts[n].size : seqs[n][j].to = batch[Before(parts, n) + j]
  <2>1. IsShard(Split(batch, parts)[n], batch, parts, n, Observation)
    BY <1>2, CutIs
  <2>2. PICK q \in Seq(Reply) : q = seqs[n]
    BY <1>2, ElementOfSeq
  <2>3. PICK x : x = Questions(q) /\ x = Split(batch, parts)[n]
    BY <1>2, <2>2
  <2>4. x \in Seq(Observation) /\ Len(x) = parts[n].size
        /\ \A j \in 1 .. parts[n].size : x[j] = batch[Before(parts, n) + j]
    BY <2>1, <2>3 DEF IsShard
  <2>5. Len(q) \in Nat /\ DOMAIN x = 1 .. Len(q) /\ \A j \in 1 .. Len(q) : x[j] = q[j].to
    BY <2>3, LenProperties DEF Questions
  <2>6. DOMAIN x = 1 .. Len(x) /\ Len(x) \in Nat
    BY <2>4, LenProperties
  <2>7. Len(x) = Len(q)
    BY <2>5, <2>6
  <2> QED BY <2>2, <2>4, <2>5, <2>7
<1>4. Fit(seqs, parts)
  BY <1>1, <1>2, <1>3 DEF Fit
<1> DEFINE all == FlattenSeq(seqs)
<1>5. /\ all \in Seq(Reply) /\ Len(all) = total
      /\ \A n \in 1 .. m : \A j \in 1 .. Len(seqs[n]) : all[Before(parts, n) + j] = seqs[n][j]
  BY <1>1, <1>2, <1>4, FlattenPlaces
<1> HIDE DEF all
<1>6. ASSUME NEW p \in 1 .. total PROVE all[p].to = batch[p]
  <2>0. total \in Nat
    BY LenProperties
  <2>1. p \in Nat /\ 0 < p /\ p <= Before(parts, Len(parts) + 1)
    BY <1>1, <2>0
  <2>2. PICK n \in 1 .. m : \E j \in 1 .. parts[n].size : p = Before(parts, n) + j
    BY <1>1, <1>2, <2>1, BeforeCovers
  <2>3. PICK j \in 1 .. parts[n].size : p = Before(parts, n) + j
    BY <2>2
  <2>4. all[p] = seqs[n][j] /\ seqs[n][j].to = batch[p]
    BY <1>3, <1>5, <2>3
  <2> QED BY <2>4
<1>7. Questions(all) = [p \in 1 .. total |-> batch[p]]
  BY <1>5, <1>6 DEF Questions
<1>8. batch = [p \in 1 .. total |-> batch[p]]
  <2>1. batch \in [1 .. total -> Observation]
    BY LenProperties
  <2> QED BY <2>1
<1> QED BY <1>5, <1>7, <1>8 DEF all

\* The answers to merged shards, cut again: each shard its answers.
Answering(obs, version) == [n \in DOMAIN obs |-> [to |-> obs[n], version |-> version]]

LEMMA ReplyIs ==
    ASSUME NEW parts, NEW total, NEW size, Shares(parts, total, size), NEW version \in Int,
           NEW heads \in Seq(Seq(Observation)), Len(heads) = Len(parts),
           \A n \in 1 .. Len(parts) : Len(heads[n]) = parts[n].size,
           NEW n \in 1 .. Len(parts)
    PROVE  /\ Split(Answering(FlattenSeq(heads), version), parts)[n] \in Seq(Reply)
           /\ Questions(Split(Answering(FlattenSeq(heads), version), parts)[n]) = heads[n]
<1>1. /\ parts \in Seq(CellRec) /\ Sized(parts) /\ Before(parts, Len(parts) + 1) = total
  BY DEF Shares
<1>2. Fit(heads, parts)
  BY <1>1 DEF Fit
<1> DEFINE all == FlattenSeq(heads)
           batch == Answering(all, version)
           x == Split(batch, parts)[n]
<1> HIDE DEF all
<1>30. /\ all \in Seq(Observation) /\ Len(all) = total
       /\ \A k \in 1 .. Len(heads) :
             /\ Before(parts, k) + Len(heads[k]) <= Len(all)
             /\ \A j \in 1 .. Len(heads[k]) : all[Before(parts, k) + j] = heads[k][j]
  <2>1. all \in Seq(Observation)
    BY <1>2, FlattenPlaces DEF all
  <2>2. Len(all) = Before(parts, Len(parts) + 1)
    BY <1>2, FlattenPlaces DEF all
  <2>3. ASSUME NEW k \in 1 .. Len(heads)
        PROVE  /\ Before(parts, k) + Len(heads[k]) <= Len(all)
               /\ \A j \in 1 .. Len(heads[k]) : all[Before(parts, k) + j] = heads[k][j]
    BY <1>2, FlattenPlaces DEF all
  <2> QED BY <1>1, <2>1, <2>2, <2>3
<1>3. /\ all \in Seq(Observation) /\ Len(all) = total
      /\ Before(parts, n) + Len(heads[n]) <= Len(all)
      /\ \A j \in 1 .. Len(heads[n]) : all[Before(parts, n) + j] = heads[n][j]
  BY <1>30
<1>4. total \in Nat /\ DOMAIN all = 1 .. total /\ \A p \in 1 .. total : all[p] \in Observation
  BY <1>3, LenProperties, ElementOfSeq
<1>5. batch = [p \in 1 .. total |-> [to |-> all[p], version |-> version]]
  BY <1>4 DEF Answering
<1>6. batch \in Seq(Reply) /\ Len(batch) = total /\ \A p \in 1 .. total : batch[p].to = all[p]
  BY <1>4, <1>5 DEF Reply
<1> HIDE DEF batch
<1>7. IsShard(x, batch, parts, n, Reply)
  BY <1>6, CutIs
<1> HIDE DEF x
<1>8. PICK h \in Nat, b \in Nat : h = parts[n].size /\ h = Len(heads[n]) /\ b = Before(parts, n)
        /\ b + h <= total
  <2>1. parts[n].size \in Nat
    BY <1>1 DEF Sized
  <2>2. Before(parts, n) \in Nat
    BY <1>1, BeforeFacts
  <2> QED BY <1>3, <2>1, <2>2
<1>9. x \in Seq(Reply) /\ Len(x) = h /\ \A j \in 1 .. h : x[j] = batch[b + j]
  BY <1>7, <1>8 DEF IsShard
<1>10. ASSUME NEW j \in 1 .. h PROVE x[j].to = heads[n][j]
  <2>1. b + j \in 1 .. total
    BY SMTT(60), <1>4, <1>8
  <2> QED BY <1>3, <1>6, <1>8, <1>9, <2>1
<1>11. Questions(x) = [j \in 1 .. h |-> heads[n][j]]
  BY <1>9, <1>10 DEF Questions
<1>12. heads[n] = [j \in 1 .. h |-> heads[n][j]]
  <2>1. heads[n] \in Seq(Observation)
    BY ElementOfSeq
  <2>2. heads[n] \in [1 .. h -> Observation]
    BY <1>8, <2>1, LenProperties
  <2> QED BY <2>2
<1> QED BY <1>9, <1>11, <1>12 DEF all, batch, x

-----------------------------------------------------------------------------
(* The queues.                                                               *)

Queues(n, k, X) == [(0 .. n - 1) \X (0 .. k - 1) \X Mode -> Seq(Seq(X))]

\* What is added to a queue, and what is left of it.
Shards(batches, parts, n) == [b \in DOMAIN batches |-> Split(batches[b], parts)[n]]
IsSent(sent, channel, me, parts, mode, batches) ==
    /\ DOMAIN sent = DOMAIN channel
    /\ \A k \in DOMAIN channel :
          /\ \A n \in 1 .. Len(parts) :
                k = <<me, parts[n].rank, mode>> => sent[k] = channel[k] \o Shards(batches, parts, n)
          /\ (\A n \in 1 .. Len(parts) : k # <<me, parts[n].rank, mode>>) => sent[k] = channel[k] \o <<>>
IsTaken(taken, channel, me, parts, mode) ==
    /\ DOMAIN taken = DOMAIN channel
    /\ \A k \in DOMAIN channel :
          /\ \A n \in 1 .. Len(parts) : k = <<parts[n].rank, me, mode>> => taken[k] = Tail(channel[k])
          /\ (\A n \in 1 .. Len(parts) : k # <<parts[n].rank, me, mode>>) => taken[k] = channel[k]

LEMMA SentIs ==
    ASSUME NEW channel, NEW me, NEW parts, NEW total, NEW size, Shares(parts, total, size), NEW mode,
           NEW batches
    PROVE  IsSent(Sent(channel, me, parts, mode, batches), channel, me, parts, mode, batches)
<1>1. parts \in Seq(CellRec) /\ \A n, k \in 1 .. Len(parts) : n # k => parts[n].rank # parts[k].rank
  BY DEF Shares
<1>2. DOMAIN parts = 1 .. Len(parts)
  BY <1>1, LenProperties
<1> DEFINE mine(k) == {n \in 1 .. Len(parts) : k = <<me, parts[n].rank, mode>>}
           added(k) == IF mine(k) = {} THEN <<>>
                       ELSE Shards(batches, parts, CHOOSE n \in mine(k) : TRUE)
<1>3. Sent(channel, me, parts, mode, batches) = [k \in DOMAIN channel |-> channel[k] \o added(k)]
  BY <1>2 DEF Sent, Shards
<1>4. ASSUME NEW n \in 1 .. Len(parts)
      PROVE  added(<<me, parts[n].rank, mode>>) = Shards(batches, parts, n)
  <2>1. mine(<<me, parts[n].rank, mode>>) = {n}
    BY <1>1
  <2> HIDE DEF mine
  <2>2. (CHOOSE i \in mine(<<me, parts[n].rank, mode>>) : TRUE) = n
    BY <2>1
  <2>3. mine(<<me, parts[n].rank, mode>>) # {}
    BY <2>1
  <2> QED BY <2>2, <2>3
<1>5. ASSUME NEW k, \A n \in 1 .. Len(parts) : k # <<me, parts[n].rank, mode>>
      PROVE  added(k) = <<>>
  BY <1>5
<1> HIDE DEF added
<1> DEFINE sent == Sent(channel, me, parts, mode, batches)
<1>6. DOMAIN sent = DOMAIN channel /\ \A k \in DOMAIN channel : sent[k] = channel[k] \o added(k)
  BY <1>3
<1> HIDE DEF sent
<1>7. ASSUME NEW k \in DOMAIN channel
      PROVE  /\ \A n \in 1 .. Len(parts) :
                   k = <<me, parts[n].rank, mode>> => sent[k] = channel[k] \o Shards(batches, parts, n)
             /\ (\A n \in 1 .. Len(parts) : k # <<me, parts[n].rank, mode>>) => sent[k] = channel[k] \o <<>>
  BY <1>4, <1>5, <1>6
<1>8. IsSent(sent, channel, me, parts, mode, batches)
  BY <1>6, <1>7 DEF IsSent
<1> QED BY <1>8 DEF sent

LEMMA TakenIs ==
    ASSUME NEW channel, NEW me, NEW parts, NEW total, NEW size, Shares(parts, total, size), NEW mode
    PROVE  IsTaken(Taken(channel, me, parts, mode), channel, me, parts, mode)
<1>1. parts \in Seq(CellRec)
  BY DEF Shares
<1>2. DOMAIN parts = 1 .. Len(parts)
  BY <1>1, LenProperties
<1> DEFINE taken == Taken(channel, me, parts, mode)
<1>3. /\ DOMAIN taken = DOMAIN channel
      /\ \A k \in DOMAIN channel : taken[k] = IF \E n \in 1 .. Len(parts) : k = <<parts[n].rank, me, mode>>
                                             THEN Tail(channel[k]) ELSE channel[k]
  BY <1>2 DEF Taken
<1> HIDE DEF taken
<1>4. IsTaken(taken, channel, me, parts, mode)
  BY <1>3 DEF IsTaken
<1> QED BY <1>4 DEF taken

-----------------------------------------------------------------------------
(* The batches of env worker e that wait for an answer, on their way.        *)

Fed(answers, asks, e, m, pend, parts) ==
    \A n \in 1 .. Len(parts) :
        Flows(answers[<<parts[n].rank, e, m>>], asks[<<e, parts[n].rank, m>>], pend, parts, n)

\* All batches of `batches` have the size of the parts of a stage.
Batches(batches, total) ==
    batches \in Seq(Seq(Observation)) /\ \A b \in 1 .. Len(batches) : Len(batches[b]) = total

LEMMA FedSend ==
    ASSUME NEW E \in Nat, NEW R \in Nat, NEW asks \in Queues(E, R, Observation), NEW answers,
           NEW e \in 0 .. E - 1, NEW m \in Mode, NEW parts, NEW total, Shares(parts, total, R),
           NEW batches, Batches(batches, total),
           NEW e2 \in 0 .. E - 1, NEW m2 \in Mode, NEW parts2, Shares(parts2, total, R), NEW pend,
           Fed(answers, asks, e2, m2, pend, parts2),
           e2 = e => parts2 = parts
    PROVE  Fed(answers, Sent(asks, e, parts, m, batches), e2, m2,
               IF e2 = e /\ m2 = m THEN pend \o batches ELSE pend, parts2)
<1> SUFFICES ASSUME NEW n \in 1 .. Len(parts2)
             PROVE  Flows(answers[<<parts2[n].rank, e2, m2>>],
                          Sent(asks, e, parts, m, batches)[<<e2, parts2[n].rank, m2>>],
                          IF e2 = e /\ m2 = m THEN pend \o batches ELSE pend, parts2, n)
  BY DEF Fed
<1>1. PICK r \in 0 .. R - 1 : r = parts2[n].rank
  BY DEF Shares
<1>2. PICK k : k = <<e2, r, m2>>
  OBVIOUS
<1>3. k \in DOMAIN asks /\ asks[k] \in Seq(Seq(Observation)) /\ k[1] = e2 /\ k[3] = m2
  BY <1>2 DEF Queues
<1>4. Flows(answers[<<r, e2, m2>>], asks[k], pend, parts2, n)
  BY <1>1, <1>2 DEF Fed
<1> DEFINE sent == Sent(asks, e, parts, m, batches)
<1>50. IsSent(sent, asks, e, parts, m, batches)
  BY SentIs
<1>5. ASSUME ~(e2 = e /\ m2 = m) PROVE sent[k] = asks[k]
  <2>1. \A i \in 1 .. Len(parts) : k # <<e, parts[i].rank, m>>
    BY <1>3, <1>5
  <2> HIDE DEF sent
  <2>2. sent[k] = asks[k] \o <<>>
    BY <1>3, <1>50, <2>1 DEF IsSent
  <2>3. asks[k] \o <<>> = asks[k]
    BY <1>3, ConcatEmptySeq
  <2> QED BY <2>2, <2>3
<1>6. ASSUME e2 = e, m2 = m
      PROVE  Flows(answers[<<r, e2, m2>>], sent[k], pend \o batches, parts2, n)
  <2>1. parts2 = parts /\ n \in 1 .. Len(parts) /\ <<e, parts[n].rank, m>> = k
    BY <1>1, <1>2, <1>6
  <2> DEFINE more == Shards(batches, parts, n)
  <2>2. sent[k] = asks[k] \o more
    <3> HIDE DEF sent
    <3> QED BY <1>3, <1>50, <2>1 DEF IsSent
  <2>3. batches \in Seq(Seq(Observation)) /\ DOMAIN batches = 1 .. Len(batches) /\ Len(batches) \in Nat
    BY LenProperties DEF Batches
  <2>4. ASSUME NEW b \in 1 .. Len(batches) PROVE Split(batches[b], parts)[n] \in Seq(Observation)
    <3>1. batches[b] \in Seq(Observation) /\ Len(batches[b]) = total
      BY <2>3, ElementOfSeq DEF Batches
    <3>2. IsShard(Split(batches[b], parts)[n], batches[b], parts, n, Observation)
      BY <2>1, <3>1, CutIs
    <3> QED BY <3>2 DEF IsShard
  <2>5. more \in Seq(Seq(Observation)) /\ Len(more) = Len(batches)
        /\ \A b \in 1 .. Len(batches) : more[b] = Split(batches[b], parts)[n]
    BY <2>3, <2>4 DEF Shards
  <2> HIDE DEF more
  <2>6. Flows(answers[<<r, e2, m2>>], asks[k] \o more, pend \o batches, parts, n)
    BY <1>4, <2>1, <2>3, <2>5, FlowSend
  <2> QED BY <2>1, <2>2, <2>6
<1>7. Flows(answers[<<r, e2, m2>>], sent[k], IF e2 = e /\ m2 = m THEN pend \o batches ELSE pend, parts2, n)
  <2> HIDE DEF sent
  <2> QED BY <1>1, <1>2, <1>4, <1>5, <1>6
<1> QED BY <1>1, <1>2, <1>7

LEMMA FedTake ==
    ASSUME NEW E \in Nat, NEW R \in Nat, NEW answers \in Queues(R, E, Reply), NEW asks,
           NEW e \in 0 .. E - 1, NEW m \in Mode, NEW parts, NEW total, Shares(parts, total, R),
           Ready(answers, e, parts, m),
           NEW e2 \in 0 .. E - 1, NEW m2 \in Mode, NEW parts2, Shares(parts2, total, R), NEW pend,
           Fed(answers, asks, e2, m2, pend, parts2),
           e2 = e => parts2 = parts
    PROVE  Fed(Taken(answers, e, parts, m), asks, e2, m2,
               IF e2 = e /\ m2 = m THEN Tail(pend) ELSE pend, parts2)
<1> SUFFICES ASSUME NEW n \in 1 .. Len(parts2)
             PROVE  Flows(Taken(answers, e, parts, m)[<<parts2[n].rank, e2, m2>>],
                          asks[<<e2, parts2[n].rank, m2>>],
                          IF e2 = e /\ m2 = m THEN Tail(pend) ELSE pend, parts2, n)
  BY DEF Fed
<1>1. PICK r \in 0 .. R - 1 : r = parts2[n].rank
  BY DEF Shares
<1>2. PICK k : k = <<r, e2, m2>>
  OBVIOUS
<1>3. k \in DOMAIN answers /\ k[2] = e2 /\ k[3] = m2
  BY <1>2 DEF Queues
<1>4. Flows(answers[k], asks[<<e2, r, m2>>], pend, parts2, n)
  BY <1>1, <1>2 DEF Fed
<1> DEFINE taken == Taken(answers, e, parts, m)
<1>50. IsTaken(taken, answers, e, parts, m)
  BY TakenIs
<1>5. ASSUME ~(e2 = e /\ m2 = m) PROVE taken[k] = answers[k]
  <2>1. \A i \in 1 .. Len(parts) : k # <<parts[i].rank, e, m>>
    BY <1>3, <1>5
  <2> HIDE DEF taken
  <2> QED BY <1>3, <1>50, <2>1 DEF IsTaken
<1>6. ASSUME e2 = e, m2 = m
      PROVE  Flows(taken[k], asks[<<e2, r, m2>>], Tail(pend), parts2, n)
  <2>1. parts2 = parts /\ n \in 1 .. Len(parts) /\ <<parts[n].rank, e, m>> = k
    BY <1>1, <1>2, <1>6
  <2>2. taken[k] = Tail(answers[k])
    <3> HIDE DEF taken
    <3> QED BY <1>3, <1>50, <2>1 DEF IsTaken
  <2>3. answers[k] # <<>>
    <3>1. DOMAIN parts = 1 .. Len(parts)
      BY LenProperties DEF Shares
    <3> QED BY <2>1, <3>1 DEF Ready
  <2>4. Flows(Tail(answers[k]), asks[<<e2, r, m2>>], Tail(pend), parts2, n)
    BY <1>4, <2>3, FlowTake
  <2> HIDE DEF taken
  <2> QED BY <2>2, <2>4
<1>7. Flows(taken[k], asks[<<e2, r, m2>>], IF e2 = e /\ m2 = m THEN Tail(pend) ELSE pend, parts2, n)
  <2> HIDE DEF taken
  <2> QED BY <1>1, <1>2, <1>4, <1>5, <1>6
<1> QED BY <1>1, <1>2, <1>7

\* What the env worker receives answers the first batch.
LEMMA FedMerged ==
    ASSUME NEW E \in Nat, NEW R \in Nat, NEW answers \in Queues(R, E, Reply), NEW asks,
           NEW e \in 0 .. E - 1, NEW m \in Mode, NEW parts, NEW total \in Nat \ {0}, Shares(parts, total, R),
           Ready(answers, e, parts, m), NEW pend, Batches(pend, total), Fed(answers, asks, e, m, pend, parts)
    PROVE  /\ pend # <<>>
           /\ Merged(answers, e, parts, m) \in Seq(Reply)
           /\ Questions(Merged(answers, e, parts, m)) = pend[1]
<1>1. /\ parts \in Seq(CellRec) /\ Sized(parts) /\ Before(parts, Len(parts) + 1) = total
      /\ DOMAIN parts = 1 .. Len(parts)
  BY LenProperties DEF Shares
<1>2. 1 \in 1 .. Len(parts)
  <2>1. Len(parts) \in Nat
    BY <1>1, LenProperties
  <2>2. Len(parts) # 0
    <3>1. Len(parts) = 0 => Before(parts, 1) = total
      BY <1>1
    <3>2. Before(parts, 1) = 0
      BY <1>1, BeforeFacts
    <3> QED BY <3>1, <3>2
  <2> QED BY <2>1, <2>2
<1> DEFINE key(n) == <<parts[n].rank, e, m>>
<1>3. ASSUME NEW n \in 1 .. Len(parts)
      PROVE  /\ Head(answers[key(n)]) \in Seq(Reply) /\ pend # <<>>
             /\ Questions(Head(answers[key(n)])) = Split(pend[1], parts)[n]
  <2>1. PICK q : q = answers[key(n)]
    OBVIOUS
  <2>2. q # <<>>
    BY <1>1, <2>1 DEF Ready
  <2>3. Flows(q, asks[<<e, parts[n].rank, m>>], pend, parts, n)
    BY <2>1 DEF Fed
  <2>4. PICK k \in Nat, l \in Nat : Flowing(q, asks[<<e, parts[n].rank, m>>], pend, parts, n, k, l)
    BY <2>3, FlowLens
  <2>5. /\ q \in Seq(Seq(Reply)) /\ pend \in Seq(Seq(Observation)) /\ Len(q) = k /\ Len(pend) = k + l
        /\ \A i \in 1 .. k : Questions(q[i]) = Split(pend[i], parts)[n]
    BY <2>4 DEF Flowing
  <2>6. Head(q) \in Seq(Reply) /\ Head(q) = q[1]
    BY <2>2, <2>5, Shorter
  <2>7. k # 0
    BY <2>2, <2>5
  <2>8. pend # <<>>
    BY <2>5, <2>7, EmptySeq
  <2>9. 1 \in 1 .. k
    BY <2>7
  <2> QED BY <2>1, <2>5, <2>6, <2>8, <2>9
<1>4. pend # <<>>
  BY <1>2, <1>3
<1>5. pend[1] \in Seq(Observation) /\ Len(pend[1]) = total
  <2>1. pend \in Seq(Seq(Observation))
    BY DEF Batches
  <2>2. Len(pend) \in Nat \ {0}
    BY <1>4, <2>1, EmptySeq
  <2>3. 1 \in 1 .. Len(pend)
    BY <2>2
  <2> QED BY <2>1, <2>3, ElementOfSeq DEF Batches
<1> DEFINE heads == [n \in 1 .. Len(parts) |-> Head(answers[key(n)])]
<1>6. heads \in Seq(Seq(Reply)) /\ Len(heads) = Len(parts)
      /\ \A n \in 1 .. Len(parts) : Questions(heads[n]) = Split(pend[1], parts)[n]
  <2>1. Len(parts) \in Nat
    BY <1>1, LenProperties
  <2> HIDE DEF key
  <2> QED BY <1>3, <2>1
<1>7. Merged(answers, e, parts, m) = FlattenSeq(heads)
  BY <1>1 DEF Merged
<1> HIDE DEF heads
<1>8. FlattenSeq(heads) \in Seq(Reply) /\ Questions(FlattenSeq(heads)) = pend[1]
  BY <1>5, <1>6, MergeIs
<1> QED BY <1>4, <1>7, <1>8

\* A rollout worker answers.
LEMMA FedAnswer ==
    ASSUME NEW E \in Nat, NEW R \in Nat, NEW answers \in Queues(R, E, Reply),
           NEW asks \in Queues(E, R, Observation),
           NEW r \in 0 .. R - 1, NEW m \in Mode, NEW from, NEW half, Shares(from, half, E),
           Ready(asks, r, from, m), NEW version \in Int,
           NEW e \in 0 .. E - 1, NEW m2 \in Mode, NEW parts, NEW total, Shares(parts, total, R), NEW pend,
           Fed(answers, asks, e, m2, pend, parts)
    PROVE  Fed(Sent(answers, r, from, m, <<Answering(Merged(asks, r, from, m), version)>>),
               Taken(asks, r, from, m), e, m2, pend, parts)
<1> DEFINE batches == <<Answering(Merged(asks, r, from, m), version)>>
<1> SUFFICES ASSUME NEW n \in 1 .. Len(parts)
             PROVE  Flows(Sent(answers, r, from, m, batches)[<<parts[n].rank, e, m2>>],
                          Taken(asks, r, from, m)[<<e, parts[n].rank, m2>>], pend, parts, n)
  BY DEF Fed
<1>1. PICK d \in 0 .. R - 1 : d = parts[n].rank
  BY DEF Shares
<1>2. PICK k, l : k = <<d, e, m2>> /\ l = <<e, d, m2>>
  OBVIOUS
<1>3. k \in DOMAIN answers /\ l \in DOMAIN asks /\ answers[k] \in Seq(Seq(Reply))
        /\ asks[l] \in Seq(Seq(Observation))
  BY <1>2 DEF Queues
<1>4. Flows(answers[k], asks[l], pend, parts, n)
  BY <1>1, <1>2 DEF Fed
<1> DEFINE sent == Sent(answers, r, from, m, batches)
           taken == Taken(asks, r, from, m)
<1>50. IsSent(sent, answers, r, from, m, batches) /\ IsTaken(taken, asks, r, from, m)
  <2> HIDE DEF batches
  <2> QED BY SentIs, TakenIs
<1>51. sent = Sent(answers, r, from, m, batches) /\ taken = Taken(asks, r, from, m)
  OBVIOUS
<1> HIDE DEF sent, taken
<1>5. ASSUME \A i \in 1 .. Len(from) : l # <<from[i].rank, r, m>>
      PROVE  sent[k] = answers[k] /\ taken[l] = asks[l]
  <2>1. \A i \in 1 .. Len(from) : k # <<r, from[i].rank, m>>
    BY <1>2, <1>5
  <2>2. sent[k] = answers[k] \o <<>>
    <3> HIDE DEF batches
    <3> QED BY <1>3, <1>50, <2>1 DEF IsSent
  <2>3. answers[k] \o <<>> = answers[k]
    BY <1>3, ConcatEmptySeq
  <2>4. taken[l] = asks[l]
    BY <1>3, <1>5, <1>50 DEF IsTaken
  <2> QED BY <2>2, <2>3, <2>4
<1>6. ASSUME NEW i \in 1 .. Len(from), l = <<from[i].rank, r, m>>
      PROVE  Flows(sent[k], taken[l], pend, parts, n)
  <2>1. from[i].rank = e /\ d = r /\ m2 = m /\ k = <<r, from[i].rank, m>>
    BY <1>2, <1>6
  <2>2. /\ from \in Seq(CellRec) /\ DOMAIN from = 1 .. Len(from) /\ Len(from) \in Nat
        /\ \A j \in 1 .. Len(from) : from[j].rank \in 0 .. E - 1
    BY LenProperties DEF Shares
  <2> DEFINE key(j) == <<from[j].rank, r, m>>
             heads == [j \in 1 .. Len(from) |-> Head(asks[key(j)])]
  <2>3. ASSUME NEW j \in 1 .. Len(from)
        PROVE  /\ asks[key(j)] # <<>> /\ Head(asks[key(j)]) \in Seq(Observation)
               /\ Len(Head(asks[key(j)])) = from[j].size
    <3>1. asks[key(j)] # <<>> /\ Len(Head(asks[key(j)])) = from[j].size
      BY <2>2 DEF Ready
    <3>2. asks[key(j)] \in Seq(Seq(Observation))
      BY <2>2 DEF Queues
    <3>3. Head(asks[key(j)]) \in Seq(Observation)
      <4> HIDE DEF key
      <4> QED BY <3>1, <3>2, Shorter
    <3> QED BY <3>1, <3>3
  <2>4. Merged(asks, r, from, m) = FlattenSeq(heads)
    BY <2>2 DEF Merged
  <2>5. heads \in Seq(Seq(Observation)) /\ Len(heads) = Len(from)
        /\ \A j \in 1 .. Len(from) : Len(heads[j]) = from[j].size
    <3> HIDE DEF key
    <3> QED BY <2>2, <2>3
  <2>6. heads[i] = Head(asks[l])
    BY <1>6
  <2>7. asks[l] # <<>>
    BY <1>6, <2>3
  <2> HIDE DEF heads, key
  <2>8. PICK x : x = Split(Answering(FlattenSeq(heads), version), from)[i]
    OBVIOUS
  <2>9. x \in Seq(Reply) /\ Questions(x) = heads[i]
    BY <2>5, <2>8, ReplyIs
  <2>10. sent[k] = answers[k] \o <<x>>
    <3>1. sent[k] = answers[k] \o Shards(batches, from, i)
      <4> HIDE DEF batches
      <4> QED BY <1>3, <1>50, <2>1 DEF IsSent
    <3>2. Shards(batches, from, i) = <<x>>
      <4>1. batches = <<Answering(FlattenSeq(heads), version)>>
        BY <2>4
      <4> HIDE DEF batches
      <4>2. DOMAIN batches = {1} /\ batches[1] = Answering(FlattenSeq(heads), version)
        BY <4>1
      <4>3. Shards(batches, from, i) = [b \in {1} |-> x]
        BY <2>8, <4>2 DEF Shards
      <4>4. [b \in {1} |-> x] = <<x>>
        <5>1. 1 .. 1 = {1}
          OBVIOUS
        <5>2. [b \in 1 .. 1 |-> x] = <<x>>
          OBVIOUS
        <5> QED BY <5>1, <5>2
      <4> QED BY <4>3, <4>4
    <3> QED BY <3>1, <3>2
  <2>11. taken[l] = Tail(asks[l])
    BY <1>3, <1>50, <1>6 DEF IsTaken
  <2>12. Flows(answers[k] \o <<x>>, Tail(asks[l]), pend, parts, n)
    BY <1>4, <2>6, <2>7, <2>9, FlowAnswer
  <2> QED BY <2>10, <2>11, <2>12
<1> HIDE DEF batches
<1>7. Flows(sent[k], taken[l], pend, parts, n)
  <2>1. CASE \A i \in 1 .. Len(from) : l # <<from[i].rank, r, m>>
    BY <1>4, <1>5, <2>1
  <2>2. CASE \E i \in 1 .. Len(from) : l = <<from[i].rank, r, m>>
    BY <1>6, <2>2
  <2> QED BY <2>1, <2>2
<1> QED BY <1>1, <1>2, <1>51, <1>7

-----------------------------------------------------------------------------
(* The queues stay queues.                                                   *)

LEMMA SentType ==
    ASSUME NEW N \in Nat, NEW K \in Nat, NEW X, NEW channel \in Queues(N, K, X), NEW me \in 0 .. N - 1,
           NEW parts, NEW total, Shares(parts, total, K), NEW mode \in Mode, NEW batches \in Seq(Seq(X)),
           \A b \in 1 .. Len(batches) : Len(batches[b]) = total
    PROVE  Sent(channel, me, parts, mode, batches) \in Queues(N, K, X)
<1> DEFINE sent == Sent(channel, me, parts, mode, batches)
           keys == (0 .. N - 1) \X (0 .. K - 1) \X Mode
<1>1. DOMAIN channel = keys /\ \A k \in keys : channel[k] \in Seq(Seq(X))
  BY DEF Queues
<1>20. IsSent(sent, channel, me, parts, mode, batches)
  BY SentIs
<1>4. sent = [k \in DOMAIN channel |-> sent[k]]
  BY DEF Sent
<1> HIDE DEF sent
<1>2. DOMAIN sent = keys
  BY <1>1, <1>20 DEF IsSent
<1>3. ASSUME NEW k \in keys PROVE sent[k] \in Seq(Seq(X))
  <2>1. ASSUME \A n \in 1 .. Len(parts) : k # <<me, parts[n].rank, mode>> PROVE sent[k] = channel[k]
    <3>1. sent[k] = channel[k] \o <<>>
      BY <1>1, <1>20, <2>1 DEF IsSent
    <3> QED BY <1>1, <3>1, ConcatEmptySeq
  <2>2. ASSUME NEW n \in 1 .. Len(parts), k = <<me, parts[n].rank, mode>> PROVE sent[k] \in Seq(Seq(X))
    <3> DEFINE more == Shards(batches, parts, n)
    <3>1. sent[k] = channel[k] \o more
      BY <1>1, <1>20, <2>2 DEF IsSent
    <3>2. DOMAIN batches = 1 .. Len(batches) /\ Len(batches) \in Nat
      BY LenProperties
    <3>3. ASSUME NEW b \in 1 .. Len(batches) PROVE Split(batches[b], parts)[n] \in Seq(X)
      <4>1. batches[b] \in Seq(X) /\ Len(batches[b]) = total
        BY ElementOfSeq
      <4>2. IsShard(Split(batches[b], parts)[n], batches[b], parts, n, X)
        BY <4>1, CutIs
      <4> QED BY <4>2 DEF IsShard
    <3>4. more \in Seq(Seq(X))
      BY SMTT(60), <3>2, <3>3 DEF Shards
    <3> HIDE DEF more
    <3> QED BY <1>1, <3>1, <3>4, ConcatProperties
  <2> QED BY <1>1, <2>1, <2>2
<1> QED BY <1>1, <1>2, <1>3, <1>4 DEF Queues, sent

LEMMA TakenType ==
    ASSUME NEW N \in Nat, NEW K \in Nat, NEW X, NEW channel \in Queues(N, K, X), NEW me \in 0 .. K - 1,
           NEW parts, NEW total, Shares(parts, total, N), NEW mode \in Mode, Ready(channel, me, parts, mode)
    PROVE  Taken(channel, me, parts, mode) \in Queues(N, K, X)
<1>1. DOMAIN parts = 1 .. Len(parts)
  BY LenProperties DEF Shares
<1> DEFINE keys == (0 .. N - 1) \X (0 .. K - 1) \X Mode
<1>2. DOMAIN channel = keys /\ \A k \in keys : channel[k] \in Seq(Seq(X))
  BY DEF Queues
<1>3. ASSUME NEW k \in keys, NEW n \in 1 .. Len(parts), k = <<parts[n].rank, me, mode>>
      PROVE  Tail(channel[k]) \in Seq(Seq(X))
  <2>1. channel[k] # <<>>
    BY <1>1, <1>3 DEF Ready
  <2> QED BY <1>2, <2>1, HeadTailProperties
<1> DEFINE left(k) == IF \E n \in DOMAIN parts : k = <<parts[n].rank, me, mode>>
                      THEN Tail(channel[k]) ELSE channel[k]
<1>4. \A k \in keys : left(k) \in Seq(Seq(X))
  BY <1>1, <1>2, <1>3
<1>5. Taken(channel, me, parts, mode) = [k \in keys |-> left(k)]
  BY <1>2 DEF Taken
<1> HIDE DEF left
<1> QED BY <1>4, <1>5 DEF Queues

-----------------------------------------------------------------------------
(* What an env worker has sent and not yet received the answer to.           *)

Methods == {"interact", "prefetch", "evaluate"}
Acts == {<<>>} \cup [observed : Seq(Observation), answer : Seq(Reply)]
EnvWorker(S) ==
    [calls : Seq(Methods), at : [epoch : Nat, chunk : Nat, stage : 1 .. S], prefetched : BOOLEAN,
     acted : Acts, clock : Clocks(S), steps : [1 .. S -> Seq([time : Nat, version : Int])]]

\* Where a worker can be in the loops of what it executes.
Place(c, w) ==
    /\ Executes(w, "interact") =>
          /\ w.at.chunk \in 0 .. c.chunks + 1
          /\ w.at.chunk = 0 => w.at.stage = 1
          /\ w.at.chunk > 0 \/ w.at.epoch # 1 => ~w.prefetched
    /\ Executes(w, "evaluate") =>
          /\ w.at.chunk \in 0 .. c.evalChunks /\ w.at.epoch \in 1 .. c.evalEpochs
          /\ w.at.chunk = 0 => w.at.stage = 1
    /\ ~Executes(w, "interact") /\ ~Executes(w, "evaluate") =>
          w.at.epoch = 1 /\ w.at.chunk = 0 /\ w.at.stage = 1

\* The stage whose answer is due first, and the number of stages whose answer is due.
FirstOf(w, m) ==
    IF Executes(w, IF m = "train" THEN "interact" ELSE "evaluate") THEN w.at.stage ELSE 1
SendsEval(c, at) ==
    IF c.evalAutoReset THEN ~(at.epoch = c.evalEpochs /\ at.chunk = c.evalChunks) ELSE at.chunk # c.evalChunks
AwaitedOf(c, w, m) ==
    IF m = "train"
    THEN IF Executes(w, "interact") /\ w.at.chunk > 0
         THEN IF w.at.chunk <= c.chunks THEN c.stages ELSE c.stages - w.at.stage + 1
         ELSE IF w.prefetched THEN c.stages ELSE 0
    ELSE IF ~Executes(w, "evaluate") THEN 0
         ELSE IF w.at.chunk = 0 THEN IF c.evalAutoReset /\ w.at.epoch > 1 THEN c.stages ELSE 0
         ELSE IF SendsEval(c, w.at) THEN c.stages ELSE c.stages - w.at.stage + 1
PendOf(c, e, w, m) ==
    Waiting(Views(e, PerWorker(c), c.stages, m, w.clock), c.stages, FirstOf(w, m), AwaitedOf(c, w, m))

LEMMA WorkerFields ==
    ASSUME NEW S \in Nat \ {0}, NEW w \in EnvWorker(S)
    PROVE  /\ w.calls \in Seq(Methods) /\ w.at \in [epoch : Nat, chunk : Nat, stage : 1 .. S]
           /\ w.at.epoch \in Nat /\ w.at.chunk \in Nat /\ w.at.stage \in 1 .. S /\ w.prefetched \in BOOLEAN
           /\ w.acted \in Acts /\ w.clock \in Clocks(S)
           /\ w.steps \in [1 .. S -> Seq([time : Nat, version : Int])]
BY DEF EnvWorker

LEMMA JobNumbers ==
    ASSUME NEW c \in Configs
    PROVE  /\ c.numEnvs \in Nat /\ c.envWorkers \in Nat \ {0} /\ c.rolloutWorkers \in Nat \ {0}
           /\ c.actors \in Nat \ {0} /\ c.stages \in Nat \ {0} /\ c.chunks \in Nat \ {0}
           /\ c.epochs \in Nat \ {0}
           /\ c.autoReset \in BOOLEAN /\ c.firstStep \in Nat /\ c.evalChunks \in Nat \ {0}
           /\ c.evalEpochs \in Nat \ {0} /\ c.evalAutoReset \in BOOLEAN
BY ConfigsAssumption DEF JobType

LEMMA AwaitedType ==
    ASSUME NEW c \in Configs, NEW w \in EnvWorker(c.stages), Place(c, w), NEW m \in Mode
    PROVE  AwaitedOf(c, w, m) \in 0 .. c.stages /\ FirstOf(w, m) \in 1 .. c.stages
<1>1. PICK S \in Nat \ {0} : S = c.stages
  BY JobNumbers
<1>2. /\ w.at.epoch \in Nat /\ w.at.chunk \in Nat /\ w.at.stage \in 1 .. S /\ w.prefetched \in BOOLEAN
  BY <1>1, WorkerFields
<1>3. FirstOf(w, m) \in 1 .. S
  BY <1>2 DEF FirstOf
<1>4. AwaitedOf(c, w, m) \in 0 .. S
  BY <1>1, <1>2 DEF AwaitedOf
<1> QED BY <1>1, <1>3, <1>4

LEMMA PendType ==
    ASSUME NEW c \in Configs, NEW w \in EnvWorker(c.stages), Place(c, w), NEW m \in Mode, NEW e \in Nat,
           PerWorker(c) \in Nat
    PROVE  /\ Batches(PendOf(c, e, w, m), PerWorker(c))
           /\ AwaitedOf(c, w, m) > 0 => PendOf(c, e, w, m)[1]
                 = View(e, PerWorker(c), m, FirstOf(w, m), w.clock[m][FirstOf(w, m)])
<1>1. PICK S \in Nat \ {0}, P \in Nat : S = c.stages /\ P = PerWorker(c)
  BY JobNumbers
<1>2. PICK f \in 1 .. S, k \in 0 .. S : f = FirstOf(w, m) /\ k = AwaitedOf(c, w, m)
  BY <1>1, AwaitedType
<1>3. w.clock \in Clocks(S)
  BY <1>1, WorkerFields
<1> DEFINE view == Views(e, P, S, m, w.clock)
           pend == Waiting(view, S, f, k)
<1>4. view \in OfStages(S, Seq(Observation))
  BY <1>3, ViewsType
<1>5. \A s \in 1 .. S : view[s] = View(e, P, m, s, w.clock[m][s]) /\ Len(view[s]) = P
  <2> SUFFICES ASSUME NEW s \in 1 .. S
               PROVE  view[s] = View(e, P, m, s, w.clock[m][s]) /\ Len(view[s]) = P
    OBVIOUS
  <2>1. view[s] = View(e, P, m, s, w.clock[m][s])
    BY DEF Views
  <2>2. w.clock[m][s] \in Nat /\ s \in Nat
    BY <1>3 DEF Clocks
  <2>3. Len(View(e, P, m, s, w.clock[m][s])) = P
    <3>1. PICK t \in Nat : t = w.clock[m][s]
      BY <2>2
    <3>2. Len(View(e, P, m, s, t)) = P
      BY <2>2, ViewType
    <3> QED BY <3>1, <3>2
  <2> QED BY <2>1, <2>3
<1> HIDE DEF view
<1>6. /\ pend \in Seq(Seq(Observation)) /\ Len(pend) = k
      /\ k > 0 => pend[1] = view[f]
  <2>1. pend \in Seq(Seq(Observation))
    BY <1>4, WaitType
  <2>2. Len(pend) = k
    BY <1>4, WaitType
  <2>3. k > 0 => pend[1] = view[f]
    BY <1>4, WaitType
  <2> QED BY <2>1, <2>2, <2>3
<1>7. \A b \in 1 .. k : Len(pend[b]) = P
  <2>1. \A b \in 1 .. k : InTurn(S, f, b) \in 1 .. S
    BY DEF InTurn
  <2> QED BY <1>5, <2>1 DEF Waiting
<1>8. PendOf(c, e, w, m) = pend
  BY <1>1, <1>2 DEF PendOf, view
<1> HIDE DEF pend
<1> QED BY <1>1, <1>2, <1>5, <1>6, <1>7, <1>8 DEF Batches

LEMMA ViewBatch ==
    ASSUME NEW e \in Nat, NEW size \in Nat, NEW m \in Mode, NEW s \in Nat, NEW time \in Nat
    PROVE  Batches(<<View(e, size, m, s, time)>>, size)
<1>1. PICK x : x = View(e, size, m, s, time)
  OBVIOUS
<1>2. x \in Seq(Observation) /\ Len(x) = size
  BY <1>1, ViewType
<1>3. <<x>> \in Seq(Seq(Observation)) /\ Len(<<x>>) = 1 /\ <<x>>[1] = x
  BY <1>2
<1>4. Batches(<<x>>, size)
  BY <1>2, <1>3 DEF Batches
<1> QED BY <1>1, <1>4

\* Nothing is sent or received.
LEMMA PendSame ==
    ASSUME NEW c, NEW e, NEW w, NEW w2, NEW m, w2.clock[m] = w.clock[m],
           FirstOf(w2, m) = FirstOf(w, m), AwaitedOf(c, w2, m) = AwaitedOf(c, w, m)
    PROVE  PendOf(c, e, w2, m) = PendOf(c, e, w, m)
BY DEF PendOf, Views

\* The observations of all stages are sent.
LEMMA PendBoot ==
    ASSUME NEW c \in Configs, NEW e \in Nat, NEW w \in EnvWorker(c.stages), NEW w2 \in EnvWorker(c.stages),
           NEW m \in Mode, PerWorker(c) \in Nat, Place(c, w),
           AwaitedOf(c, w, m) = 0, FirstOf(w2, m) = 1, AwaitedOf(c, w2, m) = c.stages
    PROVE  /\ PendOf(c, e, w2, m) = PendOf(c, e, w, m) \o Views(e, PerWorker(c), c.stages, m, w2.clock)
           /\ Batches(Views(e, PerWorker(c), c.stages, m, w2.clock), PerWorker(c))
<1>1. PICK S \in Nat \ {0}, P \in Nat : S = c.stages /\ P = PerWorker(c)
  BY JobNumbers
<1>2. PICK f \in 1 .. S : f = FirstOf(w, m)
  BY <1>1, AwaitedType
<1>3. w.clock \in Clocks(S) /\ w2.clock \in Clocks(S)
  BY <1>1, WorkerFields
<1> DEFINE view == Views(e, P, S, m, w.clock)
           view2 == Views(e, P, S, m, w2.clock)
<1>4. view \in OfStages(S, Seq(Observation)) /\ view2 \in OfStages(S, Seq(Observation))
  BY <1>3, ViewsType
<1>5. \A s \in 1 .. S : Len(view2[s]) = P
  <2> SUFFICES ASSUME NEW s \in 1 .. S PROVE Len(view2[s]) = P
    OBVIOUS
  <2>1. view2[s] = View(e, P, m, s, w2.clock[m][s])
    BY DEF Views
  <2>2. w2.clock[m][s] \in Nat /\ s \in Nat
    BY <1>3 DEF Clocks
  <2>3. Len(View(e, P, m, s, w2.clock[m][s])) = P
    <3>1. PICK t \in Nat : t = w2.clock[m][s]
      BY <2>2
    <3>2. Len(View(e, P, m, s, t)) = P
      BY <2>2, ViewType
    <3> QED BY <3>1, <3>2
  <2> QED BY <2>1, <2>3
<1>6. PendOf(c, e, w, m) = Waiting(view, S, f, 0) /\ PendOf(c, e, w2, m) = Waiting(view2, S, 1, S)
  BY <1>1, <1>2 DEF PendOf
<1> HIDE DEF view, view2
<1>7. Waiting(view, S, f, 0) = <<>>
  BY DEF Waiting
<1>8. Waiting(view2, S, 1, S) = view2
  BY <1>4, WaitAll
<1>9. view2 \in Seq(Seq(Observation)) /\ Len(view2) = S
  BY <1>4 DEF OfStages
<1>10. <<>> \o view2 = view2
  BY <1>9, ConcatEmptySeq
<1>11. Batches(view2, P)
  BY <1>5, <1>9 DEF Batches
<1> QED BY <1>1, <1>6, <1>7, <1>8, <1>10, <1>11 DEF view2

OneLess(a, b) == a = b - 1

\* The answer of a stage is received.
LEMMA PendTake ==
    ASSUME NEW c \in Configs, NEW e \in Nat, NEW w \in EnvWorker(c.stages), NEW w2 \in EnvWorker(c.stages),
           NEW m \in Mode, PerWorker(c) \in Nat, Place(c, w), NEW s, s = FirstOf(w, m),
           AwaitedOf(c, w, m) > 0, FirstOf(w2, m) = NextOf(c.stages, s),
           OneLess(AwaitedOf(c, w2, m), AwaitedOf(c, w, m)),
           \A x \in 1 .. c.stages : x # s => w2.clock[m][x] = w.clock[m][x]
    PROVE  PendOf(c, e, w2, m) = Tail(PendOf(c, e, w, m))
<1>1. PICK S \in Nat \ {0}, P \in Nat : S = c.stages /\ P = PerWorker(c)
  BY JobNumbers
<1>2. s \in 1 .. S
  BY <1>1, AwaitedType
<1>3. PICK k \in 1 .. S : k = AwaitedOf(c, w, m)
  <2>1. AwaitedOf(c, w, m) \in 0 .. S
    BY <1>1, AwaitedType
  <2> QED BY <2>1
<1>4. w.clock \in Clocks(S) /\ w2.clock \in Clocks(S)
  BY <1>1, WorkerFields
<1> DEFINE view == Views(e, P, S, m, w.clock)
           view2 == Views(e, P, S, m, w2.clock)
<1>5. view \in OfStages(S, Seq(Observation)) /\ view2 \in OfStages(S, Seq(Observation))
  BY <1>4, ViewsType
<1>6. AllBut(view, view2, S, s)
  BY <1>1 DEF Views, AllBut
<1>7. PendOf(c, e, w, m) = Waiting(view, S, s, k)
        /\ PendOf(c, e, w2, m) = Waiting(view2, S, NextOf(S, s), k - 1)
  <2>1. AwaitedOf(c, w2, m) = k - 1
    BY <1>3 DEF OneLess
  <2> QED BY <1>1, <1>2, <1>3, <2>1 DEF PendOf
<1> HIDE DEF view, view2
<1>8. Waiting(view2, S, NextOf(S, s), k - 1) = Tail(Waiting(view, S, s, k))
  BY SMTT(60), <1>2, <1>5, <1>6, WaitPop
<1> QED BY <1>7, <1>8

\* The answer of a stage is received and the next observations of the stage are sent.
LEMMA PendStep ==
    ASSUME NEW c \in Configs, NEW e \in Nat, NEW w \in EnvWorker(c.stages), NEW w2 \in EnvWorker(c.stages),
           NEW m \in Mode, PerWorker(c) \in Nat, Place(c, w), NEW s, s = FirstOf(w, m),
           AwaitedOf(c, w, m) = c.stages, FirstOf(w2, m) = NextOf(c.stages, s),
           AwaitedOf(c, w2, m) = c.stages,
           \A x \in 1 .. c.stages : x # s => w2.clock[m][x] = w.clock[m][x]
    PROVE  /\ PendOf(c, e, w2, m)
                 = Tail(PendOf(c, e, w, m)) \o <<View(e, PerWorker(c), m, s, w2.clock[m][s])>>
           /\ Batches(<<View(e, PerWorker(c), m, s, w2.clock[m][s])>>, PerWorker(c))
<1>1. PICK S \in Nat \ {0}, P \in Nat : S = c.stages /\ P = PerWorker(c)
  BY JobNumbers
<1>2. s \in 1 .. S
  BY <1>1, AwaitedType
<1>4. w.clock \in Clocks(S) /\ w2.clock \in Clocks(S)
  BY <1>1, WorkerFields
<1> DEFINE view == Views(e, P, S, m, w.clock)
           view2 == Views(e, P, S, m, w2.clock)
<1>5. view \in OfStages(S, Seq(Observation)) /\ view2 \in OfStages(S, Seq(Observation))
  BY <1>4, ViewsType
<1>6. AllBut(view, view2, S, s)
  BY <1>1 DEF Views, AllBut
<1>7. PendOf(c, e, w, m) = Waiting(view, S, s, S) /\ PendOf(c, e, w2, m) = Waiting(view2, S, NextOf(S, s), S)
  BY <1>1, <1>2 DEF PendOf
<1>8. view2[s] = View(e, P, m, s, w2.clock[m][s])
  BY <1>2 DEF Views
<1> HIDE DEF view, view2
<1>9. Waiting(view2, S, NextOf(S, s), S - 1) = Tail(Waiting(view, S, s, S))
  <2>1. S \in 1 .. S
    OBVIOUS
  <2> QED BY <1>2, <1>5, <1>6, <2>1, WaitPop
<1>10. Waiting(view2, S, NextOf(S, s), S) = Waiting(view2, S, NextOf(S, s), S - 1) \o <<view2[s]>>
  BY <1>2, <1>5, WaitPush
<1>11. Batches(<<View(e, P, m, s, w2.clock[m][s])>>, P)
  <2>1. PICK t \in Nat, q \in Nat : t = w2.clock[m][s] /\ q = s
    BY <1>2, <1>4 DEF Clocks
  <2>2. Batches(<<View(e, P, m, q, t)>>, P)
    BY ViewBatch
  <2> QED BY <2>1, <2>2
<1> QED BY <1>1, <1>7, <1>8, <1>9, <1>10, <1>11

-----------------------------------------------------------------------------
(* The invariant over the env workers and the queues.                        *)

\* What was acted on was answered to what was observed.
Owned(w) == w.acted # <<>> => Questions(w.acted.answer) = w.acted.observed

Served(c, to, workers, answers, asks) ==
    \A e \in 0 .. c.envWorkers - 1 : \A m \in Mode :
        Fed(answers, asks, e, m, PendOf(c, e, workers[e], m), to[e])
Good(c, to, workers, answers, asks) ==
    /\ workers \in [0 .. c.envWorkers - 1 -> EnvWorker(c.stages)]
    /\ answers \in Queues(c.rolloutWorkers, c.envWorkers, Reply)
    /\ asks \in Queues(c.envWorkers, c.rolloutWorkers, Observation)
    /\ \A e \in 0 .. c.envWorkers - 1 : Place(c, workers[e]) /\ Owned(workers[e])
    /\ Served(c, to, workers, answers, asks)
Knows(c, to) ==
    PerWorker(c) \in Nat \ {0}
      /\ \A e \in 0 .. c.envWorkers - 1 : Shares(to[e], PerWorker(c), c.rolloutWorkers)

\* One worker moves on, and in one mode its requests change.
LEMMA Moved ==
    ASSUME NEW c \in Configs, NEW to, NEW workers, NEW answers, NEW asks, Good(c, to, workers, answers, asks),
           NEW e \in 0 .. c.envWorkers - 1, NEW w2 \in EnvWorker(c.stages), Place(c, w2), Owned(w2),
           NEW m \in Mode, \A m2 \in Mode : m2 # m => PendOf(c, e, w2, m2) = PendOf(c, e, workers[e], m2),
           NEW answers2 \in Queues(c.rolloutWorkers, c.envWorkers, Reply),
           NEW asks2 \in Queues(c.envWorkers, c.rolloutWorkers, Observation),
           \A e2 \in 0 .. c.envWorkers - 1 : \A m2 \in Mode :
              Fed(answers2, asks2, e2, m2,
                  IF e2 = e /\ m2 = m THEN PendOf(c, e, w2, m) ELSE PendOf(c, e2, workers[e2], m2), to[e2])
    PROVE  Good(c, to, [workers EXCEPT ![e] = w2], answers2, asks2)
<1> DEFINE all == [workers EXCEPT ![e] = w2]
<1>1. workers \in [0 .. c.envWorkers - 1 -> EnvWorker(c.stages)]
  BY DEF Good
<1>2. /\ all \in [0 .. c.envWorkers - 1 -> EnvWorker(c.stages)] /\ all[e] = w2
      /\ \A e2 \in 0 .. c.envWorkers - 1 : e2 # e => all[e2] = workers[e2]
  BY <1>1
<1> HIDE DEF all
<1>3. \A e2 \in 0 .. c.envWorkers - 1 : Place(c, all[e2]) /\ Owned(all[e2])
  BY <1>2 DEF Good
<1>4. ASSUME NEW e2 \in 0 .. c.envWorkers - 1, NEW m2 \in Mode
      PROVE  Fed(answers2, asks2, e2, m2, PendOf(c, e2, all[e2], m2), to[e2])
  <2>1. PICK p : p = IF e2 = e /\ m2 = m THEN PendOf(c, e, w2, m) ELSE PendOf(c, e2, workers[e2], m2)
    OBVIOUS
  <2>2. Fed(answers2, asks2, e2, m2, p, to[e2])
    BY <2>1
  <2>3. p = PendOf(c, e2, all[e2], m2)
    <3>1. CASE e2 # e
      BY <1>2, <2>1, <3>1
    <3>2. CASE e2 = e /\ m2 = m
      BY <1>2, <2>1, <3>2
    <3>3. CASE e2 = e /\ m2 # m
      BY <1>2, <2>1, <3>3
    <3> QED BY <3>1, <3>2, <3>3
  <2> QED BY <2>2, <2>3
<1>5. Served(c, to, all, answers2, asks2)
  BY <1>4 DEF Served
<1>6. Good(c, to, all, answers2, asks2)
  BY <1>2, <1>3, <1>5 DEF Good
<1> QED BY <1>6 DEF all

LEMMA Workers ==
    ASSUME NEW c \in Configs
    PROVE  \E E \in Nat \ {0}, R \in Nat \ {0} : E = c.envWorkers /\ R = c.rolloutWorkers
BY JobNumbers

\* Nothing is sent or received.
LEMMA MovedOn ==
    ASSUME NEW c \in Configs, NEW to, NEW workers, NEW answers, NEW asks, Good(c, to, workers, answers, asks),
           NEW e \in 0 .. c.envWorkers - 1, NEW w2 \in EnvWorker(c.stages), Place(c, w2), Owned(w2),
           \A m \in Mode : PendOf(c, e, w2, m) = PendOf(c, e, workers[e], m)
    PROVE  Good(c, to, [workers EXCEPT ![e] = w2], answers, asks)
<1>1. /\ answers \in Queues(c.rolloutWorkers, c.envWorkers, Reply)
      /\ asks \in Queues(c.envWorkers, c.rolloutWorkers, Observation)
  BY DEF Good
<1>2. PICK m \in Mode : m = "train"
  BY DEF Mode
<1>3. ASSUME NEW e2 \in 0 .. c.envWorkers - 1, NEW m2 \in Mode
      PROVE  Fed(answers, asks, e2, m2,
                 IF e2 = e /\ m2 = m THEN PendOf(c, e, w2, m) ELSE PendOf(c, e2, workers[e2], m2), to[e2])
  <2>1. Fed(answers, asks, e2, m2, PendOf(c, e2, workers[e2], m2), to[e2])
    BY DEF Good, Served
  <2> QED BY <2>1
<1> QED BY <1>1, <1>3, Moved

\* Observations are sent.
LEMMA MovedSending ==
    ASSUME NEW c \in Configs, NEW to, NEW workers, NEW answers, NEW asks, Good(c, to, workers, answers, asks),
           Knows(c, to),
           NEW e \in 0 .. c.envWorkers - 1, NEW w2 \in EnvWorker(c.stages), Place(c, w2), Owned(w2),
           NEW m \in Mode, \A m2 \in Mode : m2 # m => PendOf(c, e, w2, m2) = PendOf(c, e, workers[e], m2),
           NEW batches, Batches(batches, PerWorker(c)),
           PendOf(c, e, w2, m) = PendOf(c, e, workers[e], m) \o batches
    PROVE  Good(c, to, [workers EXCEPT ![e] = w2], answers, Sent(asks, e, to[e], m, batches))
<1>1. PICK E \in Nat, R \in Nat : E = c.envWorkers /\ R = c.rolloutWorkers
  BY Workers
<1>2. /\ answers \in Queues(R, E, Reply) /\ asks \in Queues(E, R, Observation) /\ e \in 0 .. E - 1
  BY <1>1 DEF Good
<1>3. PICK total \in Nat : total = PerWorker(c) /\ \A e2 \in 0 .. E - 1 : Shares(to[e2], total, R)
  BY <1>1 DEF Knows
<1> DEFINE sent == Sent(asks, e, to[e], m, batches)
<1>4. sent \in Queues(E, R, Observation)
  <2>1. batches \in Seq(Seq(Observation)) /\ \A b \in 1 .. Len(batches) : Len(batches[b]) = total
    BY <1>3 DEF Batches
  <2>2. Shares(to[e], total, R)
    BY <1>2, <1>3
  <2> QED BY <1>2, <2>1, <2>2, SentType
<1>5. ASSUME NEW e2 \in 0 .. E - 1, NEW m2 \in Mode
      PROVE  Fed(answers, sent, e2, m2,
                 IF e2 = e /\ m2 = m THEN PendOf(c, e, w2, m) ELSE PendOf(c, e2, workers[e2], m2), to[e2])
  <2>1. PICK pend : pend = PendOf(c, e2, workers[e2], m2)
    OBVIOUS
  <2>2. Fed(answers, asks, e2, m2, pend, to[e2])
    BY <1>1, <2>1 DEF Good, Served
  <2>3. Shares(to[e], total, R) /\ Shares(to[e2], total, R) /\ Batches(batches, total)
    BY <1>2, <1>3
  <2>4. Fed(answers, sent, e2, m2, IF e2 = e /\ m2 = m THEN pend \o batches ELSE pend, to[e2])
    BY <1>2, <2>2, <2>3, FedSend
  <2> HIDE DEF sent
  <2>5. (IF e2 = e /\ m2 = m THEN pend \o batches ELSE pend)
           = IF e2 = e /\ m2 = m THEN PendOf(c, e, w2, m) ELSE PendOf(c, e2, workers[e2], m2)
    BY <2>1
  <2> QED BY <2>4, <2>5
<1> HIDE DEF sent
<1>6. Good(c, to, [workers EXCEPT ![e] = w2], answers, sent)
  <2>1. answers \in Queues(c.rolloutWorkers, c.envWorkers, Reply)
          /\ sent \in Queues(c.envWorkers, c.rolloutWorkers, Observation)
    BY <1>1, <1>2, <1>4
  <2> QED BY <1>1, <1>5, <2>1, Moved
<1> QED BY <1>6 DEF sent

\* An answer is received: it answers the first of the requests.
LEMMA Received ==
    ASSUME NEW c \in Configs, NEW to, NEW workers, NEW answers, NEW asks, Good(c, to, workers, answers, asks),
           Knows(c, to), NEW e \in 0 .. c.envWorkers - 1, NEW m \in Mode, Ready(answers, e, to[e], m)
    PROVE  LET w == workers[e]
               s == FirstOf(w, m)
           IN  /\ AwaitedOf(c, w, m) > 0
               /\ Merged(answers, e, to[e], m) \in Seq(Reply)
               /\ Questions(Merged(answers, e, to[e], m)) = View(e, PerWorker(c), m, s, w.clock[m][s])
<1>1. PICK E \in Nat, R \in Nat : E = c.envWorkers /\ R = c.rolloutWorkers
  BY Workers
<1>2. /\ answers \in Queues(R, E, Reply) /\ e \in 0 .. E - 1 /\ workers[e] \in EnvWorker(c.stages)
      /\ Place(c, workers[e])
  BY <1>1 DEF Good
<1>3. PICK total \in Nat \ {0} : total = PerWorker(c) /\ Shares(to[e], total, R)
  BY <1>1 DEF Knows
<1>4. PICK w, pend, parts : w = workers[e] /\ pend = PendOf(c, e, w, m) /\ parts = to[e]
  OBVIOUS
<1>5. Fed(answers, asks, e, m, pend, parts)
  BY <1>4 DEF Good, Served
<1>6. /\ Batches(pend, total)
      /\ AwaitedOf(c, w, m) > 0 => pend[1] = View(e, total, m, FirstOf(w, m), w.clock[m][FirstOf(w, m)])
  <2>1. e \in Nat /\ PerWorker(c) \in Nat
    BY <1>2, <1>3
  <2> QED BY <1>2, <1>3, <1>4, <2>1, PendType
<1>7. pend # <<>> /\ Merged(answers, e, parts, m) \in Seq(Reply)
        /\ Questions(Merged(answers, e, parts, m)) = pend[1]
  BY <1>2, <1>3, <1>4, <1>5, <1>6, FedMerged
<1>8. AwaitedOf(c, w, m) > 0
  <2>1. PICK S \in Nat \ {0} : S = c.stages
    BY JobNumbers
  <2>2. PICK k \in 0 .. S : k = AwaitedOf(c, w, m)
    BY <1>2, <1>4, <2>1, AwaitedType
  <2>3. ASSUME k = 0 PROVE pend = <<>>
    BY <1>4, <2>2, <2>3 DEF PendOf, Waiting
  <2> QED BY <1>7, <2>2, <2>3
<1> QED BY <1>3, <1>4, <1>6, <1>7, <1>8

LEMMA MovedTaking ==
    ASSUME NEW c \in Configs, NEW to, NEW workers, NEW answers, NEW asks, Good(c, to, workers, answers, asks),
           Knows(c, to),
           NEW e \in 0 .. c.envWorkers - 1, NEW w2 \in EnvWorker(c.stages), Place(c, w2), Owned(w2),
           NEW m \in Mode, \A m2 \in Mode : m2 # m => PendOf(c, e, w2, m2) = PendOf(c, e, workers[e], m2),
           Ready(answers, e, to[e], m),
           PendOf(c, e, w2, m) = Tail(PendOf(c, e, workers[e], m))
    PROVE  Good(c, to, [workers EXCEPT ![e] = w2], Taken(answers, e, to[e], m), asks)
<1>1. PICK E \in Nat, R \in Nat : E = c.envWorkers /\ R = c.rolloutWorkers
  BY Workers
<1>2. /\ answers \in Queues(R, E, Reply) /\ asks \in Queues(E, R, Observation) /\ e \in 0 .. E - 1
  BY <1>1 DEF Good
<1>3. PICK total \in Nat : total = PerWorker(c) /\ \A e2 \in 0 .. E - 1 : Shares(to[e2], total, R)
  BY <1>1 DEF Knows
<1> DEFINE taken == Taken(answers, e, to[e], m)
<1>4. taken \in Queues(R, E, Reply)
  <2>2. Shares(to[e], total, R)
    BY <1>2, <1>3
  <2> QED BY <1>2, <2>2, TakenType
<1>5. ASSUME NEW e2 \in 0 .. E - 1, NEW m2 \in Mode
      PROVE  Fed(taken, asks, e2, m2,
                 IF e2 = e /\ m2 = m THEN PendOf(c, e, w2, m) ELSE PendOf(c, e2, workers[e2], m2), to[e2])
  <2>1. PICK pend : pend = PendOf(c, e2, workers[e2], m2)
    OBVIOUS
  <2>2. Fed(answers, asks, e2, m2, pend, to[e2])
    BY <1>1, <2>1 DEF Good, Served
  <2>3. Shares(to[e], total, R) /\ Shares(to[e2], total, R)
    BY <1>2, <1>3
  <2>4. Fed(taken, asks, e2, m2, IF e2 = e /\ m2 = m THEN Tail(pend) ELSE pend, to[e2])
    BY <1>2, <2>2, <2>3, FedTake
  <2> HIDE DEF taken
  <2>5. (IF e2 = e /\ m2 = m THEN Tail(pend) ELSE pend)
           = IF e2 = e /\ m2 = m THEN PendOf(c, e, w2, m) ELSE PendOf(c, e2, workers[e2], m2)
    BY <2>1
  <2> QED BY <2>4, <2>5
<1> HIDE DEF taken
<1>6. Good(c, to, [workers EXCEPT ![e] = w2], taken, asks)
  <2>1. taken \in Queues(c.rolloutWorkers, c.envWorkers, Reply)
          /\ asks \in Queues(c.envWorkers, c.rolloutWorkers, Observation)
    BY <1>1, <1>2, <1>4
  <2> QED BY <1>1, <1>5, <2>1, Moved
<1> QED BY <1>6 DEF taken

LEMMA MovedStepping ==
    ASSUME NEW c \in Configs, NEW to, NEW workers, NEW answers, NEW asks, Good(c, to, workers, answers, asks),
           Knows(c, to),
           NEW e \in 0 .. c.envWorkers - 1, NEW w2 \in EnvWorker(c.stages), Place(c, w2), Owned(w2),
           NEW m \in Mode, \A m2 \in Mode : m2 # m => PendOf(c, e, w2, m2) = PendOf(c, e, workers[e], m2),
           Ready(answers, e, to[e], m), NEW batches, Batches(batches, PerWorker(c)),
           PendOf(c, e, w2, m) = Tail(PendOf(c, e, workers[e], m)) \o batches
    PROVE  Good(c, to, [workers EXCEPT ![e] = w2], Taken(answers, e, to[e], m), Sent(asks, e, to[e], m, batches))
<1>1. PICK E \in Nat, R \in Nat : E = c.envWorkers /\ R = c.rolloutWorkers
  BY Workers
<1>2. /\ answers \in Queues(R, E, Reply) /\ asks \in Queues(E, R, Observation) /\ e \in 0 .. E - 1
  BY <1>1 DEF Good
<1>3. PICK total \in Nat : total = PerWorker(c) /\ \A e2 \in 0 .. E - 1 : Shares(to[e2], total, R)
  BY <1>1 DEF Knows
<1> DEFINE taken == Taken(answers, e, to[e], m)
           sent == Sent(asks, e, to[e], m, batches)
<1>4. taken \in Queues(R, E, Reply) /\ sent \in Queues(E, R, Observation)
  <2>1. batches \in Seq(Seq(Observation)) /\ \A b \in 1 .. Len(batches) : Len(batches[b]) = total
    BY <1>3 DEF Batches
  <2>2. Shares(to[e], total, R)
    BY <1>2, <1>3
  <2>3. taken \in Queues(R, E, Reply)
    BY <1>2, <2>2, TakenType
  <2>4. sent \in Queues(E, R, Observation)
    BY <1>2, <2>1, <2>2, SentType
  <2> QED BY <2>3, <2>4
<1>5. ASSUME NEW e2 \in 0 .. E - 1, NEW m2 \in Mode
      PROVE  Fed(taken, sent, e2, m2,
                 IF e2 = e /\ m2 = m THEN PendOf(c, e, w2, m) ELSE PendOf(c, e2, workers[e2], m2), to[e2])
  <2>1. PICK pend : pend = PendOf(c, e2, workers[e2], m2)
    OBVIOUS
  <2>2. Fed(answers, asks, e2, m2, pend, to[e2])
    BY <1>1, <2>1 DEF Good, Served
  <2>3. Shares(to[e], total, R) /\ Shares(to[e2], total, R) /\ Batches(batches, total)
    BY <1>2, <1>3
  <2>4. PICK left : left = IF e2 = e /\ m2 = m THEN Tail(pend) ELSE pend
    OBVIOUS
  <2>5. Fed(taken, asks, e2, m2, left, to[e2])
    BY <1>2, <2>2, <2>3, <2>4, FedTake
  <2>6. Fed(taken, sent, e2, m2, IF e2 = e /\ m2 = m THEN left \o batches ELSE left, to[e2])
    <3> HIDE DEF taken
    <3> QED BY <1>2, <2>5, <2>3, FedSend
  <2> HIDE DEF taken, sent
  <2>7. (IF e2 = e /\ m2 = m THEN left \o batches ELSE left)
           = IF e2 = e /\ m2 = m THEN PendOf(c, e, w2, m) ELSE PendOf(c, e2, workers[e2], m2)
    BY <2>1, <2>4
  <2> QED BY <2>6, <2>7
<1> HIDE DEF taken, sent
<1>6. Good(c, to, [workers EXCEPT ![e] = w2], taken, sent)
  <2>1. taken \in Queues(c.rolloutWorkers, c.envWorkers, Reply)
          /\ sent \in Queues(c.envWorkers, c.rolloutWorkers, Observation)
    BY <1>1, <1>2, <1>4
  <2> QED BY <1>1, <1>5, <2>1, Moved
<1> QED BY <1>6 DEF taken, sent

\* A rollout worker answers.
LEMMA GoodAnswer ==
    ASSUME NEW c \in Configs, NEW to, NEW workers, NEW answers, NEW asks, Good(c, to, workers, answers, asks),
           Knows(c, to), NEW r \in 0 .. c.rolloutWorkers - 1, NEW m \in Mode,
           NEW from, NEW half, Shares(from, half, c.envWorkers), Ready(asks, r, from, m), NEW version \in Int
    PROVE  Good(c, to, workers, Sent(answers, r, from, m, <<Answering(Merged(asks, r, from, m), version)>>),
                Taken(asks, r, from, m))
<1>1. PICK E \in Nat, R \in Nat : E = c.envWorkers /\ R = c.rolloutWorkers
  BY Workers
<1>2. /\ answers \in Queues(R, E, Reply) /\ asks \in Queues(E, R, Observation) /\ r \in 0 .. R - 1
      /\ Shares(from, half, E)
  BY <1>1 DEF Good
<1>3. PICK total \in Nat : total = PerWorker(c) /\ \A e2 \in 0 .. E - 1 : Shares(to[e2], total, R)
  BY <1>1 DEF Knows
<1> DEFINE merged == Merged(asks, r, from, m)
           batches == <<Answering(merged, version)>>
           taken == Taken(asks, r, from, m)
           sent == Sent(answers, r, from, m, batches)
<1>4. taken \in Queues(E, R, Observation)
  BY <1>2, TakenType
<1>5. merged \in Seq(Observation) /\ Len(merged) = half
  <2>1. /\ from \in Seq(CellRec) /\ Sized(from) /\ Before(from, Len(from) + 1) = half
        /\ DOMAIN from = 1 .. Len(from) /\ Len(from) \in Nat
        /\ \A n \in 1 .. Len(from) : from[n].rank \in 0 .. E - 1
    BY <1>2, LenProperties DEF Shares
  <2> DEFINE heads == [n \in 1 .. Len(from) |-> Head(asks[<<from[n].rank, r, m>>])]
  <2>2. ASSUME NEW n \in 1 .. Len(from)
        PROVE  heads[n] \in Seq(Observation) /\ Len(heads[n]) = from[n].size
    <3>1. PICK q : q = asks[<<from[n].rank, r, m>>]
      OBVIOUS
    <3>2. q # <<>> /\ Len(Head(q)) = from[n].size
      BY <2>1, <3>1 DEF Ready
    <3>3. q \in Seq(Seq(Observation))
      BY <1>2, <2>1, <3>1 DEF Queues
    <3>4. Head(q) \in Seq(Observation)
      BY <3>2, <3>3, Shorter
    <3> QED BY <3>1, <3>2, <3>4
  <2>3. heads \in Seq(Seq(Observation)) /\ Len(heads) = Len(from)
    BY <2>1, <2>2
  <2>4. merged = FlattenSeq(heads)
    BY <2>1 DEF Merged
  <2> HIDE DEF heads
  <2>5. Fit(heads, from)
    BY <2>1, <2>2, <2>3 DEF Fit
  <2>6. FlattenSeq(heads) \in Seq(Observation) /\ Len(FlattenSeq(heads)) = Before(from, Len(from) + 1)
    BY <2>3, <2>5, FlattenPlaces
  <2> QED BY <2>1, <2>4, <2>6
<1> HIDE DEF merged
<1>6. sent \in Queues(R, E, Reply)
  <2>1. Answering(merged, version) \in Seq(Reply) /\ Len(Answering(merged, version)) = half
    <3>1. Len(merged) \in Nat /\ DOMAIN merged = 1 .. Len(merged)
          /\ \A n \in 1 .. Len(merged) : merged[n] \in Observation
      BY <1>5, LenProperties, ElementOfSeq
    <3>2. PICK k \in Nat : k = Len(merged)
      BY <3>1
    <3>3. Answering(merged, version) = [n \in 1 .. k |-> [to |-> merged[n], version |-> version]]
      BY <3>1, <3>2 DEF Answering
    <3>4. \A n \in 1 .. k : [to |-> merged[n], version |-> version] \in Reply
      BY <3>1, <3>2 DEF Reply
    <3>5. [n \in 1 .. k |-> [to |-> merged[n], version |-> version]] \in Seq(Reply)
      BY <3>4
    <3>6. Len([n \in 1 .. k |-> [to |-> merged[n], version |-> version]]) = k
      OBVIOUS
    <3> QED BY <1>5, <3>2, <3>3, <3>5, <3>6
  <2>2. PICK x : x = Answering(merged, version)
    OBVIOUS
  <2>3. <<x>> \in Seq(Seq(Reply)) /\ \A b \in 1 .. Len(<<x>>) : Len(<<x>>[b]) = half
    BY <2>1, <2>2
  <2>4. batches = <<x>>
    BY <2>2
  <2> HIDE DEF batches
  <2> QED BY <1>2, <2>3, <2>4, SentType
<1>7. ASSUME NEW e \in 0 .. E - 1, NEW m2 \in Mode
      PROVE  Fed(sent, taken, e, m2, PendOf(c, e, workers[e], m2), to[e])
  <2>1. Fed(answers, asks, e, m2, PendOf(c, e, workers[e], m2), to[e])
    BY <1>1 DEF Good, Served
  <2>2. Shares(to[e], total, R)
    BY <1>3
  <2> QED BY <1>2, <2>1, <2>2, FedAnswer DEF merged
<1> HIDE DEF sent, taken, batches
<1>8. Good(c, to, workers, sent, taken)
  <2>1. /\ sent \in Queues(c.rolloutWorkers, c.envWorkers, Reply)
        /\ taken \in Queues(c.envWorkers, c.rolloutWorkers, Observation)
    BY <1>1, <1>4, <1>6
  <2>2. Served(c, to, workers, sent, taken)
    BY <1>1, <1>7 DEF Served
  <2> QED BY <2>1, <2>2 DEF Good
<1> QED BY <1>8 DEF sent, taken, batches, merged

-----------------------------------------------------------------------------
(* How the loops move on: w is the worker before, w2 after.                  *)

\* What a worker executes next.
LEMMA Next1 ==
    ASSUME NEW S \in Nat \ {0}, NEW w \in EnvWorker(S)
    PROVE  ~(Executes(w, "interact") /\ Executes(w, "evaluate"))
BY DEF Executes

At(w, epoch, chunk, stage) == w.at.epoch = epoch /\ w.at.chunk = chunk /\ w.at.stage = stage

\* An epoch of interact begins.
LEMMA BeginsEpoch ==
    ASSUME NEW c \in Configs, NEW w \in EnvWorker(c.stages), NEW w2 \in EnvWorker(c.stages), Place(c, w),
           Executes(w, "interact"), w.at.chunk = 0, w2.calls = w.calls, At(w2, w.at.epoch, 1, w.at.stage),
           ~w2.prefetched
    PROVE  /\ Place(c, w2) /\ AwaitedOf(c, w2, "train") = c.stages /\ FirstOf(w2, "train") = 1
           /\ FirstOf(w, "train") = 1
           /\ AwaitedOf(c, w, "train") = IF w.at.epoch = 1 /\ w.prefetched THEN c.stages ELSE 0
           /\ AwaitedOf(c, w2, "eval") = AwaitedOf(c, w, "eval") /\ FirstOf(w2, "eval") = FirstOf(w, "eval")
<1>1. PICK S \in Nat \ {0}, C \in Nat \ {0} : S = c.stages /\ C = c.chunks
  BY JobNumbers
<1>2. /\ w.at.epoch \in Nat /\ w.at.chunk \in Nat /\ w.at.stage \in 1 .. S /\ w.prefetched \in BOOLEAN
  BY <1>1, WorkerFields
<1>3. /\ Executes(w2, "interact") /\ ~Executes(w2, "evaluate") /\ ~Executes(w, "evaluate")
  BY DEF Executes
<1>4. w.at.stage = 1 /\ w2.at.chunk = 1 /\ w2.at.stage = 1 /\ (w.at.epoch # 1 => ~w.prefetched)
  BY <1>2 DEF Place, At
<1> QED BY <1>1, <1>2, <1>3, <1>4 DEF Place, AwaitedOf, FirstOf

\* The bootstrap of the next step is prefetched.
LEMMA Prefetches ==
    ASSUME NEW c \in Configs, NEW w \in EnvWorker(c.stages), NEW w2 \in EnvWorker(c.stages), Place(c, w),
           Executes(w, "prefetch"), ~w.prefetched, At(w2, 1, 0, 1), w2.prefetched
    PROVE  /\ Place(c, w2) /\ AwaitedOf(c, w2, "train") = c.stages /\ FirstOf(w2, "train") = 1
           /\ FirstOf(w, "train") = 1 /\ AwaitedOf(c, w, "train") = 0
           /\ AwaitedOf(c, w2, "eval") = AwaitedOf(c, w, "eval") /\ FirstOf(w2, "eval") = FirstOf(w, "eval")
<1>1. PICK S \in Nat \ {0}, C \in Nat \ {0}, F \in Nat \ {0}, G \in Nat \ {0} :
        S = c.stages /\ C = c.chunks /\ F = c.evalEpochs /\ G = c.evalChunks
  BY JobNumbers
<1>2. ~Executes(w, "interact") /\ ~Executes(w, "evaluate")
        /\ ~(Executes(w2, "interact") /\ Executes(w2, "evaluate"))
  BY DEF Executes
<1> QED BY <1>1, <1>2 DEF Place, AwaitedOf, FirstOf, At

\* The next stage, and after the last one the next chunk.
Onward(S, at, at2) ==
    /\ at2.epoch = at.epoch /\ at2.stage = NextOf(S, at.stage)
    /\ at2.chunk = IF at.stage < S THEN at.chunk ELSE at.chunk + 1

\* A chunk step of interact.
LEMMA Interacts ==
    ASSUME NEW c \in Configs, NEW w \in EnvWorker(c.stages), NEW w2 \in EnvWorker(c.stages), Place(c, w),
           Executes(w, "interact"), w.at.chunk \in 1 .. c.chunks, w2.calls = w.calls,
           Onward(c.stages, w.at, w2.at), w2.prefetched = w.prefetched
    PROVE  /\ Place(c, w2) /\ AwaitedOf(c, w2, "train") = c.stages /\ AwaitedOf(c, w, "train") = c.stages
           /\ FirstOf(w, "train") = w.at.stage /\ FirstOf(w2, "train") = NextOf(c.stages, w.at.stage)
           /\ AwaitedOf(c, w2, "eval") = AwaitedOf(c, w, "eval") /\ FirstOf(w2, "eval") = FirstOf(w, "eval")
<1>1. PICK S \in Nat \ {0}, C \in Nat \ {0} : S = c.stages /\ C = c.chunks
  BY JobNumbers
<1>2. /\ w.at.epoch \in Nat /\ w.at.chunk \in Nat /\ w.at.stage \in 1 .. S /\ w.prefetched \in BOOLEAN
  BY <1>1, WorkerFields
<1>3. /\ Executes(w2, "interact") /\ ~Executes(w2, "evaluate") /\ ~Executes(w, "evaluate")
  BY DEF Executes
<1>4. ~w.prefetched
  BY <1>1, <1>2 DEF Place
<1> QED BY <1>1, <1>2, <1>3, <1>4 DEF Place, AwaitedOf, FirstOf, Onward, NextOf

\* The values of the last observation of a stage: another stage follows, another epoch, or the end.
LEMMA EndsEpoch ==
    ASSUME NEW c \in Configs, NEW w \in EnvWorker(c.stages), NEW w2 \in EnvWorker(c.stages), Place(c, w),
           Executes(w, "interact"), w.at.chunk = c.chunks + 1, w2.prefetched = w.prefetched,
           \/ w.at.stage < c.stages /\ w2.calls = w.calls /\ At(w2, w.at.epoch, w.at.chunk, w.at.stage + 1)
           \/ w.at.stage = c.stages /\ w2.calls = w.calls /\ At(w2, w.at.epoch + 1, 0, 1)
           \/ w.at.stage = c.stages /\ At(w2, 1, 0, 1)
    PROVE  /\ Place(c, w2) /\ AwaitedOf(c, w, "train") > 0
           /\ AwaitedOf(c, w2, "train") = AwaitedOf(c, w, "train") - 1
           /\ FirstOf(w, "train") = w.at.stage /\ FirstOf(w2, "train") = NextOf(c.stages, w.at.stage)
           /\ AwaitedOf(c, w2, "eval") = 0 /\ AwaitedOf(c, w, "eval") = 0
<1>1. PICK S \in Nat \ {0}, C \in Nat \ {0}, F \in Nat \ {0}, G \in Nat \ {0} :
        S = c.stages /\ C = c.chunks /\ F = c.evalEpochs /\ G = c.evalChunks
  BY JobNumbers
<1>2. /\ w.at.epoch \in Nat /\ w.at.chunk \in Nat /\ w.at.stage \in 1 .. S /\ w.prefetched \in BOOLEAN
  BY <1>1, WorkerFields
<1>3. ~Executes(w, "evaluate") /\ ~(Executes(w2, "interact") /\ Executes(w2, "evaluate"))
      /\ (w2.calls = w.calls => Executes(w2, "interact"))
  BY DEF Executes
<1>4. ~w.prefetched /\ w.at.chunk > 0 /\ ~(w.at.chunk <= C)
  BY <1>1, <1>2 DEF Place
<1>5. /\ AwaitedOf(c, w, "train") = S - w.at.stage + 1 /\ FirstOf(w, "train") = w.at.stage
      /\ AwaitedOf(c, w, "eval") = 0
  BY <1>1, <1>2, <1>3, <1>4 DEF AwaitedOf, FirstOf
<1>6. CASE w.at.stage < S /\ w2.calls = w.calls /\ At(w2, w.at.epoch, w.at.chunk, w.at.stage + 1)
  BY <1>1, <1>2, <1>3, <1>4, <1>5, <1>6 DEF Place, AwaitedOf, FirstOf, At, NextOf
<1>7. CASE w.at.stage = S /\ w2.calls = w.calls /\ At(w2, w.at.epoch + 1, 0, 1)
  BY <1>1, <1>2, <1>3, <1>4, <1>5, <1>7 DEF Place, AwaitedOf, FirstOf, At, NextOf
<1>8. CASE w.at.stage = S /\ At(w2, 1, 0, 1)
  BY <1>1, <1>2, <1>3, <1>4, <1>5, <1>8 DEF Place, AwaitedOf, FirstOf, At, NextOf
<1> QED BY <1>1, <1>6, <1>7, <1>8

\* An epoch of evaluate begins.
LEMMA BeginsEval ==
    ASSUME NEW c \in Configs, NEW w \in EnvWorker(c.stages), NEW w2 \in EnvWorker(c.stages), Place(c, w),
           Executes(w, "evaluate"), w.at.chunk = 0, w2.calls = w.calls, At(w2, w.at.epoch, 1, w.at.stage),
           w2.prefetched = w.prefetched
    PROVE  /\ Place(c, w2) /\ AwaitedOf(c, w2, "eval") = c.stages /\ FirstOf(w2, "eval") = 1
           /\ FirstOf(w, "eval") = 1
           /\ AwaitedOf(c, w, "eval") = IF ~c.evalAutoReset \/ w.at.epoch = 1 THEN 0 ELSE c.stages
           /\ AwaitedOf(c, w2, "train") = AwaitedOf(c, w, "train")
           /\ FirstOf(w2, "train") = FirstOf(w, "train")
<1>1. PICK S \in Nat \ {0}, F \in Nat \ {0}, G \in Nat \ {0} :
        S = c.stages /\ F = c.evalEpochs /\ G = c.evalChunks
  BY JobNumbers
<1>2. /\ w.at.epoch \in Nat /\ w.at.chunk \in Nat /\ w.at.stage \in 1 .. S /\ w.prefetched \in BOOLEAN
  BY <1>1, WorkerFields
<1>3. /\ Executes(w2, "evaluate") /\ ~Executes(w2, "interact") /\ ~Executes(w, "interact")
  BY DEF Executes
<1>4. w.at.stage = 1 /\ w2.at.chunk = 1 /\ w2.at.stage = 1 /\ w.at.epoch \in 1 .. F
        /\ w2.at.epoch = w.at.epoch
  BY <1>1, <1>2 DEF Place, At
<1> QED BY <1>1, <1>2, <1>3, <1>4 DEF Place, AwaitedOf, FirstOf

\* A chunk step of evaluate.
LEMMA Evaluates ==
    ASSUME NEW c \in Configs, NEW w \in EnvWorker(c.stages), NEW w2 \in EnvWorker(c.stages), Place(c, w),
           Executes(w, "evaluate"), w.at.chunk \in 1 .. c.evalChunks, w2.prefetched = w.prefetched,
           LET ends == w.at.chunk = c.evalChunks /\ w.at.stage = c.stages
           IN  \/ ~ends /\ w2.calls = w.calls /\ Onward(c.stages, w.at, w2.at)
               \/ ends /\ w.at.epoch < c.evalEpochs /\ w2.calls = w.calls /\ At(w2, w.at.epoch + 1, 0, 1)
               \/ ends /\ ~(w.at.epoch < c.evalEpochs) /\ At(w2, 1, 0, 1)
    PROVE  /\ Place(c, w2) /\ AwaitedOf(c, w, "eval") > 0
           /\ SendsEval(c, w.at) => AwaitedOf(c, w, "eval") = c.stages /\ AwaitedOf(c, w2, "eval") = c.stages
           /\ ~SendsEval(c, w.at) => AwaitedOf(c, w2, "eval") = AwaitedOf(c, w, "eval") - 1
           /\ FirstOf(w, "eval") = w.at.stage /\ FirstOf(w2, "eval") = NextOf(c.stages, w.at.stage)
           /\ AwaitedOf(c, w2, "train") = AwaitedOf(c, w, "train")
           /\ FirstOf(w2, "train") = FirstOf(w, "train")
<1>1. PICK S \in Nat \ {0}, C \in Nat \ {0}, F \in Nat \ {0}, G \in Nat \ {0} :
        S = c.stages /\ C = c.chunks /\ F = c.evalEpochs /\ G = c.evalChunks /\ c.evalAutoReset \in BOOLEAN
  BY JobNumbers
<1>2. /\ w.at.epoch \in Nat /\ w.at.chunk \in Nat /\ w.at.stage \in 1 .. S /\ w.prefetched \in BOOLEAN
  BY <1>1, WorkerFields
<1>3. ~Executes(w, "interact") /\ ~(Executes(w2, "interact") /\ Executes(w2, "evaluate"))
      /\ (w2.calls = w.calls => Executes(w2, "evaluate"))
  BY DEF Executes
<1>4. w.at.epoch \in 1 .. F /\ w.at.chunk \in 1 .. G
  BY <1>1 DEF Place
<1>5. /\ AwaitedOf(c, w, "eval") = IF SendsEval(c, w.at) THEN S ELSE S - w.at.stage + 1
      /\ FirstOf(w, "eval") = w.at.stage
      /\ AwaitedOf(c, w, "train") = IF w.prefetched THEN S ELSE 0
      /\ FirstOf(w, "train") = 1
  BY <1>1, <1>2, <1>3, <1>4 DEF AwaitedOf, FirstOf
<1>6. CASE ~(w.at.chunk = G /\ w.at.stage = S) /\ w2.calls = w.calls /\ Onward(S, w.at, w2.at)
  BY <1>1, <1>2, <1>3, <1>4, <1>5, <1>6 DEF Place, AwaitedOf, FirstOf, Onward, NextOf, SendsEval
<1>7. CASE w.at.chunk = G /\ w.at.stage = S /\ w.at.epoch < F /\ w2.calls = w.calls
             /\ At(w2, w.at.epoch + 1, 0, 1)
  BY <1>1, <1>2, <1>3, <1>4, <1>5, <1>7 DEF Place, AwaitedOf, FirstOf, At, NextOf, SendsEval
<1>8. CASE w.at.chunk = G /\ w.at.stage = S /\ ~(w.at.epoch < F) /\ At(w2, 1, 0, 1)
  BY <1>1, <1>2, <1>3, <1>4, <1>5, <1>8 DEF Place, AwaitedOf, FirstOf, At, NextOf, SendsEval
<1> QED BY <1>1, <1>6, <1>7, <1>8

WithCall(w2, w, method) == w2 = [w EXCEPT !.calls = Append(w.calls, method)]

\* Another method is called.
LEMMA CalledToo ==
    ASSUME NEW c \in Configs, NEW w \in EnvWorker(c.stages), Place(c, w), NEW method \in Methods,
           NEW w2, WithCall(w2, w, method)
    PROVE  /\ w2 \in EnvWorker(c.stages) /\ Place(c, w2) /\ (Owned(w) => Owned(w2))
           /\ \A m \in Mode : \A e : PendOf(c, e, w2, m) = PendOf(c, e, w, m)
<1>1. PICK S \in Nat \ {0}, C \in Nat \ {0}, F \in Nat \ {0}, G \in Nat \ {0} :
        S = c.stages /\ C = c.chunks /\ F = c.evalEpochs /\ G = c.evalChunks
  BY JobNumbers
<1>2. /\ w2.calls = Append(w.calls, method) /\ w2.at = w.at /\ w2.prefetched = w.prefetched
      /\ w2.acted = w.acted /\ w2.clock = w.clock /\ w2 \in EnvWorker(S)
  <2>1. Append(w.calls, method) \in Seq(Methods)
    BY <1>1, WorkerFields, AppendProperties
  <2> QED BY <1>1, <2>1 DEF EnvWorker, WithCall
<1>3. /\ w.at.epoch \in Nat /\ w.at.chunk \in Nat /\ w.at.stage \in 1 .. S /\ w.prefetched \in BOOLEAN
      /\ w.calls \in Seq(Methods)
  BY <1>1, WorkerFields
<1>4. ASSUME w.calls # <<>> PROVE \A x : Executes(w2, x) <=> Executes(w, x)
  <2>1. PICK q \in Seq(Methods) : q = w.calls
    BY <1>3
  <2>2. q # <<>> => Head(Append(q, method)) = Head(q) /\ Append(q, method) # <<>>
    OBVIOUS
  <2> QED BY <1>2, <1>4, <2>1, <2>2 DEF Executes
<1>5. ASSUME w.calls = <<>> PROVE At(w, 1, 0, 1) /\ \A x : ~Executes(w, x)
  BY <1>5 DEF Executes, Place, At
<1>6. ~(Executes(w2, "interact") /\ Executes(w2, "evaluate"))
  BY DEF Executes
<1>7. CASE w.calls # <<>>
  <2>1. Place(c, w2)
    BY <1>2, <1>4, <1>7 DEF Place
  <2>2. ASSUME NEW m \in Mode PROVE FirstOf(w2, m) = FirstOf(w, m) /\ AwaitedOf(c, w2, m) = AwaitedOf(c, w, m)
    <3>1. \A x : Executes(w2, x) <=> Executes(w, x)
      BY <1>4, <1>7
    <3>2. FirstOf(w2, m) = FirstOf(w, m)
      BY <1>2, <3>1 DEF FirstOf
    <3>3. AwaitedOf(c, w2, m) = AwaitedOf(c, w, m)
      BY <1>2, <3>1 DEF AwaitedOf
    <3> QED BY <3>2, <3>3
  <2> QED BY <1>1, <1>2, <2>1, <2>2, PendSame DEF Owned
<1>8. CASE w.calls = <<>>
  <2>1. Place(c, w2)
    BY <1>1, <1>2, <1>5, <1>6, <1>8 DEF Place, At
  <2>2. ASSUME NEW m \in Mode PROVE FirstOf(w2, m) = FirstOf(w, m) /\ AwaitedOf(c, w2, m) = AwaitedOf(c, w, m)
    BY <1>1, <1>2, <1>5, <1>6, <1>8 DEF FirstOf, AwaitedOf, At
  <2> QED BY <1>1, <1>2, <2>1, <2>2, PendSame DEF Owned
<1> QED BY <1>7, <1>8

-----------------------------------------------------------------------------
(* The steps.                                                                *)

Progress == [at : {"start", "rollouts", "training", "eval", "log"}, step : Nat]

\* The inductive invariant.
LoopInv ==
    /\ cfg \in Configs /\ Validated(cfg) /\ Mapped(cfg) /\ ranks = RankMaps(cfg)
    /\ progress \in Progress /\ weights \in Nat
    /\ Good(cfg, ranks.toRollout, env, resultChannel, obsChannel)

LEMMA InvFacts ==
    ASSUME LoopInv
    PROVE  /\ cfg \in Configs /\ Knows(cfg, ranks.toRollout)
           /\ \A e \in EnvRank : FromRollout(e) = ranks.toRollout[e] /\ ToRollout(e) = ranks.toRollout[e]
           /\ \A r \in RolloutRank :
                 /\ FromEnv(r) = ToEnv(r)
                 /\ Shares(ToEnv(r), StageBatch(cfg) \div cfg.rolloutWorkers, cfg.envWorkers)
<1>1. cfg \in Configs /\ Validated(cfg) /\ Mapped(cfg) /\ ranks = RankMaps(cfg)
  BY DEF LoopInv
<1>2. Maps(cfg, ranks)
  BY <1>1, MapsAgree
<1>3. PerWorker(cfg) \in Nat \ {0}
  BY <1>1, JobFacts
<1> QED BY <1>1, <1>2, <1>3 DEF Maps, Knows, FromRollout, ToRollout, FromEnv, ToEnv, EnvRank, RolloutRank

\* What an operation does to the worker.
Leaves(w2, w, mode) ==
    /\ w2.calls = w.calls /\ w2.at = w.at /\ w2.prefetched = w.prefetched /\ w2.steps = w.steps
    /\ \A m \in Mode : m # mode => w2.clock[m] = w.clock[m]

LEMMA BootstrapIs ==
    ASSUME LoopInv, NEW e \in EnvRank, NEW mode \in Mode, NEW reset \in BOOLEAN,
           NEW worker \in EnvWorker(cfg.stages), worker.clock = env[e].clock,
           Bootstrap(e, mode, reset, worker)
    PROVE  \E w2 \in EnvWorker(cfg.stages) :
              /\ env' = [env EXCEPT ![e] = w2] /\ Leaves(w2, worker, mode) /\ w2.acted = worker.acted
              /\ obsChannel' = Sent(obsChannel, e, ranks.toRollout[e], mode,
                                    Views(e, PerWorker(cfg), cfg.stages, mode, w2.clock))
<1>90. PICK P : P = PerWorker(cfg)
  OBVIOUS
<1>1. PICK S \in Nat \ {0} : S = cfg.stages /\ P = PerWorker(cfg)
  BY <1>90, JobNumbers, InvFacts
<1>2. ToRollout(e) = ranks.toRollout[e]
  BY InvFacts
<1>3. worker.clock \in Clocks(S)
  BY <1>1, WorkerFields
<1>4. PICK clock : clock = [s \in 1 .. S |-> worker.clock[mode][s] + (IF reset THEN 1 ELSE 0)]
  OBVIOUS
<1>5. clock \in [1 .. S -> Nat]
  <2>1. PICK f \in [1 .. S -> Nat] : f = worker.clock[mode]
    BY <1>3 DEF Clocks
  <2>2. PICK n \in Nat : n = IF reset THEN 1 ELSE 0
    OBVIOUS
  <2>3. clock = [s \in 1 .. S |-> f[s] + n]
    BY <1>4, <2>1, <2>2
  <2> QED BY <2>3
<1>6. /\ env' = [env EXCEPT ![e] = [worker EXCEPT !.clock[mode] = clock]]
      /\ obsChannel' = Sent(obsChannel, e, ToRollout(e), mode, [s \in 1 .. S |-> Observed(e, mode, s, clock[s])])
  BY <1>1, <1>4 DEF Bootstrap, Stage
<1>7. PICK w2 : w2 = [worker EXCEPT !.clock[mode] = clock]
  OBVIOUS
<1>8. /\ w2.calls = worker.calls /\ w2.at = worker.at /\ w2.prefetched = worker.prefetched
      /\ w2.acted = worker.acted /\ w2.steps = worker.steps
      /\ w2.clock = [worker.clock EXCEPT ![mode] = clock]
      /\ w2 = [worker EXCEPT !.clock = [worker.clock EXCEPT ![mode] = clock]]
  BY <1>1, <1>7 DEF EnvWorker
<1>9. w2.clock \in Clocks(S) /\ w2.clock[mode] = clock
  BY <1>3, <1>5, <1>8 DEF Clocks
<1>10. w2 \in EnvWorker(S)
  <2>1. w2 = [worker EXCEPT !.clock = w2.clock]
    BY <1>8
  <2> QED BY <1>1, <1>9, <2>1 DEF EnvWorker
<1>11. \A m \in Mode : m # mode => w2.clock[m] = worker.clock[m]
  BY <1>3, <1>8 DEF Clocks
<1>12. [s \in 1 .. S |-> Observed(e, mode, s, clock[s])] = Views(e, P, S, mode, w2.clock)
  <2>1. ASSUME NEW s \in 1 .. S PROVE Observed(e, mode, s, clock[s]) = View(e, P, mode, s, w2.clock[mode][s])
    BY SMTT(60), <1>1, <1>9 DEF Observed, Slots, View
  <2> QED BY <2>1 DEF Views
<1> QED BY <1>1, <1>2, <1>6, <1>7, <1>8, <1>10, <1>11, <1>12 DEF Leaves

\* An answer is received: what is acted on is what it was asked for.
LEMMA ActedIs ==
    ASSUME LoopInv, NEW e \in EnvRank, NEW mode \in Mode, Ready(resultChannel, e, FromRollout(e), mode),
           FirstOf(env[e], mode) = env[e].at.stage
    PROVE  /\ Acted(e, mode) \in [observed : Seq(Observation), answer : Seq(Reply)]
           /\ Questions(Acted(e, mode).answer) = Acted(e, mode).observed
           /\ AwaitedOf(cfg, env[e], mode) > 0
           /\ Acted(e, mode).answer[1].version \in Int
<1>1. PICK c, to, workers, answers, asks :
        c = cfg /\ to = ranks.toRollout /\ workers = env /\ answers = resultChannel /\ asks = obsChannel
  OBVIOUS
<1>2. c \in Configs /\ Good(c, to, workers, answers, asks) /\ Knows(c, to) /\ FromRollout(e) = to[e]
  BY <1>1, InvFacts DEF LoopInv
<1>3. e \in 0 .. c.envWorkers - 1 /\ Ready(answers, e, to[e], mode)
  BY <1>1, <1>2 DEF EnvRank
<1>4. PICK w, s, x, v : /\ w = workers[e] /\ s = FirstOf(w, mode) /\ x = Merged(answers, e, to[e], mode)
                        /\ v = View(e, PerWorker(c), mode, s, w.clock[mode][s])
  OBVIOUS
<1>5. AwaitedOf(c, w, mode) > 0 /\ x \in Seq(Reply) /\ Questions(x) = v
  BY <1>2, <1>3, <1>4, Received
<1>6. v \in Seq(Observation) /\ Len(v) = PerWorker(c)
  <2>1. PICK S \in Nat \ {0} : S = c.stages
    BY <1>2, JobNumbers
  <2>2. w \in EnvWorker(S) /\ Place(c, w)
    BY <1>2, <1>3, <1>4, <2>1 DEF Good
  <2>3. s \in 1 .. S
    BY <1>2, <1>4, <2>1, <2>2, AwaitedType
  <2>4. w.clock \in Clocks(S)
    BY <2>2, WorkerFields
  <2>5. w.clock[mode][s] \in Nat
    BY <2>3, <2>4 DEF Clocks
  <2>6. PICK P \in Nat, d \in Nat, q \in Nat, t \in Nat : P = PerWorker(c) /\ d = e /\ q = s
          /\ t = w.clock[mode][s]
    BY <1>2, <1>3, <2>3, <2>5 DEF Knows
  <2>7. View(d, P, mode, q, t) \in Seq(Observation) /\ Len(View(d, P, mode, q, t)) = P
    BY ViewType
  <2> QED BY <1>4, <2>6, <2>7
<1>7. Acted(e, mode) = [observed |-> v, answer |-> x]
  <2>1. Acted(e, mode) = [observed |-> Latest(e, mode, env[e].at.stage), answer |-> x]
    BY <1>1, <1>2, <1>4 DEF Acted
  <2>2. Latest(e, mode, env[e].at.stage) = v
    BY <1>1, <1>4 DEF Latest, Observed, Slots, View
  <2> QED BY <2>1, <2>2
<1>8. x[1].version \in Int
  <2>1. Len(x) = PerWorker(c)
    <3>1. Len(x) \in Nat /\ Len(v) \in Nat /\ DOMAIN v = 1 .. Len(v)
      BY <1>5, <1>6, LenProperties
    <3>2. DOMAIN v = 1 .. Len(x)
      BY <1>5 DEF Questions
    <3> QED BY <1>6, <3>1, <3>2
  <2>2. PerWorker(c) \in Nat \ {0}
    BY <1>2 DEF Knows
  <2>3. 1 \in 1 .. Len(x)
    BY <2>1, <2>2
  <2>4. x[1] \in Reply
    BY <1>5, <2>3, ElementOfSeq
  <2> QED BY <2>4 DEF Reply
<1> QED BY <1>1, <1>4, <1>5, <1>6, <1>7, <1>8

\* The steps of a stage get longer.
LEMMA AppendedType ==
    ASSUME LoopInv, NEW e \in EnvRank, Ready(resultChannel, e, FromRollout(e), "train"),
           FirstOf(env[e], "train") = env[e].at.stage
    PROVE  Appended(e) \in [1 .. cfg.stages -> Seq([time : Nat, version : Int])]
<1>1. PICK S \in Nat \ {0} : S = cfg.stages
  BY JobNumbers, InvFacts
<1>2. PICK w : w = env[e]
  OBVIOUS
<1>3. w \in EnvWorker(S)
  BY <1>1, <1>2 DEF LoopInv, Good, EnvRank
<1>4. w.at.stage \in 1 .. S /\ w.clock \in Clocks(S)
        /\ w.steps \in [1 .. S -> Seq([time : Nat, version : Int])]
  BY <1>3, WorkerFields
<1>5. "train" \in Mode
  BY DEF Mode
<1>6. PICK v \in Int : v = Acted(e, "train").answer[1].version
  BY <1>5, ActedIs
<1>7. PICK x : x = [time |-> w.clock["train"][w.at.stage], version |-> v]
  OBVIOUS
<1>8. x \in [time : Nat, version : Int]
  BY <1>4, <1>5, <1>7 DEF Clocks
<1>9. Append(w.steps[w.at.stage], x) \in Seq([time : Nat, version : Int])
  BY <1>4, <1>8, AppendProperties
<1>10. Appended(e) = [w.steps EXCEPT ![w.at.stage] = Append(w.steps[w.at.stage], x)]
  BY <1>2, <1>4, <1>6, <1>7 DEF Appended
<1> QED BY <1>1, <1>4, <1>9, <1>10

\* A chunk step of a stage.
LEMMA ChunkStepIs ==
    ASSUME LoopInv, NEW e \in EnvRank, NEW mode \in Mode, NEW sends \in BOOLEAN,
           NEW worker \in EnvWorker(cfg.stages), worker.clock = env[e].clock,
           FirstOf(env[e], mode) = env[e].at.stage, ChunkStep(e, mode, sends, worker)
    PROVE  LET s == env[e].at.stage
           IN  /\ Ready(resultChannel, e, ranks.toRollout[e], mode)
               /\ resultChannel' = Taken(resultChannel, e, ranks.toRollout[e], mode)
               /\ \E w2 \in EnvWorker(cfg.stages) :
                     /\ env' = [env EXCEPT ![e] = w2] /\ Leaves(w2, worker, mode) /\ Owned(w2)
                     /\ \A x \in 1 .. cfg.stages : x # s => w2.clock[mode][x] = worker.clock[mode][x]
                     /\ w2.clock[mode][s] = worker.clock[mode][s] + 1
                     /\ obsChannel' = IF sends THEN Sent(obsChannel, e, ranks.toRollout[e], mode,
                                                 <<View(e, PerWorker(cfg), mode, s, w2.clock[mode][s])>>)
                                      ELSE obsChannel
<1>90. PICK P : P = PerWorker(cfg)
  OBVIOUS
<1>1. PICK S \in Nat \ {0} : S = cfg.stages /\ P = PerWorker(cfg)
  BY <1>90, JobNumbers, InvFacts
<1>2. ToRollout(e) = ranks.toRollout[e] /\ FromRollout(e) = ranks.toRollout[e]
  BY InvFacts
<1>3. worker.clock \in Clocks(S)
  BY <1>1, WorkerFields
<1>4. PICK w, s : w = env[e] /\ s = w.at.stage
  OBVIOUS
<1>5. w \in EnvWorker(S)
  BY <1>1, <1>4 DEF LoopInv, Good, EnvRank
<1>6. s \in 1 .. S
  BY <1>4, <1>5, WorkerFields
<1>70. PICK f \in [1 .. S -> Nat] : f = worker.clock[mode]
  BY <1>3 DEF Clocks
<1>7. PICK time \in Nat : time = worker.clock[mode][s] + 1
  <2>1. f[s] + 1 \in Nat
    BY <1>6
  <2> QED BY <1>70, <2>1
<1>8. Ready(resultChannel, e, ranks.toRollout[e], mode)
      /\ resultChannel' = Taken(resultChannel, e, ranks.toRollout[e], mode)
  BY <1>2 DEF ChunkStep, Receives
<1>9. PICK a : a = Acted(e, mode)
  OBVIOUS
<1>10. a \in [observed : Seq(Observation), answer : Seq(Reply)] /\ Questions(a.answer) = a.observed
  BY <1>2, <1>8, <1>9, ActedIs
<1>11. /\ env' = [env EXCEPT ![e] = [worker EXCEPT !.clock[mode][s] = time, !.acted = a]]
       /\ obsChannel' = IF sends THEN Sent(obsChannel, e, ToRollout(e), mode, <<Observed(e, mode, s, time)>>)
                        ELSE obsChannel
  BY <1>4, <1>7, <1>9 DEF ChunkStep
<1>12. PICK w2 : w2 = [worker EXCEPT !.clock[mode][s] = time, !.acted = a]
  OBVIOUS
<1>13. /\ w2.calls = worker.calls /\ w2.at = worker.at /\ w2.prefetched = worker.prefetched /\ w2.acted = a
       /\ w2.clock = [worker.clock EXCEPT ![mode] = [worker.clock[mode] EXCEPT ![s] = time]]
       /\ w2.steps = worker.steps
       /\ w2 = [worker EXCEPT !.clock = [worker.clock EXCEPT ![mode] = [worker.clock[mode] EXCEPT ![s] = time]],
                              !.acted = a]
  BY <1>1, <1>12 DEF EnvWorker
<1>14. /\ w2.clock \in Clocks(S) /\ w2.clock[mode][s] = time
       /\ \A x \in 1 .. S : x # s => w2.clock[mode][x] = worker.clock[mode][x]
       /\ \A m \in Mode : m # mode => w2.clock[m] = worker.clock[m]
  <2>1. PICK g : g = [f EXCEPT ![s] = time]
    OBVIOUS
  <2>2. g \in [1 .. S -> Nat] /\ g[s] = time /\ \A x \in 1 .. S : x # s => g[x] = f[x]
    BY <1>6, <2>1
  <2>3. w2.clock = [worker.clock EXCEPT ![mode] = g]
    BY <1>13, <1>70, <2>1
  <2>4. w2.clock \in Clocks(S) /\ w2.clock[mode] = g
    BY <1>3, <2>2, <2>3 DEF Clocks
  <2>5. \A m \in Mode : m # mode => w2.clock[m] = worker.clock[m]
    BY <1>3, <2>3 DEF Clocks
  <2> QED BY <1>70, <2>2, <2>4, <2>5
<1>15. w2 \in EnvWorker(S)
  <2>1. w2 = [worker EXCEPT !.clock = w2.clock, !.acted = a]
    BY <1>13
  <2>2. a \in Acts
    BY <1>10 DEF Acts
  <2> QED BY <1>1, <1>14, <2>1, <2>2 DEF EnvWorker
<1>16. Owned(w2)
  BY <1>10, <1>13 DEF Owned
<1>17. Observed(e, mode, s, time) = View(e, P, mode, s, w2.clock[mode][s])
  BY <1>1, <1>14 DEF Observed, Slots, View
<1>18. Leaves(w2, worker, mode)
  BY <1>13, <1>14 DEF Leaves
<1> QED BY ZenonT(60), <1>1, <1>2, <1>4, <1>7, <1>8, <1>11, <1>12, <1>14, <1>15, <1>16, <1>17, <1>18

-----------------------------------------------------------------------------
(* The steps of the env workers keep the invariant.                          *)

GoodAfter == Good(cfg, ranks.toRollout, env', resultChannel', obsChannel')

\* The values of the variables, and the worker that moves on.
Known(c, to, workers, answers, asks, e, w) ==
    /\ c = cfg /\ to = ranks.toRollout /\ workers = env /\ answers = resultChannel /\ asks = obsChannel
    /\ c \in Configs /\ Good(c, to, workers, answers, asks) /\ Knows(c, to)
    /\ e \in 0 .. c.envWorkers - 1 /\ w = workers[e] /\ w \in EnvWorker(c.stages) /\ Place(c, w) /\ Owned(w)

LEMMA KnownIs ==
    ASSUME LoopInv, NEW e \in EnvRank
    PROVE  \E c, to, workers, answers, asks, w : Known(c, to, workers, answers, asks, e, w)
<1>1. PICK c, to, workers, answers, asks, w :
        /\ c = cfg /\ to = ranks.toRollout /\ workers = env /\ answers = resultChannel /\ asks = obsChannel
        /\ w = workers[e]
  OBVIOUS
<1>2. c \in Configs /\ Good(c, to, workers, answers, asks) /\ Knows(c, to) /\ e \in 0 .. c.envWorkers - 1
  BY <1>1, InvFacts DEF LoopInv, EnvRank
<1>3. w \in EnvWorker(c.stages) /\ Place(c, w) /\ Owned(w)
  BY <1>1, <1>2 DEF Good
<1> QED BY <1>1, <1>2, <1>3 DEF Known

LEMMA Modes == "train" \in Mode /\ "eval" \in Mode /\ \A m \in Mode : m = "train" \/ m = "eval"
BY DEF Mode

\* All stages of mode m are asked, and the other mode is left alone.
LEMMA BootKeeps ==
    ASSUME LoopInv, NEW e \in EnvRank, NEW c, NEW to, NEW workers, NEW answers, NEW asks, NEW w,
           Known(c, to, workers, answers, asks, e, w),
           NEW m \in Mode, NEW reset \in BOOLEAN, NEW worker \in EnvWorker(c.stages),
           worker.clock = w.clock, worker.acted = w.acted,
           \A w2 \in EnvWorker(c.stages) : Leaves(w2, worker, m) =>
              /\ Place(c, w2) /\ AwaitedOf(c, w, m) = 0 /\ AwaitedOf(c, w2, m) = c.stages
              /\ FirstOf(w2, m) = 1
              /\ \A m2 \in Mode : m2 # m =>
                    AwaitedOf(c, w2, m2) = AwaitedOf(c, w, m2) /\ FirstOf(w2, m2) = FirstOf(w, m2),
           Bootstrap(e, m, reset, worker), resultChannel' = resultChannel
    PROVE  GoodAfter
<1>1. /\ c = cfg /\ to = ranks.toRollout /\ workers = env /\ answers = resultChannel /\ asks = obsChannel
      /\ c \in Configs /\ Good(c, to, workers, answers, asks) /\ Knows(c, to)
      /\ e \in 0 .. c.envWorkers - 1 /\ w = workers[e] /\ w \in EnvWorker(c.stages) /\ Place(c, w) /\ Owned(w)
  BY DEF Known
<1>2. PICK w2 \in EnvWorker(c.stages) :
        /\ env' = [workers EXCEPT ![e] = w2] /\ Leaves(w2, worker, m) /\ w2.acted = worker.acted
        /\ obsChannel' = Sent(asks, e, to[e], m, Views(e, PerWorker(c), c.stages, m, w2.clock))
  <2>1. worker.clock = env[e].clock /\ worker \in EnvWorker(cfg.stages)
    BY <1>1
  <2>2. PICK w2 \in EnvWorker(cfg.stages) :
              /\ env' = [env EXCEPT ![e] = w2] /\ Leaves(w2, worker, m) /\ w2.acted = worker.acted
              /\ obsChannel' = Sent(obsChannel, e, ranks.toRollout[e], m,
                                    Views(e, PerWorker(cfg), cfg.stages, m, w2.clock))
    BY <2>1, BootstrapIs
  <2> QED BY <1>1, <2>2
<1>3. PICK P \in Nat, d \in Nat : P = PerWorker(c) /\ d = e
  <2>1. e \in Nat /\ PerWorker(c) \in Nat
    BY <1>1 DEF Knows
  <2> QED BY <2>1
<1>4. /\ Place(c, w2) /\ AwaitedOf(c, w, m) = 0 /\ AwaitedOf(c, w2, m) = c.stages /\ FirstOf(w2, m) = 1
      /\ \A m2 \in Mode : m2 # m =>
            AwaitedOf(c, w2, m2) = AwaitedOf(c, w, m2) /\ FirstOf(w2, m2) = FirstOf(w, m2)
  BY <1>2
<1>5. PICK batches : batches = Views(e, PerWorker(c), c.stages, m, w2.clock)
  OBVIOUS
<1>6. PendOf(c, e, w2, m) = PendOf(c, e, w, m) \o batches /\ Batches(batches, PerWorker(c))
  <2>1. c \in Configs /\ PerWorker(c) \in Nat /\ w \in EnvWorker(c.stages) /\ Place(c, w)
    BY <1>1, <1>3
  <2>2. PICK b : b = Views(d, PerWorker(c), c.stages, m, w2.clock)
    OBVIOUS
  <2>3. PendOf(c, d, w2, m) = PendOf(c, d, w, m) \o b
    BY <1>4, <2>1, <2>2, PendBoot
  <2>4. Batches(b, PerWorker(c))
    BY <1>4, <2>1, <2>2, PendBoot
  <2> QED BY <1>3, <1>5, <2>2, <2>3, <2>4
<1>7. \A m2 \in Mode : m2 # m => PendOf(c, e, w2, m2) = PendOf(c, e, w, m2)
  <2> SUFFICES ASSUME NEW m2 \in Mode, m2 # m PROVE PendOf(c, e, w2, m2) = PendOf(c, e, w, m2)
    OBVIOUS
  <2>1. w2.clock[m2] = w.clock[m2]
    BY <1>2 DEF Leaves
  <2> QED BY <1>4, <2>1, PendSame
<1>8. Owned(w2)
  BY <1>1, <1>2 DEF Owned
<1>9. Good(c, to, [workers EXCEPT ![e] = w2], answers, Sent(asks, e, to[e], m, batches))
  BY ZenonT(60), <1>1, <1>4, <1>6, <1>7, <1>8, MovedSending
<1> QED BY <1>1, <1>2, <1>5, <1>9 DEF GoodAfter

LEMMA BeginEpochKeeps ==
    ASSUME LoopInv, NEW e \in EnvRank, BeginEpoch(e)
    PROVE  GoodAfter
<1>0. PICK c, to, workers, answers, asks, w : Known(c, to, workers, answers, asks, e, w)
  BY KnownIs
<1>1. /\ c = cfg /\ to = ranks.toRollout /\ workers = env /\ answers = resultChannel /\ asks = obsChannel
      /\ c \in Configs /\ Good(c, to, workers, answers, asks) /\ Knows(c, to)
      /\ e \in 0 .. c.envWorkers - 1 /\ w = workers[e] /\ w \in EnvWorker(c.stages) /\ Place(c, w) /\ Owned(w)
  BY <1>0 DEF Known
<1>2. PICK S \in Nat \ {0} : S = c.stages
  BY <1>1, JobNumbers
<1>3. /\ w.at.epoch \in Nat /\ w.at.chunk \in Nat /\ w.at.stage \in 1 .. S /\ w.prefetched \in BOOLEAN
  BY <1>1, <1>2, WorkerFields
<1>4. PICK begun : begun = [w EXCEPT !.at.chunk = 1]
  OBVIOUS
<1>5. /\ begun \in EnvWorker(c.stages) /\ begun.calls = w.calls /\ At(begun, w.at.epoch, 1, w.at.stage)
      /\ begun.prefetched = w.prefetched /\ begun.clock = w.clock /\ begun.acted = w.acted
  <2>1. w.at \in [epoch : Nat, chunk : Nat, stage : 1 .. S]
    BY <1>1, <1>2, WorkerFields
  <2> QED BY <1>1, <1>2, <1>4, <2>1 DEF EnvWorker, At
<1>6. /\ Executes(w, "interact") /\ w.at.chunk = 0 /\ resultChannel' = resultChannel
      /\ IF w.at.epoch = 1 /\ w.prefetched
         THEN env' = [env EXCEPT ![e] = [begun EXCEPT !.prefetched = FALSE]] /\ obsChannel' = obsChannel
         ELSE Bootstrap(e, "train", ~cfg.autoReset, begun)
  BY <1>1, <1>4 DEF BeginEpoch
<1>7. CASE w.at.epoch = 1 /\ w.prefetched
  <2>1. PICK w2 : w2 = [begun EXCEPT !.prefetched = FALSE]
    OBVIOUS
  <2>2. /\ w2 \in EnvWorker(c.stages) /\ w2.calls = w.calls /\ At(w2, w.at.epoch, 1, w.at.stage)
        /\ ~w2.prefetched
        /\ w2.clock = w.clock /\ w2.acted = w.acted
    BY <1>5, <2>1 DEF EnvWorker, At
  <2>3. /\ Place(c, w2) /\ AwaitedOf(c, w2, "train") = c.stages /\ FirstOf(w2, "train") = 1
        /\ FirstOf(w, "train") = 1 /\ AwaitedOf(c, w, "train") = c.stages
        /\ AwaitedOf(c, w2, "eval") = AwaitedOf(c, w, "eval") /\ FirstOf(w2, "eval") = FirstOf(w, "eval")
    BY <1>1, <1>6, <1>7, <2>2, BeginsEpoch
  <2>4. \A m \in Mode : PendOf(c, e, w2, m) = PendOf(c, e, w, m)
    <3>1. PendOf(c, e, w2, "train") = PendOf(c, e, w, "train")
            /\ PendOf(c, e, w2, "eval") = PendOf(c, e, w, "eval")
      BY <2>2, <2>3, PendSame
    <3> QED BY <3>1, Modes
  <2>5. Owned(w2)
    BY <1>1, <2>2 DEF Owned
  <2>6. Good(c, to, [workers EXCEPT ![e] = w2], answers, asks)
    BY <1>1, <2>2, <2>3, <2>4, <2>5, MovedOn
  <2> QED BY <1>1, <1>6, <1>7, <2>1, <2>6 DEF GoodAfter
<1>8. CASE ~(w.at.epoch = 1 /\ w.prefetched)
  <2>1. ASSUME NEW w2 \in EnvWorker(c.stages), Leaves(w2, begun, "train")
        PROVE  /\ Place(c, w2) /\ AwaitedOf(c, w, "train") = 0 /\ AwaitedOf(c, w2, "train") = c.stages
               /\ FirstOf(w2, "train") = 1
               /\ \A m2 \in Mode : m2 # "train" =>
                     AwaitedOf(c, w2, m2) = AwaitedOf(c, w, m2) /\ FirstOf(w2, m2) = FirstOf(w, m2)
    <3>1. ~w.prefetched
      BY <1>1, <1>3, <1>6, <1>8 DEF Place
    <3>2. w2.calls = w.calls /\ At(w2, w.at.epoch, 1, w.at.stage) /\ ~w2.prefetched
      BY <1>5, <2>1, <3>1 DEF Leaves, At
    <3>3. /\ Place(c, w2) /\ AwaitedOf(c, w2, "train") = c.stages /\ FirstOf(w2, "train") = 1
          /\ AwaitedOf(c, w, "train") = 0
          /\ AwaitedOf(c, w2, "eval") = AwaitedOf(c, w, "eval") /\ FirstOf(w2, "eval") = FirstOf(w, "eval")
      BY <1>1, <1>6, <3>1, <3>2, BeginsEpoch
    <3> QED BY <3>3, Modes
  <2>2. PICK m \in Mode, reset \in BOOLEAN : m = "train" /\ reset = ~cfg.autoReset
    BY Modes
  <2>3. \A w2 \in EnvWorker(c.stages) : Leaves(w2, begun, m) =>
              /\ Place(c, w2) /\ AwaitedOf(c, w, m) = 0 /\ AwaitedOf(c, w2, m) = c.stages
              /\ FirstOf(w2, m) = 1
              /\ \A m2 \in Mode : m2 # m =>
                    AwaitedOf(c, w2, m2) = AwaitedOf(c, w, m2) /\ FirstOf(w2, m2) = FirstOf(w, m2)
    BY <2>1, <2>2
  <2>4. Bootstrap(e, m, reset, begun)
    BY <1>6, <1>8, <2>2
  <2> QED BY <1>0, <1>5, <1>6, <2>3, <2>4, BootKeeps
<1> QED BY <1>7, <1>8

LEMMA PrefetchKeeps ==
    ASSUME LoopInv, NEW e \in EnvRank, PrefetchBootstrap(e)
    PROVE  GoodAfter
<1>0. PICK c, to, workers, answers, asks, w : Known(c, to, workers, answers, asks, e, w)
  BY KnownIs
<1>1. /\ c = cfg /\ to = ranks.toRollout /\ workers = env /\ answers = resultChannel /\ asks = obsChannel
      /\ c \in Configs /\ Good(c, to, workers, answers, asks) /\ Knows(c, to)
      /\ e \in 0 .. c.envWorkers - 1 /\ w = workers[e] /\ w \in EnvWorker(c.stages) /\ Place(c, w) /\ Owned(w)
  BY <1>0 DEF Known
<1>2. PICK S \in Nat \ {0} : S = c.stages
  BY <1>1, JobNumbers
<1>3. w.calls \in Seq(Methods) /\ w.prefetched \in BOOLEAN
  BY <1>1, <1>2, WorkerFields
<1>4. PICK begun : begun = [Returned(w) EXCEPT !.prefetched = TRUE]
  OBVIOUS
<1>6. /\ Executes(w, "prefetch") /\ ~w.prefetched /\ resultChannel' = resultChannel
      /\ Bootstrap(e, "train", ~cfg.autoReset, begun)
  BY <1>1, <1>4 DEF PrefetchBootstrap
<1>5. /\ begun \in EnvWorker(c.stages) /\ At(begun, 1, 0, 1)
      /\ begun.prefetched = TRUE /\ begun.clock = w.clock /\ begun.acted = w.acted
  <2>1. Tail(w.calls) \in Seq(Methods)
    BY <1>3, <1>6, HeadTailProperties DEF Executes
  <2>2. Beginning \in [epoch : Nat, chunk : Nat, stage : 1 .. S]
    BY DEF Beginning
  <2> QED BY <1>1, <1>2, <1>4, <2>1, <2>2 DEF EnvWorker, At, Returned, Beginning
<1>8. ASSUME NEW w2 \in EnvWorker(c.stages), Leaves(w2, begun, "train")
      PROVE  /\ Place(c, w2) /\ AwaitedOf(c, w, "train") = 0 /\ AwaitedOf(c, w2, "train") = c.stages
             /\ FirstOf(w2, "train") = 1
             /\ \A m2 \in Mode : m2 # "train" =>
                   AwaitedOf(c, w2, m2) = AwaitedOf(c, w, m2) /\ FirstOf(w2, m2) = FirstOf(w, m2)
  <2>2. At(w2, 1, 0, 1) /\ w2.prefetched
    BY <1>5, <1>8 DEF Leaves, At
  <2>3. /\ Place(c, w2) /\ AwaitedOf(c, w2, "train") = c.stages /\ FirstOf(w2, "train") = 1
        /\ AwaitedOf(c, w, "train") = 0
        /\ AwaitedOf(c, w2, "eval") = AwaitedOf(c, w, "eval") /\ FirstOf(w2, "eval") = FirstOf(w, "eval")
    BY <1>1, <1>6, <2>2, Prefetches
  <2> QED BY <2>3, Modes
<1>9. PICK m \in Mode, reset \in BOOLEAN : m = "train" /\ reset = ~cfg.autoReset
  BY Modes
<1>10. \A w2 \in EnvWorker(c.stages) : Leaves(w2, begun, m) =>
              /\ Place(c, w2) /\ AwaitedOf(c, w, m) = 0 /\ AwaitedOf(c, w2, m) = c.stages
              /\ FirstOf(w2, m) = 1
              /\ \A m2 \in Mode : m2 # m =>
                    AwaitedOf(c, w2, m2) = AwaitedOf(c, w, m2) /\ FirstOf(w2, m2) = FirstOf(w, m2)
  BY <1>8, <1>9
<1>11. Bootstrap(e, m, reset, begun)
  BY <1>6, <1>9
<1> QED BY <1>0, <1>5, <1>6, <1>10, <1>11, BootKeeps

LEMMA BeginEvalKeeps ==
    ASSUME LoopInv, NEW e \in EnvRank, BeginEvalEpoch(e)
    PROVE  GoodAfter
<1>0. PICK c, to, workers, answers, asks, w : Known(c, to, workers, answers, asks, e, w)
  BY KnownIs
<1>1. /\ c = cfg /\ to = ranks.toRollout /\ workers = env /\ answers = resultChannel /\ asks = obsChannel
      /\ c \in Configs /\ Good(c, to, workers, answers, asks) /\ Knows(c, to)
      /\ e \in 0 .. c.envWorkers - 1 /\ w = workers[e] /\ w \in EnvWorker(c.stages) /\ Place(c, w) /\ Owned(w)
  BY <1>0 DEF Known
<1>2. PICK S \in Nat \ {0} : S = c.stages
  BY <1>1, JobNumbers
<1>3. /\ w.at.epoch \in Nat /\ w.at.chunk \in Nat /\ w.at.stage \in 1 .. S /\ w.prefetched \in BOOLEAN
  BY <1>1, <1>2, WorkerFields
<1>4. PICK begun : begun = [w EXCEPT !.at.chunk = 1]
  OBVIOUS
<1>5. /\ begun \in EnvWorker(c.stages) /\ begun.calls = w.calls /\ At(begun, w.at.epoch, 1, w.at.stage)
      /\ begun.prefetched = w.prefetched /\ begun.clock = w.clock /\ begun.acted = w.acted
  <2>1. w.at \in [epoch : Nat, chunk : Nat, stage : 1 .. S]
    BY <1>1, <1>2, WorkerFields
  <2> QED BY <1>1, <1>2, <1>4, <2>1 DEF EnvWorker, At
<1>6. /\ Executes(w, "evaluate") /\ w.at.chunk = 0 /\ resultChannel' = resultChannel
      /\ IF ~c.evalAutoReset \/ w.at.epoch = 1
         THEN Bootstrap(e, "eval", TRUE, begun)
         ELSE env' = [env EXCEPT ![e] = begun] /\ obsChannel' = obsChannel
  BY <1>1, <1>4 DEF BeginEvalEpoch
<1>7. ASSUME NEW w2 \in EnvWorker(c.stages), Leaves(w2, begun, "eval")
      PROVE  /\ Place(c, w2) /\ AwaitedOf(c, w2, "eval") = c.stages /\ FirstOf(w2, "eval") = 1
             /\ FirstOf(w, "eval") = 1
             /\ AwaitedOf(c, w, "eval") = IF ~c.evalAutoReset \/ w.at.epoch = 1 THEN 0 ELSE c.stages
             /\ AwaitedOf(c, w2, "train") = AwaitedOf(c, w, "train")
             /\ FirstOf(w2, "train") = FirstOf(w, "train")
  <2>1. w2.calls = w.calls /\ At(w2, w.at.epoch, 1, w.at.stage) /\ w2.prefetched = w.prefetched
    BY <1>5, <1>7 DEF Leaves, At
  <2> QED BY <1>1, <1>6, <2>1, BeginsEval
<1>8. CASE ~(~c.evalAutoReset \/ w.at.epoch = 1)
  <2>1. Leaves(begun, begun, "eval")
    BY DEF Leaves
  <2>2. /\ Place(c, begun) /\ AwaitedOf(c, begun, "eval") = AwaitedOf(c, w, "eval")
        /\ FirstOf(begun, "eval") = FirstOf(w, "eval")
        /\ AwaitedOf(c, begun, "train") = AwaitedOf(c, w, "train")
        /\ FirstOf(begun, "train") = FirstOf(w, "train")
    BY <1>5, <1>7, <1>8, <2>1
  <2>4. \A m \in Mode : PendOf(c, e, begun, m) = PendOf(c, e, w, m)
    <3>1. PendOf(c, e, begun, "train") = PendOf(c, e, w, "train")
            /\ PendOf(c, e, begun, "eval") = PendOf(c, e, w, "eval")
      BY <1>5, <2>2, PendSame
    <3> QED BY <3>1, Modes
  <2>5. Owned(begun)
    BY <1>1, <1>5 DEF Owned
  <2>6. Good(c, to, [workers EXCEPT ![e] = begun], answers, asks)
    BY <1>1, <1>5, <2>2, <2>4, <2>5, MovedOn
  <2> QED BY <1>1, <1>6, <1>8, <2>6 DEF GoodAfter
<1>9. CASE ~c.evalAutoReset \/ w.at.epoch = 1
  <2>2. PICK m \in Mode, reset \in BOOLEAN : m = "eval" /\ reset = TRUE
    BY Modes
  <2>3. \A w2 \in EnvWorker(c.stages) : Leaves(w2, begun, m) =>
              /\ Place(c, w2) /\ AwaitedOf(c, w, m) = 0 /\ AwaitedOf(c, w2, m) = c.stages
              /\ FirstOf(w2, m) = 1
              /\ \A m2 \in Mode : m2 # m =>
                    AwaitedOf(c, w2, m2) = AwaitedOf(c, w, m2) /\ FirstOf(w2, m2) = FirstOf(w, m2)
    <3> SUFFICES ASSUME NEW w2 \in EnvWorker(c.stages), Leaves(w2, begun, m)
                 PROVE  /\ Place(c, w2) /\ AwaitedOf(c, w, m) = 0 /\ AwaitedOf(c, w2, m) = c.stages
                        /\ FirstOf(w2, m) = 1
                        /\ \A m2 \in Mode : m2 # m =>
                              AwaitedOf(c, w2, m2) = AwaitedOf(c, w, m2) /\ FirstOf(w2, m2) = FirstOf(w, m2)
      OBVIOUS
    <3>1. Leaves(w2, begun, "eval")
      BY <2>2
    <3> QED BY <1>7, <1>9, <2>2, <3>1, Modes
  <2>4. Bootstrap(e, m, reset, begun)
    BY <1>6, <1>9, <2>2
  <2> QED BY <1>0, <1>5, <1>6, <2>3, <2>4, BootKeeps
<1> QED BY <1>8, <1>9

\* What follows for a worker that has stepped a stage of mode m.
Stepped(c, w, w2, m, sends) ==
    /\ Place(c, w2) /\ FirstOf(w2, m) = NextOf(c.stages, w.at.stage) /\ AwaitedOf(c, w, m) > 0
    /\ sends => AwaitedOf(c, w, m) = c.stages /\ AwaitedOf(c, w2, m) = c.stages
    /\ ~sends => OneLess(AwaitedOf(c, w2, m), AwaitedOf(c, w, m))
    /\ \A m2 \in Mode : m2 # m =>
          AwaitedOf(c, w2, m2) = AwaitedOf(c, w, m2) /\ FirstOf(w2, m2) = FirstOf(w, m2)

\* A stage of mode m is stepped, and the other mode is left alone.
LEMMA StepKeeps ==
    ASSUME LoopInv, NEW e \in EnvRank, NEW c, NEW to, NEW workers, NEW answers, NEW asks, NEW w,
           Known(c, to, workers, answers, asks, e, w),
           NEW m \in Mode, NEW sends \in BOOLEAN, NEW worker \in EnvWorker(c.stages),
           worker.clock = w.clock, FirstOf(w, m) = w.at.stage,
           \A w2 \in EnvWorker(c.stages) : Leaves(w2, worker, m) =>
              Stepped(c, w, w2, m, sends),
           ChunkStep(e, m, sends, worker)
    PROVE  GoodAfter
<1>1. /\ c = cfg /\ to = ranks.toRollout /\ workers = env /\ answers = resultChannel /\ asks = obsChannel
      /\ c \in Configs /\ Good(c, to, workers, answers, asks) /\ Knows(c, to)
      /\ e \in 0 .. c.envWorkers - 1 /\ w = workers[e] /\ w \in EnvWorker(c.stages) /\ Place(c, w) /\ Owned(w)
  BY DEF Known
<1>20. PICK s : s = w.at.stage
  BY SMTT(60)
<1>2. /\ Ready(answers, e, to[e], m) /\ resultChannel' = Taken(answers, e, to[e], m)
      /\ \E w2 \in EnvWorker(c.stages) :
            /\ env' = [workers EXCEPT ![e] = w2] /\ Leaves(w2, worker, m) /\ Owned(w2)
            /\ \A x \in 1 .. c.stages : x # s => w2.clock[m][x] = worker.clock[m][x]
            /\ obsChannel' = IF sends THEN Sent(asks, e, to[e], m,
                                                <<View(e, PerWorker(c), m, s, w2.clock[m][s])>>)
                             ELSE asks
  <2>1. worker.clock = env[e].clock /\ worker \in EnvWorker(cfg.stages)
          /\ FirstOf(env[e], m) = env[e].at.stage
    BY <1>1
  <2>2. /\ Ready(resultChannel, e, ranks.toRollout[e], m)
        /\ resultChannel' = Taken(resultChannel, e, ranks.toRollout[e], m)
        /\ \E w2 \in EnvWorker(cfg.stages) :
                     /\ env' = [env EXCEPT ![e] = w2] /\ Leaves(w2, worker, m) /\ Owned(w2)
                     /\ \A x \in 1 .. cfg.stages : x # env[e].at.stage => w2.clock[m][x] = worker.clock[m][x]
                     /\ w2.clock[m][env[e].at.stage] = worker.clock[m][env[e].at.stage] + 1
                     /\ obsChannel' = IF sends THEN Sent(obsChannel, e, ranks.toRollout[e], m,
                                      <<View(e, PerWorker(cfg), m, env[e].at.stage, w2.clock[m][env[e].at.stage])>>)
                                      ELSE obsChannel
    BY <2>1, ChunkStepIs
  <2> QED BY ZenonT(60), <1>1, <1>20, <2>2
<1>3. PICK w2 \in EnvWorker(c.stages) :
        /\ env' = [workers EXCEPT ![e] = w2] /\ Leaves(w2, worker, m) /\ Owned(w2)
        /\ \A x \in 1 .. c.stages : x # s => w2.clock[m][x] = worker.clock[m][x]
        /\ obsChannel' =
             IF sends THEN Sent(asks, e, to[e], m, <<View(e, PerWorker(c), m, s, w2.clock[m][s])>>)
                         ELSE asks
  BY <1>2
<1>4. PICK P \in Nat, d \in Nat : P = PerWorker(c) /\ d = e
  <2>1. e \in Nat /\ PerWorker(c) \in Nat
    BY <1>1 DEF Knows
  <2> QED BY <2>1
<1>5. /\ Place(c, w2) /\ FirstOf(w2, m) = NextOf(c.stages, s) /\ AwaitedOf(c, w, m) > 0
      /\ sends => AwaitedOf(c, w, m) = c.stages /\ AwaitedOf(c, w2, m) = c.stages
      /\ ~sends => OneLess(AwaitedOf(c, w2, m), AwaitedOf(c, w, m))
      /\ \A m2 \in Mode : m2 # m =>
            AwaitedOf(c, w2, m2) = AwaitedOf(c, w, m2) /\ FirstOf(w2, m2) = FirstOf(w, m2)
  BY <1>3, <1>20 DEF Stepped
<1>6. \A x \in 1 .. c.stages : x # s => w2.clock[m][x] = w.clock[m][x]
  BY <1>3
<1>7. \A m2 \in Mode : m2 # m => PendOf(c, e, w2, m2) = PendOf(c, e, w, m2)
  <2> SUFFICES ASSUME NEW m2 \in Mode, m2 # m PROVE PendOf(c, e, w2, m2) = PendOf(c, e, w, m2)
    OBVIOUS
  <2>1. w2.clock[m2] = w.clock[m2]
    BY <1>3 DEF Leaves
  <2> QED BY <1>5, <2>1, PendSame
<1>8. PerWorker(c) \in Nat /\ s = FirstOf(w, m)
  BY <1>4, <1>20
<1>9. CASE sends
  <2>1. PICK batches : batches = <<View(e, PerWorker(c), m, s, w2.clock[m][s])>>
    OBVIOUS
  <2>2. PendOf(c, d, w2, m) = Tail(PendOf(c, d, w, m)) \o <<View(d, PerWorker(c), m, s, w2.clock[m][s])>>
        /\ Batches(<<View(d, PerWorker(c), m, s, w2.clock[m][s])>>, PerWorker(c))
    BY SMTT(60), <1>1, <1>5, <1>6, <1>8, <1>9, PendStep
  <2>3. Good(c, to, [workers EXCEPT ![e] = w2], Taken(answers, e, to[e], m), Sent(asks, e, to[e], m, batches))
    <3>1. Batches(batches, PerWorker(c)) /\ PendOf(c, e, w2, m) = Tail(PendOf(c, e, workers[e], m)) \o batches
      BY <1>1, <1>4, <2>1, <2>2
    <3>2. \A m2 \in Mode : m2 # m => PendOf(c, e, w2, m2) = PendOf(c, e, workers[e], m2)
      BY <1>1, <1>7
    <3>3. /\ c \in Configs /\ Good(c, to, workers, answers, asks) /\ Knows(c, to)
          /\ e \in 0 .. c.envWorkers - 1
          /\ Place(c, w2) /\ Owned(w2) /\ Ready(answers, e, to[e], m)
      BY <1>1, <1>2, <1>3, <1>5
    <3> QED BY <3>1, <3>2, <3>3, MovedStepping
  <2> QED BY <1>1, <1>2, <1>3, <1>9, <2>1, <2>3 DEF GoodAfter
<1>10. CASE ~sends
  <2>1. OneLess(AwaitedOf(c, w2, m), AwaitedOf(c, w, m))
    BY <1>5, <1>10
  <2>2. PendOf(c, d, w2, m) = Tail(PendOf(c, d, w, m))
    <3>1. /\ c \in Configs /\ w \in EnvWorker(c.stages) /\ PerWorker(c) \in Nat /\ Place(c, w)
          /\ s = FirstOf(w, m)
          /\ AwaitedOf(c, w, m) > 0 /\ FirstOf(w2, m) = NextOf(c.stages, s)
          /\ \A x \in 1 .. c.stages : x # s => w2.clock[m][x] = w.clock[m][x]
      BY <1>1, <1>5, <1>6, <1>8
    <3> QED BY <2>1, <3>1, PendTake
  <2>3. Good(c, to, [workers EXCEPT ![e] = w2], Taken(answers, e, to[e], m), asks)
    <3>1. PendOf(c, e, w2, m) = Tail(PendOf(c, e, workers[e], m))
      BY <1>1, <1>4, <2>2
    <3>2. \A m2 \in Mode : m2 # m => PendOf(c, e, w2, m2) = PendOf(c, e, workers[e], m2)
      BY <1>1, <1>7
    <3>3. /\ c \in Configs /\ Good(c, to, workers, answers, asks) /\ Knows(c, to)
          /\ e \in 0 .. c.envWorkers - 1
          /\ Place(c, w2) /\ Owned(w2) /\ Ready(answers, e, to[e], m)
      BY <1>1, <1>2, <1>3, <1>5
    <3> QED BY <3>1, <3>2, <3>3, MovedTaking
  <2> QED BY <1>1, <1>2, <1>3, <1>10, <2>3 DEF GoodAfter
<1> QED BY <1>9, <1>10

LEMMA AfterIs ==
    ASSUME NEW S \in Nat \ {0}, S = cfg.stages, NEW place \in [epoch : Nat, chunk : Nat, stage : 1 .. S]
    PROVE  After(place) \in [epoch : Nat, chunk : Nat, stage : 1 .. S] /\ Onward(S, place, After(place))
<1>1. CASE place.stage < S
  <2>1. After(place) = [place EXCEPT !.stage = place.stage + 1]
    BY <1>1 DEF After
  <2>2. place.stage + 1 \in 1 .. S
    BY <1>1
  <2>3. /\ After(place).stage = place.stage + 1 /\ After(place).chunk = place.chunk
        /\ After(place).epoch = place.epoch
        /\ After(place) \in [epoch : Nat, chunk : Nat, stage : 1 .. S]
    BY <2>1, <2>2
  <2> QED BY <1>1, <2>3 DEF Onward, NextOf
<1>2. CASE ~(place.stage < S)
  <2>1. After(place) = [place EXCEPT !.stage = 1, !.chunk = place.chunk + 1]
    BY <1>2 DEF After
  <2>2. 1 \in 1 .. S /\ place.chunk + 1 \in Nat /\ place.stage = S
    BY <1>2
  <2>3. /\ After(place).stage = 1 /\ After(place).chunk = place.chunk + 1 /\ After(place).epoch = place.epoch
        /\ After(place) \in [epoch : Nat, chunk : Nat, stage : 1 .. S]
    BY <2>1, <2>2
  <2> QED BY <1>2, <2>2, <2>3 DEF Onward, NextOf
<1> QED BY <1>1, <1>2

LEMMA InteractKeeps ==
    ASSUME LoopInv, NEW e \in EnvRank, InteractStep(e)
    PROVE  GoodAfter
<1>0. PICK c, to, workers, answers, asks, w : Known(c, to, workers, answers, asks, e, w)
  BY KnownIs
<1>1. /\ c = cfg /\ to = ranks.toRollout /\ workers = env /\ answers = resultChannel /\ asks = obsChannel
      /\ c \in Configs /\ Good(c, to, workers, answers, asks) /\ Knows(c, to)
      /\ e \in 0 .. c.envWorkers - 1 /\ w = workers[e] /\ w \in EnvWorker(c.stages) /\ Place(c, w) /\ Owned(w)
  BY <1>0 DEF Known
<1>2. PICK S \in Nat \ {0} : S = c.stages
  BY <1>1, JobNumbers
<1>3. w.at \in [epoch : Nat, chunk : Nat, stage : 1 .. S]
  BY <1>1, <1>2, WorkerFields
<1>4. PICK place, steps : place = After(w.at) /\ steps = Appended(e)
  OBVIOUS
<1>5. PICK worker : worker = [w EXCEPT !.at = place, !.steps = steps]
  OBVIOUS
<1>6. Executes(w, "interact") /\ w.at.chunk \in 1 .. c.chunks /\ ChunkStep(e, "train", TRUE, worker)
  BY <1>1, <1>4, <1>5 DEF InteractStep
<1>7. FirstOf(w, "train") = w.at.stage
  BY <1>6 DEF FirstOf
<1>8. steps \in [1 .. S -> Seq([time : Nat, version : Int])]
  <2>1. Ready(resultChannel, e, FromRollout(e), "train")
    BY <1>6 DEF ChunkStep, Receives
  <2> QED BY <1>1, <1>2, <1>4, <1>7, <2>1, AppendedType
<1>9. place \in [epoch : Nat, chunk : Nat, stage : 1 .. S] /\ Onward(S, w.at, place)
  BY <1>1, <1>2, <1>3, <1>4, AfterIs
<1>10. /\ worker \in EnvWorker(c.stages) /\ worker.calls = w.calls /\ worker.at = place
       /\ worker.prefetched = w.prefetched /\ worker.clock = w.clock
  BY <1>1, <1>2, <1>5, <1>8, <1>9 DEF EnvWorker
<1>11. PICK m \in Mode, sends \in BOOLEAN : m = "train" /\ sends = TRUE
  BY Modes
<1>12. ASSUME NEW w2 \in EnvWorker(c.stages), Leaves(w2, worker, m)
       PROVE  Stepped(c, w, w2, m, sends)
  <2>1. w2.calls = w.calls /\ Onward(c.stages, w.at, w2.at) /\ w2.prefetched = w.prefetched
    BY <1>2, <1>9, <1>10, <1>12 DEF Leaves
  <2>2. /\ Place(c, w2) /\ AwaitedOf(c, w2, "train") = c.stages /\ AwaitedOf(c, w, "train") = c.stages
        /\ FirstOf(w2, "train") = NextOf(c.stages, w.at.stage)
        /\ AwaitedOf(c, w2, "eval") = AwaitedOf(c, w, "eval") /\ FirstOf(w2, "eval") = FirstOf(w, "eval")
    BY <1>1, <1>6, <2>1, Interacts
  <2> QED BY <1>2, <1>11, <2>2, Modes DEF Stepped
<1>13. ChunkStep(e, m, sends, worker) /\ FirstOf(w, m) = w.at.stage
  BY <1>6, <1>7, <1>11
<1> QED BY <1>0, <1>10, <1>12, <1>13, StepKeeps

LEMMA EvaluateKeeps ==
    ASSUME LoopInv, NEW e \in EnvRank, EvaluateStep(e)
    PROVE  GoodAfter
<1>0. PICK c, to, workers, answers, asks, w : Known(c, to, workers, answers, asks, e, w)
  BY KnownIs
<1>1. /\ c = cfg /\ to = ranks.toRollout /\ workers = env /\ answers = resultChannel /\ asks = obsChannel
      /\ c \in Configs /\ Good(c, to, workers, answers, asks) /\ Knows(c, to)
      /\ e \in 0 .. c.envWorkers - 1 /\ w = workers[e] /\ w \in EnvWorker(c.stages) /\ Place(c, w) /\ Owned(w)
  BY <1>0 DEF Known
<1>2. PICK S \in Nat \ {0} : S = c.stages
  BY <1>1, JobNumbers
<1>3. w.at \in [epoch : Nat, chunk : Nat, stage : 1 .. S] /\ w.calls \in Seq(Methods)
  BY <1>1, <1>2, WorkerFields
<1>4. PICK place : place = After(w.at)
  OBVIOUS
<1>40. PICK ends \in BOOLEAN : ends = (w.at.chunk = c.evalChunks /\ w.at.stage = S)
  OBVIOUS
<1>5. PICK worker : worker = IF ~ends THEN [w EXCEPT !.at = place]
                             ELSE IF w.at.epoch < c.evalEpochs THEN [w EXCEPT !.at = NextEpoch(w.at)]
                             ELSE Returned(w)
  OBVIOUS
<1>11. PICK m \in Mode, sends \in BOOLEAN : m = "eval" /\ sends = SendsAfterEval(w.at)
  <2>1. SendsAfterEval(w.at) \in BOOLEAN
    BY DEF SendsAfterEval
  <2> QED BY <2>1, Modes
<1>6. Executes(w, "evaluate") /\ w.at.chunk \in 1 .. c.evalChunks /\ ChunkStep(e, m, sends, worker)
  <2>1. Executes(w, "evaluate") /\ w.at.chunk \in 1 .. c.evalChunks
    BY <1>1 DEF EvaluateStep
  <2>2. ChunkStep(e, "eval", SendsAfterEval(w.at), worker)
    BY <1>1, <1>2, <1>4, <1>5, <1>40 DEF EvaluateStep
  <2> QED BY <1>11, <2>1, <2>2
<1>7. FirstOf(w, m) = w.at.stage
  BY <1>6, <1>11 DEF FirstOf
<1>8. sends = SendsEval(c, w.at)
  BY <1>1, <1>11 DEF SendsAfterEval, SendsEval
<1>9. place \in [epoch : Nat, chunk : Nat, stage : 1 .. S] /\ Onward(S, w.at, place)
  BY <1>1, <1>2, <1>3, <1>4, AfterIs
<1>10. /\ worker \in EnvWorker(c.stages) /\ worker.prefetched = w.prefetched /\ worker.clock = w.clock
       /\ ~ends => worker.calls = w.calls /\ worker.at = place
       /\ ends /\ w.at.epoch < c.evalEpochs => worker.calls = w.calls /\ At(worker, w.at.epoch + 1, 0, 1)
       /\ ends /\ ~(w.at.epoch < c.evalEpochs) => At(worker, 1, 0, 1)
  <2>1. CASE ~ends
    <3>1. worker = [w EXCEPT !.at = place]
      BY <1>5, <2>1
    <3> QED BY <1>1, <1>2, <1>9, <2>1, <3>1 DEF EnvWorker
  <2>2. CASE ends /\ w.at.epoch < c.evalEpochs
    <3>1. NextEpoch(w.at) = [epoch |-> w.at.epoch + 1, chunk |-> 0, stage |-> 1]
      BY DEF NextEpoch
    <3>2. w.at.epoch + 1 \in Nat /\ 1 \in 1 .. S
      BY <1>3
    <3>3. PICK next : next = [epoch |-> w.at.epoch + 1, chunk |-> 0, stage |-> 1]
      OBVIOUS
    <3>4. next \in [epoch : Nat, chunk : Nat, stage : 1 .. S] /\ worker = [w EXCEPT !.at = next]
      BY <1>5, <2>2, <3>1, <3>2, <3>3
    <3>5. worker \in EnvWorker(c.stages) /\ worker.prefetched = w.prefetched /\ worker.clock = w.clock
          /\ worker.calls = w.calls /\ worker.at = next
      BY <1>1, <1>2, <3>4 DEF EnvWorker
    <3> QED BY <2>2, <3>3, <3>5 DEF At
  <2>3. CASE ends /\ ~(w.at.epoch < c.evalEpochs)
    <3>1. Tail(w.calls) \in Seq(Methods)
      BY <1>3, <1>6, HeadTailProperties DEF Executes
    <3>2. Beginning \in [epoch : Nat, chunk : Nat, stage : 1 .. S]
      BY DEF Beginning
    <3>3. worker = [w EXCEPT !.calls = Tail(w.calls), !.at = Beginning]
      BY <1>5, <2>3 DEF Returned
    <3>4. worker \in EnvWorker(c.stages) /\ worker.prefetched = w.prefetched /\ worker.clock = w.clock
          /\ worker.at = Beginning
      BY <1>1, <1>2, <3>1, <3>2, <3>3 DEF EnvWorker
    <3> QED BY <2>3, <3>4 DEF At, Beginning
  <2> QED BY <2>1, <2>2, <2>3
<1>12. ASSUME NEW w2 \in EnvWorker(c.stages), Leaves(w2, worker, m)
       PROVE  Stepped(c, w, w2, m, sends)
  <2>1. w2.calls = worker.calls /\ w2.at = worker.at /\ w2.prefetched = worker.prefetched
    BY <1>12 DEF Leaves
  <2>2. w2.prefetched = w.prefetched
    BY <1>10, <2>1
  <2>3. LET done == w.at.chunk = c.evalChunks /\ w.at.stage = c.stages
        IN  \/ ~done /\ w2.calls = w.calls /\ Onward(c.stages, w.at, w2.at)
            \/ done /\ w.at.epoch < c.evalEpochs /\ w2.calls = w.calls /\ At(w2, w.at.epoch + 1, 0, 1)
            \/ done /\ ~(w.at.epoch < c.evalEpochs) /\ At(w2, 1, 0, 1)
    <3>1. CASE ~ends
      BY <1>2, <1>9, <1>10, <1>40, <2>1, <3>1
    <3>2. CASE ends /\ w.at.epoch < c.evalEpochs
      BY <1>2, <1>10, <1>40, <2>1, <3>2 DEF At
    <3>3. CASE ends /\ ~(w.at.epoch < c.evalEpochs)
      BY <1>2, <1>10, <1>40, <2>1, <3>3 DEF At
    <3> QED BY <3>1, <3>2, <3>3
  <2>4. /\ Place(c, w2) /\ AwaitedOf(c, w, "eval") > 0
        /\ SendsEval(c, w.at) => AwaitedOf(c, w, "eval") = c.stages /\ AwaitedOf(c, w2, "eval") = c.stages
        /\ ~SendsEval(c, w.at) => AwaitedOf(c, w2, "eval") = AwaitedOf(c, w, "eval") - 1
        /\ FirstOf(w, "eval") = w.at.stage /\ FirstOf(w2, "eval") = NextOf(c.stages, w.at.stage)
        /\ AwaitedOf(c, w2, "train") = AwaitedOf(c, w, "train") /\ FirstOf(w2, "train") = FirstOf(w, "train")
    BY <1>1, <1>6, <2>2, <2>3, Evaluates
  <2> QED BY <1>8, <1>11, <2>4, Modes DEF OneLess, Stepped
<1> QED BY <1>0, <1>6, <1>7, <1>10, <1>12, StepKeeps

LEMMA PendNone ==
    ASSUME NEW c, NEW e, NEW w, NEW m, AwaitedOf(c, w, m) = 0
    PROVE  PendOf(c, e, w, m) = <<>>
BY DEF PendOf, Waiting

\* An epoch of a stage ends.
LEMMA EndOfEpochKeeps ==
    ASSUME LoopInv, NEW e \in EnvRank, EndOfEpoch(e)
    PROVE  GoodAfter
<1>0. PICK c, to, workers, answers, asks, w : Known(c, to, workers, answers, asks, e, w)
  BY KnownIs
<1>1. /\ c = cfg /\ to = ranks.toRollout /\ workers = env /\ answers = resultChannel /\ asks = obsChannel
      /\ c \in Configs /\ Good(c, to, workers, answers, asks) /\ Knows(c, to)
      /\ e \in 0 .. c.envWorkers - 1 /\ w = workers[e] /\ w \in EnvWorker(c.stages) /\ Place(c, w) /\ Owned(w)
  BY <1>0 DEF Known
<1>2. PICK S \in Nat \ {0} : S = c.stages
  BY <1>1, JobNumbers
<1>3. /\ w.at \in [epoch : Nat, chunk : Nat, stage : 1 .. S] /\ w.calls \in Seq(Methods)
      /\ w.steps \in [1 .. S -> Seq([time : Nat, version : Int])]
  BY <1>1, <1>2, WorkerFields
<1>40. PICK m \in Mode : m = "train"
  BY Modes
<1>41. PICK a, steps : a = Acted(e, "train") /\ steps = Appended(e)
  OBVIOUS
<1>42. PICK acted : acted = [w EXCEPT !.acted = a, !.steps = steps]
  OBVIOUS
<1>4. /\ a = Acted(e, "train") /\ steps = Appended(e) /\ m = "train"
      /\ acted = [w EXCEPT !.acted = a, !.steps = steps]
  BY <1>40, <1>41, <1>42
<1>5. FromRollout(e) = to[e]
  BY <1>1, InvFacts
<1>6. /\ Executes(w, "interact") /\ w.at.chunk = c.chunks + 1 /\ Ready(answers, e, to[e], m)
      /\ resultChannel' = Taken(answers, e, to[e], m) /\ obsChannel' = asks
  BY <1>1, <1>4, <1>5 DEF EndOfEpoch, Receives
<1>7. \E w2 : /\ env' = [workers EXCEPT ![e] = w2]
              /\ \/ w.at.stage < S /\ w2 = [acted EXCEPT !.at.stage = w.at.stage + 1]
                 \/ w.at.stage = S /\ w2 = [acted EXCEPT !.at = NextEpoch(w.at)]
                 \/ w.at.stage = S /\ w2 = [Returned(acted) EXCEPT !.steps = [s \in 1 .. S |-> <<>>]]
  <2>1. acted.at = w.at
    BY <1>1, <1>2, <1>4 DEF EnvWorker
  <2>2. w.at.stage < S \/ w.at.stage = S
    BY <1>3
  <2>3. CASE w.at.stage < S
    <3>1. env' = [env EXCEPT ![e] = [acted EXCEPT !.at.stage = acted.at.stage + 1]]
      BY <1>1, <1>2, <1>4, <2>3 DEF EndOfEpoch
    <3> QED BY <1>1, <2>1, <2>3, <3>1
  <2>4. CASE w.at.stage = S
    <3>1. ~(w.at.stage < S)
      BY <2>4
    <3>2. env' = [env EXCEPT ![e] = IF w.at.epoch = c.epochs
                                    THEN [Returned(acted) EXCEPT !.steps = [s \in 1 .. S |-> <<>>]]
                                    ELSE [acted EXCEPT !.at = NextEpoch(acted.at)]]
      BY <1>1, <1>2, <1>4, <3>1 DEF EndOfEpoch, Stage
    <3> QED BY <1>1, <2>1, <2>4, <3>2
  <2> QED BY <2>2, <2>3, <2>4
<1>8. FirstOf(w, m) = w.at.stage
  BY <1>4, <1>6 DEF FirstOf
<1>9. a \in [observed : Seq(Observation), answer : Seq(Reply)] /\ Questions(a.answer) = a.observed
  BY <1>1, <1>4, <1>5, <1>6, <1>8, ActedIs
<1>10. steps \in [1 .. S -> Seq([time : Nat, version : Int])]
  BY <1>1, <1>2, <1>4, <1>5, <1>6, <1>8, AppendedType
<1>11. /\ acted \in EnvWorker(S) /\ acted.calls = w.calls /\ acted.at = w.at
       /\ acted.prefetched = w.prefetched
       /\ acted.acted = a /\ acted.clock = w.clock /\ acted.steps = steps
  <2>1. a \in Acts
    BY <1>9 DEF Acts
  <2> QED BY <1>1, <1>2, <1>4, <1>10, <2>1 DEF EnvWorker
<1>12. PICK w2 : /\ env' = [workers EXCEPT ![e] = w2]
                 /\ \/ w.at.stage < S /\ w2 = [acted EXCEPT !.at.stage = w.at.stage + 1]
                    \/ w.at.stage = S /\ w2 = [acted EXCEPT !.at = NextEpoch(w.at)]
                    \/ w.at.stage = S /\ w2 = [Returned(acted) EXCEPT !.steps = [s \in 1 .. S |-> <<>>]]
  BY <1>7
<1>13. /\ w2 \in EnvWorker(S) /\ w2.prefetched = w.prefetched /\ w2.acted = a /\ w2.clock = w.clock
       /\ \/ w.at.stage < S /\ w2.calls = w.calls /\ At(w2, w.at.epoch, w.at.chunk, w.at.stage + 1)
          \/ w.at.stage = S /\ w2.calls = w.calls /\ At(w2, w.at.epoch + 1, 0, 1)
          \/ w.at.stage = S /\ At(w2, 1, 0, 1)
  <2>1. CASE w.at.stage < S /\ w2 = [acted EXCEPT !.at.stage = w.at.stage + 1]
    <3>1. PICK at : at = [w.at EXCEPT !.stage = w.at.stage + 1]
      OBVIOUS
    <3>2. w.at.stage + 1 \in 1 .. S
      BY <1>3, <2>1
    <3>3. /\ at \in [epoch : Nat, chunk : Nat, stage : 1 .. S]
          /\ at.epoch = w.at.epoch /\ at.chunk = w.at.chunk /\ at.stage = w.at.stage + 1
      BY <1>3, <3>1, <3>2
    <3>4. w2 = [acted EXCEPT !.at = at]
      BY <1>11, <2>1, <3>1
    <3>5. w2 \in EnvWorker(S) /\ w2.prefetched = w.prefetched /\ w2.acted = a /\ w2.clock = w.clock
          /\ w2.calls = w.calls /\ w2.at = at
      BY <1>11, <3>3, <3>4 DEF EnvWorker
    <3> QED BY <2>1, <3>3, <3>5 DEF At
  <2>2. CASE w.at.stage = S /\ w2 = [acted EXCEPT !.at = NextEpoch(w.at)]
    <3>1. PICK at : at = [epoch |-> w.at.epoch + 1, chunk |-> 0, stage |-> 1]
      OBVIOUS
    <3>2. w.at.epoch + 1 \in Nat /\ 1 \in 1 .. S
      BY <1>3
    <3>3. at \in [epoch : Nat, chunk : Nat, stage : 1 .. S] /\ w2 = [acted EXCEPT !.at = at]
      BY <2>2, <3>1, <3>2 DEF NextEpoch
    <3>4. w2 \in EnvWorker(S) /\ w2.prefetched = w.prefetched /\ w2.acted = a /\ w2.clock = w.clock
          /\ w2.calls = w.calls /\ w2.at = at
      BY <1>11, <3>3 DEF EnvWorker
    <3> QED BY <2>2, <3>1, <3>4 DEF At
  <2>3. CASE w.at.stage = S /\ w2 = [Returned(acted) EXCEPT !.steps = [s \in 1 .. S |-> <<>>]]
    <3>1. Tail(w.calls) \in Seq(Methods)
      BY <1>3, <1>6, HeadTailProperties DEF Executes
    <3>2. Beginning \in [epoch : Nat, chunk : Nat, stage : 1 .. S]
      BY DEF Beginning
    <3>3. PICK none : none = [s \in 1 .. S |-> <<>>]
      OBVIOUS
    <3>4. none \in [1 .. S -> Seq([time : Nat, version : Int])]
      BY <3>3
    <3>5. w2 = [acted EXCEPT !.calls = Tail(w.calls), !.at = Beginning, !.steps = none]
      BY <1>11, <2>3, <3>3 DEF Returned
    <3>6. w2 \in EnvWorker(S) /\ w2.prefetched = w.prefetched /\ w2.acted = a /\ w2.clock = w.clock
          /\ w2.at = Beginning
      BY <1>11, <3>1, <3>2, <3>4, <3>5 DEF EnvWorker
    <3> QED BY <2>3, <3>6 DEF At, Beginning
  <2> QED BY <1>12, <2>1, <2>2, <2>3
<1>14. /\ Place(c, w2) /\ AwaitedOf(c, w, "train") > 0
       /\ AwaitedOf(c, w2, "train") = AwaitedOf(c, w, "train") - 1
       /\ FirstOf(w, "train") = w.at.stage /\ FirstOf(w2, "train") = NextOf(c.stages, w.at.stage)
       /\ AwaitedOf(c, w2, "eval") = 0 /\ AwaitedOf(c, w, "eval") = 0
  <2>1. w2 \in EnvWorker(c.stages) /\ w2.prefetched = w.prefetched
    BY <1>2, <1>13
  <2> QED BY <1>1, <1>2, <1>6, <1>13, <2>1, EndsEpoch
<1>15. Owned(w2)
  BY <1>9, <1>13 DEF Owned
<1>160. PICK s : s = w.at.stage
  OBVIOUS
<1>16. PICK d \in Nat : PerWorker(c) \in Nat /\ d = e /\ s = w.at.stage
  <2>1. e \in Nat /\ PerWorker(c) \in Nat
    BY <1>1 DEF Knows
  <2> QED BY <1>160, <2>1
<1>17. PendOf(c, d, w2, m) = Tail(PendOf(c, d, w, m))
  <2>1. /\ c \in Configs /\ w \in EnvWorker(c.stages) /\ w2 \in EnvWorker(c.stages)
        /\ PerWorker(c) \in Nat /\ Place(c, w) /\ s = FirstOf(w, m)
        /\ AwaitedOf(c, w, m) > 0 /\ FirstOf(w2, m) = NextOf(c.stages, s)
        /\ OneLess(AwaitedOf(c, w2, m), AwaitedOf(c, w, m))
        /\ \A x \in 1 .. c.stages : x # s => w2.clock[m][x] = w.clock[m][x]
    BY <1>1, <1>2, <1>4, <1>13, <1>14, <1>16 DEF OneLess
  <2> QED BY <2>1, PendTake
<1>18. \A m2 \in Mode : m2 # m => PendOf(c, e, w2, m2) = PendOf(c, e, w, m2)
  <2>1. PendOf(c, e, w2, "eval") = <<>> /\ PendOf(c, e, w, "eval") = <<>>
    BY <1>14, PendNone
  <2> QED BY <1>4, <2>1, Modes
<1>19. Good(c, to, [workers EXCEPT ![e] = w2], Taken(answers, e, to[e], m), asks)
  <2>1. PendOf(c, e, w2, m) = Tail(PendOf(c, e, workers[e], m)) /\ w2 \in EnvWorker(c.stages)
    BY <1>1, <1>2, <1>13, <1>16, <1>17
  <2>2. \A m2 \in Mode : m2 # m => PendOf(c, e, w2, m2) = PendOf(c, e, workers[e], m2)
    BY <1>1, <1>18
  <2> QED BY <1>1, <1>6, <1>14, <1>15, <2>1, <2>2, MovedTaking
<1> QED BY <1>1, <1>6, <1>12, <1>19 DEF GoodAfter

\* A rollout worker answers.
LEMMA AnswerKeeps ==
    ASSUME LoopInv, NEW r \in RolloutRank, NEW mode \in Mode, Answer(r, mode)
    PROVE  GoodAfter
<1>1. PICK c, to, workers, answers, asks, from, half :
        /\ c = cfg /\ to = ranks.toRollout /\ workers = env /\ answers = resultChannel /\ asks = obsChannel
        /\ from = FromEnv(r) /\ half = StageBatch(cfg) \div cfg.rolloutWorkers
  OBVIOUS
<1>2. /\ c \in Configs /\ Good(c, to, workers, answers, asks) /\ Knows(c, to)
      /\ r \in 0 .. c.rolloutWorkers - 1
      /\ Shares(from, half, c.envWorkers) /\ ToEnv(r) = from
  BY <1>1, InvFacts DEF LoopInv, RolloutRank
<1>3. weights \in Int
  BY DEF LoopInv
<1>4. PICK version \in Int : version = IF mode = "train" THEN VersionOf(rollout[r].count) ELSE weights
  BY <1>3 DEF VersionOf, NoVersion
<1>5. PICK obs : obs = Merged(asks, r, from, mode)
  OBVIOUS
<1>6. /\ Ready(asks, r, from, mode) /\ obsChannel' = Taken(asks, r, from, mode) /\ env' = env
      /\ resultChannel' = Sent(answers, r, from, mode,
                               <<[n \in DOMAIN obs |-> [to |-> obs[n], version |-> version]]>>)
  BY <1>1, <1>2, <1>4, <1>5 DEF Answer
<1>7. [n \in DOMAIN obs |-> [to |-> obs[n], version |-> version]] = Answering(obs, version)
  BY DEF Answering
<1>8. Good(c, to, workers, Sent(answers, r, from, mode, <<Answering(obs, version)>>), Taken(asks, r, from, mode))
  BY <1>2, <1>5, <1>6, GoodAnswer
<1> QED BY <1>1, <1>6, <1>7, <1>8 DEF GoodAfter

\* The runner calls a method of all env workers.
LEMMA CalledKeeps ==
    ASSUME NEW c \in Configs, NEW to, NEW workers, NEW answers, NEW asks, Good(c, to, workers, answers, asks),
           NEW method \in Methods
    PROVE  Good(c, to, Called(workers, method), answers, asks)
<1>1. /\ workers \in [0 .. c.envWorkers - 1 -> EnvWorker(c.stages)]
      /\ answers \in Queues(c.rolloutWorkers, c.envWorkers, Reply)
      /\ asks \in Queues(c.envWorkers, c.rolloutWorkers, Observation)
      /\ \A e \in 0 .. c.envWorkers - 1 : Place(c, workers[e]) /\ Owned(workers[e])
      /\ Served(c, to, workers, answers, asks)
  BY DEF Good
<1> DEFINE all == Called(workers, method)
<1>2. DOMAIN all = 0 .. c.envWorkers - 1 /\ all = [e \in DOMAIN all |-> all[e]]
  BY <1>1 DEF Called
<1>3. ASSUME NEW e \in 0 .. c.envWorkers - 1
      PROVE  /\ all[e] \in EnvWorker(c.stages) /\ Place(c, all[e]) /\ Owned(all[e])
             /\ \A m \in Mode : \A d : PendOf(c, d, all[e], m) = PendOf(c, d, workers[e], m)
  <2>1. PICK w : w = workers[e]
    OBVIOUS
  <2>2. w \in EnvWorker(c.stages) /\ Place(c, w) /\ Owned(w)
    BY <1>1, <2>1
  <2>3. all[e] = [w EXCEPT !.calls = Append(w.calls, method)]
    BY <1>1, <2>1 DEF Called
  <2>4. PICK w2 : w2 = [w EXCEPT !.calls = Append(w.calls, method)]
    OBVIOUS
  <2>5. /\ w2 \in EnvWorker(c.stages) /\ Place(c, w2) /\ Owned(w2)
        /\ \A m \in Mode : \A d : PendOf(c, d, w2, m) = PendOf(c, d, w, m)
    BY SMTT(60), <2>2, <2>4, CalledToo DEF WithCall
  <2> HIDE DEF all
  <2> QED BY <2>1, <2>3, <2>4, <2>5
<1> HIDE DEF all
<1>4. all \in [0 .. c.envWorkers - 1 -> EnvWorker(c.stages)]
  BY <1>2, <1>3
<1>5. Served(c, to, all, answers, asks)
  BY <1>1, <1>3 DEF Served
<1>6. Good(c, to, all, answers, asks)
  BY <1>1, <1>3, <1>4, <1>5 DEF Good
<1> QED BY <1>6 DEF all

\* An env worker moves on.
LEMMA EnvKeeps ==
    ASSUME LoopInv, NEW e \in EnvRank,
           \/ BeginEpoch(e) \/ InteractStep(e) \/ EndOfEpoch(e)
           \/ PrefetchBootstrap(e) \/ BeginEvalEpoch(e) \/ EvaluateStep(e)
    PROVE  LoopInv'
<1>1. GoodAfter
  BY BeginEpochKeeps, InteractKeeps, EndOfEpochKeeps, PrefetchKeeps, BeginEvalKeeps, EvaluateKeeps
<1>2. UNCHANGED <<cfg, ranks, progress, weights>>
  BY DEF BeginEpoch, InteractStep, EndOfEpoch, PrefetchBootstrap, BeginEvalEpoch, EvaluateStep, ChunkStep
<1> QED BY <1>1, <1>2 DEF LoopInv, GoodAfter, Validated, Mapped

LEMMA Interaction == "interact" \in Methods /\ "prefetch" \in Methods /\ "evaluate" \in Methods
BY DEF Methods

\* The runner moves on.
LEMMA RunnerKeeps ==
    ASSUME LoopInv, BeginStep \/ StartTraining \/ EndTraining \/ EndStep
    PROVE  LoopInv'
<1>1. /\ cfg \in Configs /\ Good(cfg, ranks.toRollout, env, resultChannel, obsChannel)
      /\ progress \in Progress /\ weights \in Nat
  BY DEF LoopInv
<1>2. UNCHANGED <<cfg, ranks, resultChannel, obsChannel>>
  BY DEF BeginStep, StartTraining, EndTraining, EndStep
<1>3. env' = env \/ \E method \in Methods : env' = Called(env, method)
  BY Interaction DEF BeginStep, StartTraining, EndTraining, EndStep
<1>4. Good(cfg, ranks.toRollout, env', resultChannel, obsChannel)
  BY <1>1, <1>3, CalledKeeps
<1>5. progress' \in Progress /\ weights' \in Nat
  <2>1. progress.step \in Nat /\ progress.step + 1 \in Nat
    BY <1>1 DEF Progress
  <2>2. CASE BeginStep
    BY <1>1, <2>1, <2>2 DEF BeginStep, Progress
  <2>3. CASE StartTraining
    BY <1>1, <2>3 DEF StartTraining, Progress
  <2>4. CASE EndTraining
    BY <1>1, <2>1, <2>4 DEF EndTraining, Progress
  <2>5. CASE EndStep
    BY <1>1, <2>5 DEF EndStep, Progress
  <2> QED BY <2>2, <2>3, <2>4, <2>5
<1> QED BY <1>2, <1>4, <1>5 DEF LoopInv, Validated, Mapped

LEMMA LoopBegins ==
    ASSUME LoopInit
    PROVE  LoopInv
<1>1. PICK c, to, S, E, R : c = cfg /\ to = ranks.toRollout /\ S = c.stages /\ E = c.envWorkers
        /\ R = c.rolloutWorkers
  OBVIOUS
<1>2. /\ c \in Configs /\ Validated(c) /\ Mapped(c) /\ ranks = RankMaps(c) /\ weights \in Nat
      /\ env = [e \in 0 .. E - 1 |->
                [calls |-> <<>>, at |-> Beginning, prefetched |-> FALSE, acted |-> <<>>,
                 clock |-> [m \in Mode |-> [s \in 1 .. S |-> 0]],
                 steps |-> [s \in 1 .. S |-> <<>>]]]
      /\ obsChannel = [k \in (0 .. E - 1) \X (0 .. R - 1) \X Mode |-> <<>>]
      /\ resultChannel = [k \in (0 .. R - 1) \X (0 .. E - 1) \X Mode |-> <<>>]
  BY <1>1 DEF LoopInit, EnvRank, RolloutRank, Stage
<1>3. PICK w : w = [calls |-> <<>>, at |-> Beginning, prefetched |-> FALSE, acted |-> <<>>,
                    clock |-> [m \in Mode |-> [s \in 1 .. S |-> 0]], steps |-> [s \in 1 .. S |-> <<>>]]
  OBVIOUS
<1>4. S \in Nat \ {0} /\ c.firstStep \in Nat
  BY <1>1, <1>2, JobNumbers
<1>5. w \in EnvWorker(S)
  <2>1. Beginning \in [epoch : Nat, chunk : Nat, stage : 1 .. S]
    BY <1>4 DEF Beginning
  <2>2. [m \in Mode |-> [s \in 1 .. S |-> 0]] \in Clocks(S)
    BY DEF Clocks
  <2>3. <<>> \in Seq(Methods) /\ <<>> \in Acts
    BY DEF Acts
  <2>4. [s \in 1 .. S |-> <<>>] \in [1 .. S -> Seq([time : Nat, version : Int])]
    OBVIOUS
  <2> QED BY <1>3, <2>1, <2>2, <2>3, <2>4 DEF EnvWorker
<1>6. \A x : ~Executes(w, x)
  BY <1>3 DEF Executes
<1>7. Place(c, w) /\ Owned(w) /\ \A m \in Mode : AwaitedOf(c, w, m) = 0
  BY <1>3, <1>6 DEF Place, Owned, Beginning, AwaitedOf
<1>8. /\ resultChannel \in Queues(R, E, Reply) /\ obsChannel \in Queues(E, R, Observation)
  BY <1>2 DEF Queues
<1>9. env \in [0 .. E - 1 -> EnvWorker(S)] /\ \A e \in 0 .. E - 1 : env[e] = w
  BY <1>2, <1>3, <1>5
<1>10. Knows(c, to) /\ E \in Nat /\ R \in Nat
  <2>1. PerWorker(c) \in Nat \ {0}
    BY <1>2, JobFacts
  <2>2. Maps(c, ranks)
    BY <1>2, MapsAgree
  <2> QED BY <1>1, <1>2, <2>1, <2>2, JobNumbers DEF Maps, Knows
<1>11. Served(c, to, env, resultChannel, obsChannel)
  <2> SUFFICES ASSUME NEW e \in 0 .. E - 1, NEW m \in Mode
               PROVE  Fed(resultChannel, obsChannel, e, m, PendOf(c, e, env[e], m), to[e])
    BY <1>1 DEF Served
  <2>1. PendOf(c, e, env[e], m) = <<>>
    BY <1>7, <1>9, PendNone
  <2>2. PICK parts, total : parts = to[e] /\ Shares(parts, total, R)
    BY <1>1, <1>10 DEF Knows
  <2>3. ASSUME NEW n \in 1 .. Len(parts) PROVE parts[n].rank \in 0 .. R - 1
    BY <2>2, <2>3 DEF Shares
  <2>4. ASSUME NEW n \in 1 .. Len(parts)
        PROVE  Flows(resultChannel[<<parts[n].rank, e, m>>], obsChannel[<<e, parts[n].rank, m>>], <<>>, parts, n)
    <3>1. resultChannel[<<parts[n].rank, e, m>>] = <<>> /\ obsChannel[<<e, parts[n].rank, m>>] = <<>>
      BY <1>2, <2>3
    <3> QED BY <3>1 DEF Flows
  <2> QED BY <2>1, <2>2, <2>4 DEF Fed
<1>12. Good(c, to, env, resultChannel, obsChannel)
  BY <1>1, <1>7, <1>8, <1>9, <1>11 DEF Good
<1>13. progress \in Progress
  BY <1>1, <1>4 DEF LoopInit, Progress
<1> QED BY <1>1, <1>2, <1>12, <1>13 DEF LoopInv

\* Every step keeps the invariant.
LEMMA LoopGoesOn ==
    ASSUME LoopInv, [LoopNext]_loopVars
    PROVE  LoopInv'
<1>1. ASSUME NEW e \in EnvRank,
             \/ BeginEpoch(e) \/ InteractStep(e) \/ EndOfEpoch(e)
             \/ PrefetchBootstrap(e) \/ BeginEvalEpoch(e) \/ EvaluateStep(e)
      PROVE  LoopInv'
  BY <1>1, EnvKeeps
<1>2. ASSUME NEW r \in RolloutRank, RolloutGenerate(r) \/ RolloutEvaluate(r)
      PROVE  LoopInv'
  <2>1. PICK mode \in Mode : Answer(r, mode)
    BY <1>2, Modes DEF RolloutGenerate, RolloutEvaluate
  <2>2. GoodAfter
    BY <2>1, AnswerKeeps
  <2>3. UNCHANGED <<cfg, ranks, progress, weights>>
    BY <2>1 DEF Answer
  <2> QED BY <2>2, <2>3 DEF LoopInv, GoodAfter, Validated, Mapped
<1>3. ASSUME NEW a \in DOMAIN collector, RecvTrajectory(a)
      PROVE  LoopInv'
  BY <1>3 DEF RecvTrajectory, LoopInv, Validated, Mapped
<1>4. CASE BeginStep \/ StartTraining \/ EndTraining \/ EndStep
  BY <1>4, RunnerKeeps
<1>5. CASE UNCHANGED loopVars
  BY <1>5 DEF loopVars, LoopInv, Validated, Mapped
<1> QED BY <1>1, <1>2, <1>3, <1>4, <1>5 DEF LoopNext

\* An env worker acts on the answers to its own latest observations, environment by environment, however the
\* stages, the shards of several workers and the steps of the runner interleave (OwnActions), whatever the job
\* is that passes validate_embodied_cfg and the assertions of init_worker.
THEOREM OwnActionsHolds == LoopSpec => []OwnActions
<1>1. LoopInit => LoopInv
  BY LoopBegins
<1>2. LoopInv /\ [LoopNext]_loopVars => LoopInv'
  BY LoopGoesOn
<1>3. LoopInv => OwnActions
  <2> SUFFICES ASSUME LoopInv, NEW e \in EnvRank, env[e].acted # <<>>
               PROVE  [n \in DOMAIN env[e].acted.answer |-> env[e].acted.answer[n].to] = env[e].acted.observed
    BY DEF OwnActions
  <2>1. PICK w : w = env[e]
    OBVIOUS
  <2>2. Owned(w) /\ w.acted \in Acts
    BY <2>1 DEF LoopInv, Good, EnvRank, EnvWorker
  <2>3. w.acted.answer \in Seq(Reply)
    BY <2>1, <2>2 DEF Acts
  <2>4. DOMAIN w.acted.answer = 1 .. Len(w.acted.answer)
    BY <2>3, LenProperties
  <2> QED BY <2>1, <2>2, <2>4 DEF Owned, Questions
<1> QED BY <1>1, <1>2, <1>3, PTL DEF LoopSpec

-----------------------------------------------------------------------------
(* What the workers have done in a step of the runner.                       *)

StepRecord == [time : Nat, version : Int]
Interacting(w) == Executes(w, "interact")

\* What a stage records, in an epoch and in all of them: the chunk steps and the bootstrap values.
PerEpoch(c) == c.chunks + 1
Recordings(c) == c.epochs * PerEpoch(c)

\* The recordings of the current stage.
Made(c, w) == (w.at.epoch - 1) * PerEpoch(c) + (IF w.at.chunk = 0 THEN 0 ELSE w.at.chunk - 1)

\* The answers that an env worker has taken, and those that a rollout worker has given.
Took(c, w) == IF Interacting(w) THEN Made(c, w) * c.stages + (w.at.stage - 1) ELSE Recordings(c) * c.stages
Gave(c, roll) == IF Executes(roll, "generate") THEN roll.count ELSE Recordings(c) * c.stages

\* The version of the answer after n others, and that of the m-th recording.
VersionAt(c, v, n) == IF (n \div c.stages) % PerEpoch(c) = c.chunks THEN NoVersion ELSE v
VersionIn(c, v, m) == IF m % PerEpoch(c) = 0 THEN NoVersion ELSE v

Recorded(c, v, steps) ==
    \A m \in 1 .. Len(steps) :
        /\ steps[m].version = VersionIn(c, v, m)
        /\ m < Len(steps) /\ m % PerEpoch(c) # 0 => steps[m + 1].time = steps[m].time + 1

\* A stage has n recordings, and its clock is at the time of the next one.
Upto(c, v, steps, n, time) ==
    /\ Len(steps) = n /\ Recorded(c, v, steps)
    /\ n % PerEpoch(c) # 0 => time = steps[n].time + 1
Extra(w, s) == IF s < w.at.stage THEN 1 ELSE 0

\* What an env worker has recorded follows from where it is.
Keeps(c, v, w) ==
    /\ Interacting(w) =>
          /\ w.at.epoch \in 1 .. c.epochs
          /\ \A s \in 1 .. c.stages :
                Upto(c, v, w.steps[s], Made(c, w) + Extra(w, s), w.clock["train"][s])
    /\ ~Interacting(w) => \A s \in 1 .. c.stages : w.steps[s] = <<>>

\* The answers on their way are those not yet taken, each with the version of its number.
InOrder(c, v, took, gave, queue) ==
    /\ gave = took + Len(queue)
    /\ \A i \in 1 .. Len(queue) : \A j \in 1 .. Len(queue[i]) :
          queue[i][j].version = VersionAt(c, v, took + i - 1)
Answered(c, v, to, workers, rolls, answers) ==
    \A e \in 0 .. c.envWorkers - 1 : \A n \in 1 .. Len(to[e]) :
        InOrder(c, v, Took(c, workers[e]), Gave(c, rolls[to[e][n].rank]),
                answers[<<to[e][n].rank, e, "train">>])

\* What the runner has called and has not returned.
EnvCalled(at, calls) ==
    \/ calls = <<>>
    \/ at = "rollouts" /\ calls = <<"interact">>
    \/ at = "training" /\ calls = <<"prefetch">>
    \/ at = "eval" /\ calls = <<"evaluate">>
RolloutCalled(at, calls) ==
    \/ calls = <<>>
    \/ at = "rollouts" /\ calls = <<"generate">>
    \/ at = "eval" /\ calls = <<"evaluate">>
RolloutWorker == [calls : Seq({"generate", "evaluate"}), count : Nat]
CalledBy(c, p, workers, rolls) ==
    /\ \A e \in 0 .. c.envWorkers - 1 : EnvCalled(p.at, workers[e].calls)
    /\ p.at = "training" /\ ~(c.overlap /\ p.step + 1 < c.maxSteps) =>
          \A e \in 0 .. c.envWorkers - 1 : workers[e].calls = <<>>
    /\ rolls \in [0 .. c.rolloutWorkers - 1 -> RolloutWorker]
    /\ \A r \in 0 .. c.rolloutWorkers - 1 :
          /\ RolloutCalled(p.at, rolls[r].calls)
          /\ rolls[r].calls = <<>> => rolls[r].count = 0
          /\ rolls[r].calls = <<"generate">> => rolls[r].count < Recordings(c) * c.stages

\* The weights are those of the last sync.
Synced(c, p, v) ==
    p.at \in {"rollouts", "training"} \/ p.step % c.syncInterval # 0 => p.step - v <= p.step % c.syncInterval

\* The trajectories of a stage, the environments of each, and how many trajectories an actor takes.
Parts(c) == SplitNum(c.actors, c.envWorkers * c.stages)
Width(c) == PerWorker(c) \div Parts(c)
Share(c) == SplitNum(c.envWorkers * c.stages, c.actors)
Piece == [stage : Nat, steps : Seq(StepRecord), slots : Seq(Nat)]

Whole(c, v, steps) == Len(steps) = Recordings(c) /\ Recorded(c, v, steps)
Within(c, e, x) == e * PerWorker(c) <= x /\ x < e * PerWorker(c) + PerWorker(c)
IsPart(c, v, workers, piece) ==
    /\ piece.stage \in 1 .. c.stages /\ Whole(c, v, piece.steps) /\ Len(piece.slots) = Width(c)
    /\ \A j \in 1 .. Width(c) :
          /\ piece.slots[j] < c.envWorkers * PerWorker(c)
          /\ \A e \in 0 .. c.envWorkers - 1 : Within(c, e, piece.slots[j]) => ~Interacting(workers[e])

\* The trajectories in the queue, at 0, and those that each actor has taken.
Held(c, queue, coll) == [h \in 0 .. c.actors |-> IF h = 0 THEN queue ELSE coll[h].batch]
Alike(p, q, j, l) == p.stage = q.stage /\ p.slots[j] = q.slots[l]
Apart(c, held) ==
    \A h, g \in 0 .. c.actors : \A i \in 1 .. Len(held[h]), k \in 1 .. Len(held[g]) :
        \A j, l \in 1 .. Width(c) : Alike(held[h][i], held[g][k], j, l) => h = g /\ i = k /\ j = l
Delivered(c, v, workers, held) ==
    /\ \A h \in 0 .. c.actors : \A i \in 1 .. Len(held[h]) : IsPart(c, v, workers, held[h][i])
    /\ Apart(c, held)
Collector == [left : Nat, batch : Seq(Piece)]

WholeInv ==
    /\ Synced(cfg, progress, weights)
    /\ CalledBy(cfg, progress, env, rollout)
    /\ \A e \in 0 .. cfg.envWorkers - 1 : Keeps(cfg, weights, env[e])
    /\ Answered(cfg, weights, ranks.toRollout, env, rollout, resultChannel)
    /\ collector \in [1 .. cfg.actors -> Collector] /\ trajectories \in Seq(Piece)
    /\ progress.at # "rollouts" => trajectories = <<>>
    /\ progress.at \in {"rollouts", "training"} =>
          /\ \A a \in 1 .. cfg.actors : collector[a].left + Len(collector[a].batch) = Share(cfg)
          /\ Delivered(cfg, weights, env, Held(cfg, trajectories, collector))
    /\ progress.at = "training" =>
          /\ \A a \in 1 .. cfg.actors : collector[a].left = 0
          /\ \A e \in 0 .. cfg.envWorkers - 1 : ~Interacting(env[e])

-----------------------------------------------------------------------------
(* Counting the answers.                                                     *)

\* The remainder of the next number.
LEMMA ModNext ==
    ASSUME NEW k \in Nat \ {0}, NEW n \in Nat
    PROVE  /\ n % k \in 0 .. k - 1
           /\ n % k = k - 1 <=> (n + 1) % k = 0
           /\ (n + 1) % k # 0 => (n + 1) % k = (n % k) + 1
<1>1. PICK q \in Nat, r \in 0 .. k - 1 : n = k * q + r
  <2>1. PICK q \in Nat : q = n \div k /\ q * k <= n /\ n < q * k + k
    BY DivIs
  <2>2. PICK p \in Nat : p = q * k /\ p = k * q
    OBVIOUS
  <2>3. n - p \in 0 .. k - 1 /\ n = p + (n - p)
    BY <2>1, <2>2
  <2> QED BY <2>2, <2>3
<1>2. n % k = r
  BY <1>1
<1>3. CASE r = k - 1
  <2>1. n + 1 = k * (q + 1) + 0
    BY <1>1, <1>3
  <2>2. PICK p \in Nat : p = q + 1
    OBVIOUS
  <2>3. (k * p + 0) % k = 0
    OBVIOUS
  <2>4. (n + 1) % k = 0
    BY <2>1, <2>2, <2>3
  <2> QED BY <1>2, <1>3, <2>4
<1>4. CASE r # k - 1
  <2>1. n + 1 = k * q + (r + 1) /\ r + 1 \in 1 .. k - 1
    BY <1>1, <1>4
  <2>2. (n + 1) % k = r + 1
    <3>1. PICK t \in 0 .. k - 1 : t = r + 1
      BY <2>1
    <3>2. (k * q + t) % k = t
      OBVIOUS
    <3> QED BY <2>1, <3>1, <3>2
  <2> QED BY <1>2, <1>4, <2>1, <2>2
<1> QED BY <1>3, <1>4

\* What is known of the recordings made so far.
LEMMA MadeType ==
    ASSUME NEW c \in Configs, NEW w \in EnvWorker(c.stages), w.at.epoch \in 1 .. c.epochs
    PROVE  /\ PerEpoch(c) \in Nat \ {0} /\ Recordings(c) \in Nat
           /\ Made(c, w) \in Nat /\ Made(c, w) * c.stages \in Nat /\ Recordings(c) * c.stages \in Nat
           /\ w.at.chunk = 0 => Made(c, w) % PerEpoch(c) = 0
           /\ w.at.chunk \in 1 .. c.chunks + 1 => Made(c, w) % PerEpoch(c) = w.at.chunk - 1
<1>1. PICK S \in Nat \ {0}, k \in Nat \ {0}, n \in Nat : S = c.stages /\ k = PerEpoch(c) /\ n = c.epochs
        /\ k = c.chunks + 1
  BY JobNumbers DEF PerEpoch
<1>2. PICK p \in Nat, h \in Nat : p = w.at.epoch - 1 /\ h = w.at.chunk
  <2>1. w.at.epoch \in Nat /\ w.at.chunk \in Nat /\ w.at.epoch - 1 \in Nat
    BY <1>1, WorkerFields
  <2> QED BY <2>1
<1>3. PICK m \in Nat, d \in Nat : m = p * k /\ m = k * p /\ d = n * k
  OBVIOUS
<1>4. PICK x \in Nat : x = IF h = 0 THEN 0 ELSE h - 1
  OBVIOUS
<1>5. Made(c, w) = m + x
  BY <1>1, <1>2, <1>3, <1>4 DEF Made
<1>6. h = 0 => (k * p + x) % k = 0
  BY <1>4
<1>7. ASSUME h \in 1 .. k PROVE (k * p + x) % k = h - 1
  <2>1. x \in 0 .. k - 1 /\ x = h - 1
    BY <1>4, <1>7
  <2> QED BY <2>1
<1>8. PICK y \in Nat : y = m + x
  OBVIOUS
<1>9. y * S \in Nat /\ d * S \in Nat
  OBVIOUS
<1> QED BY <1>1, <1>2, <1>3, <1>5, <1>6, <1>7, <1>8, <1>9 DEF Recordings

\* The next answer that the worker takes in the rollout.
Follows(c, w, w2) ==
    /\ w.at.chunk \in 1 .. c.chunks + 1
    /\ \/ w.at.chunk <= c.chunks /\ Onward(c.stages, w.at, w2.at)
       \/ w.at.chunk = c.chunks + 1 /\ w.at.stage < c.stages
             /\ At(w2, w.at.epoch, w.at.chunk, w.at.stage + 1)
       \/ w.at.chunk = c.chunks + 1 /\ w.at.stage = c.stages /\ w.at.epoch # c.epochs
             /\ At(w2, w.at.epoch + 1, 0, 1)

\* The recordings made when the next answer is taken.
LEMMA MadeNext ==
    ASSUME NEW c \in Configs, NEW w \in EnvWorker(c.stages), NEW w2 \in EnvWorker(c.stages),
           w.at.epoch \in 1 .. c.epochs, Follows(c, w, w2)
    PROVE  /\ w2.at.epoch \in 1 .. c.epochs /\ w2.at.stage = NextOf(c.stages, w.at.stage)
           /\ Made(c, w2) = Made(c, w) + (IF w.at.stage = c.stages THEN 1 ELSE 0)
<1>1. PICK S \in Nat \ {0}, k \in Nat \ {0}, n \in Nat, C \in Nat :
        S = c.stages /\ k = PerEpoch(c) /\ n = c.epochs /\ C = c.chunks /\ k = C + 1
  BY JobNumbers DEF PerEpoch
<1>2. PICK p \in Nat, h \in 1 .. k, s \in 1 .. S : p + 1 = w.at.epoch /\ h = w.at.chunk /\ s = w.at.stage
        /\ p = w.at.epoch - 1
  <2>1. w.at.epoch \in Nat /\ w.at.chunk \in Nat /\ w.at.epoch - 1 \in Nat /\ w.at.stage \in 1 .. S
    BY <1>1, WorkerFields
  <2> QED BY <1>1, <2>1 DEF Follows
<1>3. PICK m \in Nat : m = p * k /\ (p + 1) * k = m + k
  <2>1. p * k \in Nat /\ (p + 1) * k = p * k + k
    OBVIOUS
  <2> QED BY <2>1
<1>4. Made(c, w) = m + (h - 1)
  BY <1>1, <1>2, <1>3 DEF Made
<1>5. CASE h <= C
  <2>1. w2.at.epoch = p + 1 /\ w2.at.stage = NextOf(S, s) /\ w2.at.chunk = IF s < S THEN h ELSE h + 1
    BY <1>1, <1>2, <1>5 DEF Follows, Onward, At
  <2>2. Made(c, w2) = m + (IF s < S THEN h - 1 ELSE h)
    BY <1>1, <1>2, <1>3, <2>1 DEF Made
  <2> QED BY <1>1, <1>2, <1>4, <2>1, <2>2
<1>6. CASE h = C + 1 /\ s < S
  <2>1. w2.at.epoch = p + 1 /\ w2.at.stage = s + 1 /\ w2.at.chunk = h
    BY <1>1, <1>2, <1>6 DEF Follows, Onward, At
  <2>2. Made(c, w2) = m + (h - 1)
    BY <1>1, <1>2, <1>3, <2>1 DEF Made
  <2> QED BY <1>1, <1>2, <1>4, <1>6, <2>1, <2>2 DEF NextOf
<1>7. CASE h = C + 1 /\ s = S
  <2>1. w2.at.epoch = p + 2 /\ w2.at.stage = 1 /\ w2.at.chunk = 0 /\ p + 1 # n
    BY <1>1, <1>2, <1>7 DEF Follows, Onward, At
  <2>2. Made(c, w2) = m + k
    <3>1. w2.at.epoch - 1 = p + 1
      BY <2>1
    <3> QED BY <1>1, <1>3, <2>1, <3>1 DEF Made
  <2>3. w2.at.epoch \in 1 .. n
    BY <1>1, <1>2, <2>1
  <2> QED BY <1>1, <1>2, <1>4, <1>7, <2>1, <2>2, <2>3 DEF NextOf
<1> QED BY <1>1, <1>5, <1>6, <1>7

\* The worker takes one answer after the other, and knows the version of the next.
LEMMA TookNext ==
    ASSUME NEW c \in Configs, NEW w \in EnvWorker(c.stages), NEW w2 \in EnvWorker(c.stages),
           w.at.epoch \in 1 .. c.epochs, Interacting(w), Interacting(w2), Follows(c, w, w2)
    PROVE  Took(c, w2) = Took(c, w) + 1
<1>0. PICK S \in Nat \ {0} : S = c.stages
  BY JobNumbers
<1>1. PICK m \in Nat, s \in 1 .. S : S = c.stages /\ m = Made(c, w) /\ s = w.at.stage
  BY <1>0, WorkerFields, MadeType
<1>2. Took(c, w) = m * S + (s - 1) /\ m * S \in Nat /\ (m + 1) * S = m * S + S
  BY <1>1 DEF Took
<1>3. w2.at.stage = NextOf(S, s) /\ Made(c, w2) = m + (IF s = S THEN 1 ELSE 0)
  BY <1>1, MadeNext
<1>4. CASE s = S
  BY <1>1, <1>2, <1>3, <1>4 DEF Took, NextOf
<1>5. CASE s # S
  BY <1>1, <1>2, <1>3, <1>5 DEF Took, NextOf
<1> QED BY <1>4, <1>5

AtEnd(c, w) == w.at.chunk = c.chunks + 1 /\ w.at.stage = c.stages /\ w.at.epoch = c.epochs

\* With the last answer of the last epoch all of them are taken.
LEMMA TookLast ==
    ASSUME NEW c \in Configs, NEW w \in EnvWorker(c.stages), NEW w2, Interacting(w), ~Interacting(w2),
           AtEnd(c, w)
    PROVE  /\ Made(c, w) + 1 = Recordings(c)
           /\ Took(c, w2) = Took(c, w) + 1
<1>1. PICK S \in Nat \ {0}, n \in Nat \ {0}, C \in Nat, k \in Nat \ {0} :
        S = c.stages /\ n = c.epochs /\ C = c.chunks /\ k = PerEpoch(c) /\ k = C + 1
  BY JobNumbers DEF PerEpoch
<1>2. PICK p \in Nat : n = p + 1
  <2>1. n - 1 \in Nat /\ n = (n - 1) + 1
    OBVIOUS
  <2> QED BY <2>1
<1>3. PICK m \in Nat : m = p * k /\ (p + 1) * k = m + k
  <2>1. p * k \in Nat /\ (p + 1) * k = p * k + k
    OBVIOUS
  <2> QED BY <2>1
<1>4. Made(c, w) = m + C /\ Recordings(c) = m + k
  <2>1. w.at.epoch - 1 = p /\ w.at.chunk = C + 1
    BY <1>1, <1>2 DEF AtEnd
  <2> QED BY <1>1, <1>2, <1>3, <2>1 DEF Made, Recordings
<1>5. PICK d \in Nat : d = m + C /\ Recordings(c) = d + 1 /\ Made(c, w) = d
  BY <1>1, <1>4
<1>6. (d + 1) * S = d * S + S /\ d * S \in Nat
  OBVIOUS
<1>7. Took(c, w) = d * S + (S - 1) /\ Took(c, w2) = (d + 1) * S
  BY <1>1, <1>5 DEF Took, AtEnd
<1> QED BY <1>5, <1>6, <1>7

\* The next answer has the version that belongs in the next recording.
LEMMA VersionNext ==
    ASSUME NEW c \in Configs, NEW w \in EnvWorker(c.stages), w.at.epoch \in 1 .. c.epochs,
           Interacting(w), NEW v
    PROVE  VersionAt(c, v, Took(c, w)) = VersionIn(c, v, Made(c, w) + 1)
<1>0. PICK S \in Nat \ {0}, k \in Nat \ {0} : S = c.stages /\ k = PerEpoch(c) /\ c.chunks = k - 1
  BY JobNumbers DEF PerEpoch
<1>1. PICK m \in Nat, s \in 1 .. S : /\ S = c.stages /\ m = Made(c, w) /\ s = w.at.stage
                                    /\ k = PerEpoch(c) /\ c.chunks = k - 1
  BY <1>0, WorkerFields, MadeType
<1>2. Took(c, w) = S * m + (s - 1)
  BY <1>1 DEF Took
<1>3. PICK r \in 0 .. S - 1 : r = s - 1
  OBVIOUS
<1>4. (S * m + r) \div S = m
  OBVIOUS
<1>5. m % k = k - 1 <=> (m + 1) % k = 0
  BY ModNext
<1> QED BY <1>1, <1>2, <1>3, <1>4, <1>5 DEF VersionAt, VersionIn

-----------------------------------------------------------------------------
(* The trajectories of a stage and the actors.                               *)

CommonMultiple(num, split, m) == m % num = 0 /\ m % split = 0
LeastMultiple(num, split, m) ==
    /\ m \in 1 .. num * split /\ CommonMultiple(num, split, m)
    /\ \A k \in 1 .. m - 1 : ~CommonMultiple(num, split, k)

\* compute_split_num finds the least common multiple, and there is one.
LEMMA SplitNumIs ==
    ASSUME NEW x \in Nat \ {0}, NEW y \in Nat \ {0}
    PROVE  SplitNum(x, y) \in Nat \ {0} /\ SplitNum(y, x) \in Nat \ {0}
             /\ x * SplitNum(y, x) = y * SplitNum(x, y)
<1>1. x * y \in Nat \ {0} /\ y * x = x * y
  OBVIOUS
<1>2. \E m \in Nat : LeastMultiple(x, y, m)
  <2> DEFINE T == {m \in 1 .. x * y : CommonMultiple(x, y, m)}
  <2>1. x * y \in T
    <3>1. (x * y + 0) % x = 0 /\ (y * x + 0) % y = 0
      OBVIOUS
    <3> QED BY <1>1, <3>1 DEF CommonMultiple
  <2>2. PICK m \in T : \A k \in T : m <= k
    <3>1. T \in SUBSET Nat /\ T # {}
      BY <1>1, <2>1
    <3> HIDE DEF T
    <3> QED BY <3>1, NatMin
  <2>3. \A k \in 1 .. m - 1 : ~CommonMultiple(x, y, k)
    <3> SUFFICES ASSUME NEW k \in 1 .. m - 1, CommonMultiple(x, y, k) PROVE FALSE
      OBVIOUS
    <3>1. m \in 1 .. x * y
      BY <2>2
    <3>2. k \in 1 .. x * y /\ ~(m <= k)
      BY <1>1, <3>1
    <3>3. k \in T
      BY <3>2
    <3> QED BY <2>2, <3>2, <3>3
  <2> QED BY <1>1, <2>2, <2>3 DEF LeastMultiple
<1>3. PICK m \in Nat : LeastMultiple(x, y, m)
  BY <1>2
<1>4. \A n \in Nat : LeastMultiple(x, y, n) => n = m
  <2> SUFFICES ASSUME NEW n \in Nat, LeastMultiple(x, y, n) PROVE n = m
    OBVIOUS
  <2>1. n \in 1 .. x * y /\ m \in 1 .. x * y /\ CommonMultiple(x, y, n) /\ CommonMultiple(x, y, m)
    BY <1>3 DEF LeastMultiple
  <2>2. n \notin 1 .. m - 1 /\ m \notin 1 .. n - 1
    BY <1>3, <2>1 DEF LeastMultiple
  <2> QED BY <1>1, <2>1, <2>2
<1>5. \A n \in Nat : LeastMultiple(y, x, n) <=> LeastMultiple(x, y, n)
  BY <1>1 DEF LeastMultiple, CommonMultiple
<1>6. SplitNum(x, y) = m \div y
  <2>1. SplitNum(x, y) = (CHOOSE n \in 1 .. x * y : LeastMultiple(x, y, n)) \div y
    BY DEF SplitNum, LeastMultiple, CommonMultiple
  <2>2. (CHOOSE n \in 1 .. x * y : LeastMultiple(x, y, n)) = m
    BY <1>1, <1>3, <1>4 DEF LeastMultiple
  <2> QED BY <2>1, <2>2
<1>7. SplitNum(y, x) = m \div x
  <2>1. SplitNum(y, x) = (CHOOSE n \in 1 .. y * x : LeastMultiple(y, x, n)) \div x
    BY DEF SplitNum, LeastMultiple, CommonMultiple
  <2>2. (CHOOSE n \in 1 .. y * x : LeastMultiple(y, x, n)) = m
    BY <1>1, <1>3, <1>4, <1>5 DEF LeastMultiple
  <2> QED BY <2>1, <2>2
<1>8. m % x = 0 /\ m % y = 0 /\ m # 0
  BY <1>1, <1>3 DEF LeastMultiple, CommonMultiple
<1>9. PICK p \in Nat, q \in Nat : p = m \div x /\ q = m \div y
  BY DivIs
<1>10. m = x * p /\ m = y * q
  BY <1>8, <1>9
<1>11. p # 0 /\ q # 0
  BY <1>8, <1>10
<1> QED BY <1>6, <1>7, <1>9, <1>10, <1>11

\* The trajectories of all stages are the shares of all actors.
LEMMA PartsFacts ==
    ASSUME NEW c \in Configs, PerWorker(c) \in Nat \ {0}
    PROVE  /\ Parts(c) \in Nat \ {0} /\ Width(c) \in Nat \ {0} /\ Share(c) \in Nat \ {0}
           /\ Width(c) * Parts(c) = PerWorker(c)
           /\ c.actors * Share(c) = (c.envWorkers * c.stages) * Parts(c)
<1>1. PICK A \in Nat \ {0}, E \in Nat \ {0}, S \in Nat \ {0} :
        A = c.actors /\ E = c.envWorkers /\ S = c.stages
  BY JobNumbers
<1>2. PICK y \in Nat \ {0} : y = E * S
  <2>1. E * S \in Nat /\ E * S # 0
    OBVIOUS
  <2> QED BY <2>1
<1>3. /\ SplitNum(A, y) \in Nat \ {0} /\ SplitNum(y, A) \in Nat \ {0}
      /\ A * SplitNum(y, A) = y * SplitNum(A, y)
  BY SplitNumIs
<1>4. PICK p \in Nat \ {0}, q \in Nat \ {0} : p = Parts(c) /\ q = Share(c) /\ A * q = y * p
  BY <1>1, <1>2, <1>3 DEF Parts, Share
<1>5. PICK P \in Nat \ {0} : P = PerWorker(c)
  OBVIOUS
<1>6. P % p = 0
  BY <1>4, <1>5, ConfigsAssumption DEF Parts
<1>7. PICK d \in Nat : d = P \div p
  BY DivIs
<1>8. P = p * d
  BY <1>6, <1>7
<1>9. d # 0 /\ d * p = P
  BY <1>8
<1> QED BY <1>1, <1>2, <1>4, <1>5, <1>7, <1>9 DEF Width

-----------------------------------------------------------------------------
(* Whoever sends to a rollout worker receives from it.                       *)

\* One of the shares is of a rank.
Serves(parts, rank) == \E k \in 1 .. Len(parts) : parts[k].rank = rank

LEMMA MapsMutual ==
    ASSUME NEW c \in Configs, Validated(c), Mapped(c), NEW e \in 0 .. c.envWorkers - 1,
           NEW n \in 1 .. Len(RankMaps(c).toRollout[e]), NEW r, r = RankMaps(c).toRollout[e][n].rank
    PROVE  /\ r \in 0 .. c.rolloutWorkers - 1
           /\ Serves(RankMaps(c).toEnv[r], e)
<1>1. c.envWorkers \in Nat \ {0} /\ c.rolloutWorkers \in Nat \ {0}
  BY ConfigsAssumption DEF JobType
<1>2. PICK a \in Nat \ {0}, b \in Nat \ {0} :
        /\ a = PerWorker(c) /\ a = StageBatch(c) \div c.envWorkers /\ b = StageBatch(c) \div c.rolloutWorkers
        /\ StageBatch(c) \in Nat
        /\ c.envWorkers * a = StageBatch(c) /\ c.rolloutWorkers * b = StageBatch(c)
  BY JobFacts
<1>3. PICK batch \in Nat, E \in Nat \ {0}, R \in Nat \ {0} :
        /\ batch = StageBatch(c) /\ E = c.envWorkers /\ R = c.rolloutWorkers
        /\ a = batch \div E /\ b = batch \div R
  BY <1>1, <1>2
<1> DEFINE map == RankMaps(c)
<1>4. e \in Nat /\ e \in 0 .. E - 1 /\ n \in 1 .. Len(map.toRollout[e]) /\ r = map.toRollout[e][n].rank
  BY <1>1, <1>3
<1>5. map.toRollout[e] = DstRanks(batch, E, R, e)
  BY <1>3, <1>4 DEF RankMaps
<1>6. DstRanks(batch, E, R, e) = Cells(e * a, (e + 1) * a, b)
  BY <1>3, <1>4, DstRanksIs
<1>7. r \in 0 .. R - 1
  <2>1. Maps(c, map)
    BY MapsAgree
  <2>2. Shares(map.toRollout[e], PerWorker(c), R)
    BY <1>3, <1>4, <2>1 DEF Maps
  <2> QED BY <1>4, <2>2 DEF Shares
<1>8. map.toEnv[r] = DstRanks(batch, R, E, r)
  BY <1>3, <1>7 DEF RankMaps
<1>9. DstRanks(batch, R, E, r) = Cells(r * b, (r + 1) * b, a)
  BY SMTT(60), <1>3, <1>7, DstRanksIs
<1> HIDE DEF map
<1>10. PICK q, l \in Nat : Lists(map.toRollout[e], a, b, e, q, l)
  <2>1. \E q, l \in Nat : Lists(Cells(e * a, (e + 1) * a, b), a, b, e, q, l)
    BY <1>4, CellsOf
  <2>2. Cells(e * a, (e + 1) * a, b) = map.toRollout[e]
    BY <1>5, <1>6
  <2> QED BY <2>1, <2>2
<1>11. PICK p, h \in Nat : Lists(map.toEnv[r], b, a, r, p, h)
  <2>1. \E p, h \in Nat : Lists(Cells(r * b, (r + 1) * b, a), b, a, r, p, h)
    <3>1. r \in Nat
      BY <1>7
    <3> QED BY <3>1, CellsOf
  <2>2. Cells(r * b, (r + 1) * b, a) = map.toEnv[r]
    BY <1>8, <1>9
  <2> QED BY <2>1, <2>2
<1>12. r \in q .. l
  <2>1. map.toRollout[e] = [i \in 1 .. l - q + 1 |-> [rank |-> q + (i - 1), size |-> Common(a, b, e, q + (i - 1))]]
          /\ q <= l
    BY <1>10 DEF Lists
  <2>2. n \in 1 .. l - q + 1
    <3>1. l - q + 1 \in Nat
      BY <2>1
    <3> QED BY <1>4, <2>1, <3>1
  <2>3. r = q + (n - 1)
    BY <1>4, <2>1, <2>2
  <2> QED BY <2>2, <2>3
<1>13. e \in p .. h
  <2>1. Meets(a, b, e, r)
    BY SMTT(60), <1>7, <1>10, <1>12 DEF Lists
  <2>2. Meets(b, a, r, e)
    BY <2>1 DEF Meets
  <2> QED BY <1>4, <1>11, <2>2 DEF Lists
<1>14. map.toEnv[r] = [i \in 1 .. h - p + 1 |-> [rank |-> p + (i - 1), size |-> Common(b, a, r, p + (i - 1))]]
         /\ p <= h
  BY <1>11 DEF Lists
<1>15. PICK k \in 1 .. h - p + 1 : k = e - p + 1
  BY <1>13
<1>16. k \in 1 .. Len(map.toEnv[r]) /\ map.toEnv[r][k].rank = e
  <2>1. h - p + 1 \in Nat
    BY <1>14
  <2>2. Len(map.toEnv[r]) = h - p + 1
    BY <1>14, <2>1
  <2>3. map.toEnv[r][k].rank = p + (k - 1)
    BY SMTT(60), <1>14, <1>15
  <2> QED BY <1>13, <1>15, <2>2, <2>3
<1>17. r \in 0 .. c.rolloutWorkers - 1 /\ Serves(map.toEnv[r], e)
  BY <1>3, <1>7, <1>16 DEF Serves
<1> QED BY <1>17 DEF map

-----------------------------------------------------------------------------
(* What the stages of an env worker record.                                  *)

\* One more recording.
LEMMA RecordMore ==
    ASSUME NEW c \in Configs, NEW v, NEW steps \in Seq(StepRecord), NEW n \in Nat, NEW time \in Nat,
           Upto(c, v, steps, n, time), NEW x \in StepRecord,
           x.time = time, x.version = VersionIn(c, v, n + 1), NEW time2,
           (n + 1) % PerEpoch(c) # 0 => time2 = time + 1
    PROVE  Append(steps, x) \in Seq(StepRecord) /\ Upto(c, v, Append(steps, x), n + 1, time2)
<1>1. Len(steps) = n /\ Recorded(c, v, steps) /\ (n % PerEpoch(c) # 0 => time = steps[n].time + 1)
  BY DEF Upto
<1>2. PICK more : more = Append(steps, x)
  OBVIOUS
<1>3. /\ more \in Seq(StepRecord) /\ Len(more) = n + 1 /\ more[n + 1] = x
      /\ \A i \in 1 .. n : more[i] = steps[i]
  BY <1>1, <1>2, AppendProperties
<1>4. ASSUME NEW m \in 1 .. n + 1
      PROVE  /\ more[m].version = VersionIn(c, v, m)
             /\ m < n + 1 /\ m % PerEpoch(c) # 0 => more[m + 1].time = more[m].time + 1
  <2>1. CASE m = n + 1
    BY <1>3, <2>1
  <2>2. CASE m = n
    <3>1. m \in 1 .. n /\ m \in 1 .. Len(steps)
      BY <1>1, <2>2
    <3>2. more[m] = steps[m] /\ steps[m].version = VersionIn(c, v, m)
      BY <1>1, <1>3, <3>1 DEF Recorded
    <3> QED BY <1>1, <1>3, <2>2, <3>2
  <2>3. CASE m # n + 1 /\ m # n
    <3>1. m \in 1 .. n /\ m + 1 \in 1 .. n /\ m \in 1 .. Len(steps) /\ m < Len(steps)
      BY <1>1, <2>3
    <3>2. /\ steps[m].version = VersionIn(c, v, m)
          /\ m % PerEpoch(c) # 0 => steps[m + 1].time = steps[m].time + 1
      BY <1>1, <3>1 DEF Recorded
    <3> QED BY <1>3, <3>1, <3>2
  <2> QED BY <2>1, <2>2, <2>3
<1>5. Recorded(c, v, more)
  BY <1>3, <1>4 DEF Recorded
<1>6. (n + 1) % PerEpoch(c) # 0 => time2 = more[n + 1].time + 1
  BY <1>3
<1> QED BY <1>2, <1>3, <1>5, <1>6 DEF Upto

\* The recordings of a stage, whether it is its turn or not.
LEMMA StageRecords ==
    ASSUME NEW c \in Configs, NEW w \in EnvWorker(c.stages), NEW s \in 1 .. c.stages
    PROVE  w.steps[s] \in Seq(StepRecord) /\ w.clock["train"][s] \in Nat
<1>1. PICK S \in Nat \ {0} : S = c.stages
  BY JobNumbers
<1>2. w.steps \in [1 .. S -> Seq(StepRecord)] /\ w.clock \in Clocks(S)
  BY <1>1, WorkerFields DEF StepRecord
<1> QED BY <1>1, <1>2, Modes DEF Clocks

\* The current stage records x.
Notes(c, w, w2, x) ==
    /\ w2.steps[w.at.stage] = Append(w.steps[w.at.stage], x)
    /\ \A s \in 1 .. c.stages : s # w.at.stage =>
          w2.steps[s] = w.steps[s] /\ w2.clock["train"][s] = w.clock["train"][s]
    /\ w.at.chunk <= c.chunks => w2.clock["train"][w.at.stage] = w.clock["train"][w.at.stage] + 1
NextRecord(c, v, w) ==
    [time |-> w.clock["train"][w.at.stage], version |-> VersionIn(c, v, Made(c, w) + 1)]

\* The next recording of the stage whose turn it is.
LEMMA NextIs ==
    ASSUME NEW c \in Configs, NEW v \in Int, NEW w \in EnvWorker(c.stages), Interacting(w), Keeps(c, v, w),
           w.at.chunk \in 1 .. c.chunks + 1, NEW time2,
           w.at.chunk <= c.chunks => time2 = w.clock["train"][w.at.stage] + 1
    PROVE  Upto(c, v, Append(w.steps[w.at.stage], NextRecord(c, v, w)), Made(c, w) + 1, time2)
<1>1. PICK s \in 1 .. c.stages : s = w.at.stage
  BY JobNumbers, WorkerFields
<1>2. w.at.epoch \in 1 .. c.epochs /\ Upto(c, v, w.steps[s], Made(c, w) + Extra(w, s), w.clock["train"][s])
  BY <1>1 DEF Keeps
<1>3. PICK n \in Nat, k \in Nat \ {0} : n = Made(c, w) /\ k = PerEpoch(c) /\ n % k = w.at.chunk - 1
        /\ k = c.chunks + 1
  BY <1>2, MadeType DEF PerEpoch
<1>4. Extra(w, s) = 0 /\ n + 0 = n
  BY <1>1, JobNumbers DEF Extra
<1>5. PICK steps \in Seq(StepRecord), time \in Nat : steps = w.steps[s] /\ time = w.clock["train"][s]
  BY StageRecords
<1>6. Upto(c, v, steps, n, time)
  BY <1>2, <1>3, <1>4, <1>5
<1>7. (n + 1) % k # 0 => time2 = time + 1
  <2>1. (n + 1) % k # 0 => n % k # k - 1
    BY ModNext
  <2>2. n % k # k - 1 => w.at.chunk <= c.chunks
    BY SMTT(60), <1>3, JobNumbers, WorkerFields
  <2> QED BY <1>1, <1>5, <2>1, <2>2
<1>8. PICK x \in StepRecord : x = [time |-> time, version |-> VersionIn(c, v, n + 1)]
  <2>1. PICK y \in Int : y = VersionIn(c, v, n + 1)
    BY DEF VersionIn, NoVersion
  <2> QED BY <2>1 DEF StepRecord
<1>9. Upto(c, v, Append(steps, x), n + 1, time2)
  BY <1>3, <1>6, <1>7, <1>8, RecordMore
<1> QED BY <1>1, <1>3, <1>5, <1>8, <1>9 DEF NextRecord

\* A worker that goes on keeps the order of its recordings.
LEMMA KeepsNext ==
    ASSUME NEW c \in Configs, NEW v \in Int, NEW w \in EnvWorker(c.stages), NEW w2 \in EnvWorker(c.stages),
           Interacting(w), Interacting(w2), Keeps(c, v, w), Follows(c, w, w2),
           Notes(c, w, w2, NextRecord(c, v, w))
    PROVE  Keeps(c, v, w2)
<1>1. w.at.epoch \in 1 .. c.epochs
  BY DEF Keeps
<1>2. PICK S \in Nat \ {0} : S = c.stages
  BY JobNumbers
<1>3. PICK n \in Nat, s \in 1 .. S : n = Made(c, w) /\ s = w.at.stage
  BY <1>1, <1>2, MadeType, WorkerFields
<1>4. /\ w2.at.epoch \in 1 .. c.epochs /\ w2.at.stage = NextOf(S, s)
      /\ Made(c, w2) = n + (IF s = S THEN 1 ELSE 0)
  BY <1>1, <1>2, <1>3, MadeNext
<1>5. ASSUME NEW x \in 1 .. S
      PROVE  Upto(c, v, w2.steps[x], Made(c, w2) + Extra(w2, x), w2.clock["train"][x])
  <2>1. CASE x = s
    <3>1. Made(c, w2) + Extra(w2, x) = n + 1
      <4>1. CASE s = S
        BY <1>4, <2>1, <4>1 DEF Extra, NextOf
      <4>2. CASE s # S
        BY <1>4, <2>1, <4>2 DEF Extra, NextOf
      <4> QED BY <4>1, <4>2
    <3>2. w2.steps[x] = Append(w.steps[w.at.stage], NextRecord(c, v, w))
      BY <1>3, <2>1 DEF Notes
    <3>3. PICK time2 : time2 = w2.clock["train"][x]
      OBVIOUS
    <3>4. w.at.chunk <= c.chunks => time2 = w.clock["train"][w.at.stage] + 1
      BY <1>3, <2>1, <3>3 DEF Notes
    <3>5. w.at.chunk \in 1 .. c.chunks + 1
      BY DEF Follows
    <3>6. Upto(c, v, Append(w.steps[w.at.stage], NextRecord(c, v, w)), Made(c, w) + 1, time2)
      BY <3>4, <3>5, NextIs
    <3> QED BY <1>3, <3>1, <3>2, <3>3, <3>6
  <2>2. CASE x # s
    <3>1. w2.steps[x] = w.steps[x] /\ w2.clock["train"][x] = w.clock["train"][x]
      BY <1>2, <1>3, <2>2 DEF Notes
    <3>2. Upto(c, v, w.steps[x], n + Extra(w, x), w.clock["train"][x])
      BY <1>2, <1>3 DEF Keeps
    <3>3. Made(c, w2) + Extra(w2, x) = n + Extra(w, x)
      <4>1. CASE s = S
        BY <1>3, <1>4, <2>2, <4>1 DEF Extra, NextOf
      <4>2. CASE s # S
        BY <1>3, <1>4, <2>2, <4>2 DEF Extra, NextOf
      <4> QED BY <4>1, <4>2
    <3> QED BY <3>1, <3>2, <3>3
  <2> QED BY <2>1, <2>2
<1> QED BY <1>2, <1>4, <1>5 DEF Keeps

\* An epoch begins.
LEMMA KeepsBegin ==
    ASSUME NEW c \in Configs, NEW v, NEW w \in EnvWorker(c.stages), NEW w2 \in EnvWorker(c.stages),
           Interacting(w), Interacting(w2), Keeps(c, v, w), w.at.chunk = 0, w.at.stage = 1,
           At(w2, w.at.epoch, 1, 1), w2.steps = w.steps
    PROVE  Keeps(c, v, w2) /\ Took(c, w2) = Took(c, w)
<1>1. w.at.epoch \in 1 .. c.epochs
  BY DEF Keeps
<1>2. PICK n \in Nat : n = Made(c, w) /\ n % PerEpoch(c) = 0
  BY <1>1, MadeType
<1>3. Made(c, w2) = n
  BY <1>2 DEF Made, At
<1>4. ASSUME NEW s \in 1 .. c.stages
      PROVE  Upto(c, v, w2.steps[s], Made(c, w2) + Extra(w2, s), w2.clock["train"][s])
  <2>1. Extra(w, s) = 0 /\ Extra(w2, s) = 0 /\ n + 0 = n
    BY JobNumbers DEF Extra, At
  <2>2. Upto(c, v, w.steps[s], n, w.clock["train"][s])
    BY <1>2, <2>1 DEF Keeps
  <2>3. Upto(c, v, w.steps[s], n, w2.clock["train"][s])
    BY <1>2, <2>2 DEF Upto
  <2> QED BY <1>3, <2>1, <2>3
<1> QED BY <1>1, <1>2, <1>3, <1>4 DEF Keeps, Took, At

\* What a stage has recorded at the end is a whole trajectory.
LEMMA WholeAtEnd ==
    ASSUME NEW c \in Configs, NEW v \in Int, NEW w \in EnvWorker(c.stages), Interacting(w), Keeps(c, v, w),
           AtEnd(c, w), NEW s \in 1 .. c.stages, NEW steps,
           IF s = w.at.stage THEN steps = Append(w.steps[s], NextRecord(c, v, w)) ELSE steps = w.steps[s]
    PROVE  Whole(c, v, steps)
<1>1. w.at.epoch \in 1 .. c.epochs
  BY DEF Keeps
<1>2. PICK n \in Nat, S \in Nat \ {0} : n = Made(c, w) /\ n + 1 = Recordings(c) /\ S = c.stages
  <2>1. PICK w2 : ~Interacting(w2)
    <3>1. ~Interacting([calls |-> <<>>])
      BY DEF Interacting, Executes
    <3> QED BY <3>1
  <2> QED BY <1>1, <2>1, MadeType, TookLast, JobNumbers
<1>3. CASE s = w.at.stage
  <2>1. w.at.chunk \in 1 .. c.chunks + 1 /\ ~(w.at.chunk <= c.chunks)
    BY JobNumbers DEF AtEnd
  <2>2. Upto(c, v, Append(w.steps[w.at.stage], NextRecord(c, v, w)), Made(c, w) + 1, 0)
    BY <2>1, NextIs
  <2> QED BY <1>2, <1>3, <2>2 DEF Upto, Whole
<1>4. CASE s # w.at.stage
  <2>1. s < w.at.stage
    BY <1>2, <1>4 DEF AtEnd
  <2>2. Upto(c, v, w.steps[s], n + 1, w.clock["train"][s])
    BY <1>2, <2>1 DEF Keeps, Extra
  <2> QED BY <1>2, <1>4, <2>2 DEF Upto, Whole
<1> QED BY <1>3, <1>4

\* The runner calls interact.
LEMMA KeepsCalled ==
    ASSUME NEW c \in Configs, NEW v, NEW v2, NEW w \in EnvWorker(c.stages), NEW w2 \in EnvWorker(c.stages),
           ~Interacting(w), Keeps(c, v, w), At(w2, 1, 0, 1), w2.steps = w.steps
    PROVE  Keeps(c, v2, w2) /\ (Interacting(w2) => Took(c, w2) = 0)
<1>1. 1 \in 1 .. c.epochs
  BY JobNumbers
<1>2. PICK S \in Nat \ {0}, k \in Nat \ {0} : S = c.stages /\ k = PerEpoch(c)
  BY JobNumbers DEF PerEpoch
<1>3. Made(c, w2) = 0
  BY <1>2 DEF Made, At
<1>4. ASSUME NEW s \in 1 .. c.stages
      PROVE  w2.steps[s] = <<>> /\ Upto(c, v2, w2.steps[s], Made(c, w2) + Extra(w2, s), w2.clock["train"][s])
  <2>1. Extra(w2, s) = 0 /\ w2.steps[s] = <<>>
    BY <1>2 DEF Extra, At, Keeps
  <2>2. (k * 0 + 0) % k = 0
    OBVIOUS
  <2>3. Upto(c, v2, <<>>, 0, w2.clock["train"][s])
    BY <1>2, <2>2 DEF Upto, Recorded
  <2> QED BY <1>3, <2>1, <2>3
<1>5. Keeps(c, v2, w2)
  BY <1>1, <1>4 DEF Keeps, At
<1> QED BY <1>2, <1>3, <1>5 DEF Took, At

-----------------------------------------------------------------------------
(* The answers on their way to the env workers.                              *)

\* What a worker receives from all of `parts`, the first of them first.
AllOf(x, channel, me, parts, m, X, total) ==
    /\ x \in Seq(X) /\ Len(x) = total
    /\ 1 \in 1 .. Len(parts) /\ channel[<<parts[1].rank, me, m>>] # <<>>
    /\ 1 \in 1 .. Len(Head(channel[<<parts[1].rank, me, m>>]))
    /\ x[1] = Head(channel[<<parts[1].rank, me, m>>])[1]

\* What is merged are the first of the queues.
LEMMA MergedIs ==
    ASSUME NEW N \in Nat, NEW K \in Nat, NEW X, NEW channel \in Queues(N, K, X), NEW me \in 0 .. K - 1,
           NEW parts, NEW total \in Nat \ {0}, Shares(parts, total, N), NEW m \in Mode,
           Ready(channel, me, parts, m)
    PROVE  AllOf(Merged(channel, me, parts, m), channel, me, parts, m, X, total)
<1>1. /\ parts \in Seq(CellRec) /\ Sized(parts) /\ Before(parts, Len(parts) + 1) = total
      /\ DOMAIN parts = 1 .. Len(parts) /\ Len(parts) \in Nat
      /\ \A n \in 1 .. Len(parts) : parts[n].rank \in 0 .. N - 1 /\ parts[n].size > 0
  BY LenProperties DEF Shares
<1>2. 1 \in 1 .. Len(parts) /\ Before(parts, 1) = 0
  <2>1. Before(parts, 1) = 0
    BY <1>1, BeforeFacts
  <2>2. Len(parts) # 0
    <3>1. Len(parts) = 0 => Before(parts, 1) = total
      BY <1>1
    <3> QED BY <2>1, <3>1
  <2> QED BY <1>1, <2>1, <2>2
<1> DEFINE heads == [n \in 1 .. Len(parts) |-> Head(channel[<<parts[n].rank, me, m>>])]
<1>3. ASSUME NEW n \in 1 .. Len(parts)
      PROVE  /\ channel[<<parts[n].rank, me, m>>] # <<>>
             /\ heads[n] \in Seq(X) /\ Len(heads[n]) = parts[n].size
  <2>1. PICK q : q = channel[<<parts[n].rank, me, m>>]
    OBVIOUS
  <2>2. q \in Seq(Seq(X))
    BY <1>1, <2>1 DEF Queues
  <2>3. q # <<>> /\ Len(Head(q)) = parts[n].size
    BY <1>1, <2>1 DEF Ready
  <2>4. Head(q) \in Seq(X)
    BY <2>2, <2>3, Shorter
  <2> QED BY <2>1, <2>3, <2>4
<1>4. Merged(channel, me, parts, m) = FlattenSeq(heads)
  BY <1>1 DEF Merged
<1>5. heads \in Seq(Seq(X)) /\ Len(heads) = Len(parts) /\ heads[1] = Head(channel[<<parts[1].rank, me, m>>])
  BY <1>1, <1>2, <1>3
<1> HIDE DEF heads
<1>6. Fit(heads, parts)
  BY <1>1, <1>3, <1>5 DEF Fit
<1>7. /\ FlattenSeq(heads) \in Seq(X) /\ Len(FlattenSeq(heads)) = total
      /\ \A j \in 1 .. Len(heads[1]) : FlattenSeq(heads)[Before(parts, 1) + j] = heads[1][j]
  BY SMTT(60), <1>1, <1>2, <1>5, <1>6, FlattenPlaces
<1>8. 1 \in 1 .. Len(heads[1]) /\ 0 + 1 = 1
  <2>1. parts[1].size \in Nat /\ parts[1].size > 0 /\ Len(heads[1]) = parts[1].size
    BY <1>1, <1>2, <1>3 DEF Sized
  <2> QED BY <2>1
<1> QED BY <1>2, <1>3, <1>4, <1>5, <1>7, <1>8 DEF AllOf

\* An answer is taken.
LEMMA InOrderTake ==
    ASSUME NEW c, NEW v, NEW took \in Nat, NEW gave, NEW queue \in Seq(Seq(Reply)),
           InOrder(c, v, took, gave, queue), queue # <<>>
    PROVE  InOrder(c, v, took + 1, gave, Tail(queue))
<1>1. PICK k \in Nat : /\ Len(queue) = k + 1 /\ Tail(queue) \in Seq(Seq(Reply)) /\ Len(Tail(queue)) = k
                       /\ \A i \in 1 .. k : Tail(queue)[i] = queue[i + 1]
  BY Shorter
<1>2. gave = (took + 1) + k
  BY <1>1 DEF InOrder
<1>3. ASSUME NEW i \in 1 .. k, NEW j \in 1 .. Len(Tail(queue)[i])
      PROVE  Tail(queue)[i][j].version = VersionAt(c, v, (took + 1) + i - 1)
  <2>1. i + 1 \in 1 .. k + 1 /\ Tail(queue)[i] = queue[i + 1] /\ took + (i + 1) - 1 = (took + 1) + i - 1
    BY <1>1
  <2> QED BY <1>1, <1>3, <2>1 DEF InOrder
<1> QED BY <1>1, <1>2, <1>3 DEF InOrder

\* An answer is given.
LEMMA InOrderGive ==
    ASSUME NEW c, NEW v, NEW took \in Nat, NEW gave, NEW queue \in Seq(Seq(Reply)),
           InOrder(c, v, took, gave, queue), NEW x \in Seq(Reply),
           \A j \in 1 .. Len(x) : x[j].version = VersionAt(c, v, gave)
    PROVE  InOrder(c, v, took, gave + 1, queue \o <<x>>)
<1>1. PICK k \in Nat : k = Len(queue) /\ gave = took + k
  BY DEF InOrder
<1>2. PICK more : more = queue \o <<x>>
  OBVIOUS
<1>3. Len(more) = k + 1 /\ more[k + 1] = x /\ \A i \in 1 .. k : more[i] = queue[i]
  BY <1>1, <1>2
<1>4. gave + 1 = took + Len(more)
  BY <1>1, <1>3
<1>5. ASSUME NEW i \in 1 .. k + 1, NEW j \in 1 .. Len(more[i])
      PROVE  more[i][j].version = VersionAt(c, v, took + i - 1)
  <2>1. CASE i = k + 1
    <3>1. took + i - 1 = gave
      BY <1>1, <2>1
    <3> QED BY <1>3, <1>5, <2>1, <3>1
  <2>2. CASE i # k + 1
    <3>1. i \in 1 .. k /\ more[i] = queue[i]
      BY <1>3, <2>2
    <3> QED BY <1>1, <1>5, <3>1 DEF InOrder
  <2> QED BY <2>1, <2>2
<1> QED BY <1>2, <1>3, <1>4, <1>5 DEF InOrder

\* With as many answers taken as given there is none on its way.
LEMMA InOrderNone ==
    ASSUME NEW c, NEW v, NEW v2, NEW n \in Nat, NEW queue \in Seq(Seq(Reply)),
           InOrder(c, v, n, n, queue), NEW n2 \in Nat
    PROVE  queue = <<>> /\ InOrder(c, v2, n2, n2, queue)
<1>1. Len(queue) = 0
  BY DEF InOrder
<1>2. queue = <<>>
  BY <1>1, EmptySeq
<1> QED BY <1>2 DEF InOrder

\* The env worker has taken an answer.
LEMMA AnsweredTake ==
    ASSUME NEW c \in Configs, NEW v, NEW to, Knows(c, to), NEW workers, NEW rolls,
           workers \in [0 .. c.envWorkers - 1 -> EnvWorker(c.stages)],
           NEW answers \in Queues(c.rolloutWorkers, c.envWorkers, Reply),
           Answered(c, v, to, workers, rolls, answers),
           NEW e \in 0 .. c.envWorkers - 1, Ready(answers, e, to[e], "train"), NEW w2,
           Took(c, workers[e]) \in Nat, Took(c, w2) = Took(c, workers[e]) + 1
    PROVE  Answered(c, v, to, [workers EXCEPT ![e] = w2], rolls, Taken(answers, e, to[e], "train"))
<1>1. PICK E \in Nat, R \in Nat : E = c.envWorkers /\ R = c.rolloutWorkers
  BY JobNumbers
<1>2. PICK all : all = [workers EXCEPT ![e] = w2]
  OBVIOUS
<1>3. all[e] = w2 /\ \A d \in 0 .. E - 1 : d # e => all[d] = workers[d]
  BY <1>1, <1>2
<1>4. PICK taken : taken = Taken(answers, e, to[e], "train")
  OBVIOUS
<1>5. IsTaken(taken, answers, e, to[e], "train")
  BY <1>4, TakenIs DEF Knows
<1>6. ASSUME NEW d \in 0 .. E - 1, NEW n \in 1 .. Len(to[d])
      PROVE  InOrder(c, v, Took(c, all[d]), Gave(c, rolls[to[d][n].rank]), taken[<<to[d][n].rank, d, "train">>])
  <2>1. PICK r \in 0 .. R - 1 : r = to[d][n].rank
    BY <1>1 DEF Knows, Shares
  <2>2. <<r, d, "train">> \in DOMAIN answers /\ answers[<<r, d, "train">>] \in Seq(Seq(Reply))
    BY <1>1, <2>1, Modes DEF Queues
  <2>3. InOrder(c, v, Took(c, workers[d]), Gave(c, rolls[r]), answers[<<r, d, "train">>])
    BY <1>1, <2>1 DEF Answered
  <2>4. CASE d = e
    <3>1. taken[<<r, d, "train">>] = Tail(answers[<<r, d, "train">>])
      BY <1>5, <2>1, <2>2, <2>4 DEF IsTaken
    <3>2. n \in DOMAIN to[e]
      BY <2>4, LenProperties DEF Knows, Shares
    <3>3. answers[<<r, d, "train">>] # <<>>
      BY <2>1, <2>4, <3>2 DEF Ready
    <3>4. PICK took \in Nat : took = Took(c, workers[d])
      BY <2>4
    <3>5. InOrder(c, v, took + 1, Gave(c, rolls[r]), Tail(answers[<<r, d, "train">>]))
      BY <2>2, <2>3, <3>3, <3>4, InOrderTake
    <3> QED BY <1>3, <2>1, <2>4, <3>1, <3>4, <3>5
  <2>5. CASE d # e
    <3>1. \A i \in 1 .. Len(to[e]) : <<r, d, "train">> # <<to[e][i].rank, e, "train">>
      BY <2>5
    <3>2. taken[<<r, d, "train">>] = answers[<<r, d, "train">>]
      BY <1>5, <2>2, <3>1 DEF IsTaken
    <3> QED BY <1>3, <2>1, <2>3, <2>5, <3>2
  <2> QED BY <2>4, <2>5
<1> QED BY <1>1, <1>2, <1>4, <1>6 DEF Answered

\* An answer to an evaluation has been taken.
LEMMA AnsweredEval ==
    ASSUME NEW c \in Configs, NEW v, NEW to, Knows(c, to), NEW workers, NEW rolls,
           NEW answers \in Queues(c.rolloutWorkers, c.envWorkers, Reply),
           Answered(c, v, to, workers, rolls, answers),
           NEW e \in 0 .. c.envWorkers - 1
    PROVE  Answered(c, v, to, workers, rolls, Taken(answers, e, to[e], "eval"))
<1>1. PICK E \in Nat, R \in Nat : E = c.envWorkers /\ R = c.rolloutWorkers
  BY JobNumbers
<1>4. PICK taken : taken = Taken(answers, e, to[e], "eval")
  OBVIOUS
<1>5. IsTaken(taken, answers, e, to[e], "eval")
  BY <1>4, TakenIs DEF Knows
<1>6. ASSUME NEW d \in 0 .. E - 1, NEW n \in 1 .. Len(to[d])
      PROVE  taken[<<to[d][n].rank, d, "train">>] = answers[<<to[d][n].rank, d, "train">>]
  <2>1. PICK r \in 0 .. R - 1 : r = to[d][n].rank
    BY <1>1 DEF Knows, Shares
  <2>2. <<r, d, "train">> \in DOMAIN answers
    BY <1>1, <2>1, Modes DEF Queues
  <2>3. \A i \in 1 .. Len(to[e]) : <<r, d, "train">> # <<to[e][i].rank, e, "eval">>
    OBVIOUS
  <2> QED BY <1>5, <2>1, <2>2, <2>3 DEF IsTaken
<1> QED BY <1>1, <1>4, <1>6 DEF Answered

\* Nothing has been taken.
LEMMA AnsweredMoved ==
    ASSUME NEW c, NEW v, NEW to, NEW workers, NEW rolls, NEW answers,
           Answered(c, v, to, workers, rolls, answers),
           DOMAIN workers = 0 .. c.envWorkers - 1,
           NEW e \in 0 .. c.envWorkers - 1, NEW w2, Took(c, w2) = Took(c, workers[e])
    PROVE  Answered(c, v, to, [workers EXCEPT ![e] = w2], rolls, answers)
<1>1. PICK all : all = [workers EXCEPT ![e] = w2]
  OBVIOUS
<1>2. \A d \in 0 .. c.envWorkers - 1 : Took(c, all[d]) = Took(c, workers[d])
  BY <1>1
<1>3. Answered(c, v, to, all, rolls, answers)
  BY <1>2 DEF Answered
<1> QED BY <1>1, <1>3

-----------------------------------------------------------------------------
(* The answers that a rollout worker gives.                                  *)

Versions(x, version) == \A j \in 1 .. Len(x) : x[j].version = version

\* What is sent, to each of `from`, has the version of the answer.
GivesTo(sent, answers, r, from, version) ==
    /\ \A i \in 1 .. Len(from) : \E x \in Seq(Reply) :
          Versions(x, version)
            /\ sent[<<r, from[i].rank, "train">>] = answers[<<r, from[i].rank, "train">>] \o <<x>>
    /\ \A k \in DOMAIN answers : k[1] # r => sent[k] = answers[k]

\* A rollout worker puts one answer with the version to the queue of each of its env workers.
LEMMA AnswerGives ==
    ASSUME NEW E \in Nat, NEW R \in Nat, NEW answers \in Queues(R, E, Reply),
           NEW asks \in Queues(E, R, Observation),
           NEW r \in 0 .. R - 1, NEW from, NEW half \in Nat \ {0}, Shares(from, half, E),
           Ready(asks, r, from, "train"), NEW version \in Int
    PROVE  GivesTo(Sent(answers, r, from, "train", <<Answering(Merged(asks, r, from, "train"), version)>>),
                   answers, r, from, version)
<1>0. PICK m \in Mode : m = "train"
  BY Modes
<1>1. PICK obs : m = "train" /\ obs = Merged(asks, r, from, m)
  BY <1>0
<1>2. obs \in Seq(Observation) /\ Len(obs) = half
  <2>1. Ready(asks, r, from, m)
    BY <1>1
  <2>2. AllOf(Merged(asks, r, from, m), asks, r, from, m, Observation, half)
    BY <2>1, MergedIs
  <2> QED BY <1>1, <2>2 DEF AllOf
<1>3. PICK batch : batch = Answering(obs, version)
  OBVIOUS
<1>4. PICK T : T = {x \in Reply : x.version = version}
  OBVIOUS
<1>5. batch \in Seq(T) /\ Len(batch) = half
  <2>1. Len(obs) \in Nat /\ DOMAIN obs = 1 .. Len(obs) /\ \A n \in 1 .. Len(obs) : obs[n] \in Observation
    BY <1>2, LenProperties, ElementOfSeq
  <2>2. PICK k \in Nat : k = Len(obs)
    BY <2>1
  <2>3. batch = [n \in 1 .. k |-> [to |-> obs[n], version |-> version]]
    BY <1>3, <2>1, <2>2 DEF Answering
  <2>4. \A n \in 1 .. k : [to |-> obs[n], version |-> version] \in T
    BY <1>4, <2>1, <2>2 DEF Reply
  <2>5. [n \in 1 .. k |-> [to |-> obs[n], version |-> version]] \in Seq(T)
    BY <2>4
  <2>6. Len([n \in 1 .. k |-> [to |-> obs[n], version |-> version]]) = k
    OBVIOUS
  <2> QED BY <1>2, <2>2, <2>3, <2>5, <2>6
<1>6. PICK batches : batches = <<batch>>
  OBVIOUS
<1>7. PICK sent : sent = Sent(answers, r, from, m, batches)
  OBVIOUS
<1>8. IsSent(sent, answers, r, from, m, batches)
  BY <1>7, SentIs
<1>9. DOMAIN answers = (0 .. R - 1) \X (0 .. E - 1) \X Mode
        /\ \A k \in DOMAIN answers : answers[k] \in Seq(Seq(Reply))
  BY DEF Queues
<1>10. ASSUME NEW i \in 1 .. Len(from)
       PROVE  \E x \in Seq(Reply) :
                 Versions(x, version)
                   /\ sent[<<r, from[i].rank, "train">>] = answers[<<r, from[i].rank, "train">>] \o <<x>>
  <2>1. PICK e \in 0 .. E - 1 : e = from[i].rank
    BY DEF Shares
  <2>2. PICK key : key = <<r, from[i].rank, m>>
    OBVIOUS
  <2>3. key \in DOMAIN answers
    BY <1>9, <2>1, <2>2
  <2>4. sent[key] = answers[key] \o Shards(batches, from, i)
    BY <1>8, <2>2, <2>3 DEF IsSent
  <2>5. PICK x : x = Split(batch, from)[i]
    OBVIOUS
  <2>6. Shards(batches, from, i) = <<x>>
    <3>1. DOMAIN batches = {1} /\ batches[1] = batch
      BY <1>6
    <3>2. Shards(batches, from, i) = [b \in {1} |-> x]
      BY <2>5, <3>1 DEF Shards
    <3>3. [b \in {1} |-> x] = <<x>>
      <4>1. 1 .. 1 = {1}
        OBVIOUS
      <4>2. [b \in 1 .. 1 |-> x] = <<x>>
        OBVIOUS
      <4> QED BY <4>1, <4>2
    <3> QED BY <3>2, <3>3
  <2>7. IsShard(x, batch, from, i, T)
    BY <1>5, <2>5, CutIs
  <2>8. x \in Seq(T)
    BY <2>7 DEF IsShard
  <2>9. Versions(x, version)
    <3>1. \A j \in 1 .. Len(x) : x[j] \in T
      BY <2>8, ElementOfSeq
    <3> QED BY <1>4, <3>1 DEF Versions
  <2>10. x \in Seq(Reply)
    <3>1. T \subseteq Reply
      BY <1>4
    <3>2. PICK k \in Nat : k = Len(x) /\ x = [j \in 1 .. k |-> x[j]] /\ \A j \in 1 .. k : x[j] \in T
      BY <2>8, LenProperties, ElementOfSeq
    <3>3. x \in [1 .. k -> Reply]
      BY <3>1, <3>2
    <3> QED BY <3>3
  <2> QED BY <1>1, <2>2, <2>4, <2>6, <2>9, <2>10
<1>11. ASSUME NEW k \in DOMAIN answers, k[1] # r
       PROVE  sent[k] = answers[k]
  <2>1. \A n \in 1 .. Len(from) : k # <<r, from[n].rank, m>>
    BY <1>11
  <2>2. sent[k] = answers[k] \o <<>>
    BY <1>8, <2>1 DEF IsSent
  <2> QED BY <1>9, <2>2, ConcatEmptySeq
<1>12. GivesTo(sent, answers, r, from, version)
  BY <1>10, <1>11 DEF GivesTo
<1> QED BY <1>1, <1>3, <1>6, <1>7, <1>12

\* A rollout worker gives the next answer.
Linked(c, to, r, from) ==
    \A e \in 0 .. c.envWorkers - 1 : \A n \in 1 .. Len(to[e]) :
        to[e][n].rank = r => Serves(from, e)

\* The answers stay in order when a rollout worker gives the next.
LEMMA AnsweredGive ==
    ASSUME NEW c \in Configs, NEW v, NEW to, Knows(c, to), NEW workers,
           \A e \in 0 .. c.envWorkers - 1 : Took(c, workers[e]) \in Nat,
           NEW rolls, DOMAIN rolls = 0 .. c.rolloutWorkers - 1,
           NEW answers \in Queues(c.rolloutWorkers, c.envWorkers, Reply),
           Answered(c, v, to, workers, rolls, answers),
           NEW r \in 0 .. c.rolloutWorkers - 1, NEW from, Linked(c, to, r, from), NEW sent,
           GivesTo(sent, answers, r, from, VersionAt(c, v, Gave(c, rolls[r]))),
           NEW roll2, Gave(c, roll2) = Gave(c, rolls[r]) + 1
    PROVE  Answered(c, v, to, workers, [rolls EXCEPT ![r] = roll2], sent)
<1>1. PICK E \in Nat, R \in Nat : E = c.envWorkers /\ R = c.rolloutWorkers
  BY JobNumbers
<1>2. PICK all : all = [rolls EXCEPT ![r] = roll2]
  OBVIOUS
<1>3. all[r] = roll2 /\ \A d \in 0 .. R - 1 : d # r => all[d] = rolls[d]
  BY <1>1, <1>2
<1>4. ASSUME NEW e \in 0 .. E - 1, NEW n \in 1 .. Len(to[e])
      PROVE  InOrder(c, v, Took(c, workers[e]), Gave(c, all[to[e][n].rank]), sent[<<to[e][n].rank, e, "train">>])
  <2>1. PICK d \in 0 .. R - 1 : d = to[e][n].rank
    BY <1>1 DEF Knows, Shares
  <2>2. PICK key : key = <<d, e, "train">> /\ key[1] = d
    <3>1. <<d, e, "train">>[1] = d
      OBVIOUS
    <3> QED BY <3>1
  <2>3. key \in DOMAIN answers /\ answers[key] \in Seq(Seq(Reply))
    BY <1>1, <2>1, <2>2, Modes DEF Queues
  <2>40. PICK took \in Nat : took = Took(c, workers[e])
    BY <1>1
  <2>4. PICK gave : took = Took(c, workers[e]) /\ gave = Gave(c, rolls[d])
    BY <2>40
  <2>5. InOrder(c, v, took, gave, answers[key])
    BY <1>1, <2>1, <2>2, <2>4 DEF Answered
  <2>6. CASE d = r
    <3>0. Serves(from, e)
      BY <1>1, <2>1, <2>6 DEF Linked
    <3>1. PICK k \in 1 .. Len(from) : from[k].rank = e
      BY <3>0 DEF Serves
    <3>2. PICK x \in Seq(Reply) : Versions(x, VersionAt(c, v, gave)) /\ sent[key] = answers[key] \o <<x>>
      BY <2>2, <2>4, <2>6, <3>1 DEF GivesTo
    <3>3. InOrder(c, v, took, gave + 1, answers[key] \o <<x>>)
      BY <2>3, <2>5, <3>2, InOrderGive DEF Versions
    <3> QED BY <1>3, <2>1, <2>2, <2>4, <2>6, <3>2, <3>3
  <2>7. CASE d # r
    <3>1. sent[key] = answers[key]
      BY <2>2, <2>3, <2>7 DEF GivesTo
    <3> QED BY <1>3, <2>1, <2>2, <2>4, <2>5, <2>7, <3>1
  <2> QED BY <2>6, <2>7
<1> QED BY <1>1, <1>2, <1>4 DEF Answered

\* What a rollout worker answers in an evaluation changes nothing for the rollouts.
LEMMA AnsweredGiveEval ==
    ASSUME NEW c \in Configs, NEW v, NEW to, Knows(c, to), NEW workers,
           NEW rolls, DOMAIN rolls = 0 .. c.rolloutWorkers - 1,
           NEW answers \in Queues(c.rolloutWorkers, c.envWorkers, Reply),
           Answered(c, v, to, workers, rolls, answers),
           NEW r \in 0 .. c.rolloutWorkers - 1, NEW from, NEW half, Shares(from, half, c.envWorkers),
           NEW batches,
           NEW roll2, Gave(c, roll2) = Gave(c, rolls[r])
    PROVE  Answered(c, v, to, workers, [rolls EXCEPT ![r] = roll2], Sent(answers, r, from, "eval", batches))
<1>1. PICK E \in Nat, R \in Nat : E = c.envWorkers /\ R = c.rolloutWorkers
  BY JobNumbers
<1>2. PICK all, sent : all = [rolls EXCEPT ![r] = roll2] /\ sent = Sent(answers, r, from, "eval", batches)
  OBVIOUS
<1>3. \A d \in 0 .. R - 1 : Gave(c, all[d]) = Gave(c, rolls[d])
  BY <1>1, <1>2
<1>4. IsSent(sent, answers, r, from, "eval", batches)
  BY <1>2, SentIs
<1>5. ASSUME NEW e \in 0 .. E - 1, NEW n \in 1 .. Len(to[e])
      PROVE  InOrder(c, v, Took(c, workers[e]), Gave(c, all[to[e][n].rank]), sent[<<to[e][n].rank, e, "train">>])
  <2>1. PICK d \in 0 .. R - 1 : d = to[e][n].rank
    BY <1>1 DEF Knows, Shares
  <2>2. PICK key : key = <<d, e, "train">>
    OBVIOUS
  <2>3. key \in DOMAIN answers /\ answers[key] \in Seq(Seq(Reply))
    BY <1>1, <2>1, <2>2, Modes DEF Queues
  <2>4. \A i \in 1 .. Len(from) : key # <<r, from[i].rank, "eval">>
    BY <2>2
  <2>5. sent[key] = answers[key] \o <<>>
    BY <1>4, <2>3, <2>4 DEF IsSent
  <2>6. sent[key] = answers[key]
    BY <2>3, <2>5, ConcatEmptySeq
  <2>7. InOrder(c, v, Took(c, workers[e]), Gave(c, rolls[d]), answers[key])
    BY <1>1, <2>1, <2>2 DEF Answered
  <2> QED BY <1>3, <2>1, <2>2, <2>6, <2>7
<1> QED BY <1>1, <1>2, <1>5 DEF Answered

\* Nobody interacts or generates: the next rollout begins, or the weights change.
LEMMA AnsweredAnew ==
    ASSUME NEW c \in Configs, NEW v, NEW v2, NEW to, Knows(c, to), NEW workers, NEW rolls, NEW answers,
           answers \in Queues(c.rolloutWorkers, c.envWorkers, Reply),
           Answered(c, v, to, workers, rolls, answers),
           \A e \in 0 .. c.envWorkers - 1 : Took(c, workers[e]) = Recordings(c) * c.stages,
           \A r \in 0 .. c.rolloutWorkers - 1 : Gave(c, rolls[r]) = Recordings(c) * c.stages,
           NEW workers2, NEW rolls2, NEW n \in Nat,
           \A e \in 0 .. c.envWorkers - 1 : Took(c, workers2[e]) = n,
           \A r \in 0 .. c.rolloutWorkers - 1 : Gave(c, rolls2[r]) = n
    PROVE  Answered(c, v2, to, workers2, rolls2, answers)
<1>1. PICK E \in Nat, R \in Nat : E = c.envWorkers /\ R = c.rolloutWorkers
  BY JobNumbers
<1>2. PICK total \in Nat : total = Recordings(c) * c.stages
  BY JobNumbers DEF Recordings, PerEpoch
<1>3. ASSUME NEW e \in 0 .. E - 1, NEW i \in 1 .. Len(to[e])
      PROVE  InOrder(c, v2, Took(c, workers2[e]), Gave(c, rolls2[to[e][i].rank]), answers[<<to[e][i].rank, e, "train">>])
  <2>1. PICK d \in 0 .. R - 1 : d = to[e][i].rank
    BY <1>1 DEF Knows, Shares
  <2>2. PICK queue : queue = answers[<<d, e, "train">>]
    OBVIOUS
  <2>3. queue \in Seq(Seq(Reply))
    BY <1>1, <2>1, <2>2, Modes DEF Queues
  <2>4. InOrder(c, v, total, total, queue)
    BY <1>1, <1>2, <2>1, <2>2 DEF Answered
  <2>5. InOrder(c, v2, n, n, queue)
    BY <2>3, <2>4, InOrderNone
  <2> QED BY <1>1, <2>1, <2>2, <2>5
<1> QED BY <1>1, <1>3 DEF Answered

-----------------------------------------------------------------------------
(* The trajectories that an env worker sends.                                *)

\* The n-th of them: its stage, and which part of the environments of the stage it is.
StageOf(p, n) == (n - 1) \div p + 1
CutOf(p, n) == (n - 1) % p

\* Stage and cut tell the number of a trajectory.
LEMMA CutFacts ==
    ASSUME NEW p \in Nat \ {0}, NEW S \in Nat, NEW n \in 1 .. S * p
    PROVE  StageOf(p, n) \in 1 .. S /\ CutOf(p, n) \in 0 .. p - 1
             /\ n = (StageOf(p, n) - 1) * p + CutOf(p, n) + 1
<1>1. PICK m \in Nat : m = n - 1
  <2>1. S * p \in Nat
    OBVIOUS
  <2> QED BY <2>1
<1>2. PICK q \in Nat, r \in 0 .. p - 1 : q = m \div p /\ r = m % p /\ m = q * p + r
  OBVIOUS
<1>3. q < S
  <2>1. S <= q => S * p <= q * p
    BY Times
  <2>2. q * p \in Nat /\ S * p \in Nat
    OBVIOUS
  <2> QED BY <1>1, <1>2, <2>1, <2>2
<1>4. StageOf(p, n) = q + 1 /\ CutOf(p, n) = r /\ (q + 1) - 1 = q
  BY <1>1, <1>2 DEF StageOf, CutOf
<1> QED BY <1>1, <1>2, <1>3, <1>4

PieceOf(c, e, piece, n, steps) ==
    /\ piece \in Piece
    /\ piece.stage = StageOf(Parts(c), n) /\ piece.steps = steps[StageOf(Parts(c), n)]
    /\ Len(piece.slots) = Width(c)
    /\ \A j \in 1 .. Width(c) : piece.slots[j] = e * PerWorker(c) + CutOf(Parts(c), n) * Width(c) + j - 1
IsPieces(c, e, t, steps) ==
    /\ t \in Seq(Piece) /\ Len(t) = c.stages * Parts(c)
    /\ \A n \in 1 .. Len(t) : PieceOf(c, e, t[n], n, steps)

\* The cuts of a stage lie one after the other in it.
LEMMA CutWithin ==
    ASSUME NEW p \in Nat \ {0}, NEW W \in Nat \ {0}, NEW k \in 0 .. p - 1
    PROVE  k * W \in Nat /\ k * W + W <= W * p /\ (k + 1) * W = k * W + W
<1>1. k * W + W <= p * W /\ k * W \in Nat /\ (k + 1) * W = k * W + W
  BY Times
<1>2. p * W = W * p
  OBVIOUS
<1> QED BY <1>1, <1>2

\* to_splited_trajectories makes these trajectories.
LEMMA TrajectoriesIs ==
    ASSUME cfg \in Configs, PerWorker(cfg) \in Nat \ {0}, NEW e \in Nat,
           NEW steps, steps \in [1 .. cfg.stages -> Seq(StepRecord)]
    PROVE  IsPieces(cfg, e, Trajectories(e, steps), steps)
<1>1. PICK S \in Nat \ {0}, p \in Nat \ {0}, W \in Nat \ {0}, P \in Nat \ {0} :
        S = cfg.stages /\ p = Parts(cfg) /\ W = Width(cfg) /\ P = PerWorker(cfg) /\ W * p = P
  BY JobNumbers, PartsFacts
<1>2. PICK slots : slots = [n \in 1 .. P |-> e * P + n - 1]
  OBVIOUS
<1>3. PICK part : part = [n \in 1 .. S * p |->
                            [stage |-> StageOf(p, n), steps |-> steps[StageOf(p, n)],
                             slots |-> SubSeq(slots, CutOf(p, n) * W + 1, (CutOf(p, n) + 1) * W)]]
  OBVIOUS
<1>4. Trajectories(e, steps) = part
  <2>1. Slots(e) = slots
    BY <1>1, <1>2 DEF Slots
  <2>2. SplitNum(cfg.actors, cfg.envWorkers * cfg.stages) = p /\ PerWorker(cfg) \div p = W
    BY <1>1 DEF Parts, Width
  <2> QED BY <1>1, <1>3, <2>1, <2>2 DEF Trajectories, StageOf, CutOf
<1>5. ASSUME NEW n \in 1 .. S * p
      PROVE  PieceOf(cfg, e, part[n], n, steps)
  <2>1. PICK s \in 1 .. S, k \in 0 .. p - 1 : s = StageOf(p, n) /\ k = CutOf(p, n)
    BY CutFacts
  <2>2. k * W \in Nat /\ k * W + W <= W * p /\ (k + 1) * W = k * W + W
    BY CutWithin
  <2>3. PICK q \in Nat : q = k * W /\ q + W <= P /\ (k + 1) * W = q + W
    BY <1>1, <2>2
  <2>4. PICK b \in Nat : b = e * P
    OBVIOUS
  <2>5. slots = [i \in 1 .. P |-> b + i - 1]
    BY <1>2, <2>4
  <2>6. PICK x : x = SubSeq(slots, q + 1, q + W)
    OBVIOUS
  <2>7. x \in Seq(Nat) /\ Len(x) = W /\ \A j \in 1 .. W : x[j] = b + q + j - 1
    <3>1. \A i \in q + 1 .. q + W : slots[i] \in Nat
      BY <2>3, <2>5
    <3>2. /\ x \in Seq(Nat) /\ Len(x) = (IF q + 1 <= q + W THEN (q + W) - (q + 1) + 1 ELSE 0)
          /\ \A i \in 1 .. (q + W) - (q + 1) + 1 : x[i] = slots[(q + 1) + i - 1]
      BY <2>6, <3>1, SubSeqProperties
    <3>3. ASSUME NEW j \in 1 .. W PROVE x[j] = b + q + j - 1
      <4>1. j \in 1 .. (q + W) - (q + 1) + 1 /\ (q + 1) + j - 1 = q + j /\ q + j \in 1 .. P
        BY <2>3
      <4>2. x[j] = slots[q + j]
        BY <3>2, <4>1
      <4> QED BY <2>5, <4>1, <4>2
    <3>4. Len(x) = W
      BY <3>2
    <3> QED BY <3>2, <3>3, <3>4
  <2>8. part[n] = [stage |-> s, steps |-> steps[s], slots |-> x]
    BY <1>3, <2>1, <2>3, <2>6
  <2>9. steps[s] \in Seq(StepRecord) /\ s \in Nat
    <3>1. S = cfg.stages
      BY <1>1
    <3> QED BY <3>1
  <2>10. part[n] \in Piece
    BY <2>7, <2>8, <2>9 DEF Piece
  <2> QED BY <1>1, <2>1, <2>3, <2>4, <2>7, <2>8, <2>10 DEF PieceOf
<1>6. PICK len \in Nat : len = S * p
  OBVIOUS
<1>7. part \in Seq(Piece) /\ Len(part) = len
  <2>1. \A n \in 1 .. len : part[n] \in Piece
    BY <1>5, <1>6 DEF PieceOf
  <2>2. part \in [1 .. len -> Piece]
    BY <1>3, <1>6, <2>1
  <2> QED BY <2>2
<1> QED BY <1>1, <1>4, <1>5, <1>6, <1>7 DEF IsPieces

\* Where an environment is tells the worker and, for those of one worker, the piece.
LEMMA PiecesWithin ==
    ASSUME NEW c \in Configs, PerWorker(c) \in Nat \ {0}, NEW e \in 0 .. c.envWorkers - 1,
           NEW t, NEW steps, IsPieces(c, e, t, steps), NEW n \in 1 .. Len(t), NEW j \in 1 .. Width(c)
    PROVE  /\ t[n].stage \in 1 .. c.stages
           /\ t[n].slots[j] \in Nat /\ Within(c, e, t[n].slots[j])
           /\ t[n].slots[j] < c.envWorkers * PerWorker(c)
           /\ \A d \in 0 .. c.envWorkers - 1 : Within(c, d, t[n].slots[j]) => d = e
<1>1. PICK S \in Nat \ {0}, p \in Nat \ {0}, W \in Nat \ {0}, P \in Nat \ {0}, E \in Nat \ {0} :
        S = c.stages /\ p = Parts(c) /\ W = Width(c) /\ P = PerWorker(c) /\ W * p = P /\ E = c.envWorkers
  BY JobNumbers, PartsFacts
<1>2. PieceOf(c, e, t[n], n, steps) /\ n \in 1 .. S * p
  BY <1>1 DEF IsPieces
<1>3. PICK s \in 1 .. S, k \in 0 .. p - 1 : s = StageOf(p, n) /\ k = CutOf(p, n)
  BY <1>2, CutFacts
<1>4. PICK q \in Nat : q = k * W /\ q + W <= P
  <2>1. k * W \in Nat /\ k * W + W <= W * p
    BY CutWithin
  <2> QED BY <1>1, <2>1
<1>40. j \in 1 .. W
  BY <1>1
<1>5. PICK b \in Nat, h \in Nat : b = e * P /\ h = E * P /\ b + P <= h
  <2>1. e \in Nat /\ e < E
    BY SMTT(60), <1>1
  <2>2. e * P \in Nat /\ E * P \in Nat /\ e * P + P <= E * P
    BY <2>1, Times
  <2> QED BY <2>2
<1>6. PICK x \in Nat : x = t[n].slots[j] /\ x = b + q + j - 1
  <2>1. t[n].slots[j] = b + q + j - 1
    BY <1>1, <1>2, <1>3, <1>4, <1>5 DEF PieceOf
  <2>2. b + q + j - 1 \in Nat
    BY <1>40
  <2> QED BY <2>1, <2>2
<1>7. b <= x /\ x < b + P /\ x < h
  BY <1>4, <1>40, <1>5, <1>6
<1>8. ASSUME NEW d \in 0 .. E - 1, Within(c, d, x) PROVE d = e
  <2>1. d \in Nat /\ e \in Nat /\ d * P <= x /\ x < d * P + P
    BY <1>1, <1>8 DEF Within
  <2>2. x \div P = d
    BY <2>1, IsDiv
  <2>3. x \div P = e
    BY <1>5, <1>7, <2>1, IsDiv
  <2> QED BY <2>2, <2>3
<1> QED BY <1>1, <1>2, <1>3, <1>5, <1>6, <1>7, <1>8 DEF PieceOf, Within

\* No two trajectories of a worker share an environment of a stage.
LEMMA PiecesApart ==
    ASSUME NEW c \in Configs, PerWorker(c) \in Nat \ {0}, NEW e \in 0 .. c.envWorkers - 1,
           NEW t, NEW steps, IsPieces(c, e, t, steps), NEW n \in 1 .. Len(t), NEW m \in 1 .. Len(t),
           NEW j \in 1 .. Width(c), NEW l \in 1 .. Width(c), Alike(t[n], t[m], j, l)
    PROVE  n = m /\ j = l
<1>1. PICK S \in Nat \ {0}, p \in Nat \ {0}, W \in Nat \ {0}, P \in Nat \ {0} :
        S = c.stages /\ p = Parts(c) /\ W = Width(c) /\ P = PerWorker(c) /\ W * p = P
  BY JobNumbers, PartsFacts
<1>2. PieceOf(c, e, t[n], n, steps) /\ PieceOf(c, e, t[m], m, steps) /\ n \in 1 .. S * p /\ m \in 1 .. S * p
  BY <1>1 DEF IsPieces
<1>3. PICK s \in 1 .. S, k \in 0 .. p - 1 :
        s = StageOf(p, n) /\ k = CutOf(p, n) /\ n = (s - 1) * p + k + 1
  <2>1. n \in 1 .. S * p
    BY <1>2
  <2>2. /\ StageOf(p, n) \in 1 .. S /\ CutOf(p, n) \in 0 .. p - 1
        /\ n = (StageOf(p, n) - 1) * p + CutOf(p, n) + 1
    BY <2>1, CutFacts
  <2> QED BY <2>2
<1>4. PICK s2 \in 1 .. S, k2 \in 0 .. p - 1 :
        s2 = StageOf(p, m) /\ k2 = CutOf(p, m) /\ m = (s2 - 1) * p + k2 + 1
  <2>1. m \in 1 .. S * p
    BY <1>2
  <2>2. /\ StageOf(p, m) \in 1 .. S /\ CutOf(p, m) \in 0 .. p - 1
        /\ m = (StageOf(p, m) - 1) * p + CutOf(p, m) + 1
    BY <2>1, CutFacts
  <2> QED BY <2>2
<1>5. PICK q \in Nat, q2 \in Nat, b \in Nat : q = k * W /\ q2 = k2 * W /\ b = e * P
  <2>1. k * W \in Nat /\ k2 * W \in Nat /\ e * P \in Nat
    OBVIOUS
  <2> QED BY <2>1
<1>50. j \in 1 .. W /\ l \in 1 .. W
  BY <1>1
<1>6. b + q + j - 1 = b + q2 + l - 1 /\ s = s2
  BY <1>1, <1>2, <1>3, <1>4, <1>5 DEF PieceOf, Alike
<1>7. PICK x \in Nat : x = q + j - 1 /\ x = q2 + l - 1
  <2>1. q + j - 1 = q2 + l - 1 /\ q + j - 1 \in Nat
    BY <1>50, <1>6
  <2> QED BY <2>1
<1>8. x \div W = k /\ x \div W = k2
  <2>1. q <= x /\ x < q + W /\ q2 <= x /\ x < q2 + W
    BY <1>50, <1>7
  <2>2. k \in Nat /\ k2 \in Nat
    OBVIOUS
  <2> QED BY <1>5, <2>1, <2>2, IsDiv
<1>9. k = k2 /\ q = q2 /\ j = l
  <2>1. k = k2 /\ q = q2
    BY <1>5, <1>8
  <2> QED BY <1>50, <1>7, <2>1
<1> QED BY <1>3, <1>4, <1>6, <1>9

-----------------------------------------------------------------------------
(* What is on its way to the actors, and what they have.                     *)

\* Env workers are done that were not.
Done(c, workers, workers2) ==
    \A e \in 0 .. c.envWorkers - 1 : ~Interacting(workers[e]) => ~Interacting(workers2[e])

\* What was delivered stays so when workers are done.
LEMMA DeliveredStill ==
    ASSUME NEW c, NEW v, NEW workers, NEW held, Delivered(c, v, workers, held), NEW workers2,
           Done(c, workers, workers2)
    PROVE  Delivered(c, v, workers2, held)
<1>1. ASSUME NEW piece, IsPart(c, v, workers, piece) PROVE IsPart(c, v, workers2, piece)
  BY <1>1 DEF IsPart, Done
<1> QED BY <1>1 DEF Delivered

\* Nothing is delivered when a rollout begins.
LEMMA DeliveredNone ==
    ASSUME NEW c \in Configs, NEW v, NEW workers, NEW held, \A h \in 0 .. c.actors : held[h] = <<>>
    PROVE  Delivered(c, v, workers, held)
<1>1. \A h \in 0 .. c.actors : Len(held[h]) = 0
  OBVIOUS
<1>2. ASSUME NEW h \in 0 .. c.actors, NEW i \in 1 .. Len(held[h]) PROVE FALSE
  <2>1. Len(held[h]) = 0
    BY <1>1
  <2> QED BY <1>2, <2>1
<1> QED BY <1>2 DEF Delivered, Apart

\* The trajectories of a worker are put to the queue as it returns.
PutBy(c, held, held2, t) ==
    /\ \A h \in 1 .. c.actors : held2[h] = held[h]
    /\ held[0] \in Seq(Piece) /\ t \in Seq(Piece) /\ held2[0] = held[0] \o t

\* What was delivered and what a worker that returns puts to it share no environment.
LEMMA DeliveredMore ==
    ASSUME NEW c \in Configs, PerWorker(c) \in Nat \ {0}, NEW v, NEW workers, NEW held,
           Delivered(c, v, workers, held),
           NEW e \in 0 .. c.envWorkers - 1, Interacting(workers[e]),
           NEW workers2, Done(c, workers, workers2), ~Interacting(workers2[e]),
           NEW t, NEW steps, IsPieces(c, e, t, steps), \A s \in 1 .. c.stages : Whole(c, v, steps[s]),
           NEW held2, PutBy(c, held, held2, t)
    PROVE  Delivered(c, v, workers2, held2)
<1>1. PICK A \in Nat \ {0}, n \in Nat, m \in Nat : A = c.actors /\ n = Len(held[0]) /\ m = Len(t)
  <2>1. held[0] \in Seq(Piece) /\ t \in Seq(Piece)
    BY DEF PutBy
  <2>2. PICK n \in Nat, m \in Nat : n = Len(held[0]) /\ m = Len(t)
    BY <2>1, LenProperties
  <2> QED BY <2>2, JobNumbers
<1>10. Joins2(held[0], t, held2[0], Piece, n, m)
  BY <1>1, Joined DEF PutBy
<1>11. Len(held2[0]) = n + m /\ \A i \in 1 .. n : held2[0][i] = held[0][i]
  BY <1>10 DEF Joins2
<1>2. PICK W \in Nat \ {0} : W = Width(c)
  BY PartsFacts
<1>20. \A k \in 1 .. m : held2[0][n + k] = t[k]
  BY <1>10 DEF Joins2
<1> DEFINE Old(h, i) == i \in 1 .. Len(held[h]) /\ held2[h][i] = held[h][i]
           New(h, i, k) == h = 0 /\ i = n + k /\ held2[h][i] = t[k]
<1>3. ASSUME NEW h \in 0 .. A, NEW i \in 1 .. Len(held2[h])
      PROVE  Old(h, i) \/ \E k \in 1 .. m : New(h, i, k)
  <2>1. CASE h # 0
    <3>1. held2[h] = held[h]
      BY <1>1, <2>1 DEF PutBy
    <3> QED BY <1>3, <3>1
  <2>2. CASE h = 0
    <3>1. i \in 1 .. n + m
      BY <1>3, <1>11, <2>2
    <3>2. CASE i \in 1 .. n
      BY <1>1, <1>11, <2>2, <3>2
    <3>3. CASE ~(i \in 1 .. n)
      <4>1. PICK k \in 1 .. m : i = n + k
        <5>1. i - n \in 1 .. m /\ i = n + (i - n)
          BY <3>1, <3>3
        <5> QED BY <5>1
      <4>2. held2[0][n + k] = t[k]
        BY <1>20
      <4> QED BY <2>2, <4>1, <4>2
    <3> QED BY <3>2, <3>3
  <2> QED BY <2>1, <2>2
<1>4. ASSUME NEW h \in 0 .. A, NEW i, Old(h, i)
      PROVE  /\ IsPart(c, v, workers2, held2[h][i])
             /\ \A j \in 1 .. W : ~Within(c, e, held2[h][i].slots[j])
  <2>1. IsPart(c, v, workers, held2[h][i])
    BY <1>1, <1>4 DEF Delivered
  <2> QED BY <1>2, <2>1 DEF IsPart, Done
<1>5. ASSUME NEW h, NEW i, NEW k \in 1 .. m, New(h, i, k)
      PROVE  /\ IsPart(c, v, workers2, held2[h][i])
             /\ \A j \in 1 .. W : Within(c, e, held2[h][i].slots[j])
  <2>1. held2[h][i] = t[k] /\ k \in 1 .. Len(t)
    BY <1>1, <1>5
  <2>2. ASSUME NEW j \in 1 .. W
        PROVE  /\ t[k].stage \in 1 .. c.stages
               /\ t[k].slots[j] \in Nat /\ Within(c, e, t[k].slots[j])
               /\ t[k].slots[j] < c.envWorkers * PerWorker(c)
               /\ \A d \in 0 .. c.envWorkers - 1 : Within(c, d, t[k].slots[j]) => d = e
    BY <1>2, <2>1, PiecesWithin
  <2>3. Len(t[k].slots) = Width(c) /\ t[k].stage \in 1 .. c.stages /\ t[k].steps = steps[t[k].stage]
    <3>1. PieceOf(c, e, t[k], k, steps)
      BY <2>1 DEF IsPieces
    <3>2. 1 \in 1 .. W
      OBVIOUS
    <3> QED BY <2>2, <3>1, <3>2 DEF PieceOf
  <2>4. Whole(c, v, t[k].steps)
    BY <2>3
  <2> QED BY <1>2, <2>1, <2>2, <2>3, <2>4 DEF IsPart
<1>6. ASSUME NEW h \in 0 .. A, NEW g \in 0 .. A, NEW i \in 1 .. Len(held2[h]), NEW k \in 1 .. Len(held2[g]),
             NEW j \in 1 .. W, NEW l \in 1 .. W, Alike(held2[h][i], held2[g][k], j, l)
      PROVE  h = g /\ i = k /\ j = l
  <2>1. held2[h][i].slots[j] = held2[g][k].slots[l]
    BY <1>6 DEF Alike
  <2>2. CASE Old(h, i) /\ Old(g, k)
    <3>1. Alike(held[h][i], held[g][k], j, l)
      BY <1>6, <2>2
    <3> QED BY <1>1, <1>2, <2>2, <3>1 DEF Delivered, Apart
  <2>3. ASSUME NEW p \in 1 .. m, NEW q \in 1 .. m, New(h, i, p), New(g, k, q) PROVE h = g /\ i = k /\ j = l
    <3>1. Alike(t[p], t[q], j, l)
      BY <1>6, <2>3
    <3>2. p \in 1 .. Len(t) /\ q \in 1 .. Len(t)
      BY <1>1
    <3>3. p = q /\ j = l
      BY <1>2, <3>1, <3>2, PiecesApart
    <3> QED BY <2>3, <3>3
  <2>4. ASSUME Old(h, i), NEW q \in 1 .. m, New(g, k, q) PROVE FALSE
    BY ZenonT(60), <1>4, <1>5, <2>1, <2>4
  <2>5. ASSUME NEW p \in 1 .. m, New(h, i, p), Old(g, k) PROVE FALSE
    <3>1. Within(c, e, held2[h][i].slots[j])
      BY <1>5, <2>5
    <3>2. ~Within(c, e, held2[g][k].slots[l])
      BY <1>4, <2>5
    <3> QED BY <2>1, <3>1, <3>2
  <2> HIDE DEF Old, New
  <2> QED BY <1>3, <2>2, <2>3, <2>4, <2>5
<1>7. \A h \in 0 .. A : \A i \in 1 .. Len(held2[h]) : IsPart(c, v, workers2, held2[h][i])
  <2> HIDE DEF Old, New
  <2> QED BY <1>3, <1>4, <1>5
<1> QED BY <1>1, <1>2, <1>6, <1>7 DEF Delivered, Apart

\* A trajectory changes its place.
MovedFrom(c, held, held2, from, nth) ==
    \A h \in 0 .. c.actors : \A i \in 1 .. Len(held2[h]) :
        /\ from[h][i] \in 0 .. c.actors /\ nth[h][i] \in 1 .. Len(held[from[h][i]])
        /\ held2[h][i] = held[from[h][i]][nth[h][i]]
FromOne(c, held2, from, nth) ==
    \A h \in 0 .. c.actors, g \in 0 .. c.actors : \A i \in 1 .. Len(held2[h]), k \in 1 .. Len(held2[g]) :
        from[h][i] = from[g][k] /\ nth[h][i] = nth[g][k] => h = g /\ i = k

\* Whoever has a trajectory, it shares no environment with another.
LEMMA DeliveredMoved ==
    ASSUME NEW c, NEW v, NEW workers, NEW held, Delivered(c, v, workers, held), NEW held2, NEW from, NEW nth,
           MovedFrom(c, held, held2, from, nth), FromOne(c, held2, from, nth)
    PROVE  Delivered(c, v, workers, held2)
<1>1. ASSUME NEW h \in 0 .. c.actors, NEW i \in 1 .. Len(held2[h])
      PROVE  /\ from[h][i] \in 0 .. c.actors /\ nth[h][i] \in 1 .. Len(held[from[h][i]])
             /\ held2[h][i] = held[from[h][i]][nth[h][i]]
  BY DEF MovedFrom
<1>2. \A h \in 0 .. c.actors : \A i \in 1 .. Len(held2[h]) : IsPart(c, v, workers, held2[h][i])
  BY SMTT(60), <1>1 DEF Delivered
<1>3. ASSUME NEW h \in 0 .. c.actors, NEW g \in 0 .. c.actors, NEW i \in 1 .. Len(held2[h]),
             NEW k \in 1 .. Len(held2[g]), NEW j \in 1 .. Width(c), NEW l \in 1 .. Width(c),
             Alike(held2[h][i], held2[g][k], j, l)
      PROVE  h = g /\ i = k /\ j = l
  <2>1. PICK h2, i2, g2, k2 : h2 = from[h][i] /\ i2 = nth[h][i] /\ g2 = from[g][k] /\ k2 = nth[g][k]
    OBVIOUS
  <2>2. /\ h2 \in 0 .. c.actors /\ i2 \in 1 .. Len(held[h2]) /\ g2 \in 0 .. c.actors
        /\ k2 \in 1 .. Len(held[g2])
        /\ Alike(held[h2][i2], held[g2][k2], j, l)
    BY <1>1, <1>3, <2>1
  <2>3. h2 = g2 /\ i2 = k2 /\ j = l
    BY <2>2 DEF Delivered, Apart
  <2>4. from[h][i] = from[g][k] /\ nth[h][i] = nth[g][k] => h = g /\ i = k
    BY DEF FromOne
  <2> QED BY <2>1, <2>3, <2>4
<1> QED BY <1>2, <1>3 DEF Delivered, Apart

\* An actor takes the first of the queue.
ComesFrom(a, n, from, nth, h, i) ==
    /\ h = 0 => from[h][i] = 0 /\ nth[h][i] = i + 1
    /\ h # 0 /\ h = a /\ i = n + 1 => from[h][i] = 0 /\ nth[h][i] = 1
    /\ h # 0 /\ (h # a \/ i # n + 1) => from[h][i] = h /\ nth[h][i] = i

\* An actor takes the first trajectory of the queue.
LEMMA DeliveredTaken ==
    ASSUME NEW c \in Configs, NEW v, NEW workers, NEW queue \in Seq(Piece), queue # <<>>, NEW coll,
           coll \in [1 .. c.actors -> Collector], Delivered(c, v, workers, Held(c, queue, coll)),
           NEW a \in 1 .. c.actors, NEW left,
           NEW coll2, coll2 = [coll EXCEPT ![a] = [left |-> left, batch |-> Append(coll[a].batch, Head(queue))]]
    PROVE  Delivered(c, v, workers, Held(c, Tail(queue), coll2))
<1>1. PICK A \in Nat \ {0} : A = c.actors
  BY JobNumbers
<1>2. PICK m \in Nat : /\ Len(queue) = m + 1 /\ Len(Tail(queue)) = m
        /\ \A i \in 1 .. m : Tail(queue)[i] = queue[i + 1]
                       /\ Head(queue) = queue[1] /\ Head(queue) \in Piece
  BY Shorter
<1>30. PICK batch \in Seq(Piece), n \in Nat : batch = coll[a].batch /\ n = Len(batch)
  <2>1. coll[a].batch \in Seq(Piece)
    BY DEF Collector
  <2> QED BY <2>1, LenProperties
<1>3. PICK more : batch = coll[a].batch /\ n = Len(batch) /\ more = Append(batch, Head(queue))
  BY <1>30
<1>4. Len(more) = n + 1 /\ more[n + 1] = queue[1] /\ \A i \in 1 .. n : more[i] = batch[i]
  BY <1>2, <1>3, AppendProperties
<1>5. PICK held, held2 : held = Held(c, queue, coll) /\ held2 = Held(c, Tail(queue), coll2)
  OBVIOUS
<1>6. /\ held[0] = queue /\ held2[0] = Tail(queue) /\ held[a] = batch /\ held2[a] = more
      /\ \A h \in 1 .. A : h # a => held2[h] = held[h]
  BY SMTT(60), <1>1, <1>3, <1>5 DEF Held
<1>7. PICK from, nth :
        /\ from = [h \in 0 .. A |-> [i \in Nat |-> IF h = 0 \/ (h = a /\ i = n + 1) THEN 0 ELSE h]]
        /\ nth = [h \in 0 .. A |-> [i \in Nat |-> IF h = 0 THEN i + 1 ELSE IF h = a /\ i = n + 1 THEN 1 ELSE i]]
  OBVIOUS
<1>8. ASSUME NEW h \in 0 .. A, NEW i \in Nat
      PROVE  ComesFrom(a, n, from, nth, h, i)
  BY <1>7 DEF ComesFrom
<1>80. a # 0
  BY <1>1
<1>9. ASSUME NEW h \in 0 .. A, NEW i \in 1 .. Len(held2[h])
      PROVE  /\ i \in Nat /\ i # 0 /\ nth[h][i] \in 1 .. Len(held[from[h][i]])
             /\ held2[h][i] = held[from[h][i]][nth[h][i]]
  <2>1. CASE h = 0
    <3>1. i \in 1 .. m
      BY <1>2, <1>6, <1>9, <2>1
    <3>2. from[h][i] = 0 /\ nth[h][i] = i + 1
      <4>1. ComesFrom(a, n, from, nth, h, i)
        BY <1>8, <3>1
      <4> QED BY <2>1, <4>1 DEF ComesFrom
    <3>3. i + 1 \in 1 .. Len(queue) /\ Tail(queue)[i] = queue[i + 1]
      BY <1>2, <3>1
    <3> QED BY <1>6, <2>1, <3>1, <3>2, <3>3
  <2>2. CASE h = a /\ i = n + 1
    <3>1. from[h][i] = 0 /\ nth[h][i] = 1
      <4>1. i \in Nat
        BY <2>2
      <4>2. ComesFrom(a, n, from, nth, h, i)
        BY <1>8, <4>1
      <4> QED BY <1>80, <2>2, <4>2 DEF ComesFrom
    <3> QED BY <1>2, <1>4, <1>6, <2>2, <3>1
  <2>3. CASE h = a /\ i # n + 1
    <3>1. i \in 1 .. n
      BY <1>4, <1>6, <1>9, <2>3
    <3>2. from[h][i] = h /\ nth[h][i] = i
      <4>1. ComesFrom(a, n, from, nth, h, i)
        BY <1>8, <3>1
      <4> QED BY <1>80, <2>3, <4>1 DEF ComesFrom
    <3>3. held2[h][i] = held[h][i]
      BY <1>4, <1>6, <2>3, <3>1
    <3>4. i \in Nat /\ i # 0 /\ i \in 1 .. Len(held[h])
      BY <1>3, <1>6, <2>3, <3>1
    <3> QED BY <3>2, <3>3, <3>4
  <2>4. CASE h # 0 /\ h # a
    <3>1. held2[h] = held[h] /\ i \in Nat /\ i # 0
      BY <1>6, <1>9, <2>4
    <3>2. from[h][i] = h /\ nth[h][i] = i
      <4>1. ComesFrom(a, n, from, nth, h, i)
        BY <1>8, <3>1
      <4> QED BY <2>4, <4>1 DEF ComesFrom
    <3> QED BY <1>9, <2>4, <3>1, <3>2
  <2> QED BY <2>1, <2>2, <2>3, <2>4
<1>10. ASSUME NEW h \in 0 .. A, NEW i \in 1 .. Len(held2[h])
       PROVE  ComesFrom(a, n, from, nth, h, i) /\ from[h][i] \in 0 .. A
  <2>1. ComesFrom(a, n, from, nth, h, i)
    BY <1>8, <1>9
  <2> QED BY <2>1 DEF ComesFrom
<1>11. ASSUME NEW h \in 0 .. A, NEW g \in 0 .. A, NEW i \in 1 .. Len(held2[h]), NEW k \in 1 .. Len(held2[g]),
              from[h][i] = from[g][k], nth[h][i] = nth[g][k]
       PROVE  h = g /\ i = k
  <2>1. i \in Nat /\ k \in Nat /\ i # 0 /\ k # 0
    BY <1>9
  <2>2. ComesFrom(a, n, from, nth, h, i) /\ ComesFrom(a, n, from, nth, g, k)
    BY <1>10
  <2> QED BY <1>11, <2>1, <2>2 DEF ComesFrom
<1>12. MovedFrom(c, held, held2, from, nth)
  BY <1>1, <1>9, <1>10 DEF MovedFrom
<1>13. \A h \in 0 .. A, g \in 0 .. A : \A i \in 1 .. Len(held2[h]), k \in 1 .. Len(held2[g]) :
         from[h][i] = from[g][k] /\ nth[h][i] = nth[g][k] => h = g /\ i = k
  BY <1>11
<1>14. FromOne(c, held2, from, nth)
  BY <1>1, <1>13 DEF FromOne
<1> QED BY <1>5, <1>12, <1>14, DeliveredMoved

-----------------------------------------------------------------------------
(* What the actors have together.                                            *)

\* Pieces that share no environment of a stage, and as many as it takes for all of them.
Spread(c, v, workers, g, n) ==
    /\ n \in Nat \ {0} /\ g \in [1 .. n -> Piece]
    /\ \A i \in 1 .. n : IsPart(c, v, workers, g[i])
    /\ \A i, k \in 1 .. n : \A j, l \in 1 .. Width(c) : Alike(g[i], g[k], j, l) => i = k /\ j = l
    /\ n * Width(c) = c.stages * (c.envWorkers * PerWorker(c))

CoveredBy(g, n, width, s, x) == \E i \in 1 .. n, j \in 1 .. width : g[i].stage = s /\ g[i].slots[j] = x

\* An environment of a trajectory is one of the job.
LEMMA SlotIs ==
    ASSUME NEW c, NEW v, NEW workers, NEW piece \in Piece, IsPart(c, v, workers, piece),
           NEW j \in 1 .. Width(c)
    PROVE  piece.stage \in 1 .. c.stages /\ piece.slots[j] \in Nat
             /\ piece.slots[j] < c.envWorkers * PerWorker(c)
<1>1. piece.slots \in Seq(Nat) /\ Len(piece.slots) = Width(c)
  BY DEF IsPart, Piece
<1>2. piece.slots[j] \in Nat
  BY <1>1, ElementOfSeq
<1> QED BY <1>2 DEF IsPart

\* There are as many places for environments in the pieces as there are environments.
LEMMA Covers ==
    ASSUME NEW c \in Configs, PerWorker(c) \in Nat \ {0}, NEW v, NEW workers, NEW g, NEW n,
           Spread(c, v, workers, g, n)
    PROVE  \A s \in 1 .. c.stages : \A x \in 0 .. c.envWorkers * PerWorker(c) - 1 :
              CoveredBy(g, n, Width(c), s, x)
<1>1. PICK S \in Nat \ {0}, W \in Nat \ {0}, K \in Nat, N \in Nat \ {0} :
        S = c.stages /\ W = Width(c) /\ K = c.envWorkers * PerWorker(c) /\ N = n /\ N * W = S * K
  <2>1. PICK E \in Nat \ {0}, P \in Nat \ {0} : E = c.envWorkers /\ P = PerWorker(c)
    BY JobNumbers
  <2>2. PICK K \in Nat : K = E * P
    OBVIOUS
  <2>3. Width(c) \in Nat \ {0} /\ c.stages \in Nat \ {0} /\ n \in Nat \ {0} /\ n * Width(c) = c.stages * K
    BY <2>1, <2>2, PartsFacts, JobNumbers DEF Spread
  <2> QED BY <2>1, <2>2, <2>3
<1>2. PICK D, T : D = (1 .. N) \X (1 .. W) /\ T = (1 .. S) \X (0 .. K - 1)
  OBVIOUS
<1>3. PICK f : f = [d \in D |-> <<g[d[1]].stage, g[d[1]].slots[d[2]]>>]
  OBVIOUS
<1>4. ASSUME NEW d \in D
      PROVE  \E i \in 1 .. N, j \in 1 .. W : d = <<i, j>> /\ f[d] = <<g[i].stage, g[i].slots[j]>>
               /\ f[d] \in T
  <2>1. PICK i \in 1 .. N, j \in 1 .. W : d = <<i, j>>
    BY <1>2
  <2>2. f[d] = <<g[i].stage, g[i].slots[j]>>
    BY <1>3, <2>1
  <2>3. g[i] \in Piece /\ IsPart(c, v, workers, g[i]) /\ j \in 1 .. Width(c)
    BY <1>1 DEF Spread
  <2>4. g[i].stage \in 1 .. S /\ g[i].slots[j] \in Nat /\ g[i].slots[j] < K
    BY <1>1, <2>3, SlotIs
  <2>5. g[i].slots[j] \in 0 .. K - 1
    BY <2>4
  <2> QED BY <1>2, <2>1, <2>2, <2>4, <2>5
<1>5. f \in [D -> T]
  BY <1>3, <1>4
<1>6. ASSUME NEW a \in D, NEW b \in D, f[a] = f[b] PROVE a = b
  <2>1. PICK i \in 1 .. N, j \in 1 .. W : a = <<i, j>> /\ f[a] = <<g[i].stage, g[i].slots[j]>>
    BY <1>4
  <2>2. PICK k \in 1 .. N, l \in 1 .. W : b = <<k, l>> /\ f[b] = <<g[k].stage, g[k].slots[l]>>
    BY <1>4
  <2>3. Alike(g[i], g[k], j, l)
    BY <1>6, <2>1, <2>2 DEF Alike
  <2>4. i = k /\ j = l
    BY <1>1, <2>3 DEF Spread
  <2> QED BY <2>1, <2>2, <2>4
<1>7. f \in Injection(D, T)
  BY <1>5, <1>6, Fun_IsInj
<1>8. /\ IsFiniteSet(D) /\ IsFiniteSet(T)
      /\ Cardinality(D) = N * W /\ Cardinality(T) = S * K
  <2>1. ASSUME NEW k \in Nat PROVE /\ IsFiniteSet(1 .. k) /\ Cardinality(1 .. k) = k
                                   /\ IsFiniteSet(0 .. k - 1) /\ Cardinality(0 .. k - 1) = k
    <3>1. 1 \in Int /\ 0 \in Int /\ k \in Int /\ k - 1 \in Int
      OBVIOUS
    <3>2. IsFiniteSet(1 .. k) /\ Cardinality(1 .. k) = (IF 1 > k THEN 0 ELSE k - 1 + 1)
      BY <3>1, FS_Interval
    <3>3. IsFiniteSet(0 .. k - 1) /\ Cardinality(0 .. k - 1) = (IF 0 > k - 1 THEN 0 ELSE (k - 1) - 0 + 1)
      BY <3>1, FS_Interval
    <3> QED BY <3>2, <3>3
  <2>2. N \in Nat /\ W \in Nat /\ S \in Nat /\ K \in Nat
    OBVIOUS
  <2>3. IsFiniteSet(D) /\ Cardinality(D) = Cardinality(1 .. N) * Cardinality(1 .. W)
    BY <1>2, <2>1, <2>2, FS_Product
  <2>4. IsFiniteSet(T) /\ Cardinality(T) = Cardinality(1 .. S) * Cardinality(0 .. K - 1)
    BY <1>2, <2>1, <2>2, FS_Product
  <2> QED BY <2>1, <2>2, <2>3, <2>4
<1>9. f \in Surjection(D, T)
  BY <1>1, <1>7, <1>8, FS_Injection
<1>10. ASSUME NEW s \in 1 .. S, NEW x \in 0 .. K - 1
       PROVE  CoveredBy(g, N, W, s, x)
  <2>1. PICK d \in D : f[d] = <<s, x>>
    <3>1. <<s, x>> \in T
      BY <1>2
    <3> QED BY <1>9, <3>1, Fun_SurjectionProperties
  <2>2. PICK i \in 1 .. N, j \in 1 .. W : d = <<i, j>> /\ f[d] = <<g[i].stage, g[i].slots[j]>>
    BY <1>4
  <2> QED BY <2>1, <2>2 DEF CoveredBy
<1> QED BY <1>1, <1>10

\* The trajectories of the actors, one actor after the other.
Gathered(c, coll) ==
    [n \in 1 .. c.actors * Share(c) |-> coll[StageOf(Share(c), n)].batch[CutOf(Share(c), n) + 1]]
Filled(c, coll) ==
    /\ coll \in [1 .. c.actors -> Collector]
    /\ \A a \in 1 .. c.actors : Len(coll[a].batch) = Share(c)

\* When each actor has its share, they have as many environments as there are.
LEMMA GatheredIs ==
    ASSUME NEW c \in Configs, PerWorker(c) \in Nat \ {0}, NEW v, NEW workers, NEW queue, NEW coll,
           Filled(c, coll),
           Delivered(c, v, workers, Held(c, queue, coll))
    PROVE  Spread(c, v, workers, Gathered(c, coll), c.actors * Share(c))
<1>1. PICK A \in Nat \ {0}, H \in Nat \ {0}, W \in Nat \ {0} : A = c.actors /\ H = Share(c) /\ W = Width(c)
  BY JobNumbers, PartsFacts
<1>2. PICK N \in Nat \ {0} : N = A * H
  OBVIOUS
<1>3. PICK held : held = Held(c, queue, coll)
  OBVIOUS
<1>4. PICK g : g = Gathered(c, coll)
  OBVIOUS
<1>5. ASSUME NEW n \in 1 .. N
      PROVE  \E a \in 1 .. A, i \in 1 .. H :
                /\ a = StageOf(H, n) /\ i = CutOf(H, n) + 1 /\ n = (a - 1) * H + i
                /\ g[n] = held[a][i] /\ g[n] \in Piece /\ i \in 1 .. Len(held[a])
  <2>0. n \in 1 .. A * H
    BY <1>2
  <2>1. PICK a \in 1 .. A, k \in 0 .. H - 1 : a = StageOf(H, n) /\ k = CutOf(H, n) /\ n = (a - 1) * H + k + 1
    <3>1. /\ StageOf(H, n) \in 1 .. A /\ CutOf(H, n) \in 0 .. H - 1
          /\ n = (StageOf(H, n) - 1) * H + CutOf(H, n) + 1
      BY <2>0, CutFacts
    <3> QED BY <3>1
  <2>2. PICK i \in 1 .. H : i = k + 1
    OBVIOUS
  <2>3. n = (a - 1) * H + i
    <3>1. PICK q \in Nat : q = (a - 1) * H
      OBVIOUS
    <3>2. n = q + k + 1
      BY <2>1, <3>1
    <3>3. q + k + 1 = q + i
      BY <2>2
    <3> QED BY <3>1, <3>2, <3>3
  <2>4. held[a] = coll[a].batch
    BY <1>1, <1>3 DEF Held
  <2>5. g[n] = coll[a].batch[i]
    BY <1>1, <1>2, <1>4, <2>1, <2>2 DEF Gathered
  <2>6. coll[a].batch \in Seq(Piece) /\ Len(coll[a].batch) = H
    BY <1>1 DEF Filled, Collector
  <2>7. coll[a].batch[i] \in Piece
    BY <2>6, ElementOfSeq
  <2> QED BY <2>1, <2>2, <2>3, <2>4, <2>5, <2>6, <2>7
<1>6. g \in [1 .. N -> Piece]
  BY <1>1, <1>2, <1>4, <1>5 DEF Gathered
<1>7. ASSUME NEW n \in 1 .. N PROVE IsPart(c, v, workers, g[n])
  <2>1. PICK a \in 1 .. A, i \in 1 .. H : g[n] = held[a][i] /\ i \in 1 .. Len(held[a])
    BY <1>5
  <2> QED BY <1>1, <1>3, <2>1 DEF Delivered
<1>8. ASSUME NEW n \in 1 .. N, NEW m \in 1 .. N, NEW j \in 1 .. W, NEW l \in 1 .. W, Alike(g[n], g[m], j, l)
      PROVE  n = m /\ j = l
  <2>1. PICK a \in 1 .. A, i \in 1 .. H : n = (a - 1) * H + i /\ g[n] = held[a][i] /\ i \in 1 .. Len(held[a])
    BY <1>5
  <2>2. PICK b \in 1 .. A, k \in 1 .. H : m = (b - 1) * H + k /\ g[m] = held[b][k] /\ k \in 1 .. Len(held[b])
    BY <1>5
  <2>3. Alike(held[a][i], held[b][k], j, l)
    BY <1>8, <2>1, <2>2
  <2>4. a \in 0 .. A /\ b \in 0 .. A
    OBVIOUS
  <2>5. Apart(c, held)
    BY <1>3 DEF Delivered
  <2>6. a = b /\ i = k /\ j = l
    <3>1. i \in 1 .. Len(held[a]) /\ k \in 1 .. Len(held[b])
      BY <2>1, <2>2
    <3> QED BY <1>1, <2>3, <2>4, <2>5, <3>1 DEF Apart
  <2> QED BY <2>1, <2>2, <2>6
<1>9. N * W = c.stages * (c.envWorkers * PerWorker(c))
  <2>1. PICK E \in Nat, S \in Nat, p \in Nat, P \in Nat :
          /\ E = c.envWorkers /\ S = c.stages /\ p = Parts(c) /\ P = PerWorker(c)
          /\ W * p = P /\ A * H = (E * S) * p
    BY <1>1, JobNumbers, PartsFacts
  <2>2. ((E * S) * p) * W = S * (E * (W * p))
    OBVIOUS
  <2>3. N * W = S * (E * P)
    BY <1>2, <2>1, <2>2
  <2> QED BY <2>1, <2>3
<1> QED BY <1>1, <1>2, <1>4, <1>6, <1>7, <1>8, <1>9 DEF Spread

\* When the actors have all trajectories, every env worker has sent its own, and no other is on its way.
LEMMA AllSent ==
    ASSUME NEW c \in Configs, PerWorker(c) \in Nat \ {0}, NEW v, NEW workers, NEW queue \in Seq(Piece),
           NEW coll,
           Filled(c, coll), Delivered(c, v, workers, Held(c, queue, coll))
    PROVE  queue = <<>> /\ \A e \in 0 .. c.envWorkers - 1 : ~Interacting(workers[e])
<1>1. PICK A \in Nat \ {0}, H \in Nat \ {0}, W \in Nat \ {0}, E \in Nat \ {0}, P \in Nat \ {0},
      S \in Nat \ {0} :
        /\ A = c.actors /\ H = Share(c) /\ W = Width(c) /\ E = c.envWorkers /\ P = PerWorker(c)
        /\ S = c.stages
  BY JobNumbers, PartsFacts
<1>2. PICK N \in Nat, K \in Nat : N = A * H /\ K = E * P
  OBVIOUS
<1>3. PICK g : g = Gathered(c, coll) /\ Spread(c, v, workers, g, N)
  BY <1>1, <1>2, GatheredIs
<1>4. \A s \in 1 .. S : \A x \in 0 .. K - 1 : CoveredBy(g, N, W, s, x)
  <2>1. \A s \in 1 .. c.stages : \A x \in 0 .. c.envWorkers * PerWorker(c) - 1 : CoveredBy(g, N, Width(c), s, x)
    BY <1>3, Covers
  <2> QED BY <1>1, <1>2, <2>1
<1>5. ASSUME NEW e \in 0 .. E - 1 PROVE ~Interacting(workers[e])
  <2>1. PICK x \in Nat : x = e * P
    OBVIOUS
  <2>2. x \in 0 .. K - 1 /\ Within(c, e, x)
    <3>1. e \in Nat /\ e < E
      OBVIOUS
    <3>2. x + P <= K
      BY <1>2, <2>1, <3>1, Times
    <3>3. x \in 0 .. K - 1 /\ x <= x /\ x < x + P
      BY <3>2
    <3> QED BY <1>1, <2>1, <3>3 DEF Within
  <2>3. PICK i \in 1 .. N, j \in 1 .. W : g[i].slots[j] = x
    <3>1. 1 \in 1 .. S
      OBVIOUS
    <3> QED BY ZenonT(60), <1>4, <2>2, <3>1 DEF CoveredBy
  <2>4. IsPart(c, v, workers, g[i])
    BY <1>3 DEF Spread
  <2> QED BY <1>1, <2>2, <2>3, <2>4 DEF IsPart
<1>6. ASSUME queue # <<>> PROVE FALSE
  <2>1. 1 \in 1 .. Len(queue) /\ queue[1] \in Piece
    BY <1>6, Shorter
  <2>2. PICK held : held = Held(c, queue, coll) /\ held[0] = queue
          /\ \A a \in 1 .. A : held[a] = coll[a].batch
    BY <1>1 DEF Held
  <2>3. IsPart(c, v, workers, queue[1])
    BY <1>1, <2>1, <2>2 DEF Delivered
  <2>4. PICK s, x : s = queue[1].stage /\ x = queue[1].slots[1]
    OBVIOUS
  <2>5. 1 \in 1 .. W /\ s \in 1 .. S /\ x \in 0 .. K - 1
    <3>1. 1 \in 1 .. Width(c) /\ 1 \in 1 .. W
      BY <1>1
    <3>2. s \in 1 .. S /\ x \in Nat /\ x < K
      BY <1>1, <1>2, <2>1, <2>3, <2>4, <3>1, SlotIs
    <3> QED BY <3>1, <3>2
  <2>6. PICK n \in 1 .. N, j \in 1 .. W : g[n].stage = s /\ g[n].slots[j] = x
    <3>1. s \in 1 .. S /\ x \in 0 .. K - 1
      BY <2>5
    <3>2. CoveredBy(g, N, W, s, x)
      BY <1>4, <3>1
    <3> QED BY <3>2 DEF CoveredBy
  <2>7. PICK a \in 1 .. A, i \in 1 .. H : g[n] = held[a][i] /\ i \in 1 .. Len(held[a])
    <3>1. PICK a \in 1 .. A, k \in 0 .. H - 1 : a = StageOf(H, n) /\ k = CutOf(H, n)
      BY <1>2, CutFacts
    <3>2. PICK i \in 1 .. H : i = k + 1
      OBVIOUS
    <3>3. g[n] = coll[a].batch[i]
      BY <1>1, <1>2, <1>3, <3>1, <3>2 DEF Gathered
    <3>4. i \in 1 .. Len(coll[a].batch)
      BY <1>1 DEF Filled
    <3> QED BY <2>2, <3>3, <3>4
  <2>8. Alike(held[0][1], held[a][i], 1, j)
    BY <2>2, <2>4, <2>6, <2>7 DEF Alike
  <2>9. 0 \in 0 .. A /\ a \in 0 .. A /\ 1 \in 1 .. Len(held[0]) /\ a # 0
    BY <2>1, <2>2
  <2> QED BY <1>1, <2>2, <2>5, <2>7, <2>8, <2>9 DEF Delivered, Apart
<1> QED BY <1>1, <1>5, <1>6

-----------------------------------------------------------------------------
(* The steps of the env workers.                                             *)

\* At most one method is called and has not returned.
LEMMA CalledOne ==
    ASSUME NEW at, NEW calls, EnvCalled(at, calls) \/ RolloutCalled(at, calls), calls # <<>>
    PROVE  Tail(calls) = <<>> /\ calls = <<Head(calls)>>
<1>1. PICK method \in {"interact", "prefetch", "evaluate", "generate"} : calls = <<method>>
  BY DEF EnvCalled, RolloutCalled
<1>2. Head(<<method>>) = method /\ Tail(<<method>>) = <<>>
  BY SMTT(60)
<1> QED BY <1>1, <1>2

\* The version of an answer is the one of its number.
LEMMA AppendedIs ==
    ASSUME LoopInv, WholeInv, NEW e \in EnvRank, Interacting(env[e]),
           Ready(resultChannel, e, FromRollout(e), "train")
    PROVE  Appended(e) = [env[e].steps EXCEPT ![env[e].at.stage] =
                             Append(env[e].steps[env[e].at.stage], NextRecord(cfg, weights, env[e]))]
<1>0. PICK c, to, workers, answers, asks, w : Known(c, to, workers, answers, asks, e, w)
  BY KnownIs
<1>1. /\ c = cfg /\ to = ranks.toRollout /\ workers = env /\ answers = resultChannel /\ asks = obsChannel
      /\ c \in Configs /\ Good(c, to, workers, answers, asks) /\ Knows(c, to)
      /\ e \in 0 .. c.envWorkers - 1 /\ w = workers[e] /\ w \in EnvWorker(c.stages) /\ Place(c, w) /\ Owned(w)
  BY <1>0 DEF Known
<1>2. PICK E \in Nat, R \in Nat, S \in Nat \ {0} : E = c.envWorkers /\ R = c.rolloutWorkers /\ S = c.stages
  BY <1>1, JobNumbers
<1>3. PICK v : v = weights
  OBVIOUS
<1>40. PICK P \in Nat \ {0} : P = PerWorker(c)
  BY <1>1 DEF Knows
<1>41. PICK parts : parts = to[e]
  OBVIOUS
<1>4. parts = to[e] /\ P = PerWorker(c) /\ Shares(parts, P, R)
  BY <1>1, <1>2, <1>40, <1>41 DEF Knows
<1>5. FromRollout(e) = parts
  BY <1>1, <1>4, InvFacts
<1>6. PICK m \in Mode : m = "train"
  BY Modes
<1>7. PICK x : x = Merged(answers, e, parts, m)
  OBVIOUS
<1>8. AllOf(x, answers, e, parts, m, Reply, P)
  <2>1. answers \in Queues(R, E, Reply) /\ e \in 0 .. E - 1 /\ Ready(answers, e, parts, m)
    BY <1>1, <1>2, <1>5, <1>6 DEF Good
  <2> QED BY <1>4, <1>7, <2>1, MergedIs
<1>9. PICK queue : queue = answers[<<parts[1].rank, e, "train">>]
  OBVIOUS
<1>10. x[1] = Head(queue)[1] /\ queue # <<>> /\ 1 \in 1 .. Len(Head(queue)) /\ 1 \in 1 .. Len(parts)
  BY SMTT(60), <1>6, <1>8, <1>9 DEF AllOf
<1>11. InOrder(c, v, Took(c, w), Gave(c, rollout[parts[1].rank]), queue)
  <2>1. Answered(c, v, to, workers, rollout, answers)
    BY <1>1, <1>3 DEF WholeInv
  <2> QED BY <1>1, <1>4, <1>9, <1>10, <2>1 DEF Answered
<1>12. queue \in Seq(Seq(Reply))
  <2>1. parts[1].rank \in 0 .. R - 1
    BY <1>4, <1>10 DEF Shares
  <2>2. <<parts[1].rank, e, "train">> \in (0 .. R - 1) \X (0 .. E - 1) \X Mode
    BY <1>1, <1>2, <2>1, Modes
  <2> QED BY <1>1, <1>2, <1>9, <2>2 DEF Good, Queues
<1>13. Keeps(c, v, w)
  BY <1>1, <1>3 DEF WholeInv
<1>14. PICK t \in Nat : t = Took(c, w)
  <2>1. w.at.epoch \in 1 .. c.epochs
    BY <1>1, <1>13 DEF Keeps
  <2>2. Made(c, w) * c.stages \in Nat
    BY <1>1, <2>1, MadeType
  <2>3. w.at.stage \in 1 .. S
    BY <1>1, <1>2, WorkerFields
  <2> QED BY <1>1, <2>2, <2>3 DEF Took
<1>15. x[1].version = VersionAt(c, v, t)
  <2>1. PICK k \in Nat : Len(queue) = k + 1 /\ Head(queue) = queue[1]
    BY <1>10, <1>12, Shorter
  <2>2. 1 \in 1 .. Len(queue)
    BY <2>1
  <2>3. queue[1][1].version = VersionAt(c, v, t + 1 - 1)
    BY <1>10, <1>11, <1>14, <2>1, <2>2 DEF InOrder
  <2>4. t + 1 - 1 = t
    OBVIOUS
  <2> QED BY <1>10, <2>1, <2>3, <2>4
<1>16. VersionAt(c, v, t) = VersionIn(c, v, Made(c, w) + 1)
  <2>1. w.at.epoch \in 1 .. c.epochs
    BY <1>1, <1>13 DEF Keeps
  <2> QED BY <1>1, <1>14, <2>1, VersionNext
<1>17. Acted(e, "train").answer = x
  BY <1>1, <1>5, <1>6, <1>7 DEF Acted
<1>18. [time |-> w.clock["train"][w.at.stage], version |-> Acted(e, "train").answer[1].version] = NextRecord(c, v, w)
  BY <1>15, <1>16, <1>17 DEF NextRecord
<1>19. w.steps \in [1 .. S -> Seq(StepRecord)] /\ w.at.stage \in 1 .. S
  BY <1>1, <1>2, WorkerFields DEF StepRecord
<1> QED BY <1>1, <1>3, <1>18, <1>19 DEF Appended

\* An env worker moves on, and sends no trajectories.
EnvMoves(e, w2) ==
    /\ env' = [env EXCEPT ![e] = w2] /\ w2.calls \in {env[e].calls, <<>>}
    /\ Keeps(cfg, weights, w2)
    /\ Answered(cfg, weights, ranks.toRollout, env', rollout, resultChannel')
    /\ UNCHANGED <<cfg, ranks, progress, weights, rollout, collector>>

\* What a step of one env worker leaves of the others.
LEMMA OthersStay ==
    ASSUME LoopInv, WholeInv, NEW e \in EnvRank, NEW w2, EnvMoves(e, w2)
    PROVE  /\ DOMAIN env = 0 .. cfg.envWorkers - 1 /\ env'[e] = w2
           /\ \A d \in 0 .. cfg.envWorkers - 1 : d # e => env'[d] = env[d]
           /\ \A d \in 0 .. cfg.envWorkers - 1 :
                 /\ env'[d].calls = env[d].calls \/ env'[d].calls = <<>>
                 /\ Interacting(env'[d]) => Interacting(env[d])
                 /\ Keeps(cfg, weights, env'[d])
<1>1. DOMAIN env = 0 .. cfg.envWorkers - 1
  BY DEF LoopInv, Good
<1>2. env' = [env EXCEPT ![e] = w2] /\ e \in 0 .. cfg.envWorkers - 1 /\ w2.calls \in {env[e].calls, <<>>}
  BY DEF EnvMoves, EnvRank
<1>3. env'[e] = w2 /\ \A d \in 0 .. cfg.envWorkers - 1 : d # e => env'[d] = env[d]
  BY <1>1, <1>2
<1>4. ASSUME NEW d \in 0 .. cfg.envWorkers - 1 PROVE env'[d].calls = env[d].calls \/ env'[d].calls = <<>>
  BY <1>2, <1>3
<1>5. ASSUME NEW d \in 0 .. cfg.envWorkers - 1, Interacting(env'[d]) PROVE Interacting(env[d])
  BY <1>4, <1>5 DEF Interacting, Executes
<1>6. ASSUME NEW d \in 0 .. cfg.envWorkers - 1 PROVE Keeps(cfg, weights, env'[d])
  BY <1>3 DEF EnvMoves, WholeInv
<1> QED BY <1>1, <1>3, <1>4, <1>5, <1>6

\* A step of an env worker calls no method.
LEMMA EnvMovesCalled ==
    ASSUME LoopInv, WholeInv, NEW e \in EnvRank, NEW w2, EnvMoves(e, w2)
    PROVE  CalledBy(cfg, progress, env', rollout)
<1>1. \A d \in 0 .. cfg.envWorkers - 1 : env'[d].calls = env[d].calls \/ env'[d].calls = <<>>
  BY OthersStay
<1>2. CalledBy(cfg, progress, env, rollout)
  BY DEF WholeInv
<1>3. \A d \in 0 .. cfg.envWorkers - 1 : EnvCalled(progress.at, env'[d].calls)
  BY <1>1, <1>2 DEF CalledBy, EnvCalled
<1>4. progress.at = "training" /\ ~(cfg.overlap /\ progress.step + 1 < cfg.maxSteps) =>
          \A d \in 0 .. cfg.envWorkers - 1 : env'[d].calls = <<>>
  BY <1>1, <1>2 DEF CalledBy
<1> QED BY <1>2, <1>3, <1>4 DEF CalledBy

\* What is known of the trajectories after the step.
Collected(traj) ==
    /\ traj \in Seq(Piece)
    /\ progress.at # "rollouts" => traj = <<>>
    /\ progress.at \in {"rollouts", "training"} => Delivered(cfg, weights, env', Held(cfg, traj, collector))

\* A step of an env worker keeps the invariant if it keeps what is delivered.
LEMMA EnvMovesOn ==
    ASSUME LoopInv, WholeInv, NEW e \in EnvRank, NEW w2, EnvMoves(e, w2), Collected(trajectories')
    PROVE  WholeInv'
<1>1. UNCHANGED <<cfg, ranks, progress, weights, rollout, collector>>
  BY DEF EnvMoves
<1>2. Synced(cfg', progress', weights') /\ collector' \in [1 .. cfg'.actors -> Collector]
  BY <1>1 DEF WholeInv
<1>3. CalledBy(cfg', progress', env', rollout')
  BY <1>1, EnvMovesCalled
<1>4. \A d \in 0 .. cfg'.envWorkers - 1 : Keeps(cfg', weights', env'[d])
  BY <1>1, OthersStay
<1>5. Answered(cfg', weights', ranks'.toRollout, env', rollout', resultChannel')
  BY <1>1 DEF EnvMoves
<1>6. progress'.at \in {"rollouts", "training"} =>
          /\ \A a \in 1 .. cfg'.actors : collector'[a].left + Len(collector'[a].batch) = Share(cfg')
          /\ Delivered(cfg', weights', env', Held(cfg', trajectories', collector'))
  BY <1>1 DEF WholeInv, Collected
<1>7. progress'.at = "training" =>
          /\ \A a \in 1 .. cfg'.actors : collector'[a].left = 0
          /\ \A d \in 0 .. cfg'.envWorkers - 1 : ~Interacting(env'[d])
  BY <1>1, OthersStay DEF WholeInv
<1>8. trajectories' \in Seq(Piece) /\ (progress'.at # "rollouts" => trajectories' = <<>>)
  BY <1>1 DEF Collected
<1> QED BY <1>2, <1>3, <1>4, <1>5, <1>6, <1>7, <1>8 DEF WholeInv

\* A step of an env worker that puts no trajectories keeps the invariant.
LEMMA EnvMovesAlone ==
    ASSUME LoopInv, WholeInv, NEW e \in EnvRank, NEW w2, EnvMoves(e, w2), trajectories' = trajectories
    PROVE  WholeInv'
<1>1. Done(cfg, env, env')
  BY OthersStay DEF Done
<1>2. Collected(trajectories)
  <2>1. ASSUME progress.at \in {"rollouts", "training"}
        PROVE  Delivered(cfg, weights, env', Held(cfg, trajectories, collector))
    <3>1. Delivered(cfg, weights, env, Held(cfg, trajectories, collector))
      BY <2>1 DEF WholeInv
    <3>2. PICK c, v, workers, workers2, held :
            /\ c = cfg /\ v = weights /\ workers = env /\ workers2 = env'
            /\ held = Held(cfg, trajectories, collector)
      OBVIOUS
    <3>3. Delivered(c, v, workers, held) /\ Done(c, workers, workers2)
      BY <1>1, <3>1, <3>2
    <3> QED BY <3>2, <3>3, DeliveredStill
  <2> QED BY <2>1 DEF Collected, WholeInv
<1>3. Collected(trajectories')
  BY <1>2
<1> QED BY <1>3, EnvMovesOn

\* Each step of an env worker keeps the invariant.
LEMMA BeginEpochWhole ==
    ASSUME LoopInv, WholeInv, NEW e \in EnvRank, BeginEpoch(e)
    PROVE  WholeInv'
<1>0. PICK c, to, workers, answers, asks, w : Known(c, to, workers, answers, asks, e, w)
  BY KnownIs
<1>1. /\ c = cfg /\ to = ranks.toRollout /\ workers = env /\ answers = resultChannel /\ asks = obsChannel
      /\ c \in Configs /\ Good(c, to, workers, answers, asks) /\ Knows(c, to)
      /\ e \in 0 .. c.envWorkers - 1 /\ w = workers[e] /\ w \in EnvWorker(c.stages) /\ Place(c, w) /\ Owned(w)
  BY <1>0 DEF Known
<1>2. PICK S \in Nat \ {0} : S = c.stages
  BY <1>1, JobNumbers
<1>3. w.at.epoch \in Nat /\ w.at \in [epoch : Nat, chunk : Nat, stage : 1 .. S]
  BY <1>1, <1>2, WorkerFields
<1>4. PICK begun : begun = [w EXCEPT !.at.chunk = 1]
  OBVIOUS
<1>5. /\ begun \in EnvWorker(c.stages) /\ begun.calls = w.calls /\ At(begun, w.at.epoch, 1, w.at.stage)
      /\ begun.steps = w.steps /\ begun.clock = w.clock
  BY <1>1, <1>2, <1>3, <1>4 DEF EnvWorker, At
<1>6. /\ Executes(w, "interact") /\ w.at.chunk = 0 /\ resultChannel' = resultChannel
      /\ \/ env' = [env EXCEPT ![e] = [begun EXCEPT !.prefetched = FALSE]]
         \/ Bootstrap(e, "train", ~cfg.autoReset, begun)
  BY <1>1, <1>4 DEF BeginEpoch
<1>7. PICK w2 \in EnvWorker(c.stages) :
        /\ env' = [env EXCEPT ![e] = w2] /\ w2.calls = w.calls /\ At(w2, w.at.epoch, 1, w.at.stage)
        /\ w2.steps = w.steps
  <2>1. CASE env' = [env EXCEPT ![e] = [begun EXCEPT !.prefetched = FALSE]]
    <3>1. PICK w2 : w2 = [begun EXCEPT !.prefetched = FALSE]
      OBVIOUS
    <3>2. w2 \in EnvWorker(c.stages) /\ w2.calls = begun.calls /\ w2.at = begun.at /\ w2.steps = begun.steps
      BY <1>5, <3>1 DEF EnvWorker
    <3> QED BY <1>5, <2>1, <3>1, <3>2 DEF At
  <2>2. CASE Bootstrap(e, "train", ~cfg.autoReset, begun)
    <3>1. PICK m \in Mode, reset \in BOOLEAN : m = "train" /\ reset = ~cfg.autoReset
      BY Modes
    <3>2. Bootstrap(e, m, reset, begun) /\ begun.clock = env[e].clock /\ begun \in EnvWorker(cfg.stages)
      BY <1>1, <1>5, <2>2, <3>1
    <3>3. PICK w2 \in EnvWorker(cfg.stages) : env' = [env EXCEPT ![e] = w2] /\ Leaves(w2, begun, m)
      BY <3>2, BootstrapIs
    <3> QED BY <1>1, <1>5, <3>3 DEF Leaves, At
  <2> QED BY <1>6, <2>1, <2>2
<1>8. UNCHANGED <<cfg, ranks, progress, weights, rollout, collector, trajectories>>
  BY DEF BeginEpoch
<1>9. Interacting(w) /\ Interacting(w2) /\ w.at.stage = 1
  BY <1>1, <1>6, <1>7 DEF Interacting, Executes, Place
<1>10. PICK v, rolls : v = weights /\ rolls = rollout
  OBVIOUS
<1>11. Keeps(c, v, w) /\ Answered(c, v, to, workers, rolls, answers)
  BY <1>1, <1>10 DEF WholeInv
<1>12. Keeps(c, v, w2) /\ Took(c, w2) = Took(c, w)
  BY <1>1, <1>6, <1>7, <1>9, <1>11, KeepsBegin
<1>13. Answered(c, v, to, [workers EXCEPT ![e] = w2], rolls, answers)
  <2>1. DOMAIN workers = 0 .. c.envWorkers - 1
    BY <1>1 DEF Good
  <2> QED BY <1>1, <1>11, <1>12, <2>1, AnsweredMoved
<1>14. EnvMoves(e, w2)
  BY <1>1, <1>6, <1>7, <1>8, <1>10, <1>12, <1>13 DEF EnvMoves
<1> QED BY <1>8, <1>14, EnvMovesAlone

\* An env worker does something else: it prefetches or evaluates.
Aside(e, w2) ==
    /\ w2 \in EnvWorker(cfg.stages) /\ env' = [env EXCEPT ![e] = w2] /\ w2.calls \in {env[e].calls, <<>>}
    /\ w2.steps = env[e].steps /\ ~Interacting(env[e])
    /\ \/ resultChannel' = resultChannel
       \/ resultChannel' = Taken(resultChannel, e, ranks.toRollout[e], "eval")
    /\ UNCHANGED <<cfg, ranks, progress, weights, rollout, collector, trajectories>>

LEMMA AsideWhole ==
    ASSUME LoopInv, WholeInv, NEW e \in EnvRank, NEW w2, Aside(e, w2)
    PROVE  WholeInv'
<1>0. PICK c, to, workers, answers, asks, w : Known(c, to, workers, answers, asks, e, w)
  BY KnownIs
<1>1. /\ c = cfg /\ to = ranks.toRollout /\ workers = env /\ answers = resultChannel /\ asks = obsChannel
      /\ c \in Configs /\ Good(c, to, workers, answers, asks) /\ Knows(c, to)
      /\ e \in 0 .. c.envWorkers - 1 /\ w = workers[e] /\ w \in EnvWorker(c.stages) /\ Place(c, w) /\ Owned(w)
  BY <1>0 DEF Known
<1>2. /\ w2 \in EnvWorker(c.stages) /\ env' = [workers EXCEPT ![e] = w2] /\ w2.calls \in {w.calls, <<>>}
      /\ w2.steps = w.steps /\ ~Interacting(w)
      /\ resultChannel' = answers \/ resultChannel' = Taken(answers, e, to[e], "eval")
  BY <1>1 DEF Aside
<1>3. ~Interacting(w2)
  BY <1>2 DEF Interacting, Executes
<1>4. PICK v, rolls : v = weights /\ rolls = rollout
  OBVIOUS
<1>5. Keeps(c, v, w) /\ Answered(c, v, to, workers, rolls, answers)
  BY <1>1, <1>4 DEF WholeInv
<1>6. Keeps(c, v, w2) /\ Took(c, w2) = Took(c, w)
  BY <1>2, <1>3, <1>5 DEF Keeps, Took
<1>7. PICK workers2 : workers2 = [workers EXCEPT ![e] = w2]
  OBVIOUS
<1>8. Answered(c, v, to, workers2, rolls, answers)
  <2>1. DOMAIN workers = 0 .. c.envWorkers - 1
    BY <1>1 DEF Good
  <2> QED BY <1>1, <1>5, <1>6, <1>7, <2>1, AnsweredMoved
<1>9. Answered(c, v, to, workers2, rolls, Taken(answers, e, to[e], "eval"))
  <2>1. answers \in Queues(c.rolloutWorkers, c.envWorkers, Reply)
    BY <1>1 DEF Good
  <2> QED BY <1>1, <1>8, <2>1, AnsweredEval
<1>10. Answered(c, v, to, workers2, rolls, resultChannel')
  BY <1>2, <1>8, <1>9
<1>11. UNCHANGED <<cfg, ranks, progress, weights, rollout, collector, trajectories>>
  BY DEF Aside
<1>12. EnvMoves(e, w2)
  BY <1>1, <1>2, <1>4, <1>6, <1>7, <1>10, <1>11 DEF EnvMoves
<1> QED BY <1>11, <1>12, EnvMovesAlone

LEMMA PrefetchWhole ==
    ASSUME LoopInv, WholeInv, NEW e \in EnvRank, PrefetchBootstrap(e)
    PROVE  WholeInv'
<1>0. PICK c, to, workers, answers, asks, w : Known(c, to, workers, answers, asks, e, w)
  BY KnownIs
<1>1. /\ c = cfg /\ to = ranks.toRollout /\ workers = env /\ answers = resultChannel /\ asks = obsChannel
      /\ c \in Configs /\ Good(c, to, workers, answers, asks) /\ Knows(c, to)
      /\ e \in 0 .. c.envWorkers - 1 /\ w = workers[e] /\ w \in EnvWorker(c.stages) /\ Place(c, w) /\ Owned(w)
  BY <1>0 DEF Known
<1>2. PICK S \in Nat \ {0} : S = c.stages
  BY <1>1, JobNumbers
<1>3. PICK begun : begun = [Returned(w) EXCEPT !.prefetched = TRUE]
  OBVIOUS
<1>4. Executes(w, "prefetch") /\ Bootstrap(e, "train", ~cfg.autoReset, begun)
  BY <1>1, <1>3 DEF PrefetchBootstrap
<1>5. Tail(w.calls) = <<>> /\ ~Interacting(w)
  <2>1. EnvCalled(progress.at, w.calls)
    BY <1>1 DEF WholeInv, CalledBy
  <2> QED BY <1>4, <2>1, CalledOne DEF Executes, Interacting
<1>6. /\ begun \in EnvWorker(c.stages) /\ begun.calls = <<>> /\ begun.steps = w.steps /\ begun.clock = w.clock
  <2>1. <<>> \in Seq(Methods)
    OBVIOUS
  <2>2. Beginning \in [epoch : Nat, chunk : Nat, stage : 1 .. S]
    BY DEF Beginning
  <2> QED BY <1>1, <1>2, <1>3, <1>5, <2>1, <2>2 DEF EnvWorker, Returned
<1>7. PICK m \in Mode, reset \in BOOLEAN : m = "train" /\ reset = ~cfg.autoReset
  BY Modes
<1>8. Bootstrap(e, m, reset, begun) /\ begun.clock = env[e].clock /\ begun \in EnvWorker(cfg.stages)
  BY <1>1, <1>4, <1>6, <1>7
<1>9. PICK w2 \in EnvWorker(cfg.stages) : env' = [env EXCEPT ![e] = w2] /\ Leaves(w2, begun, m)
  BY <1>8, BootstrapIs
<1>10. UNCHANGED <<cfg, ranks, progress, weights, rollout, collector, trajectories>>
         /\ resultChannel' = resultChannel
  BY DEF PrefetchBootstrap
<1>11. Aside(e, w2)
  BY <1>1, <1>5, <1>6, <1>9, <1>10 DEF Aside, Leaves
<1> QED BY <1>11, AsideWhole

LEMMA BeginEvalWhole ==
    ASSUME LoopInv, WholeInv, NEW e \in EnvRank, BeginEvalEpoch(e)
    PROVE  WholeInv'
<1>0. PICK c, to, workers, answers, asks, w : Known(c, to, workers, answers, asks, e, w)
  BY KnownIs
<1>1. /\ c = cfg /\ to = ranks.toRollout /\ workers = env /\ answers = resultChannel /\ asks = obsChannel
      /\ c \in Configs /\ Good(c, to, workers, answers, asks) /\ Knows(c, to)
      /\ e \in 0 .. c.envWorkers - 1 /\ w = workers[e] /\ w \in EnvWorker(c.stages) /\ Place(c, w) /\ Owned(w)
  BY <1>0 DEF Known
<1>2. PICK S \in Nat \ {0} : S = c.stages
  BY <1>1, JobNumbers
<1>3. w.at \in [epoch : Nat, chunk : Nat, stage : 1 .. S]
  BY <1>1, <1>2, WorkerFields
<1>4. PICK begun : begun = [w EXCEPT !.at.chunk = 1]
  OBVIOUS
<1>5. begun \in EnvWorker(c.stages) /\ begun.calls = w.calls /\ begun.steps = w.steps /\ begun.clock = w.clock
  BY <1>1, <1>2, <1>3, <1>4 DEF EnvWorker
<1>6. Executes(w, "evaluate") /\ (env' = [env EXCEPT ![e] = begun] \/ Bootstrap(e, "eval", TRUE, begun))
  BY <1>1, <1>4 DEF BeginEvalEpoch
<1>7. PICK w2 \in EnvWorker(cfg.stages) :
        env' = [env EXCEPT ![e] = w2] /\ w2.calls = begun.calls /\ w2.steps = begun.steps
  <2>1. CASE env' = [env EXCEPT ![e] = begun]
    BY <1>1, <1>5, <2>1
  <2>2. CASE Bootstrap(e, "eval", TRUE, begun)
    <3>1. PICK m \in Mode, reset \in BOOLEAN : m = "eval" /\ reset = TRUE
      BY Modes
    <3>2. Bootstrap(e, m, reset, begun) /\ begun.clock = env[e].clock /\ begun \in EnvWorker(cfg.stages)
      BY <1>1, <1>5, <2>2, <3>1
    <3>3. PICK w2 \in EnvWorker(cfg.stages) : env' = [env EXCEPT ![e] = w2] /\ Leaves(w2, begun, m)
      BY <3>2, BootstrapIs
    <3> QED BY <3>3 DEF Leaves
  <2> QED BY <1>6, <2>1, <2>2
<1>8. UNCHANGED <<cfg, ranks, progress, weights, rollout, collector, trajectories>>
        /\ resultChannel' = resultChannel
  BY DEF BeginEvalEpoch
<1>9. ~Interacting(w)
  BY <1>6 DEF Interacting, Executes
<1>10. Aside(e, w2)
  BY <1>1, <1>5, <1>7, <1>8, <1>9 DEF Aside
<1> QED BY <1>10, AsideWhole

LEMMA EvaluateWhole ==
    ASSUME LoopInv, WholeInv, NEW e \in EnvRank, EvaluateStep(e)
    PROVE  WholeInv'
<1>0. PICK c, to, workers, answers, asks, w : Known(c, to, workers, answers, asks, e, w)
  BY KnownIs
<1>1. /\ c = cfg /\ to = ranks.toRollout /\ workers = env /\ answers = resultChannel /\ asks = obsChannel
      /\ c \in Configs /\ Good(c, to, workers, answers, asks) /\ Knows(c, to)
      /\ e \in 0 .. c.envWorkers - 1 /\ w = workers[e] /\ w \in EnvWorker(c.stages) /\ Place(c, w) /\ Owned(w)
  BY <1>0 DEF Known
<1>2. PICK S \in Nat \ {0} : S = c.stages
  BY <1>1, JobNumbers
<1>3. w.at \in [epoch : Nat, chunk : Nat, stage : 1 .. S] /\ w.calls \in Seq(Methods)
  BY <1>1, <1>2, WorkerFields
<1>4. PICK place : place = After(w.at)
  OBVIOUS
<1>40. PICK ends \in BOOLEAN : ends = (w.at.chunk = c.evalChunks /\ w.at.stage = S)
  OBVIOUS
<1>5. PICK worker : worker = IF ~ends THEN [w EXCEPT !.at = place]
                             ELSE IF w.at.epoch < c.evalEpochs THEN [w EXCEPT !.at = NextEpoch(w.at)]
                             ELSE Returned(w)
  OBVIOUS
<1>6. PICK sends \in BOOLEAN : sends = SendsAfterEval(w.at)
  BY DEF SendsAfterEval
<1>7. PICK m \in Mode : m = "eval"
  BY Modes
<1>8. Executes(w, "evaluate") /\ ChunkStep(e, m, sends, worker)
  BY <1>1, <1>2, <1>4, <1>40, <1>5, <1>6, <1>7 DEF EvaluateStep
<1>9. FirstOf(w, m) = w.at.stage
  BY <1>7, <1>8 DEF FirstOf
<1>10. Tail(w.calls) = <<>> /\ ~Interacting(w)
  <2>1. EnvCalled(progress.at, w.calls)
    BY <1>1 DEF WholeInv, CalledBy
  <2> QED BY <1>8, <2>1, CalledOne DEF Executes, Interacting
<1>11. /\ worker \in EnvWorker(c.stages) /\ worker.calls \in {w.calls, <<>>}
       /\ worker.steps = w.steps /\ worker.clock = w.clock
  <2>1. CASE ~ends
    <3>1. place \in [epoch : Nat, chunk : Nat, stage : 1 .. S]
      BY <1>1, <1>2, <1>3, <1>4, AfterIs
    <3> QED BY <1>1, <1>2, <1>5, <2>1, <3>1 DEF EnvWorker
  <2>2. CASE ends /\ w.at.epoch < c.evalEpochs
    <3>1. NextEpoch(w.at) \in [epoch : Nat, chunk : Nat, stage : 1 .. S]
      BY <1>3 DEF NextEpoch
    <3> QED BY <1>1, <1>2, <1>5, <2>2, <3>1 DEF EnvWorker
  <2>3. CASE ends /\ ~(w.at.epoch < c.evalEpochs)
    <3>1. Beginning \in [epoch : Nat, chunk : Nat, stage : 1 .. S] /\ <<>> \in Seq(Methods)
      BY DEF Beginning
    <3> QED BY <1>1, <1>2, <1>5, <1>10, <2>3, <3>1 DEF EnvWorker, Returned
  <2> QED BY <2>1, <2>2, <2>3
<1>12. worker \in EnvWorker(cfg.stages) /\ worker.clock = env[e].clock /\ FirstOf(env[e], m) = env[e].at.stage
  BY <1>1, <1>9, <1>11
<1>13. /\ resultChannel' = Taken(resultChannel, e, ranks.toRollout[e], m)
       /\ \E w2 \in EnvWorker(cfg.stages) : env' = [env EXCEPT ![e] = w2] /\ Leaves(w2, worker, m)
  BY ZenonT(120), <1>8, <1>12, ChunkStepIs
<1>14. PICK w2 \in EnvWorker(cfg.stages) : env' = [env EXCEPT ![e] = w2] /\ Leaves(w2, worker, m)
  BY <1>13
<1>15. UNCHANGED <<cfg, ranks, progress, weights, rollout, collector, trajectories>>
  BY <1>8 DEF ChunkStep
<1>16. Aside(e, w2)
  BY <1>1, <1>7, <1>10, <1>11, <1>13, <1>14, <1>15 DEF Aside, Leaves
<1> QED BY <1>16, AsideWhole

\* An env worker takes the answer for its stage, and interacts on.
TakesOn(e, w2) ==
    /\ w2 \in EnvWorker(cfg.stages) /\ env' = [env EXCEPT ![e] = w2] /\ w2.calls = env[e].calls
    /\ Interacting(env[e]) /\ Ready(resultChannel, e, ranks.toRollout[e], "train")
    /\ resultChannel' = Taken(resultChannel, e, ranks.toRollout[e], "train")
    /\ Follows(cfg, env[e], w2) /\ Notes(cfg, env[e], w2, NextRecord(cfg, weights, env[e]))
    /\ UNCHANGED <<cfg, ranks, progress, weights, rollout, collector, trajectories>>

\* The answers taken are a number.
LEMMA TookType ==
    ASSUME NEW c \in Configs, NEW v, NEW w \in EnvWorker(c.stages), Keeps(c, v, w)
    PROVE  Took(c, w) \in Nat
<1>1. PICK S \in Nat \ {0} : S = c.stages
  BY JobNumbers
<1>2. w.at.stage \in 1 .. S
  BY <1>1, WorkerFields
<1>3. CASE Interacting(w)
  <2>1. w.at.epoch \in 1 .. c.epochs
    BY <1>3 DEF Keeps
  <2>2. Made(c, w) * c.stages \in Nat
    BY <2>1, MadeType
  <2> QED BY <1>2, <1>3, <2>2 DEF Took
<1>4. CASE ~Interacting(w)
  <2>1. PICK k \in Nat, n \in Nat : k = PerEpoch(c) /\ n = c.epochs
    BY JobNumbers DEF PerEpoch
  <2>2. (n * k) * S \in Nat
    OBVIOUS
  <2> QED BY <1>1, <1>4, <2>1, <2>2 DEF Took, Recordings
<1> QED BY <1>3, <1>4

LEMMA TakesOnWhole ==
    ASSUME LoopInv, WholeInv, NEW e \in EnvRank, NEW w2, TakesOn(e, w2)
    PROVE  WholeInv'
<1>0. PICK c, to, workers, answers, asks, w : Known(c, to, workers, answers, asks, e, w)
  BY KnownIs
<1>1. /\ c = cfg /\ to = ranks.toRollout /\ workers = env /\ answers = resultChannel /\ asks = obsChannel
      /\ c \in Configs /\ Good(c, to, workers, answers, asks) /\ Knows(c, to)
      /\ e \in 0 .. c.envWorkers - 1 /\ w = workers[e] /\ w \in EnvWorker(c.stages) /\ Place(c, w) /\ Owned(w)
  BY <1>0 DEF Known
<1>20. PICK v \in Int : v = weights
  BY DEF LoopInv
<1>2. PICK rolls : v = weights /\ rolls = rollout
  BY <1>20
<1>3. /\ w2 \in EnvWorker(c.stages) /\ w2.calls = w.calls /\ Interacting(w)
      /\ env' = [workers EXCEPT ![e] = w2]
      /\ Ready(answers, e, to[e], "train") /\ resultChannel' = Taken(answers, e, to[e], "train")
      /\ Follows(c, w, w2) /\ Notes(c, w, w2, NextRecord(c, v, w))
  BY <1>1, <1>2 DEF TakesOn
<1>4. Interacting(w2)
  BY <1>3 DEF Interacting, Executes
<1>5. Keeps(c, v, w) /\ Answered(c, v, to, workers, rolls, answers)
  BY <1>1, <1>2 DEF WholeInv
<1>6. w.at.epoch \in 1 .. c.epochs
  BY <1>3, <1>5 DEF Keeps
<1>7. Keeps(c, v, w2)
  BY <1>1, <1>3, <1>4, <1>5, KeepsNext
<1>8. Took(c, w2) = Took(c, w) + 1 /\ Took(c, w) \in Nat
  BY <1>1, <1>3, <1>4, <1>5, <1>6, TookNext, TookType
<1>9. Answered(c, v, to, [workers EXCEPT ![e] = w2], rolls, Taken(answers, e, to[e], "train"))
  <2>1. /\ workers \in [0 .. c.envWorkers - 1 -> EnvWorker(c.stages)]
        /\ answers \in Queues(c.rolloutWorkers, c.envWorkers, Reply)
    BY <1>1 DEF Good
  <2>2. Took(c, w2) = Took(c, workers[e]) + 1 /\ Took(c, workers[e]) \in Nat
    BY <1>1, <1>8
  <2> QED BY <1>1, <1>3, <1>5, <2>1, <2>2, AnsweredTake
<1>10. UNCHANGED <<cfg, ranks, progress, weights, rollout, collector, trajectories>>
  BY DEF TakesOn
<1>11. EnvMoves(e, w2)
  BY <1>1, <1>2, <1>3, <1>7, <1>9, <1>10 DEF EnvMoves
<1> QED BY <1>10, <1>11, EnvMovesAlone

LEMMA InteractWhole ==
    ASSUME LoopInv, WholeInv, NEW e \in EnvRank, InteractStep(e)
    PROVE  WholeInv'
<1>0. PICK c, to, workers, answers, asks, w : Known(c, to, workers, answers, asks, e, w)
  BY KnownIs
<1>1. /\ c = cfg /\ to = ranks.toRollout /\ workers = env /\ answers = resultChannel /\ asks = obsChannel
      /\ c \in Configs /\ Good(c, to, workers, answers, asks) /\ Knows(c, to)
      /\ e \in 0 .. c.envWorkers - 1 /\ w = workers[e] /\ w \in EnvWorker(c.stages) /\ Place(c, w) /\ Owned(w)
  BY <1>0 DEF Known
<1>2. PICK S \in Nat \ {0} : S = c.stages
  BY <1>1, JobNumbers
<1>3. /\ w.at \in [epoch : Nat, chunk : Nat, stage : 1 .. S] /\ w.at.stage \in 1 .. S
      /\ w.steps \in [1 .. S -> Seq(StepRecord)]
  BY <1>1, <1>2, WorkerFields DEF StepRecord
<1>4. PICK place, steps : place = After(w.at) /\ steps = Appended(e)
  OBVIOUS
<1>5. PICK worker : worker = [w EXCEPT !.at = place, !.steps = steps]
  OBVIOUS
<1>6. Executes(w, "interact") /\ w.at.chunk \in 1 .. c.chunks /\ ChunkStep(e, "train", TRUE, worker)
  BY <1>1, <1>4, <1>5 DEF InteractStep
<1>7. FirstOf(w, "train") = w.at.stage
  BY <1>6 DEF FirstOf
<1>8. Ready(resultChannel, e, FromRollout(e), "train")
  BY <1>6 DEF ChunkStep, Receives
<1>9. steps \in [1 .. S -> Seq(StepRecord)]
  BY <1>1, <1>2, <1>4, <1>7, <1>8, AppendedType DEF StepRecord
<1>10. PICK x : x = NextRecord(cfg, weights, w)
  BY SMTT(60)
<1>11. steps = [w.steps EXCEPT ![w.at.stage] = Append(w.steps[w.at.stage], x)]
  BY <1>1, <1>4, <1>6, <1>8, <1>10, AppendedIs DEF Interacting
<1>12. place \in [epoch : Nat, chunk : Nat, stage : 1 .. S] /\ Onward(S, w.at, place)
  BY <1>1, <1>2, <1>3, <1>4, AfterIs
<1>13. /\ worker \in EnvWorker(c.stages) /\ worker.calls = w.calls /\ worker.at = place
       /\ worker.steps = steps /\ worker.clock = w.clock
  BY <1>1, <1>2, <1>5, <1>9, <1>12 DEF EnvWorker, StepRecord
<1>14. PICK m \in Mode, sends \in BOOLEAN : m = "train" /\ sends = TRUE
  BY Modes
<1>15. /\ ChunkStep(e, m, sends, worker) /\ FirstOf(env[e], m) = env[e].at.stage
       /\ worker \in EnvWorker(cfg.stages) /\ worker.clock = env[e].clock
  BY <1>1, <1>6, <1>7, <1>13, <1>14
<1>16. /\ Ready(resultChannel, e, ranks.toRollout[e], m)
       /\ resultChannel' = Taken(resultChannel, e, ranks.toRollout[e], m)
       /\ \E w2 \in EnvWorker(cfg.stages) :
             /\ env' = [env EXCEPT ![e] = w2] /\ Leaves(w2, worker, m) /\ Owned(w2)
             /\ \A y \in 1 .. cfg.stages : y # env[e].at.stage => w2.clock[m][y] = worker.clock[m][y]
             /\ w2.clock[m][env[e].at.stage] = worker.clock[m][env[e].at.stage] + 1
             /\ obsChannel' = IF sends THEN Sent(obsChannel, e, ranks.toRollout[e], m,
                                   <<View(e, PerWorker(cfg), m, env[e].at.stage, w2.clock[m][env[e].at.stage])>>)
                              ELSE obsChannel
  BY ZenonT(120), <1>15, ChunkStepIs
<1>17. PICK w2 \in EnvWorker(cfg.stages) :
         /\ env' = [env EXCEPT ![e] = w2] /\ Leaves(w2, worker, m)
         /\ \A y \in 1 .. cfg.stages : y # env[e].at.stage => w2.clock[m][y] = worker.clock[m][y]
         /\ w2.clock[m][env[e].at.stage] = worker.clock[m][env[e].at.stage] + 1
  BY ZenonT(30), <1>16
<1>18. w2.calls = w.calls /\ w2.at = place /\ w2.steps = steps
  BY <1>13, <1>17 DEF Leaves
<1>19. Follows(c, w, w2)
  <2>1. w.at.chunk \in 1 .. c.chunks + 1 /\ w.at.chunk <= c.chunks
    BY <1>1, <1>6, JobNumbers
  <2> QED BY <1>2, <1>12, <1>18, <2>1 DEF Follows
<1>20. Notes(c, w, w2, x)
  <2>1. w2.steps[w.at.stage] = Append(w.steps[w.at.stage], x)
          /\ \A s \in 1 .. S : s # w.at.stage => w2.steps[s] = w.steps[s]
    BY <1>3, <1>11, <1>18
  <2>2. \A s \in 1 .. S : s # w.at.stage => w2.clock["train"][s] = w.clock["train"][s]
    BY <1>1, <1>2, <1>13, <1>14, <1>17
  <2>3. w2.clock["train"][w.at.stage] = w.clock["train"][w.at.stage] + 1
    BY <1>1, <1>13, <1>14, <1>17
  <2> QED BY <1>2, <2>1, <2>2, <2>3 DEF Notes
<1>21. UNCHANGED <<cfg, ranks, progress, weights, rollout, collector, trajectories>>
  BY SMTT(60), <1>6 DEF ChunkStep
<1>22. TakesOn(e, w2)
  BY ZenonT(60), <1>1, <1>6, <1>10, <1>14, <1>16, <1>17, <1>18, <1>19, <1>20, <1>21 DEF TakesOn, Interacting
<1> QED BY <1>22, TakesOnWhole

\* The last stage of the last epoch has its last recording: the trajectories are sent.
Sends(e, w2) ==
    /\ w2 \in EnvWorker(cfg.stages) /\ env' = [env EXCEPT ![e] = w2] /\ w2.calls = <<>>
    /\ \A s \in 1 .. cfg.stages : w2.steps[s] = <<>>
    /\ Interacting(env[e]) /\ AtEnd(cfg, env[e]) /\ Ready(resultChannel, e, ranks.toRollout[e], "train")
    /\ resultChannel' = Taken(resultChannel, e, ranks.toRollout[e], "train")
    /\ trajectories' = trajectories \o Trajectories(e, Appended(e))
    /\ UNCHANGED <<cfg, ranks, progress, weights, rollout, collector>>

LEMMA SendsWhole ==
    ASSUME LoopInv, WholeInv, NEW e \in EnvRank, NEW w2, Sends(e, w2)
    PROVE  WholeInv'
<1>0. PICK c, to, workers, answers, asks, w : Known(c, to, workers, answers, asks, e, w)
  BY KnownIs
<1>1. /\ c = cfg /\ to = ranks.toRollout /\ workers = env /\ answers = resultChannel /\ asks = obsChannel
      /\ c \in Configs /\ Good(c, to, workers, answers, asks) /\ Knows(c, to)
      /\ e \in 0 .. c.envWorkers - 1 /\ w = workers[e] /\ w \in EnvWorker(c.stages) /\ Place(c, w) /\ Owned(w)
  BY <1>0 DEF Known
<1>20. PICK S \in Nat \ {0} : S = c.stages
  BY <1>1, JobNumbers
<1>21. PICK v \in Int : v = weights
  BY DEF LoopInv
<1>24. PICK rolls : rolls = rollout
  OBVIOUS
<1>2. v = weights /\ rolls = rollout /\ S = c.stages
  BY <1>20, <1>21, <1>24
<1>3. /\ w2 \in EnvWorker(c.stages) /\ w2.calls = <<>> /\ \A s \in 1 .. S : w2.steps[s] = <<>>
      /\ Interacting(w) /\ AtEnd(c, w) /\ env' = [workers EXCEPT ![e] = w2]
      /\ Ready(answers, e, to[e], "train") /\ resultChannel' = Taken(answers, e, to[e], "train")
  BY <1>1, <1>2 DEF Sends
<1>4. ~Interacting(w2)
  BY <1>3 DEF Interacting, Executes
<1>5. Keeps(c, v, w) /\ Answered(c, v, to, workers, rolls, answers) /\ progress.at = "rollouts"
  <2>1. EnvCalled(progress.at, w.calls)
    BY <1>1 DEF WholeInv, CalledBy
  <2>2. progress.at = "rollouts"
    BY <1>3, <2>1 DEF EnvCalled, Interacting, Executes
  <2> QED BY <1>1, <1>2, <2>2 DEF WholeInv
<1>6. Keeps(c, v, w2)
  BY <1>2, <1>3, <1>4 DEF Keeps
<1>7. Took(c, w2) = Took(c, w) + 1 /\ Took(c, w) \in Nat
  BY <1>1, <1>3, <1>4, <1>5, TookLast, TookType
<1>8. Answered(c, v, to, [workers EXCEPT ![e] = w2], rolls, Taken(answers, e, to[e], "train"))
  <2>1. /\ workers \in [0 .. c.envWorkers - 1 -> EnvWorker(c.stages)]
        /\ answers \in Queues(c.rolloutWorkers, c.envWorkers, Reply)
    BY <1>1 DEF Good
  <2>2. Took(c, w2) = Took(c, workers[e]) + 1 /\ Took(c, workers[e]) \in Nat
    BY <1>1, <1>7
  <2> QED BY <1>1, <1>3, <1>5, <2>1, <2>2, AnsweredTake
<1>9. EnvMoves(e, w2)
  BY <1>1, <1>2, <1>3, <1>6, <1>8 DEF EnvMoves, Sends
<1>10. PICK steps, t : steps = Appended(e) /\ t = Trajectories(e, steps)
  OBVIOUS
<1>11. /\ w.at.stage \in 1 .. S /\ w.steps \in [1 .. S -> Seq(StepRecord)]
       /\ steps = [w.steps EXCEPT ![w.at.stage] = Append(w.steps[w.at.stage], NextRecord(c, v, w))]
       /\ steps \in [1 .. S -> Seq(StepRecord)]
  <2>1. FromRollout(e) = to[e]
    BY <1>1, InvFacts
  <2>2. Ready(resultChannel, e, FromRollout(e), "train") /\ Interacting(env[e])
    BY <1>1, <1>3, <2>1
  <2>3. FirstOf(env[e], "train") = env[e].at.stage
    BY <2>2 DEF FirstOf, Interacting
  <2>4. steps = [w.steps EXCEPT ![w.at.stage] = Append(w.steps[w.at.stage], NextRecord(c, v, w))]
    BY <1>1, <1>2, <1>10, <2>2, AppendedIs
  <2>5. steps \in [1 .. S -> Seq(StepRecord)]
    BY <1>1, <1>2, <1>10, <2>2, <2>3, AppendedType DEF StepRecord
  <2>6. w.at.stage \in 1 .. S /\ w.steps \in [1 .. S -> Seq(StepRecord)]
    BY <1>1, <1>2, WorkerFields DEF StepRecord
  <2> QED BY <2>4, <2>5, <2>6
<1>12. ASSUME NEW s \in 1 .. c.stages PROVE Whole(c, v, steps[s])
  <2>1. IF s = w.at.stage THEN steps[s] = Append(w.steps[s], NextRecord(c, v, w)) ELSE steps[s] = w.steps[s]
    BY <1>2, <1>11
  <2> QED BY <1>1, <1>3, <1>5, <2>1, WholeAtEnd
<1>13. PerWorker(c) \in Nat \ {0}
  BY <1>1 DEF Knows
<1>14. IsPieces(c, e, t, steps)
  <2>1. e \in Nat /\ steps \in [1 .. cfg.stages -> Seq(StepRecord)] /\ cfg \in Configs
          /\ PerWorker(cfg) \in Nat \ {0}
    BY <1>1, <1>2, <1>11, <1>13
  <2> QED BY <1>1, <1>10, <2>1, TrajectoriesIs
<1>15. trajectories' = trajectories \o t /\ trajectories \in Seq(Piece) /\ t \in Seq(Piece)
  BY <1>10, <1>14 DEF Sends, WholeInv, IsPieces
<1>16. PICK held, held2, queue2, workers2 :
         /\ held = Held(c, trajectories, collector) /\ queue2 = trajectories \o t
         /\ held2 = Held(c, queue2, collector) /\ workers2 = env'
  OBVIOUS
<1>17. PutBy(c, held, held2, t)
  <2>1. PICK A \in Nat \ {0} : A = c.actors
    BY <1>1, JobNumbers
  <2>2. held[0] = trajectories /\ held2[0] = queue2 /\ \A h \in 1 .. A : held2[h] = held[h]
    BY <1>16, <2>1 DEF Held
  <2> QED BY <1>15, <1>16, <2>1, <2>2 DEF PutBy
<1>18. Delivered(c, v, workers, held)
  BY <1>1, <1>2, <1>5, <1>16 DEF WholeInv
<1>19. Done(c, workers, workers2) /\ ~Interacting(workers2[e]) /\ Interacting(workers[e])
  BY <1>1, <1>3, <1>4, <1>9, <1>16, OthersStay DEF Done
<1>22. Delivered(c, v, workers2, held2)
  BY <1>1, <1>12, <1>13, <1>14, <1>17, <1>18, <1>19, DeliveredMore
<1>23. Collected(trajectories')
  <2>1. trajectories' \in Seq(Piece)
    BY <1>15, ConcatProperties
  <2> QED BY <1>1, <1>2, <1>5, <1>15, <1>16, <1>22, <2>1 DEF Collected
<1> QED BY <1>9, <1>23, EnvMovesOn

LEMMA EndOfEpochWhole ==
    ASSUME LoopInv, WholeInv, NEW e \in EnvRank, EndOfEpoch(e)
    PROVE  WholeInv'
<1>0. PICK c, to, workers, answers, asks, w : Known(c, to, workers, answers, asks, e, w)
  BY KnownIs
<1>1. /\ c = cfg /\ to = ranks.toRollout /\ workers = env /\ answers = resultChannel /\ asks = obsChannel
      /\ c \in Configs /\ Good(c, to, workers, answers, asks) /\ Knows(c, to)
      /\ e \in 0 .. c.envWorkers - 1 /\ w = workers[e] /\ w \in EnvWorker(c.stages) /\ Place(c, w) /\ Owned(w)
  BY <1>0 DEF Known
<1>2. PICK S \in Nat \ {0} : S = c.stages
  BY <1>1, JobNumbers
<1>3. /\ w.at \in [epoch : Nat, chunk : Nat, stage : 1 .. S] /\ w.at.stage \in 1 .. S /\ w.at.epoch \in Nat
      /\ w.calls \in Seq(Methods) /\ w.steps \in [1 .. S -> Seq(StepRecord)]
  BY <1>1, <1>2, WorkerFields DEF StepRecord
<1>4. PICK a, steps : a = Acted(e, "train") /\ steps = Appended(e)
  OBVIOUS
<1>5. PICK acted : acted = [w EXCEPT !.acted = a, !.steps = steps]
  OBVIOUS
<1>6. FromRollout(e) = to[e]
  BY <1>1, InvFacts
<1>7. /\ Executes(w, "interact") /\ w.at.chunk = c.chunks + 1 /\ Ready(answers, e, to[e], "train")
      /\ resultChannel' = Taken(answers, e, to[e], "train")
      /\ UNCHANGED <<cfg, ranks, progress, weights, rollout, collector>>
  BY <1>1, <1>6 DEF EndOfEpoch, Receives
<1>8. Ready(resultChannel, e, FromRollout(e), "train") /\ FirstOf(env[e], "train") = env[e].at.stage
        /\ Interacting(env[e])
  BY <1>1, <1>6, <1>7 DEF FirstOf, Interacting
<1>9. a \in Acts
  <2>1. PICK m \in Mode : m = "train"
    BY Modes
  <2>2. Acted(e, m) \in [observed : Seq(Observation), answer : Seq(Reply)]
    BY <1>8, <2>1, ActedIs
  <2> QED BY <1>4, <2>1, <2>2 DEF Acts
<1>10. PICK x : x = NextRecord(cfg, weights, w)
  OBVIOUS
<1>11. /\ steps = [w.steps EXCEPT ![w.at.stage] = Append(w.steps[w.at.stage], x)]
       /\ steps \in [1 .. S -> Seq(StepRecord)]
  <2>1. steps = [w.steps EXCEPT ![w.at.stage] = Append(w.steps[w.at.stage], x)]
    BY <1>1, <1>4, <1>8, <1>10, AppendedIs
  <2>2. steps \in [1 .. S -> Seq(StepRecord)]
    BY <1>1, <1>2, <1>4, <1>8, AppendedType DEF StepRecord
  <2> QED BY <2>1, <2>2
<1>12. /\ acted \in EnvWorker(S) /\ acted.calls = w.calls /\ acted.at = w.at /\ acted.clock = w.clock
       /\ acted.steps = steps
  BY ZenonT(60), <1>1, <1>2, <1>5, <1>9, <1>11 DEF EnvWorker, StepRecord
<1>13. ASSUME NEW w2 \in EnvWorker(S), env' = [env EXCEPT ![e] = w2], w2.calls = w.calls,
              w2.clock = w.clock, w2.steps = steps, Follows(c, w, w2), trajectories' = trajectories
       PROVE  WholeInv'
  <2>1. Notes(c, w, w2, x)
    <3>1. w2.steps[w.at.stage] = Append(w.steps[w.at.stage], x)
            /\ \A s \in 1 .. S : s # w.at.stage => w2.steps[s] = w.steps[s]
      BY <1>3, <1>11, <1>13
    <3>2. ~(w.at.chunk <= c.chunks)
      BY <1>1, <1>7, JobNumbers
    <3> QED BY <1>2, <1>13, <3>1, <3>2 DEF Notes
  <2>2. UNCHANGED <<cfg, ranks, progress, weights, rollout, collector, trajectories>>
    BY <1>7, <1>13
  <2>3. TakesOn(e, w2)
    BY <1>1, <1>2, <1>7, <1>8, <1>10, <1>13, <2>1, <2>2 DEF TakesOn
  <2> QED BY <2>3, TakesOnWhole
<1>14. CASE w.at.stage < S
  <2>1. PICK at : at = [w.at EXCEPT !.stage = w.at.stage + 1]
    OBVIOUS
  <2>2. w.at.stage + 1 \in 1 .. S
    BY <1>3, <1>14
  <2>3. /\ at \in [epoch : Nat, chunk : Nat, stage : 1 .. S]
        /\ at.epoch = w.at.epoch /\ at.chunk = w.at.chunk /\ at.stage = w.at.stage + 1
    BY <1>3, <2>1, <2>2
  <2>4. PICK w2 : w2 = [acted EXCEPT !.at = at]
    OBVIOUS
  <2>5. /\ w2 \in EnvWorker(S) /\ w2.calls = w.calls /\ w2.at = at /\ w2.clock = w.clock /\ w2.steps = steps
    BY <1>12, <2>3, <2>4 DEF EnvWorker
  <2>6. env' = [env EXCEPT ![e] = w2] /\ trajectories' = trajectories
    <3>1. env' = [env EXCEPT ![e] = [acted EXCEPT !.at.stage = acted.at.stage + 1]]
            /\ trajectories' = trajectories
      BY <1>1, <1>2, <1>4, <1>5, <1>14 DEF EndOfEpoch
    <3>2. [acted EXCEPT !.at.stage = acted.at.stage + 1] = w2
      BY <1>12, <2>1, <2>4
    <3> QED BY <3>1, <3>2
  <2>7. Follows(c, w, w2)
    <3>1. w.at.chunk \in 1 .. c.chunks + 1
      BY <1>1, <1>7, JobNumbers
    <3> QED BY <1>2, <1>7, <1>14, <2>3, <2>5, <3>1 DEF Follows, At
  <2> QED BY <1>13, <2>5, <2>6, <2>7
<1>15. CASE ~(w.at.stage < S)
  <2>1. w.at.stage = S
    BY <1>3, <1>15
  <2>2. CASE w.at.epoch # c.epochs
    <3>1. PICK at : at = NextEpoch(w.at)
      OBVIOUS
    <3>2. at \in [epoch : Nat, chunk : Nat, stage : 1 .. S] /\ at.epoch = w.at.epoch + 1
            /\ at.chunk = 0 /\ at.stage = 1
      BY <1>3, <3>1 DEF NextEpoch
    <3>3. PICK w2 : w2 = [acted EXCEPT !.at = at]
      OBVIOUS
    <3>4. /\ w2 \in EnvWorker(S) /\ w2.calls = w.calls /\ w2.at = at /\ w2.clock = w.clock /\ w2.steps = steps
      BY <1>12, <3>2, <3>3 DEF EnvWorker
    <3>5. env' = [env EXCEPT ![e] = w2] /\ trajectories' = trajectories
      <4>1. env' = [env EXCEPT ![e] = [acted EXCEPT !.at = NextEpoch(acted.at)]]
              /\ trajectories' = trajectories
        BY <1>1, <1>2, <1>4, <1>5, <1>15, <2>2 DEF EndOfEpoch
      <4> QED BY <1>12, <3>1, <3>3, <4>1
    <3>6. Follows(c, w, w2)
      <4>1. w.at.chunk \in 1 .. c.chunks + 1
        BY <1>1, <1>7, JobNumbers
      <4> QED BY <1>2, <1>7, <2>1, <2>2, <3>2, <3>4, <4>1 DEF Follows, At
    <3> QED BY <1>13, <3>4, <3>5, <3>6
  <2>3. CASE w.at.epoch = c.epochs
    <3>1. PICK none : none = [s \in 1 .. S |-> <<>>]
      OBVIOUS
    <3>2. PICK w2 : w2 = [Returned(acted) EXCEPT !.steps = none]
      OBVIOUS
    <3>3. env' = [env EXCEPT ![e] = w2] /\ trajectories' = trajectories \o Trajectories(e, steps)
      BY <1>1, <1>2, <1>4, <1>5, <1>15, <2>3, <3>1, <3>2 DEF EndOfEpoch, Stage
    <3>4. Tail(w.calls) = <<>>
      <4>1. EnvCalled(progress.at, w.calls)
        BY <1>1 DEF WholeInv, CalledBy
      <4> QED BY <1>7, <4>1, CalledOne DEF Executes
    <3>5. w2 \in EnvWorker(S) /\ w2.calls = <<>> /\ w2.steps = none
      <4>1. Beginning \in [epoch : Nat, chunk : Nat, stage : 1 .. S] /\ <<>> \in Seq(Methods)
        BY DEF Beginning
      <4>2. none \in [1 .. S -> Seq([time : Nat, version : Int])]
        BY <3>1
      <4> QED BY <1>12, <3>2, <3>4, <4>1, <4>2 DEF EnvWorker, Returned
    <3>6. AtEnd(c, w)
      BY <1>2, <1>7, <2>1, <2>3 DEF AtEnd
    <3>7. \A s \in 1 .. S : w2.steps[s] = <<>>
      BY <3>1, <3>5
    <3>8. Sends(e, w2)
      BY <1>1, <1>2, <1>4, <1>7, <1>8, <3>3, <3>5, <3>6, <3>7 DEF Sends
    <3> QED BY <3>8, SendsWhole
  <2> QED BY <2>2, <2>3
<1> QED BY <1>14, <1>15

-----------------------------------------------------------------------------
(* The steps of the rollout workers and of the actors that collect.          *)

\* A rollout worker answers.
RolloutMoves(r, roll2) ==
    /\ rollout' = [rollout EXCEPT ![r] = roll2]
    /\ roll2 \in RolloutWorker /\ roll2.calls \in {rollout[r].calls, <<>>}
    /\ roll2.calls = <<>> => roll2.count = 0
    /\ roll2.calls = <<"generate">> => roll2.count < Recordings(cfg) * cfg.stages
    /\ Answered(cfg, weights, ranks.toRollout, env, rollout', resultChannel')
    /\ UNCHANGED <<cfg, ranks, progress, weights, env, collector, trajectories>>

\* A step of a rollout worker keeps the invariant if the answers stay in order.
LEMMA RolloutMovesOn ==
    ASSUME WholeInv, NEW r \in RolloutRank, NEW roll2, RolloutMoves(r, roll2)
    PROVE  WholeInv'
<1>1. UNCHANGED <<cfg, ranks, progress, weights, env, collector, trajectories>>
  BY DEF RolloutMoves
<1>2. PICK c, p, workers, rolls, rolls2 : c = cfg /\ p = progress /\ workers = env /\ rolls = rollout
        /\ rolls2 = rollout'
  OBVIOUS
<1>3. CalledBy(c, p, workers, rolls) /\ r \in 0 .. c.rolloutWorkers - 1
  BY <1>2 DEF WholeInv, RolloutRank
<1>4. /\ rolls2 = [rolls EXCEPT ![r] = roll2] /\ roll2 \in RolloutWorker
      /\ roll2.calls \in {rolls[r].calls, <<>>}
      /\ roll2.calls = <<>> => roll2.count = 0
      /\ roll2.calls = <<"generate">> => roll2.count < Recordings(c) * c.stages
  BY <1>2 DEF RolloutMoves
<1>5. rolls2 \in [0 .. c.rolloutWorkers - 1 -> RolloutWorker]
  BY <1>3, <1>4 DEF CalledBy
<1>6. ASSUME NEW d \in 0 .. c.rolloutWorkers - 1
      PROVE  /\ RolloutCalled(p.at, rolls2[d].calls)
             /\ rolls2[d].calls = <<>> => rolls2[d].count = 0
             /\ rolls2[d].calls = <<"generate">> => rolls2[d].count < Recordings(c) * c.stages
  <2>1. CASE d = r
    <3>1. rolls2[d] = roll2
      BY <1>3, <1>4, <2>1 DEF CalledBy
    <3>2. RolloutCalled(p.at, rolls[r].calls)
      BY <1>3 DEF CalledBy
    <3> QED BY <1>4, <3>1, <3>2 DEF RolloutCalled
  <2>2. CASE d # r
    <3>1. rolls2[d] = rolls[d]
      BY <1>3, <1>4, <2>2 DEF CalledBy
    <3> QED BY <1>3, <3>1 DEF CalledBy
  <2> QED BY <2>1, <2>2
<1>7. CalledBy(c, p, workers, rolls2)
  BY <1>3, <1>5, <1>6 DEF CalledBy
<1>8. CalledBy(cfg', progress', env', rollout')
  BY <1>1, <1>2, <1>7
<1>9. Answered(cfg', weights', ranks'.toRollout, env', rollout', resultChannel')
  BY <1>1 DEF RolloutMoves
<1> QED BY <1>1, <1>8, <1>9 DEF WholeInv

\* What a rollout worker becomes when it has answered.
LEMMA RolloutIs ==
    ASSUME WholeInv, NEW r \in RolloutRank, NEW mode, Answer(r, mode), rollout[r].calls # <<>>,
           cfg \in Configs,
           NEW total, total = IF mode = "train" THEN GenerateCount ELSE EvaluateCount
    PROVE  \E roll2 \in RolloutWorker, n \in Nat :
              /\ rollout' = [rollout EXCEPT ![r] = roll2] /\ n = rollout[r].count
              /\ \/ n + 1 < total /\ roll2.calls = rollout[r].calls /\ roll2.count = n + 1
                 \/ ~(n + 1 < total) /\ roll2.calls = <<>> /\ roll2.count = 0
<1>1. PICK rolls, roll : rolls = rollout /\ roll = rolls[r]
  OBVIOUS
<1>2. roll \in RolloutWorker /\ RolloutCalled(progress.at, roll.calls)
  BY <1>1 DEF WholeInv, CalledBy, RolloutRank
<1>3. PICK n \in Nat : n = roll.count
  BY <1>2 DEF RolloutWorker
<1>4. Tail(roll.calls) = <<>>
  BY <1>1, <1>2, CalledOne
<1>5. PICK roll2 : roll2 = IF n + 1 < total THEN [roll EXCEPT !.count = n + 1]
        ELSE [calls |-> <<>>, count |-> 0]
  OBVIOUS
<1>6. rollout' = [rollout EXCEPT ![r] = roll2]
  <2>1. rollout' = [rolls EXCEPT ![r] = IF roll.count + 1 < total THEN [roll EXCEPT !.count = roll.count + 1]
                                        ELSE [calls |-> Tail(roll.calls), count |-> 0]]
    BY <1>1 DEF Answer
  <2> QED BY <1>1, <1>3, <1>4, <1>5, <2>1
<1>7. roll2 \in RolloutWorker
  <2>1. <<>> \in Seq({"generate", "evaluate"}) /\ n + 1 \in Nat
    OBVIOUS
  <2> QED BY <1>2, <1>5, <2>1 DEF RolloutWorker
<1>8. n + 1 < total => roll2.calls = roll.calls /\ roll2.count = n + 1
  BY <1>2, <1>5 DEF RolloutWorker
<1>9. ~(n + 1 < total) => roll2.calls = <<>> /\ roll2.count = 0
  BY <1>5
<1> QED BY <1>1, <1>3, <1>6, <1>7, <1>8, <1>9

\* The answers of a rollout are a number.
LEMMA AllMade ==
    ASSUME NEW c \in Configs
    PROVE  Recordings(c) * c.stages \in Nat
<1>1. PICK n \in Nat, k \in Nat, S \in Nat : n = c.epochs /\ k = PerEpoch(c) /\ S = c.stages
  BY JobNumbers DEF PerEpoch
<1>2. (n * k) * S \in Nat
  OBVIOUS
<1> QED BY <1>1, <1>2 DEF Recordings

\* The steps of a rollout worker, and that of an actor that collects.
LEMMA GenerateWhole ==
    ASSUME LoopInv, WholeInv, NEW r \in RolloutRank, RolloutGenerate(r)
    PROVE  WholeInv'
<1>1. PICK c, to, workers, answers, asks, from, half :
        /\ c = cfg /\ to = ranks.toRollout /\ workers = env /\ answers = resultChannel /\ asks = obsChannel
        /\ from = FromEnv(r) /\ half = StageBatch(cfg) \div cfg.rolloutWorkers
  OBVIOUS
<1>2. /\ c \in Configs /\ Good(c, to, workers, answers, asks) /\ Knows(c, to)
      /\ r \in 0 .. c.rolloutWorkers - 1
      /\ Shares(from, half, c.envWorkers) /\ ToEnv(r) = from
  BY <1>1, InvFacts DEF LoopInv, RolloutRank
<1>30. half \in Nat \ {0}
  BY <1>1, JobFacts DEF LoopInv
<1>31. PICK v \in Int : v = weights
  BY DEF LoopInv
<1>32. PICK rolls, roll : rolls = rollout /\ roll = rolls[r]
  OBVIOUS
<1>3. v = weights /\ v \in Int /\ rolls = rollout /\ roll = rolls[r]
  BY <1>31, <1>32
<1>4. Executes(roll, "generate") /\ Answer(r, "train")
  BY <1>3 DEF RolloutGenerate
<1>5. PICK total \in Nat : total = Recordings(c) * c.stages
  BY <1>2, AllMade
<1>6. GenerateCount = total
  BY <1>1, <1>5 DEF GenerateCount, Recordings, PerEpoch
<1>7. PICK roll2 \in RolloutWorker, n \in Nat :
        /\ rollout' = [rolls EXCEPT ![r] = roll2] /\ n = roll.count
        /\ \/ n + 1 < total /\ roll2.calls = roll.calls /\ roll2.count = n + 1
           \/ ~(n + 1 < total) /\ roll2.calls = <<>> /\ roll2.count = 0
  <2>1. /\ rollout[r].calls # <<>> /\ cfg \in Configs
        /\ total = IF "train" = "train" THEN GenerateCount ELSE EvaluateCount
    BY <1>1, <1>2, <1>3, <1>4, <1>6 DEF Executes
  <2> QED BY <1>3, <1>4, <2>1, RolloutIs
<1>8. roll.calls = <<"generate">> /\ n < total
  <2>1. RolloutCalled(progress.at, roll.calls)
    BY <1>1, <1>2, <1>3 DEF WholeInv, CalledBy
  <2>2. roll.calls = <<"generate">>
    BY <1>4, <2>1, CalledOne DEF Executes
  <2> QED BY <1>1, <1>2, <1>3, <1>5, <1>7, <2>2 DEF WholeInv, CalledBy
<1>9. Gave(c, roll) = n /\ Gave(c, roll2) = n + 1
  <2>1. Gave(c, roll) = n
    BY <1>4, <1>7 DEF Gave
  <2>2. CASE n + 1 < total
    BY <1>4, <1>7, <2>2 DEF Gave, Executes
  <2>3. CASE ~(n + 1 < total)
    <3>1. n + 1 = total
      BY <1>8, <2>3
    <3> QED BY <1>5, <1>7, <2>1, <2>3, <3>1 DEF Gave, Executes
  <2> QED BY <2>1, <2>2, <2>3
<1>10. PICK version \in Int : version = VersionOf(n)
  BY <1>3 DEF VersionOf, NoVersion
<1>11. version = VersionAt(c, v, Gave(c, rolls[r]))
  BY <1>1, <1>3, <1>9, <1>10 DEF VersionOf, VersionAt, PerEpoch
<1>12. PICK sent, obs : obs = Merged(asks, r, from, "train")
         /\ sent = Sent(answers, r, from, "train", <<Answering(obs, version)>>)
  OBVIOUS
<1>13. Ready(asks, r, from, "train") /\ resultChannel' = sent
  <2>1. /\ Ready(asks, r, from, "train")
        /\ resultChannel' = Sent(answers, r, from, "train",
                               <<[k \in DOMAIN obs |-> [to |-> obs[k], version |-> VersionOf(roll.count)]]>>)
    BY <1>1, <1>2, <1>3, <1>4, <1>12 DEF Answer
  <2>2. [k \in DOMAIN obs |-> [to |-> obs[k], version |-> VersionOf(roll.count)]] = Answering(obs, version)
    BY <1>7, <1>10 DEF Answering
  <2> QED BY <1>12, <2>1, <2>2
<1>14. GivesTo(sent, answers, r, from, VersionAt(c, v, Gave(c, rolls[r])))
  <2>1. PICK E \in Nat, R \in Nat : E = c.envWorkers /\ R = c.rolloutWorkers
    BY <1>2, JobNumbers
  <2>2. /\ answers \in Queues(R, E, Reply) /\ asks \in Queues(E, R, Observation) /\ r \in 0 .. R - 1
        /\ Shares(from, half, E)
    BY <1>2, <2>1 DEF Good
  <2>3. GivesTo(sent, answers, r, from, version)
    BY <1>12, <1>13, <1>30, <2>2, AnswerGives
  <2> QED BY <1>11, <2>3
<1>15. Linked(c, to, r, from)
  <2>1. c \in Configs /\ Validated(c) /\ Mapped(c) /\ to = RankMaps(c).toRollout
          /\ from = RankMaps(c).toEnv[r]
    BY <1>1, <1>2 DEF LoopInv, ToEnv
  <2>2. ASSUME NEW e \in 0 .. c.envWorkers - 1, NEW i \in 1 .. Len(to[e]), to[e][i].rank = r
        PROVE Serves(from, e)
    <3>1. i \in 1 .. Len(RankMaps(c).toRollout[e]) /\ r = RankMaps(c).toRollout[e][i].rank
      BY <2>1, <2>2
    <3>2. r \in 0 .. c.rolloutWorkers - 1 /\ Serves(RankMaps(c).toEnv[r], e)
      BY <2>1, <3>1, MapsMutual
    <3> QED BY <2>1, <3>2
  <2> QED BY <2>2 DEF Linked
<1>16. Answered(c, v, to, workers, rolls, answers) /\ CalledBy(c, progress, workers, rolls)
  BY <1>1, <1>3 DEF WholeInv
<1>17. Answered(c, v, to, workers, [rolls EXCEPT ![r] = roll2], sent)
  <2>1. ASSUME NEW e \in 0 .. c.envWorkers - 1 PROVE Took(c, workers[e]) \in Nat
    <3>1. workers[e] \in EnvWorker(c.stages) /\ Keeps(c, v, workers[e])
      BY <1>1, <1>2, <1>3 DEF Good, WholeInv
    <3> QED BY <1>2, <3>1, TookType
  <2>2. DOMAIN rolls = 0 .. c.rolloutWorkers - 1
    BY <1>16 DEF CalledBy
  <2>3. answers \in Queues(c.rolloutWorkers, c.envWorkers, Reply)
    BY <1>2 DEF Good
  <2>4. Gave(c, roll2) = Gave(c, rolls[r]) + 1
    BY <1>3, <1>9
  <2> QED BY <1>2, <1>14, <1>15, <1>16, <2>1, <2>2, <2>3, <2>4, AnsweredGive
<1>18. UNCHANGED <<cfg, ranks, progress, weights, env, collector, trajectories>>
  BY <1>4 DEF Answer
<1>19. roll2.calls \in {roll.calls, <<>>} /\ (roll2.calls = <<>> => roll2.count = 0)
         /\ (roll2.calls = <<"generate">> => roll2.count < total)
  <2>1. <<"generate">> # <<>>
    OBVIOUS
  <2> QED BY ZenonT(30), <1>7, <1>8, <2>1
<1>20. RolloutMoves(r, roll2)
  BY <1>1, <1>3, <1>5, <1>7, <1>13, <1>17, <1>18, <1>19 DEF RolloutMoves
<1> QED BY <1>20, RolloutMovesOn

LEMMA EvaluationWhole ==
    ASSUME LoopInv, WholeInv, NEW r \in RolloutRank, RolloutEvaluate(r)
    PROVE  WholeInv'
<1>1. PICK c, to, workers, answers, from, half :
        /\ c = cfg /\ to = ranks.toRollout /\ workers = env /\ answers = resultChannel
        /\ from = FromEnv(r) /\ half = StageBatch(cfg) \div cfg.rolloutWorkers
  OBVIOUS
<1>2. /\ c \in Configs /\ Good(c, to, workers, answers, obsChannel) /\ Knows(c, to)
      /\ r \in 0 .. c.rolloutWorkers - 1
      /\ Shares(from, half, c.envWorkers) /\ ToEnv(r) = from
  BY <1>1, InvFacts DEF LoopInv, RolloutRank
<1>3. PICK v, rolls, roll : v = weights /\ rolls = rollout /\ roll = rolls[r]
  OBVIOUS
<1>4. Executes(roll, "evaluate") /\ Answer(r, "eval")
  BY <1>3 DEF RolloutEvaluate
<1>5. PICK total : total = EvaluateCount
  OBVIOUS
<1>6. PICK roll2 \in RolloutWorker, n \in Nat :
        /\ rollout' = [rolls EXCEPT ![r] = roll2] /\ n = roll.count
        /\ \/ n + 1 < total /\ roll2.calls = roll.calls /\ roll2.count = n + 1
           \/ ~(n + 1 < total) /\ roll2.calls = <<>> /\ roll2.count = 0
  <2>1. /\ rollout[r].calls # <<>> /\ cfg \in Configs
        /\ total = IF "eval" = "train" THEN GenerateCount ELSE EvaluateCount
    BY <1>1, <1>2, <1>3, <1>4, <1>5 DEF Executes
  <2> QED BY <1>3, <1>4, <2>1, RolloutIs
<1>7. PICK batches : resultChannel' = Sent(answers, r, from, "eval", batches)
  BY <1>1, <1>2, <1>4 DEF Answer
<1>8. ~Executes(roll, "generate") /\ ~Executes(roll2, "generate")
  BY <1>4, <1>6 DEF Executes
<1>9. Answered(c, v, to, workers, rolls, answers) /\ CalledBy(c, progress, workers, rolls)
  BY <1>1, <1>3 DEF WholeInv
<1>10. Answered(c, v, to, workers, [rolls EXCEPT ![r] = roll2], Sent(answers, r, from, "eval", batches))
  <2>1. DOMAIN rolls = 0 .. c.rolloutWorkers - 1
    BY <1>9 DEF CalledBy
  <2>2. answers \in Queues(c.rolloutWorkers, c.envWorkers, Reply)
    BY <1>2 DEF Good
  <2>3. Gave(c, roll2) = Gave(c, rolls[r])
    BY <1>3, <1>8 DEF Gave
  <2> QED BY <1>2, <1>9, <2>1, <2>2, <2>3, AnsweredGiveEval
<1>11. UNCHANGED <<cfg, ranks, progress, weights, env, collector, trajectories>>
  BY <1>4 DEF Answer
<1>12. roll2.calls \in {roll.calls, <<>>} /\ (roll2.calls = <<>> => roll2.count = 0)
         /\ roll2.calls # <<"generate">>
  <2>1. <<"generate">> # <<>> /\ Head(<<"generate">>) = "generate"
    OBVIOUS
  <2>2. roll.calls # <<"generate">> /\ roll.calls # <<>>
    BY <1>4, <2>1 DEF Executes
  <2> QED BY <1>6, <2>1, <2>2
<1>13. RolloutMoves(r, roll2)
  BY <1>1, <1>3, <1>6, <1>7, <1>10, <1>11, <1>12 DEF RolloutMoves
<1> QED BY <1>13, RolloutMovesOn

LEMMA RecvWhole ==
    ASSUME LoopInv, WholeInv, NEW a \in DOMAIN collector, RecvTrajectory(a)
    PROVE  WholeInv'
<1>1. PICK c, v, workers, queue, coll : c = cfg /\ v = weights /\ workers = env
        /\ queue = trajectories /\ coll = collector
  OBVIOUS
<1>2. /\ c \in Configs /\ coll \in [1 .. c.actors -> Collector] /\ queue \in Seq(Piece) /\ queue # <<>>
      /\ a \in 1 .. c.actors /\ coll[a].left > 0
  BY <1>1 DEF LoopInv, WholeInv, RecvTrajectory
<1>3. PICK left, batch, more : left = coll[a].left - 1 /\ batch = coll[a].batch
        /\ more = Append(batch, Head(queue))
  OBVIOUS
<1>4. /\ coll[a].left \in Nat /\ left \in Nat /\ left + 1 = coll[a].left
      /\ batch \in Seq(Piece) /\ more \in Seq(Piece) /\ Len(batch) \in Nat /\ Len(more) = Len(batch) + 1
  <2>1. coll[a] \in Collector
    BY <1>2
  <2>2. coll[a].left \in Nat /\ batch \in Seq(Piece)
    BY <1>3, <2>1 DEF Collector
  <2>3. Head(queue) \in Piece
    BY <1>2, Shorter
  <2>4. more \in Seq(Piece) /\ Len(more) = Len(batch) + 1
    BY <1>3, <2>2, <2>3, AppendProperties
  <2>5. Len(batch) \in Nat
    BY <2>2, LenProperties
  <2> QED BY <1>2, <1>3, <2>2, <2>4, <2>5
<1>5. PICK coll2 : coll2 = [coll EXCEPT ![a] = [left |-> left, batch |-> more]]
  OBVIOUS
<1>6. /\ collector' = coll2 /\ trajectories' = Tail(queue)
      /\ UNCHANGED <<cfg, ranks, progress, weights, env, rollout, resultChannel>>
  BY <1>1, <1>3, <1>5 DEF RecvTrajectory
<1>7. coll2 \in [1 .. c.actors -> Collector]
  <2>1. [left |-> left, batch |-> more] \in Collector
    BY <1>4 DEF Collector
  <2> QED BY <1>2, <1>5, <2>1
<1>8. progress.at = "rollouts"
  <2>1. progress.at \notin {"rollouts"} => queue = <<>>
    BY <1>1 DEF WholeInv
  <2> QED BY <1>2, <2>1
<1>9. Tail(queue) \in Seq(Piece)
  BY <1>2, Shorter
<1>10. ASSUME NEW b \in 1 .. c.actors PROVE coll2[b].left + Len(coll2[b].batch) = Share(c)
  <2>1. coll[b].left + Len(coll[b].batch) = Share(c)
    BY <1>1, <1>8 DEF WholeInv
  <2>2. CASE b = a
    <3>1. coll2[b].left = left /\ coll2[b].batch = more
      BY <1>2, <1>5, <2>2
    <3>2. coll[a].left + Len(batch) = Share(c)
      BY <1>3, <2>1, <2>2
    <3> QED BY <1>4, <3>1, <3>2
  <2>3. CASE b # a
    <3>1. coll2[b] = coll[b]
      BY <1>2, <1>5, <2>3
    <3> QED BY <2>1, <3>1
  <2> QED BY <2>2, <2>3
<1>11. Delivered(c, v, workers, Held(c, Tail(queue), coll2))
  <2>1. Delivered(c, v, workers, Held(c, queue, coll))
    BY <1>1, <1>8 DEF WholeInv
  <2> QED BY <1>2, <1>3, <1>5, <2>1, DeliveredTaken
<1>12. /\ Synced(cfg', progress', weights') /\ CalledBy(cfg', progress', env', rollout')
       /\ \A e \in 0 .. cfg'.envWorkers - 1 : Keeps(cfg', weights', env'[e])
       /\ Answered(cfg', weights', ranks'.toRollout, env', rollout', resultChannel')
  BY <1>6 DEF WholeInv
<1>13. /\ collector' \in [1 .. cfg'.actors -> Collector] /\ trajectories' \in Seq(Piece)
       /\ progress'.at = "rollouts"
  BY <1>1, <1>6, <1>7, <1>8, <1>9
<1>14. /\ \A b \in 1 .. cfg'.actors : collector'[b].left + Len(collector'[b].batch) = Share(cfg')
       /\ Delivered(cfg', weights', env', Held(cfg', trajectories', collector'))
  BY <1>1, <1>6, <1>10, <1>11
<1> QED BY <1>12, <1>13, <1>14 DEF WholeInv

-----------------------------------------------------------------------------
(* The steps of the runner.                                                  *)

\* Every worker has returned.
Idle ==
    /\ \A e \in 0 .. cfg.envWorkers - 1 : env[e].calls = <<>>
    /\ \A r \in 0 .. cfg.rolloutWorkers - 1 : rollout[r].calls = <<>>

\* Workers that have returned have taken and given all answers, with whatever weights.
LEMMA IdleWorkers ==
    ASSUME LoopInv, WholeInv, Idle, NEW v2
    PROVE  /\ \A e \in 0 .. cfg.envWorkers - 1 :
                 /\ ~Interacting(env[e]) /\ Keeps(cfg, v2, env[e])
                 /\ Took(cfg, env[e]) = Recordings(cfg) * cfg.stages
           /\ \A r \in 0 .. cfg.rolloutWorkers - 1 :
                 rollout[r].count = 0 /\ Gave(cfg, rollout[r]) = Recordings(cfg) * cfg.stages
<1>1. ASSUME NEW e \in 0 .. cfg.envWorkers - 1
      PROVE  ~Interacting(env[e]) /\ Keeps(cfg, v2, env[e])
               /\ Took(cfg, env[e]) = Recordings(cfg) * cfg.stages
  <2>1. ~Interacting(env[e])
    BY DEF Idle, Interacting, Executes
  <2>2. Keeps(cfg, weights, env[e])
    BY DEF WholeInv
  <2> QED BY <2>1, <2>2 DEF Keeps, Took
<1>2. ASSUME NEW r \in 0 .. cfg.rolloutWorkers - 1
      PROVE  rollout[r].count = 0 /\ Gave(cfg, rollout[r]) = Recordings(cfg) * cfg.stages
  BY DEF Idle, WholeInv, CalledBy, Gave, Executes
<1> QED BY <1>1, <1>2

\* The runner calls a method of all env workers.
LEMMA EnvAsked ==
    ASSUME LoopInv, WholeInv, Idle, NEW v2, NEW method \in Methods, NEW workers2,
           workers2 = Called(env, method),
           NEW e \in 0 .. cfg.envWorkers - 1
    PROVE  /\ workers2[e].calls = <<method>> /\ Keeps(cfg, v2, workers2[e])
           /\ Interacting(workers2[e]) <=> method = "interact"
           /\ Took(cfg, workers2[e]) = IF method = "interact" THEN 0 ELSE Recordings(cfg) * cfg.stages
<1>1. PICK c, w : c = cfg /\ w = env[e]
  OBVIOUS
<1>2. c \in Configs /\ w \in EnvWorker(c.stages) /\ Place(c, w) /\ DOMAIN env = 0 .. c.envWorkers - 1
  BY <1>1 DEF LoopInv, Good
<1>3. w.calls = <<>> /\ ~Interacting(w) /\ Keeps(c, v2, w)
  BY <1>1, IdleWorkers DEF Idle
<1>4. PICK w2 : WithCall(w2, w, method)
  BY DEF WithCall
<1>5. workers2[e] = w2
  BY <1>1, <1>2, <1>4 DEF Called, WithCall
<1>6. w2 \in EnvWorker(c.stages)
  <2>1. /\ w2 \in EnvWorker(c.stages) /\ Place(c, w2) /\ (Owned(w) => Owned(w2))
        /\ \A m \in Mode : \A d : PendOf(c, d, w2, m) = PendOf(c, d, w, m)
    BY <1>2, <1>4, CalledToo
  <2> QED BY <2>1
<1>7. w2.calls = <<method>> /\ w2.at = w.at /\ w2.steps = w.steps
  <2>1. Append(<<>>, method) = <<method>>
    OBVIOUS
  <2> QED BY <1>2, <1>3, <1>4, <2>1 DEF WithCall, EnvWorker
<1>8. At(w2, 1, 0, 1)
  BY <1>2, <1>3, <1>7 DEF Place, Executes, At
<1>9. Keeps(c, v2, w2) /\ (Interacting(w2) => Took(c, w2) = 0)
  BY <1>2, <1>3, <1>6, <1>7, <1>8, KeepsCalled
<1>10. Interacting(w2) <=> method = "interact"
  <2>1. Head(<<method>>) = method /\ <<method>> # <<>>
    OBVIOUS
  <2> QED BY <1>7, <2>1 DEF Interacting, Executes
<1>11. Took(c, w2) = IF method = "interact" THEN 0 ELSE Recordings(c) * c.stages
  <2>1. CASE Interacting(w2)
    BY <1>9, <1>10, <2>1
  <2>2. CASE ~Interacting(w2)
    BY <1>10, <2>2 DEF Took
  <2> QED BY <2>1, <2>2
<1> QED BY <1>1, <1>5, <1>7, <1>9, <1>10, <1>11

\* The runner calls a method of all rollout workers.
LEMMA RolloutAsked ==
    ASSUME LoopInv, WholeInv, Idle, NEW method \in {"generate", "evaluate"}, NEW rolls2,
           rolls2 = Called(rollout, method)
    PROVE  /\ rolls2 \in [0 .. cfg.rolloutWorkers - 1 -> RolloutWorker]
           /\ \A r \in 0 .. cfg.rolloutWorkers - 1 :
                 /\ rolls2[r].calls = <<method>> /\ rolls2[r].count = 0
                 /\ Gave(cfg, rolls2[r]) = IF method = "generate" THEN 0 ELSE Recordings(cfg) * cfg.stages
<1>1. PICK c, rolls : c = cfg /\ rolls = rollout
  OBVIOUS
<1>2. rolls \in [0 .. c.rolloutWorkers - 1 -> RolloutWorker]
  BY <1>1 DEF WholeInv, CalledBy
<1>3. rolls2 = [r \in 0 .. c.rolloutWorkers - 1 |-> [rolls[r] EXCEPT !.calls = Append(rolls[r].calls, method)]]
  BY <1>1, <1>2 DEF Called
<1>4. ASSUME NEW r \in 0 .. c.rolloutWorkers - 1
      PROVE  /\ rolls2[r] \in RolloutWorker /\ rolls2[r].calls = <<method>> /\ rolls2[r].count = 0
             /\ Gave(c, rolls2[r]) = IF method = "generate" THEN 0 ELSE Recordings(c) * c.stages
  <2>1. PICK roll \in RolloutWorker : roll = rolls[r]
    BY <1>2
  <2>2. roll.calls = <<>> /\ roll.count = 0
    BY <1>1, <2>1, IdleWorkers DEF Idle
  <2>3. Append(<<>>, method) = <<method>> /\ <<method>> \in Seq({"generate", "evaluate"})
    OBVIOUS
  <2>4. rolls2[r] = [roll EXCEPT !.calls = <<method>>]
    BY <1>3, <2>1, <2>2, <2>3
  <2>5. rolls2[r] \in RolloutWorker /\ rolls2[r].calls = <<method>> /\ rolls2[r].count = 0
    BY <2>2, <2>3, <2>4 DEF RolloutWorker
  <2>6. Head(<<method>>) = method /\ <<method>> # <<>>
    OBVIOUS
  <2> QED BY <2>5, <2>6 DEF Gave, Executes
<1>5. rolls2 \in [0 .. c.rolloutWorkers - 1 -> RolloutWorker]
  BY <1>3, <1>4
<1> QED BY <1>1, <1>4, <1>5

\* Nothing is on its way in a rollout: as the next one begins, and with other weights.
LEMMA AnsweredNext ==
    ASSUME LoopInv, WholeInv, Idle, NEW v2, NEW workers2, NEW rolls2, NEW n \in Nat,
           \A e \in 0 .. cfg.envWorkers - 1 : Took(cfg, workers2[e]) = n,
           \A r \in 0 .. cfg.rolloutWorkers - 1 : Gave(cfg, rolls2[r]) = n
    PROVE  Answered(cfg, v2, ranks.toRollout, workers2, rolls2, resultChannel)
<1>1. PICK c, v, to, workers, rolls, answers :
        c = cfg /\ v = weights /\ to = ranks.toRollout /\ workers = env /\ rolls = rollout
          /\ answers = resultChannel
  OBVIOUS
<1>2. c \in Configs /\ Knows(c, to) /\ answers \in Queues(c.rolloutWorkers, c.envWorkers, Reply)
  BY <1>1, InvFacts DEF LoopInv, Good
<1>3. Answered(c, v, to, workers, rolls, answers)
  BY <1>1 DEF WholeInv
<1>4. /\ \A e \in 0 .. c.envWorkers - 1 : Took(c, workers[e]) = Recordings(c) * c.stages
      /\ \A r \in 0 .. c.rolloutWorkers - 1 : Gave(c, rolls[r]) = Recordings(c) * c.stages
  BY <1>1, IdleWorkers
<1>5. /\ \A e \in 0 .. c.envWorkers - 1 : Took(c, workers2[e]) = n
      /\ \A r \in 0 .. c.rolloutWorkers - 1 : Gave(c, rolls2[r]) = n
  BY <1>1
<1>6. Answered(c, v2, to, workers2, rolls2, answers)
  BY <1>2, <1>3, <1>4, <1>5, AnsweredAnew
<1> QED BY <1>1, <1>6

\* Every job has something to answer.
LEMMA JobSteps ==
    ASSUME NEW c \in Configs
    PROVE  /\ c.syncInterval \in Nat \ {0} /\ c.maxSteps \in Nat /\ c.overlap \in BOOLEAN
           /\ Recordings(c) * c.stages \in Nat /\ 0 < Recordings(c) * c.stages
<1>1. c.syncInterval \in Nat \ {0} /\ c.maxSteps \in Nat /\ c.overlap \in BOOLEAN
  BY ConfigsAssumption DEF JobType
<1>2. PICK n \in Nat \ {0}, k \in Nat \ {0}, S \in Nat \ {0} : n = c.epochs /\ k = PerEpoch(c) /\ S = c.stages
  BY JobNumbers DEF PerEpoch
<1>3. PICK m \in Nat \ {0} : m = n * k
  OBVIOUS
<1>4. m * S \in Nat /\ 0 < m * S
  OBVIOUS
<1> QED BY <1>1, <1>2, <1>3, <1>4 DEF Recordings

\* Each step of the runner keeps the invariant.
LEMMA BeginStepWhole ==
    ASSUME LoopInv, WholeInv, BeginStep
    PROVE  WholeInv'
<1>1. /\ progress.at = "start" /\ progress' = [progress EXCEPT !.at = "rollouts"]
      /\ weights' = IF progress.step % cfg.syncInterval = 0 THEN progress.step ELSE weights
      /\ env' = Called(env, "interact") /\ rollout' = Called(rollout, "generate")
      /\ collector' = [a \in DOMAIN collector |-> [left |-> Share(cfg), batch |-> <<>>]]
      /\ UNCHANGED <<cfg, ranks, resultChannel, trajectories>>
  BY DEF BeginStep, Share
<1>2. progress \in Progress /\ weights \in Nat /\ cfg \in Configs /\ PerWorker(cfg) \in Nat \ {0}
  BY InvFacts DEF LoopInv, Knows
<1>3. progress'.at = "rollouts" /\ progress'.step = progress.step
  BY <1>1, <1>2 DEF Progress
<1>4. Idle
  <2>1. CalledBy(cfg, progress, env, rollout)
    BY DEF WholeInv
  <2> QED BY <1>1, <2>1 DEF Idle, CalledBy, EnvCalled, RolloutCalled
<1>5. Synced(cfg', progress', weights')
  <2>1. PICK k \in Nat \ {0}, n \in Nat, v \in Nat : k = cfg.syncInterval /\ n = progress.step /\ v = weights
    BY <1>2, JobSteps DEF Progress
  <2>2. n % k # 0 => n - v <= n % k
    BY <1>1, <2>1 DEF WholeInv, Synced
  <2>3. n - (IF n % k = 0 THEN n ELSE v) <= n % k
    BY <2>2
  <2> QED BY <1>1, <1>3, <2>1, <2>3 DEF Synced
<1>6. ASSUME NEW e \in 0 .. cfg.envWorkers - 1
      PROVE  env'[e].calls = <<"interact">> /\ Keeps(cfg, weights', env'[e]) /\ Took(cfg, env'[e]) = 0
  <2>0. PICK method \in Methods : method = "interact"
    BY Interaction
  <2>1. PICK workers2, v2 : workers2 = env' /\ v2 = weights'
    OBVIOUS
  <2>2. /\ workers2[e].calls = <<method>> /\ Keeps(cfg, v2, workers2[e])
        /\ Interacting(workers2[e]) <=> method = "interact"
        /\ Took(cfg, workers2[e]) = IF method = "interact" THEN 0 ELSE Recordings(cfg) * cfg.stages
    BY <1>1, <1>4, <2>0, <2>1, EnvAsked
  <2> QED BY <2>0, <2>1, <2>2
<1>7. /\ rollout' \in [0 .. cfg.rolloutWorkers - 1 -> RolloutWorker]
      /\ \A r \in 0 .. cfg.rolloutWorkers - 1 :
            rollout'[r].calls = <<"generate">> /\ rollout'[r].count = 0 /\ Gave(cfg, rollout'[r]) = 0
  <2>0. PICK method \in {"generate", "evaluate"} : method = "generate"
    OBVIOUS
  <2>1. PICK rolls2 : rolls2 = rollout'
    OBVIOUS
  <2>2. /\ rolls2 \in [0 .. cfg.rolloutWorkers - 1 -> RolloutWorker]
        /\ \A r \in 0 .. cfg.rolloutWorkers - 1 :
              /\ rolls2[r].calls = <<method>> /\ rolls2[r].count = 0
              /\ Gave(cfg, rolls2[r]) = IF method = "generate" THEN 0 ELSE Recordings(cfg) * cfg.stages
    BY <1>1, <1>4, <2>0, <2>1, RolloutAsked
  <2> QED BY <2>0, <2>1, <2>2
<1>8. CalledBy(cfg', progress', env', rollout')
  BY <1>1, <1>2, <1>3, <1>6, <1>7, JobSteps DEF CalledBy, EnvCalled, RolloutCalled
<1>9. \A e \in 0 .. cfg'.envWorkers - 1 : Keeps(cfg', weights', env'[e])
  BY <1>1, <1>6
<1>10. Answered(cfg', weights', ranks'.toRollout, env', rollout', resultChannel')
  <2>1. PICK v2, workers2, rolls2 : v2 = weights' /\ workers2 = env' /\ rolls2 = rollout'
    OBVIOUS
  <2>2. Answered(cfg, v2, ranks.toRollout, workers2, rolls2, resultChannel)
    <3>1. PICK n \in Nat : n = 0
      OBVIOUS
    <3> QED BY <1>4, <1>6, <1>7, <2>1, <3>1, AnsweredNext
  <2> QED BY <1>1, <2>1, <2>2
<1>11. /\ collector' \in [1 .. cfg'.actors -> Collector]
       /\ \A a \in 1 .. cfg'.actors : collector'[a].left + Len(collector'[a].batch) = Share(cfg')
       /\ \A a \in 1 .. cfg'.actors : collector'[a].batch = <<>>
  <2>1. PICK H \in Nat : H = Share(cfg)
    BY <1>2, PartsFacts
  <2>2. PICK one : one = [left |-> H, batch |-> <<>>]
    OBVIOUS
  <2>3. one \in Collector /\ one.left + Len(one.batch) = H /\ one.batch = <<>>
    BY <2>2 DEF Collector
  <2>4. collector' = [a \in 1 .. cfg.actors |-> one]
    BY <1>1, <2>1, <2>2 DEF WholeInv
  <2> QED BY <1>1, <2>1, <2>3, <2>4
<1>12. trajectories' = <<>> /\ trajectories' \in Seq(Piece)
  BY <1>1 DEF WholeInv
<1>13. Delivered(cfg', weights', env', Held(cfg', trajectories', collector'))
  <2>1. PICK c, v, workers, queue, coll, held :
          /\ c = cfg /\ c \in Configs /\ v = weights' /\ workers = env' /\ queue = trajectories'
          /\ coll = collector'
          /\ held = Held(c, queue, coll)
    BY <1>2
  <2>2. \A h \in 0 .. c.actors : held[h] = <<>>
    <3>1. ASSUME NEW h \in 0 .. c.actors, h # 0 PROVE held[h] = <<>>
      <4>1. h \in 1 .. c.actors
        BY <3>1, JobNumbers
      <4> QED BY <1>1, <1>11, <2>1, <3>1, <4>1 DEF Held
    <3>2. held[0] = <<>>
      BY <1>12, <2>1, JobNumbers DEF Held
    <3> QED BY <3>1, <3>2
  <2>3. Delivered(c, v, workers, held)
    BY <2>1, <2>2, DeliveredNone
  <2> QED BY <1>1, <2>1, <2>3
<1> QED BY <1>3, <1>5, <1>8, <1>9, <1>10, <1>11, <1>12, <1>13 DEF WholeInv

LEMMA StartTrainingWhole ==
    ASSUME LoopInv, WholeInv, StartTraining
    PROVE  WholeInv'
<1>1. /\ progress.at = "rollouts" /\ progress' = [progress EXCEPT !.at = "training"]
      /\ \A a \in DOMAIN collector : collector[a].left = 0
      /\ AllReturned(rollout)
      /\ env' = IF cfg.overlap /\ progress.step + 1 < cfg.maxSteps THEN Called(env, "prefetch") ELSE env
      /\ UNCHANGED <<cfg, ranks, weights, rollout, collector, resultChannel, trajectories>>
  BY DEF StartTraining
<1>2. progress \in Progress /\ weights \in Nat /\ cfg \in Configs /\ PerWorker(cfg) \in Nat \ {0}
  BY InvFacts DEF LoopInv, Knows
<1>3. progress'.at = "training" /\ progress'.step = progress.step
  BY <1>1, <1>2 DEF Progress
<1>4. DOMAIN collector = 1 .. cfg.actors /\ collector \in [1 .. cfg.actors -> Collector]
  BY DEF WholeInv
<1>5. Filled(cfg, collector)
  <2>1. ASSUME NEW a \in 1 .. cfg.actors PROVE Len(collector[a].batch) = Share(cfg)
    <3>1. collector[a].left + Len(collector[a].batch) = Share(cfg) /\ collector[a].left = 0
      BY <1>1, <1>4 DEF WholeInv
    <3>2. collector[a].batch \in Seq(Piece)
      BY <1>4 DEF Collector
    <3>3. Len(collector[a].batch) \in Nat
      BY <3>2, LenProperties
    <3> QED BY <3>1, <3>3
  <2> QED BY <1>4, <2>1 DEF Filled
<1>6. trajectories = <<>> /\ \A e \in 0 .. cfg.envWorkers - 1 : ~Interacting(env[e])
  <2>1. PICK c, v, workers, queue, coll :
          /\ c = cfg /\ v = weights /\ workers = env /\ queue = trajectories /\ coll = collector
          /\ c \in Configs /\ queue \in Seq(Piece)
    BY <1>2 DEF WholeInv
  <2>2. Delivered(c, v, workers, Held(c, queue, coll)) /\ Filled(c, coll)
    BY <1>1, <1>5, <2>1 DEF WholeInv
  <2>3. queue = <<>> /\ \A e \in 0 .. c.envWorkers - 1 : ~Interacting(workers[e])
    BY <1>2, <2>1, <2>2, AllSent
  <2> QED BY <2>1, <2>3
<1>7. Idle
  <2>1. CalledBy(cfg, progress, env, rollout)
    BY DEF WholeInv
  <2>2. ASSUME NEW e \in 0 .. cfg.envWorkers - 1 PROVE env[e].calls = <<>>
    <3>1. EnvCalled("rollouts", env[e].calls) /\ ~Interacting(env[e])
      BY <1>1, <1>6, <2>1 DEF CalledBy
    <3>2. Head(<<"interact">>) = "interact" /\ <<"interact">> # <<>>
      OBVIOUS
    <3> QED BY <3>1, <3>2 DEF EnvCalled, Interacting, Executes
  <2>3. \A r \in 0 .. cfg.rolloutWorkers - 1 : rollout[r].calls = <<>>
    BY <1>1, <2>1 DEF AllReturned, CalledBy
  <2> QED BY <2>2, <2>3 DEF Idle
<1>8. PICK total \in Nat : total = Recordings(cfg) * cfg.stages
  BY <1>2, AllMade
<1>9. ASSUME NEW e \in 0 .. cfg.envWorkers - 1
      PROVE  /\ env'[e].calls = <<>>
                  \/ (cfg.overlap /\ progress.step + 1 < cfg.maxSteps /\ env'[e].calls = <<"prefetch">>)
             /\ Keeps(cfg, weights, env'[e]) /\ ~Interacting(env'[e]) /\ Took(cfg, env'[e]) = total
  <2>1. CASE cfg.overlap /\ progress.step + 1 < cfg.maxSteps
    <3>0. PICK method \in Methods : method = "prefetch"
      BY Interaction
    <3>1. PICK workers2, v2 : workers2 = env' /\ v2 = weights
      OBVIOUS
    <3>9. workers2 = Called(env, method)
      BY <1>1, <2>1, <3>0, <3>1
    <3>2. /\ workers2[e].calls = <<method>> /\ Keeps(cfg, v2, workers2[e])
          /\ Interacting(workers2[e]) <=> method = "interact"
          /\ Took(cfg, workers2[e]) = IF method = "interact" THEN 0 ELSE Recordings(cfg) * cfg.stages
      BY <1>7, <3>9, EnvAsked
    <3> QED BY <1>8, <2>1, <3>0, <3>1, <3>2
  <2>2. CASE ~(cfg.overlap /\ progress.step + 1 < cfg.maxSteps)
    <3>1. env' = env
      BY <1>1, <2>2
    <3>2. PICK v : v = weights
      OBVIOUS
    <3>3. ~Interacting(env[e]) /\ Keeps(cfg, v, env[e]) /\ Took(cfg, env[e]) = Recordings(cfg) * cfg.stages
      BY <1>7, IdleWorkers
    <3> QED BY <1>7, <1>8, <3>1, <3>2, <3>3 DEF Idle
  <2> QED BY <2>1, <2>2
<1>10. CalledBy(cfg', progress', env', rollout')
  <2>1. \A e \in 0 .. cfg.envWorkers - 1 : EnvCalled("training", env'[e].calls)
    BY <1>9 DEF EnvCalled
  <2>2. ~(cfg.overlap /\ progress.step + 1 < cfg.maxSteps)
          => \A e \in 0 .. cfg.envWorkers - 1 : env'[e].calls = <<>>
    BY <1>9
  <2>3. CalledBy(cfg, progress, env, rollout)
    BY DEF WholeInv
  <2>4. \A r \in 0 .. cfg.rolloutWorkers - 1 : RolloutCalled("training", rollout[r].calls)
    BY <1>7 DEF Idle, RolloutCalled
  <2> QED BY <1>1, <1>3, <2>1, <2>2, <2>3, <2>4 DEF CalledBy
<1>11. Answered(cfg', weights', ranks'.toRollout, env', rollout', resultChannel')
  <2>1. PICK v2, workers2, rolls2 : v2 = weights /\ workers2 = env' /\ rolls2 = rollout
    OBVIOUS
  <2>2. \A r \in 0 .. cfg.rolloutWorkers - 1 : Gave(cfg, rolls2[r]) = total
    BY <1>7, <1>8, <2>1, IdleWorkers
  <2>3. Answered(cfg, v2, ranks.toRollout, workers2, rolls2, resultChannel)
    BY <1>7, <1>9, <2>1, <2>2, AnsweredNext
  <2> QED BY <1>1, <2>1, <2>3
<1>12. Delivered(cfg', weights', env', Held(cfg', trajectories', collector'))
  <2>1. PICK c, v, workers, workers2, held :
          c = cfg /\ v = weights /\ workers = env /\ workers2 = env'
            /\ held = Held(cfg, trajectories, collector)
    OBVIOUS
  <2>2. Delivered(c, v, workers, held) /\ Done(c, workers, workers2)
    BY <1>1, <1>9, <2>1 DEF WholeInv, Done
  <2>3. Delivered(c, v, workers2, held)
    BY <2>2, DeliveredStill
  <2> QED BY <1>1, <2>1, <2>3
<1>13. Synced(cfg', progress', weights')
  BY <1>1, <1>3 DEF WholeInv, Synced
<1>14. /\ collector' \in [1 .. cfg'.actors -> Collector] /\ trajectories' \in Seq(Piece)
       /\ trajectories' = <<>>
       /\ \A a \in 1 .. cfg'.actors : collector'[a].left + Len(collector'[a].batch) = Share(cfg')
            /\ collector'[a].left = 0
  BY <1>1, <1>4, <1>6 DEF WholeInv
<1>15. \A e \in 0 .. cfg'.envWorkers - 1 : Keeps(cfg', weights', env'[e]) /\ ~Interacting(env'[e])
  BY <1>1, <1>9
<1> QED BY <1>3, <1>10, <1>11, <1>12, <1>13, <1>14, <1>15 DEF WholeInv

LEMMA EndTrainingWhole ==
    ASSUME LoopInv, WholeInv, EndTraining
    PROVE  WholeInv'
<1>1. PICK n, eval : n = progress.step + 1 /\ eval = EvalDue(n)
  OBVIOUS
<1>2. /\ progress.at = "training" /\ (cfg.overlap /\ n < cfg.maxSteps => AllReturned(env))
      /\ progress' = [at |-> IF eval THEN "eval" ELSE "log", step |-> n]
      /\ weights' = IF eval THEN n ELSE weights
      /\ env' = IF eval THEN Called(env, "evaluate") ELSE env
      /\ rollout' = IF eval THEN Called(rollout, "evaluate") ELSE rollout
      /\ UNCHANGED <<cfg, ranks, collector, resultChannel, trajectories>>
  BY <1>1 DEF EndTraining
<1>3. progress \in Progress /\ weights \in Nat /\ cfg \in Configs
  BY DEF LoopInv
<1>4. progress'.at \in {"eval", "log"} /\ (progress'.at = "eval" <=> eval) /\ progress'.step = n
  BY <1>2
<1>5. Idle
  <2>1. CalledBy(cfg, progress, env, rollout)
    BY DEF WholeInv
  <2>2. DOMAIN env = 0 .. cfg.envWorkers - 1
    BY DEF LoopInv, Good
  <2>3. ~(cfg.overlap /\ progress.step + 1 < cfg.maxSteps)
          => \A e \in 0 .. cfg.envWorkers - 1 : env[e].calls = <<>>
    BY <1>2, <2>1 DEF CalledBy
  <2>4. cfg.overlap /\ progress.step + 1 < cfg.maxSteps
          => \A e \in 0 .. cfg.envWorkers - 1 : env[e].calls = <<>>
    BY <1>1, <1>2, <2>2 DEF AllReturned
  <2>5. \A r \in 0 .. cfg.rolloutWorkers - 1 : rollout[r].calls = <<>>
    BY <1>2, <2>1 DEF CalledBy, RolloutCalled
  <2> QED BY <2>3, <2>4, <2>5 DEF Idle
<1>6. Synced(cfg', progress', weights')
  <2>1. PICK k \in Nat \ {0}, m \in Nat, v \in Nat : k = cfg.syncInterval /\ m = progress.step /\ v = weights
    BY <1>3, JobSteps DEF Progress
  <2>2. m - v <= m % k
    BY <1>2, <2>1 DEF WholeInv, Synced
  <2>3. n = m + 1 /\ n % k \in 0 .. k - 1 /\ (n % k # 0 => n % k = (m % k) + 1)
    <3>1. (m + 1) % k # 0 => (m + 1) % k = (m % k) + 1
      BY ModNext
    <3>2. (m + 1) % k \in 0 .. k - 1
      OBVIOUS
    <3> QED BY <1>1, <2>1, <3>1, <3>2
  <2>4. m % k \in Nat
    OBVIOUS
  <2>5. n % k # 0 => n - v <= n % k /\ n - n <= n % k
    BY <2>2, <2>3, <2>4
  <2>6. weights' \in {n, v}
    BY <1>2, <2>1
  <2> QED BY <1>2, <1>4, <2>1, <2>5, <2>6 DEF Synced
<1>7. PICK total \in Nat : total = Recordings(cfg) * cfg.stages
  BY <1>3, AllMade
<1>8. ASSUME NEW e \in 0 .. cfg.envWorkers - 1
      PROVE  /\ env'[e].calls = IF eval THEN <<"evaluate">> ELSE <<>>
             /\ Keeps(cfg, weights', env'[e]) /\ ~Interacting(env'[e]) /\ Took(cfg, env'[e]) = total
  <2>1. CASE eval
    <3>1. PICK method \in Methods : method = "evaluate"
      BY Interaction
    <3>2. PICK workers2, v2 : workers2 = env' /\ v2 = weights'
      OBVIOUS
    <3>3. workers2 = Called(env, method)
      BY <1>2, <2>1, <3>1, <3>2
    <3>4. /\ workers2[e].calls = <<method>> /\ Keeps(cfg, v2, workers2[e])
          /\ Interacting(workers2[e]) <=> method = "interact"
          /\ Took(cfg, workers2[e]) = IF method = "interact" THEN 0 ELSE Recordings(cfg) * cfg.stages
      BY <1>5, <3>3, EnvAsked
    <3> QED BY <1>7, <2>1, <3>1, <3>2, <3>4
  <2>2. CASE ~eval
    <3>1. PICK v : v = weights'
      OBVIOUS
    <3>2. ~Interacting(env[e]) /\ Keeps(cfg, v, env[e]) /\ Took(cfg, env[e]) = Recordings(cfg) * cfg.stages
      BY <1>5, IdleWorkers
    <3> QED BY <1>2, <1>5, <1>7, <2>2, <3>1, <3>2 DEF Idle
  <2> QED BY <2>1, <2>2
<1>9. /\ rollout' \in [0 .. cfg.rolloutWorkers - 1 -> RolloutWorker]
      /\ \A r \in 0 .. cfg.rolloutWorkers - 1 :
            /\ rollout'[r].calls = IF eval THEN <<"evaluate">> ELSE <<>>
            /\ rollout'[r].count = 0 /\ Gave(cfg, rollout'[r]) = total
  <2>1. CASE eval
    <3>1. PICK method \in {"generate", "evaluate"} : method = "evaluate"
      OBVIOUS
    <3>2. PICK rolls2 : rolls2 = rollout'
      OBVIOUS
    <3>3. rolls2 = Called(rollout, method)
      BY <1>2, <2>1, <3>1, <3>2
    <3>4. /\ rolls2 \in [0 .. cfg.rolloutWorkers - 1 -> RolloutWorker]
          /\ \A r \in 0 .. cfg.rolloutWorkers - 1 :
                /\ rolls2[r].calls = <<method>> /\ rolls2[r].count = 0
                /\ Gave(cfg, rolls2[r]) = IF method = "generate" THEN 0 ELSE Recordings(cfg) * cfg.stages
      BY <1>5, <3>3, RolloutAsked
    <3> QED BY <1>7, <2>1, <3>1, <3>2, <3>4
  <2>2. CASE ~eval
    <3>1. rollout' = rollout
      BY <1>2, <2>2
    <3>2. rollout \in [0 .. cfg.rolloutWorkers - 1 -> RolloutWorker]
      BY DEF WholeInv, CalledBy
    <3>3. \A r \in 0 .. cfg.rolloutWorkers - 1 :
             rollout[r].count = 0 /\ Gave(cfg, rollout[r]) = Recordings(cfg) * cfg.stages
      BY <1>5, IdleWorkers
    <3> QED BY <1>5, <1>7, <2>2, <3>1, <3>2, <3>3 DEF Idle
  <2> QED BY <2>1, <2>2
<1>10. CalledBy(cfg', progress', env', rollout')
  <2>1. \A e \in 0 .. cfg.envWorkers - 1 : EnvCalled(progress'.at, env'[e].calls)
    BY <1>4, <1>8 DEF EnvCalled
  <2>2. \A r \in 0 .. cfg.rolloutWorkers - 1 :
           RolloutCalled(progress'.at, rollout'[r].calls) /\ rollout'[r].count = 0
             /\ rollout'[r].calls # <<"generate">>
    BY <1>4, <1>9 DEF RolloutCalled
  <2> QED BY <1>2, <1>4, <1>9, <2>1, <2>2 DEF CalledBy
<1>11. Answered(cfg', weights', ranks'.toRollout, env', rollout', resultChannel')
  <2>1. PICK v2, workers2, rolls2 : v2 = weights' /\ workers2 = env' /\ rolls2 = rollout'
    OBVIOUS
  <2>2. Answered(cfg, v2, ranks.toRollout, workers2, rolls2, resultChannel)
    BY <1>5, <1>8, <1>9, <2>1, AnsweredNext
  <2> QED BY <1>2, <2>1, <2>2
<1>12. /\ \A e \in 0 .. cfg'.envWorkers - 1 : Keeps(cfg', weights', env'[e])
       /\ collector' \in [1 .. cfg'.actors -> Collector] /\ trajectories' \in Seq(Piece)
       /\ trajectories' = <<>>
  BY <1>2, <1>8 DEF WholeInv
<1> QED BY <1>4, <1>6, <1>10, <1>11, <1>12 DEF WholeInv

LEMMA EndStepWhole ==
    ASSUME LoopInv, WholeInv, EndStep
    PROVE  WholeInv'
<1>1. /\ progress.at \in {"eval", "log"} /\ progress' = [progress EXCEPT !.at = "start"]
      /\ AllReturned(env) /\ AllReturned(rollout)
      /\ UNCHANGED <<cfg, ranks, weights, env, rollout, collector, resultChannel, trajectories>>
  BY DEF EndStep
<1>2. progress'.at = "start" /\ progress'.step = progress.step
  BY <1>1 DEF LoopInv, Progress
<1>3. Synced(cfg', progress', weights')
  BY <1>1, <1>2 DEF WholeInv, Synced
<1>4. CalledBy(cfg', progress', env', rollout')
  <2>1. CalledBy(cfg, progress, env, rollout)
    BY DEF WholeInv
  <2>2. DOMAIN env = 0 .. cfg.envWorkers - 1
    BY DEF LoopInv, Good
  <2>3. \A e \in 0 .. cfg.envWorkers - 1 : env[e].calls = <<>>
    BY <1>1, <2>2 DEF AllReturned
  <2>4. \A r \in 0 .. cfg.rolloutWorkers - 1 : rollout[r].calls = <<>>
    BY <1>1, <2>1 DEF AllReturned, CalledBy
  <2> QED BY <1>1, <1>2, <2>1, <2>3, <2>4 DEF CalledBy, EnvCalled, RolloutCalled
<1>5. /\ \A e \in 0 .. cfg'.envWorkers - 1 : Keeps(cfg', weights', env'[e])
      /\ Answered(cfg', weights', ranks'.toRollout, env', rollout', resultChannel')
      /\ collector' \in [1 .. cfg'.actors -> Collector] /\ trajectories' \in Seq(Piece)
      /\ trajectories' = <<>>
  BY <1>1 DEF WholeInv
<1> QED BY <1>2, <1>3, <1>4, <1>5 DEF WholeInv

\* The initial states have it, and every step keeps it.
LEMMA WholeBegins ==
    ASSUME LoopInit
    PROVE  WholeInv
<1>1. /\ cfg \in Configs /\ progress = [at |-> "start", step |-> cfg.firstStep] /\ weights = 0
      /\ env = [e \in 0 .. cfg.envWorkers - 1 |->
                [calls |-> <<>>, at |-> Beginning, prefetched |-> FALSE, acted |-> <<>>,
                 clock |-> [m \in Mode |-> [s \in 1 .. cfg.stages |-> 0]],
                 steps |-> [s \in 1 .. cfg.stages |-> <<>>]]]
      /\ rollout = [r \in 0 .. cfg.rolloutWorkers - 1 |-> [calls |-> <<>>, count |-> 0]]
      /\ collector = [a \in 1 .. cfg.actors |-> [left |-> 0, batch |-> <<>>]]
      /\ resultChannel = [k \in (0 .. cfg.rolloutWorkers - 1) \X (0 .. cfg.envWorkers - 1) \X Mode |-> <<>>]
      /\ trajectories = <<>>
  BY DEF LoopInit, EnvRank, RolloutRank, Stage
<1>2. Synced(cfg, progress, weights)
  BY <1>1, ConfigsAssumption DEF Synced
<1>3. ASSUME NEW e \in 0 .. cfg.envWorkers - 1
      PROVE  /\ env[e].calls = <<>> /\ ~Interacting(env[e]) /\ Keeps(cfg, weights, env[e])
             /\ Took(cfg, env[e]) = Recordings(cfg) * cfg.stages
  <2>1. env[e].calls = <<>> /\ env[e].steps = [s \in 1 .. cfg.stages |-> <<>>]
    BY <1>1
  <2>2. ~Interacting(env[e])
    BY <2>1 DEF Interacting, Executes
  <2> QED BY <2>1, <2>2 DEF Keeps, Took
<1>4. /\ rollout \in [0 .. cfg.rolloutWorkers - 1 -> RolloutWorker]
      /\ \A r \in 0 .. cfg.rolloutWorkers - 1 :
            /\ rollout[r].calls = <<>> /\ rollout[r].count = 0
            /\ Gave(cfg, rollout[r]) = Recordings(cfg) * cfg.stages
  <2>1. PICK roll : roll = [calls |-> <<>>, count |-> 0]
    OBVIOUS
  <2>2. roll \in RolloutWorker /\ roll.calls = <<>> /\ roll.count = 0
    BY <2>1 DEF RolloutWorker
  <2>3. rollout = [r \in 0 .. cfg.rolloutWorkers - 1 |-> roll]
    BY <1>1, <2>1
  <2> QED BY <2>2, <2>3 DEF Gave, Executes
<1>5. CalledBy(cfg, progress, env, rollout)
  BY <1>1, <1>3, <1>4 DEF CalledBy, EnvCalled, RolloutCalled
<1>6. Answered(cfg, weights, ranks.toRollout, env, rollout, resultChannel)
  <2>1. LoopInv
    BY LoopBegins
  <2>2. Knows(cfg, ranks.toRollout)
    BY <2>1, InvFacts
  <2>3. PICK total \in Nat : total = Recordings(cfg) * cfg.stages
    BY <1>1, AllMade
  <2>4. ASSUME NEW e \in 0 .. cfg.envWorkers - 1, NEW n \in 1 .. Len(ranks.toRollout[e])
        PROVE  InOrder(cfg, weights, Took(cfg, env[e]), Gave(cfg, rollout[ranks.toRollout[e][n].rank]),
                       resultChannel[<<ranks.toRollout[e][n].rank, e, "train">>])
    <3>1. PICK d : d = ranks.toRollout[e][n].rank
      OBVIOUS
    <3>2. d \in 0 .. cfg.rolloutWorkers - 1
      BY <2>2, <3>1 DEF Knows, Shares
    <3>3. resultChannel[<<d, e, "train">>] = <<>>
      <4>1. <<d, e, "train">> \in (0 .. cfg.rolloutWorkers - 1) \X (0 .. cfg.envWorkers - 1) \X Mode
        BY <3>2, Modes
      <4> QED BY <1>1, <4>1
    <3>4. Took(cfg, env[e]) = total /\ Gave(cfg, rollout[d]) = total
      BY <1>3, <1>4, <2>3, <3>2
    <3>5. InOrder(cfg, weights, total, total, <<>>)
      BY DEF InOrder
    <3> QED BY <3>1, <3>3, <3>4, <3>5
  <2> QED BY <2>4 DEF Answered
<1>7. collector \in [1 .. cfg.actors -> Collector] /\ trajectories \in Seq(Piece)
  <2>1. [left |-> 0, batch |-> <<>>] \in Collector
    BY DEF Collector
  <2> QED BY <1>1, <2>1
<1> QED BY <1>1, <1>2, <1>3, <1>5, <1>6, <1>7 DEF WholeInv

LEMMA WholeGoesOn ==
    ASSUME LoopInv, WholeInv, [LoopNext]_loopVars
    PROVE  WholeInv'
<1>1. ASSUME NEW e \in EnvRank,
             BeginEpoch(e) \/ InteractStep(e) \/ EndOfEpoch(e)
                 \/ PrefetchBootstrap(e) \/ BeginEvalEpoch(e) \/ EvaluateStep(e)
      PROVE  WholeInv'
  BY <1>1, BeginEpochWhole, InteractWhole, EndOfEpochWhole, PrefetchWhole, BeginEvalWhole, EvaluateWhole
<1>2. ASSUME NEW r \in RolloutRank, RolloutGenerate(r) \/ RolloutEvaluate(r)
      PROVE  WholeInv'
  BY <1>2, GenerateWhole, EvaluationWhole
<1>3. ASSUME NEW a \in DOMAIN collector, RecvTrajectory(a)
      PROVE  WholeInv'
  BY <1>3, RecvWhole
<1>4. CASE BeginStep \/ StartTraining \/ EndTraining \/ EndStep
  BY <1>4, BeginStepWhole, StartTrainingWhole, EndTrainingWhole, EndStepWhole
<1>5. CASE UNCHANGED loopVars
  BY <1>5 DEF loopVars, WholeInv
<1> QED BY <1>1, <1>2, <1>3, <1>4, <1>5 DEF LoopNext

-----------------------------------------------------------------------------
(* What the actors train on.                                                 *)

\* The trajectories joined are those gathered.
LEMMA PiecesAre ==
    ASSUME NEW c \in Configs, PerWorker(c) \in Nat \ {0}, NEW coll, Filled(c, coll),
           NEW batches, batches = [a \in DOMAIN coll |-> coll[a].batch]
    PROVE  /\ DOMAIN FlattenSeq(batches) = 1 .. c.actors * Share(c)
           /\ \A n \in 1 .. c.actors * Share(c) : FlattenSeq(batches)[n] = Gathered(c, coll)[n]
<1>1. PICK A \in Nat \ {0}, H \in Nat \ {0} : A = c.actors /\ H = Share(c)
  BY JobNumbers, PartsFacts
<1>2. PICK N \in Nat : N = A * H
  OBVIOUS
<1>3. ASSUME NEW a \in 1 .. A PROVE coll[a].batch \in Seq(Piece) /\ Len(coll[a].batch) = H
  BY <1>1 DEF Filled, Collector
<1>4. batches = [a \in 1 .. A |-> coll[a].batch] /\ Len(batches) = A /\ batches \in Seq(Seq(Piece))
  <2>1. DOMAIN coll = 1 .. A
    BY <1>1 DEF Filled
  <2> QED BY <1>3, <2>1
<1>5. PICK parts : parts = [n \in 1 .. A |-> [size |-> H]]
  OBVIOUS
<1>6. Len(parts) = A /\ \A n \in 1 .. A : parts[n].size = H
  BY <1>5
<1>7. Sized(parts) /\ Fit(batches, parts)
  BY <1>3, <1>4, <1>6 DEF Sized, Fit
<1>8. ASSUME NEW n \in 0 .. A PROVE Before(parts, n + 1) = n * H
  <2>1. PICK T : T = {i \in 0 .. A : Before(parts, i + 1) = i * H}
    OBVIOUS
  <2>2. 0 \in T
    <3>1. Before(parts, 1) = 0
      BY <1>7, BeforeFacts
    <3>2. 0 * H = 0 /\ 0 + 1 = 1
      OBVIOUS
    <3> QED BY <2>1, <3>1, <3>2
  <2>3. ASSUME NEW i \in 1 .. A, i - 1 \in T PROVE i \in T
    <3>1. Before(parts, i) = (i - 1) * H
      <4>1. (i - 1) + 1 = i
        OBVIOUS
      <4> QED BY <2>1, <2>3, <4>1
    <3>2. Before(parts, i + 1) = Before(parts, i) + H
      BY <1>6, <1>7, BeforeFacts
    <3>3. (i - 1) * H + H = i * H
      OBVIOUS
    <3> QED BY <2>1, <3>1, <3>2, <3>3
  <2>4. n \in T
    BY <2>2, <2>3, Climb
  <2> QED BY <2>1, <2>4
<1>9. PICK pieces : pieces = FlattenSeq(batches)
  OBVIOUS
<1>70. batches \in Seq(Seq(Piece)) /\ Fit(batches, parts)
  BY <1>4, <1>7
<1>10. /\ pieces \in Seq(Piece) /\ Len(pieces) = Before(parts, A + 1)
       /\ \A a \in 1 .. A : \A j \in 1 .. Len(batches[a]) : pieces[Before(parts, a) + j] = batches[a][j]
  <2>1. FlattenSeq(batches) \in Seq(Piece)
    BY <1>4, <1>7, FlattenPlaces
  <2>2. Len(FlattenSeq(batches)) = Before(parts, Len(parts) + 1)
    BY <1>4, <1>7, FlattenPlaces
  <2>3. \A n \in 1 .. Len(batches) : \A j \in 1 .. Len(batches[n]) :
           FlattenSeq(batches)[Before(parts, n) + j] = batches[n][j]
    BY <1>70, FlattenPlaces
  <2> QED BY <1>4, <1>6, <1>9, <2>1, <2>2, <2>3
<1>11. DOMAIN pieces = 1 .. N
  <2>1. Len(pieces) = N
    BY <1>2, <1>8, <1>10
  <2> QED BY <1>10, <2>1, LenProperties
<1>12. ASSUME NEW n \in 1 .. N PROVE pieces[n] = Gathered(c, coll)[n]
  <2>1. PICK a \in 1 .. A, k \in 0 .. H - 1 : a = StageOf(H, n) /\ k = CutOf(H, n) /\ n = (a - 1) * H + k + 1
    <3>1. /\ StageOf(H, n) \in 1 .. A /\ CutOf(H, n) \in 0 .. H - 1
          /\ n = (StageOf(H, n) - 1) * H + CutOf(H, n) + 1
      BY <1>2, CutFacts
    <3> QED BY <3>1
  <2>2. PICK b \in Nat, j \in 1 .. H : b = (a - 1) * H /\ j = k + 1
    OBVIOUS
  <2>3. Before(parts, a) = b
    <3>1. PICK i \in 0 .. A : i = a - 1 /\ i + 1 = a
      OBVIOUS
    <3> QED BY <1>8, <2>2, <3>1
  <2>4. n = b + j
    <3>1. n = b + k + 1
      BY <2>1, <2>2
    <3>2. b + k + 1 = b + j
      BY <2>2
    <3> QED BY <3>1, <3>2
  <2>5. batches[a] = coll[a].batch /\ Len(batches[a]) = H
    BY <1>3, <1>4
  <2>6. pieces[n] = coll[a].batch[j]
    <3>1. j \in 1 .. Len(batches[a])
      BY <2>5
    <3>2. pieces[Before(parts, a) + j] = batches[a][j]
      BY <1>10, <3>1
    <3> QED BY <2>3, <2>4, <2>5, <3>2
  <2> QED BY <1>1, <1>2, <2>1, <2>2, <2>6 DEF Gathered
<1> QED BY <1>1, <1>2, <1>9, <1>11, <1>12

\* Every environment of every stage has one place in the pieces.
Places(c, g, n) == {h \in (1 .. n) \X (1 .. PerWorker(c)) : h[2] \in DOMAIN g[h[1]].slots}
Seen(g, held) == {<<g[h[1]].stage, g[h[1]].slots[h[2]]>> : h \in held}

\* The environments of the pieces gathered are all, each once.
LEMMA EveryOne ==
    ASSUME NEW c \in Configs, PerWorker(c) \in Nat \ {0}, NEW v, NEW workers, NEW g, NEW n,
           Spread(c, v, workers, g, n),
           NEW held, held = Places(c, g, n)
    PROVE  /\ Seen(g, held) = (1 .. c.stages) \X (0 .. c.envWorkers * PerWorker(c) - 1)
           /\ Cardinality(held) = c.stages * (c.envWorkers * PerWorker(c))
<1>1. PICK S \in Nat \ {0}, E \in Nat \ {0}, P \in Nat \ {0}, W \in Nat \ {0}, p \in Nat \ {0},
      N \in Nat \ {0} :
        /\ S = c.stages /\ E = c.envWorkers /\ P = PerWorker(c) /\ W = Width(c) /\ p = Parts(c) /\ N = n
        /\ W * p = P
  BY JobNumbers, PartsFacts DEF Spread
<1>2. PICK K \in Nat : K = E * P
  OBVIOUS
<1>3. N * W = S * K /\ W <= P
  <2>1. N * W = S * K
    BY <1>1, <1>2 DEF Spread
  <2>2. W <= W * p
    OBVIOUS
  <2> QED BY <1>1, <2>1, <2>2
<1>4. ASSUME NEW i \in 1 .. N
      PROVE g[i] \in Piece /\ IsPart(c, v, workers, g[i]) /\ DOMAIN g[i].slots = 1 .. W
  <2>1. g[i] \in Piece /\ IsPart(c, v, workers, g[i])
    BY <1>1 DEF Spread
  <2>2. g[i].slots \in Seq(Nat) /\ Len(g[i].slots) = W
    BY <1>1, <2>1 DEF Piece, IsPart
  <2> QED BY <2>1, <2>2, LenProperties
<1>50. held = {h \in (1 .. N) \X (1 .. P) : h[2] \in DOMAIN g[h[1]].slots}
  BY <1>1 DEF Places
<1>5. held = (1 .. N) \X (1 .. W)
  <2>1. ASSUME NEW h \in held PROVE h \in (1 .. N) \X (1 .. W)
    <3>1. h \in (1 .. N) \X (1 .. P) /\ h[2] \in DOMAIN g[h[1]].slots
      BY <1>50
    <3>2. PICK i \in 1 .. N, j \in 1 .. P : h = <<i, j>>
      BY <3>1
    <3>3. j \in DOMAIN g[i].slots
      BY <3>1, <3>2
    <3> QED BY <1>4, <3>2, <3>3
  <2>2. ASSUME NEW i \in 1 .. N, NEW j \in 1 .. W PROVE <<i, j>> \in held
    <3>1. j \in 1 .. P
      BY <1>3
    <3>2. j \in DOMAIN g[i].slots
      BY <1>4
    <3> QED BY <1>50, <3>1, <3>2
  <2> QED BY <2>1, <2>2
<1>6. Cardinality(held) = S * K
  <2>1. ASSUME NEW k \in Nat PROVE IsFiniteSet(1 .. k) /\ Cardinality(1 .. k) = k
    <3>1. 1 \in Int /\ k \in Int
      OBVIOUS
    <3>2. IsFiniteSet(1 .. k) /\ Cardinality(1 .. k) = (IF 1 > k THEN 0 ELSE k - 1 + 1)
      BY <3>1, FS_Interval
    <3> QED BY <3>2
  <2>2. N \in Nat /\ W \in Nat
    OBVIOUS
  <2>3. Cardinality(held) = Cardinality(1 .. N) * Cardinality(1 .. W)
    BY <1>5, <2>1, <2>2, FS_Product
  <2> QED BY <1>3, <2>1, <2>2, <2>3
<1>7. PICK seen : seen = {<<g[h[1]].stage, g[h[1]].slots[h[2]]>> : h \in held}
  OBVIOUS
<1>8. ASSUME NEW x \in seen PROVE x \in (1 .. S) \X (0 .. K - 1)
  <2>1. PICK h \in held : x = <<g[h[1]].stage, g[h[1]].slots[h[2]]>>
    BY <1>7
  <2>2. PICK i \in 1 .. N, j \in 1 .. W : h = <<i, j>>
    BY <1>5
  <2>3. x = <<g[i].stage, g[i].slots[j]>>
    BY <2>1, <2>2
  <2>4. j \in 1 .. Width(c) /\ g[i] \in Piece /\ IsPart(c, v, workers, g[i])
    BY <1>1, <1>4
  <2>5. g[i].stage \in 1 .. S /\ g[i].slots[j] \in Nat /\ g[i].slots[j] < K
    BY <1>1, <1>2, <2>4, SlotIs
  <2>6. g[i].slots[j] \in 0 .. K - 1
    BY <2>5
  <2> QED BY <2>3, <2>5, <2>6
<1>9. ASSUME NEW s \in 1 .. S, NEW x \in 0 .. K - 1 PROVE <<s, x>> \in seen
  <2>1. \A r \in 1 .. c.stages : \A y \in 0 .. c.envWorkers * PerWorker(c) - 1 : CoveredBy(g, n, Width(c), r, y)
    BY Covers
  <2>2. CoveredBy(g, N, W, s, x)
    BY <1>1, <1>2, <2>1
  <2>3. PICK i \in 1 .. N, j \in 1 .. W : g[i].stage = s /\ g[i].slots[j] = x
    BY <2>2 DEF CoveredBy
  <2>4. PICK h : h = <<i, j>> /\ h[1] = i /\ h[2] = j
    <3>1. <<i, j>>[1] = i /\ <<i, j>>[2] = j
      OBVIOUS
    <3> QED BY <3>1
  <2>5. h \in held
    BY <1>5, <2>4
  <2> QED BY <1>7, <2>3, <2>4, <2>5
<1>10. seen = (1 .. S) \X (0 .. K - 1)
  BY <1>8, <1>9
<1> QED BY <1>1, <1>2, <1>6, <1>7, <1>10 DEF Seen

\* Every trajectory has all its steps in order, with the weights of the last sync.
LEMMA StepsAre ==
    ASSUME NEW c \in Configs, NEW v, NEW steps \in Seq(StepRecord), Whole(c, v, steps)
    PROVE  /\ Len(steps) = c.epochs * (c.chunks + 1)
           /\ \A m \in DOMAIN steps :
                 IF m % (c.chunks + 1) = 0 THEN steps[m].version = NoVersion
                 ELSE steps[m].version = v /\ steps[m + 1].time = steps[m].time + 1
<1>1. PICK n \in Nat, k \in Nat \ {0} : n = c.epochs /\ k = PerEpoch(c) /\ k = c.chunks + 1
  BY JobNumbers DEF PerEpoch
<1>2. PICK l \in Nat : l = n * k /\ l = k * n
  OBVIOUS
<1>3. Len(steps) = l /\ Recorded(c, v, steps) /\ DOMAIN steps = 1 .. l
  <2>1. Len(steps) = l /\ Recorded(c, v, steps)
    BY <1>1, <1>2 DEF Whole, Recordings
  <2> QED BY <2>1, LenProperties
<1>4. l % k = 0
  <2>1. (k * n + 0) % k = 0
    OBVIOUS
  <2>2. k * n + 0 = l
    BY <1>2
  <2> QED BY <2>1, <2>2
<1>5. ASSUME NEW m \in 1 .. l
      PROVE  IF m % k = 0 THEN steps[m].version = NoVersion
             ELSE steps[m].version = v /\ steps[m + 1].time = steps[m].time + 1
  <2>1. /\ steps[m].version = VersionIn(c, v, m)
        /\ m < Len(steps) /\ m % PerEpoch(c) # 0 => steps[m + 1].time = steps[m].time + 1
    BY <1>3 DEF Recorded
  <2>2. m % k # 0 => m < l
    BY SMTT(60), <1>4
  <2> QED BY <1>1, <1>3, <2>1, <2>2 DEF VersionIn
<1> QED BY <1>1, <1>2, <1>3, <1>5

\* The invariant is enough.
LEMMA WholeShown ==
    ASSUME LoopInv, WholeInv
    PROVE  WholeBatch
<1> SUFFICES ASSUME progress.at = "training" PROVE WholeBatch
  BY DEF WholeBatch
<1>1. PICK c, v, workers, coll, queue : c = cfg /\ v = weights /\ workers = env /\ coll = collector
        /\ queue = trajectories
  OBVIOUS
<1>2. c \in Configs /\ PerWorker(c) \in Nat \ {0} /\ coll \in [1 .. c.actors -> Collector]
  BY <1>1, InvFacts DEF LoopInv, Knows, WholeInv
<1>3. Filled(c, coll)
  <2>1. ASSUME NEW a \in 1 .. c.actors PROVE Len(coll[a].batch) = Share(c)
    <3>1. coll[a].left + Len(coll[a].batch) = Share(c) /\ coll[a].left = 0
      BY <1>1 DEF WholeInv
    <3>2. coll[a].batch \in Seq(Piece)
      BY <1>2 DEF Collector
    <3>3. Len(coll[a].batch) \in Nat
      BY <3>2, LenProperties
    <3> QED BY <3>1, <3>3
  <2> QED BY <1>2, <2>1 DEF Filled
<1>4. Delivered(c, v, workers, Held(c, queue, coll))
  BY <1>1 DEF WholeInv
<1>5. PICK batches, pieces, N : /\ batches = [a \in DOMAIN coll |-> coll[a].batch]
        /\ pieces = FlattenSeq(batches)
                                /\ N = c.actors * Share(c)
  OBVIOUS
<1>6. DOMAIN pieces = 1 .. N /\ \A n \in 1 .. N : pieces[n] = Gathered(c, coll)[n]
  BY ZenonT(120), <1>2, <1>3, <1>5, PiecesAre
<1>7. PICK g : g = Gathered(c, coll)
  OBVIOUS
<1>8. Spread(c, v, workers, g, N)
  BY <1>2, <1>3, <1>4, <1>5, <1>7, GatheredIs
<1>9. PICK held : held = Places(c, g, N)
  OBVIOUS
<1>10. held = {h \in (DOMAIN pieces) \X (1 .. PerWorker(c)) : h[2] \in DOMAIN pieces[h[1]].slots}
  <2>1. \A h \in (1 .. N) \X (1 .. PerWorker(c)) : h[1] \in 1 .. N /\ pieces[h[1]] = g[h[1]]
    BY <1>6, <1>7
  <2> QED BY <1>6, <1>9, <2>1 DEF Places
<1>11. /\ Seen(g, held) = (1 .. c.stages) \X (0 .. c.envWorkers * PerWorker(c) - 1)
       /\ Cardinality(held) = c.stages * (c.envWorkers * PerWorker(c))
  BY <1>2, <1>8, <1>9, EveryOne
<1>12. {<<pieces[h[1]].stage, pieces[h[1]].slots[h[2]]>> : h \in held} = Seen(g, held)
  <2>1. \A h \in held : h[1] \in 1 .. N
    BY <1>9 DEF Places
  <2>2. \A h \in held : pieces[h[1]] = g[h[1]]
    BY <1>6, <1>7, <2>1
  <2> QED BY <2>2 DEF Seen
<1>13. c.envWorkers * PerWorker(c) = StageBatch(c)
  <2>1. PICK a \in Nat \ {0}, b \in Nat \ {0} :
          /\ a = PerWorker(c) /\ a = StageBatch(c) \div c.envWorkers
          /\ b = StageBatch(c) \div c.rolloutWorkers
          /\ StageBatch(c) \in Nat
          /\ c.envWorkers * a = StageBatch(c) /\ c.rolloutWorkers * b = StageBatch(c)
    BY <1>1, JobFacts DEF LoopInv
  <2> QED BY <2>1
<1>14. ASSUME NEW n \in DOMAIN pieces
       PROVE  /\ Len(pieces[n].steps) = c.epochs * (c.chunks + 1)
              /\ \A m \in DOMAIN pieces[n].steps :
                    IF m % (c.chunks + 1) = 0 THEN pieces[n].steps[m].version = NoVersion
                    ELSE /\ pieces[n].steps[m].version = v
                         /\ pieces[n].steps[m + 1].time = pieces[n].steps[m].time + 1
  <2>1. n \in 1 .. N /\ pieces[n] = g[n]
    BY <1>6, <1>7
  <2>2. g[n] \in Piece /\ IsPart(c, v, workers, g[n])
    BY <1>8, <2>1 DEF Spread
  <2>3. PICK steps \in Seq(StepRecord) : steps = pieces[n].steps /\ Whole(c, v, steps)
    BY <2>1, <2>2 DEF Piece, IsPart
  <2>4. /\ Len(steps) = c.epochs * (c.chunks + 1)
        /\ \A m \in DOMAIN steps :
              IF m % (c.chunks + 1) = 0 THEN steps[m].version = NoVersion
              ELSE steps[m].version = v /\ steps[m + 1].time = steps[m].time + 1
    BY <1>2, <2>3, StepsAre
  <2> QED BY <2>3, <2>4
<1>15. progress.step - weights < cfg.syncInterval
  <2>1. PICK k \in Nat \ {0}, n \in Nat, w \in Nat : k = cfg.syncInterval /\ n = progress.step /\ w = weights
    BY <1>1, <1>2, JobSteps DEF LoopInv, Progress
  <2>2. n - w <= n % k
    BY <2>1 DEF WholeInv, Synced
  <2>3. n % k \in 0 .. k - 1
    OBVIOUS
  <2> QED BY <2>1, <2>2, <2>3
<1>16. {<<pieces[h[1]].stage, pieces[h[1]].slots[h[2]]>> : h \in held} = Stage \X (0 .. (StageBatch(cfg) - 1))
  BY <1>1, <1>11, <1>12, <1>13 DEF Stage
<1>17. Cardinality(held) = cfg.stages * StageBatch(cfg)
  BY <1>1, <1>11, <1>13
<1> DEFINE all == FlattenSeq([a \in DOMAIN collector |-> collector[a].batch])
           places == {h \in (DOMAIN all) \X (1 .. PerWorker(cfg)) : h[2] \in DOMAIN all[h[1]].slots}
<1>18. all = pieces
  BY <1>1, <1>5
<1> HIDE DEF all
<1>19. places = held
  BY <1>1, <1>10, <1>18
<1> HIDE DEF places
<1>20. /\ {<<all[h[1]].stage, all[h[1]].slots[h[2]]>> : h \in places} = Stage \X (0 .. (StageBatch(cfg) - 1))
       /\ Cardinality(places) = cfg.stages * StageBatch(cfg)
  BY <1>16, <1>17, <1>18, <1>19
<1>21. \A n \in DOMAIN all :
          /\ Len(all[n].steps) = cfg.epochs * (cfg.chunks + 1)
          /\ \A m \in DOMAIN all[n].steps :
                IF m % (cfg.chunks + 1) = 0 THEN all[n].steps[m].version = NoVersion
                ELSE /\ all[n].steps[m].version = weights
                     /\ all[n].steps[m + 1].time = all[n].steps[m].time + 1
  BY <1>1, <1>14, <1>18
<1> QED BY <1>15, <1>20, <1>21 DEF WholeBatch, all, places

\* What the actors train on is every environment of every stage once, whichever actor took which trajectory,
\* each with all its steps in order, generated with the weights of the last sync (WholeBatch): for every job
\* that passes validate_embodied_cfg and the assertions of init_worker, is resumed at a step of
\* weight_sync_interval, and whose trajectories can be cut evenly for the actors.
THEOREM WholeBatchHolds == LoopSpec => []WholeBatch
<1>1. LoopInit => LoopInv /\ WholeInv
  BY LoopBegins, WholeBegins
<1>2. LoopInv /\ WholeInv /\ [LoopNext]_loopVars => (LoopInv /\ WholeInv)'
  BY LoopGoesOn, WholeGoesOn
<1>3. LoopInv /\ WholeInv => WholeBatch
  BY WholeShown
<1> QED BY <1>1, <1>2, <1>3, PTL DEF LoopSpec
==============================================================================
