-------------------------- MODULE LineTableProofs --------------------------
(***************************************************************************)
(* Lemmas about the operators of LineTable for every value of the          *)
(* constants: the table is the records of the units one after another, and *)
(* its search finds the first record of a line.                            *)
(***************************************************************************)
EXTENDS LineTable, BreakpointListProofs

----------------------------------------------------------------------------
(* FlattenSeq.  Its recursive function is one for which an equation holds; *)
(* there is such a function, and any two agree.                            *)

Concatenates(g, s, n) ==
  g = [i \in 1 .. n |-> IF i = 1 THEN s[i] ELSE g[i - 1] \o s[i]]

LEMMA ConcatenatesStep ==
  ASSUME NEW s, NEW n \in Nat \ {0}, NEW g, Concatenates(g, s, n)
  PROVE  g[1] = s[1] /\ \A k \in 1 .. n - 1 : g[k + 1] = g[k] \o s[k + 1]
<1>1. g[1] = s[1]
  BY DEF Concatenates
<1>2. ASSUME NEW k \in 1 .. n - 1, NEW j, j = k + 1  PROVE g[j] = g[k] \o s[j]
  <2>1. j \in 1 .. n /\ j # 1 /\ j - 1 = k
    BY <1>2
  <2>. QED  BY <2>1 DEF Concatenates
<1>. QED
  BY <1>1, <1>2

LEMMA ConcatenatesExists ==
  ASSUME NEW s, NEW n \in Nat \ {0}
  PROVE  \E g : Concatenates(g, s, n)
<1> DEFINE S == {k \in Nat : \E g : Concatenates(g, s, k)}
<1>1. 1 \in S
  <2>1. Concatenates([i \in 1 .. 1 |-> s[1]], s, 1)
    BY DEF Concatenates
  <2>. QED  BY <2>1
<1>2. ASSUME NEW k \in 1 .. n - 1, k \in S  PROVE k + 1 \in S
  <2>1. PICK g : Concatenates(g, s, k)
    BY <1>2
  <2> DEFINE h == [i \in 1 .. k + 1 |-> IF i = k + 1 THEN g[k] \o s[k + 1] ELSE g[i]]
  <2>2. ASSUME NEW i \in 1 .. k + 1
        PROVE  h[i] = IF i = 1 THEN s[i] ELSE h[i - 1] \o s[i]
    <3>1. CASE i = k + 1
      <4>1. i # 1 /\ i - 1 = k /\ k \in 1 .. k + 1 /\ k # k + 1
        BY <3>1
      <4>2. h[k] = g[k] /\ h[i] = g[k] \o s[i]
        BY <3>1, <4>1
      <4>. HIDE DEF h
      <4>. QED  BY <4>1, <4>2
    <3>2. CASE i # k + 1
      <4>1. i \in 1 .. k /\ h[i] = g[i]
        BY <3>2
      <4>2. g[i] = IF i = 1 THEN s[i] ELSE g[i - 1] \o s[i]
        BY <2>1, <4>1 DEF Concatenates
      <4>3. i # 1 => i - 1 \in 1 .. k + 1 /\ i - 1 # k + 1
        BY <3>2
      <4>4. i # 1 => h[i - 1] = g[i - 1]
        BY <4>3
      <4>. HIDE DEF h
      <4>. QED  BY <4>1, <4>2, <4>4
    <3>. QED  BY <3>1, <3>2
  <2>3. Concatenates(h, s, k + 1)
    <3>1. h = [i \in 1 .. k + 1 |-> h[i]]
      OBVIOUS
    <3>. HIDE DEF h
    <3>2. [i \in 1 .. k + 1 |-> h[i]]
            = [i \in 1 .. k + 1 |-> IF i = 1 THEN s[i] ELSE h[i - 1] \o s[i]]
      BY <2>2
    <3>. QED  BY <3>1, <3>2 DEF Concatenates
  <2>. HIDE DEF h
  <2>. QED  BY <2>3
<1>. HIDE DEF S
<1>3. n \in S
  BY <1>1, <1>2, UpToInduction
<1>. QED
  BY <1>3 DEF S

LEMMA ConcatenatesAgree ==
  ASSUME NEW s, NEW t, NEW m \in Nat, NEW n \in Nat, m <= n,
         \A i \in 1 .. m : s[i] = t[i],
         NEW g, Concatenates(g, s, m), NEW h, Concatenates(h, t, n)
  PROVE  \A i \in 1 .. m : g[i] = h[i]
<1> DEFINE S == {i \in Nat : i \in 1 .. m => g[i] = h[i]}
<1>1. CASE m = 0
  BY <1>1
<1>2. CASE m # 0
  <2>1. /\ g[1] = s[1] /\ h[1] = t[1]
        /\ \A k \in 1 .. m - 1 : g[k + 1] = g[k] \o s[k + 1]
        /\ \A k \in 1 .. n - 1 : h[k + 1] = h[k] \o t[k + 1]
    <3>1. m \in Nat \ {0} /\ n \in Nat \ {0}
      BY <1>2
    <3>2. g[1] = s[1] /\ \A k \in 1 .. m - 1 : g[k + 1] = g[k] \o s[k + 1]
      BY <3>1, ConcatenatesStep
    <3>3. h[1] = t[1] /\ \A k \in 1 .. n - 1 : h[k + 1] = h[k] \o t[k + 1]
      BY <3>1, ConcatenatesStep
    <3>. QED  BY <3>2, <3>3
  <2>2. 1 \in S
    BY <1>2, <2>1
  <2>3. ASSUME NEW k \in 1 .. m - 1, k \in S  PROVE k + 1 \in S
    <3>1. k \in 1 .. m /\ k + 1 \in 1 .. m /\ k \in 1 .. n - 1 /\ g[k] = h[k]
      BY <2>3
    <3>2. g[k + 1] = g[k] \o s[k + 1] /\ h[k + 1] = h[k] \o t[k + 1] /\ s[k + 1] = t[k + 1]
      BY <2>1, <3>1
    <3>3. g[k + 1] = h[k + 1] /\ k + 1 \in Nat
      BY <3>1, <3>2
    <3>. QED  BY <3>3
  <2>. HIDE DEF S
  <2>4. 1 .. m \subseteq S
    BY <1>2, <2>2, <2>3, UpToInduction
  <2>. QED  BY <2>4 DEF S
<1>. QED
  BY <1>1, <1>2

(* The value of FlattenSeq, for any function of that equation.             *)
LEMMA FlattenValue ==
  ASSUME NEW s, Len(s) \in Nat \ {0}
  PROVE  \E g : Concatenates(g, s, Len(s)) /\ FlattenSeq(s) = g[Len(s)]
<1> DEFINE F == CHOOSE g : Concatenates(g, s, Len(s))
<1>1. Concatenates(F, s, Len(s))
  BY ConcatenatesExists, Zenon
<1>2. FlattenSeq(s) = F[Len(s)]
  <2>1. FlattenSeq(s) =
          (CHOOSE g : g = [i \in 1 .. Len(s) |-> IF i = 1 THEN s[i] ELSE g[i - 1] \o s[i]])[Len(s)]
    BY Zenon DEF FlattenSeq
  <2>. QED  BY <2>1, Zenon DEF Concatenates
<1>. QED
  BY <1>1, <1>2

(* The last value of a function for a sequence, from one for its beginning. *)
LEMMA ConcatenatesMore ==
  ASSUME NEW s, NEW t, NEW n \in Nat, NEW m \in Nat, n < m,
         \A i \in 1 .. n : s[i] = t[i],
         NEW h, Concatenates(h, t, m), NEW g, n # 0 => Concatenates(g, s, n)
  PROVE  h[n + 1] = IF n = 0 THEN t[n + 1] ELSE g[n] \o t[n + 1]
<1>1. h[1] = t[1] /\ \A k \in 1 .. m - 1 : h[k + 1] = h[k] \o t[k + 1]
  <2>1. m \in Nat \ {0}
    OBVIOUS
  <2>. QED  BY <2>1, ConcatenatesStep
<1>2. CASE n = 0
  BY <1>1, <1>2
<1>3. CASE n # 0
  <2>1. \A i \in 1 .. n : g[i] = h[i]
    <3>1. n <= m /\ Concatenates(g, s, n)
      BY <1>3
    <3>. QED  BY <3>1, ConcatenatesAgree
  <2>2. n \in 1 .. n /\ n \in 1 .. m - 1
    BY <1>3
  <2>. QED  BY <1>1, <1>3, <2>1, <2>2
<1>. QED
  BY <1>2, <1>3

(* t is s and one sequence more.                                           *)
OneMore(s, t, n, m) ==
  /\ n = Len(s) /\ m = Len(t) /\ m = n + 1
  /\ \A i \in 1 .. n : s[i] = t[i]
  /\ n = 0 => s = <<>>
  /\ <<>> \o t[m] = t[m]

LEMMA FlattenOneMore ==
  ASSUME NEW s, NEW t, NEW n \in Nat, NEW m \in Nat, OneMore(s, t, n, m)
  PROVE  FlattenSeq(t) = FlattenSeq(s) \o t[m]
<1>1. n < m /\ m # 0 /\ \A i \in 1 .. n : s[i] = t[i]
  BY DEF OneMore
<1>2. PICK h : Concatenates(h, t, m) /\ FlattenSeq(t) = h[m]
  BY <1>1, FlattenValue DEF OneMore
<1>3. PICK g : n # 0 => Concatenates(g, s, n) /\ FlattenSeq(s) = g[n]
  BY FlattenValue DEF OneMore
<1>4. h[n + 1] = IF n = 0 THEN t[n + 1] ELSE g[n] \o t[n + 1]
  BY <1>1, <1>2, <1>3, ConcatenatesMore
<1>5. n = 0 => FlattenSeq(s) = <<>>
  BY DEF OneMore, FlattenSeq
<1>. QED
  BY <1>2, <1>3, <1>4, <1>5 DEF OneMore

LEMMA FlattenMore ==
  ASSUME NEW S, NEW s \in Seq(Seq(S)), NEW t \in Seq(Seq(S)), Len(t) = Len(s) + 1,
         \A i \in 1 .. Len(s) : s[i] = t[i]
  PROVE  FlattenSeq(t) = FlattenSeq(s) \o t[Len(t)]
<1>1. Len(s) \in Nat /\ Len(t) \in Nat
  BY LenProperties
<1>2. OneMore(s, t, Len(s), Len(t))
  <2>1. t[Len(t)] \in Seq(S)
    BY <1>1, ElementOfSeq
  <2>. QED  BY <1>1, <2>1, ConcatEmptySeq, EmptySeq DEF OneMore
<1>. QED
  BY <1>1, <1>2, FlattenOneMore, Zenon

LEMMA FlattenEmpty == FlattenSeq(<<>>) = <<>>
BY DEF FlattenSeq

(* FlattenSeq adds no elements to those of the sequences.                  *)
LEMMA FlattenType ==
  ASSUME NEW S, NEW s \in Seq(Seq(S))
  PROVE  FlattenSeq(s) \in Seq(S)
<1> DEFINE K == {k \in Nat : \A t \in Seq(Seq(S)) : Len(t) = k => FlattenSeq(t) \in Seq(S)}
<1>1. ASSUME NEW t \in Seq(Seq(S)), Len(t) = 0  PROVE FlattenSeq(t) \in Seq(S)
  BY <1>1, EmptySeq, FlattenEmpty
<1>2. ASSUME NEW t \in Seq(Seq(S)), NEW k \in Nat, Len(t) = k + 1,
             \A b \in Seq(Seq(S)) : Len(b) = k => FlattenSeq(b) \in Seq(S)
      PROVE  FlattenSeq(t) \in Seq(S)
  <2> DEFINE b == [i \in 1 .. k |-> t[i]]
  <2>1. \A i \in 1 .. k + 1 : t[i] \in Seq(S)
    BY <1>2, ElementOfSeq
  <2>2. b \in Seq(Seq(S)) /\ Len(b) = k
    BY <2>1, IsASeq
  <2>3. \A i \in 1 .. Len(b) : b[i] = t[i]
    BY <2>2
  <2>. HIDE DEF b
  <2>4. FlattenSeq(t) = FlattenSeq(b) \o t[Len(t)]
    BY <1>2, <2>2, <2>3, FlattenMore
  <2>5. FlattenSeq(b) \in Seq(S) /\ t[Len(t)] \in Seq(S)
    BY <1>2, <2>1, <2>2
  <2>. QED  BY <2>4, <2>5, ConcatProperties
<1>3. 1 \in K
  <2>1. ASSUME NEW t \in Seq(Seq(S)), Len(t) = 1  PROVE FlattenSeq(t) \in Seq(S)
    <3>1. Len(t) = 0 + 1 /\ 0 \in Nat
      BY <2>1
    <3>. QED  BY <1>1, <1>2, <3>1, Zenon
  <2>. QED  BY <2>1
<1>4. ASSUME NEW k \in Nat, k \in K  PROVE k + 1 \in K
  BY <1>2, <1>4
<1>. HIDE DEF K
<1>5. ASSUME NEW n \in Nat, n # 0  PROVE n \in K
  <2>1. \A k \in 1 .. n - 1 : k \in K => k + 1 \in K
    BY <1>4
  <2>2. 1 .. n \subseteq K
    BY <1>3, <2>1, UpToInduction
  <2>. QED  BY <1>5, <2>2
<1>6. Len(s) \in Nat
  BY LenProperties
<1>. QED
  BY <1>1, <1>5, <1>6 DEF K

(* Nor does it lose any: every record of every unit is in the table.       *)
Occurs(x, s) == \E i \in DOMAIN s : s[i] = x

LEMMA ConcatOccurs ==
  ASSUME NEW S, NEW s \in Seq(S), NEW t \in Seq(S), NEW x, Occurs(x, s) \/ Occurs(x, t)
  PROVE  Occurs(x, s \o t)
<1>1. /\ Len(s \o t) = Len(s) + Len(t) /\ s \o t \in Seq(S)
      /\ \A i \in 1 .. Len(s) + Len(t) :
           (s \o t)[i] = IF i <= Len(s) THEN s[i] ELSE t[i - Len(s)]
  BY ConcatProperties
<1>2. /\ Len(s) \in Nat /\ DOMAIN s = 1 .. Len(s)
      /\ Len(t) \in Nat /\ DOMAIN t = 1 .. Len(t)
      /\ DOMAIN (s \o t) = 1 .. Len(s) + Len(t)
  BY <1>1, LenProperties
<1>3. ASSUME NEW i \in DOMAIN s, s[i] = x  PROVE Occurs(x, s \o t)
  <2>1. i \in DOMAIN (s \o t) /\ (s \o t)[i] = s[i]
    BY <1>1, <1>2
  <2>. QED  BY <1>3, <2>1 DEF Occurs
<1>4. ASSUME NEW i \in DOMAIN t, t[i] = x  PROVE Occurs(x, s \o t)
  <2>1. Len(s) + i \in DOMAIN (s \o t) /\ (s \o t)[Len(s) + i] = t[i]
    BY <1>1, <1>2
  <2>. QED  BY <1>4, <2>1 DEF Occurs
<1>. QED
  BY <1>3, <1>4 DEF Occurs

LEMMA FlattenOccurs ==
  ASSUME NEW S, NEW s \in Seq(Seq(S)), NEW x, NEW m \in DOMAIN s, Occurs(x, s[m])
  PROVE  Occurs(x, FlattenSeq(s))
<1> DEFINE Covers(t) == \A i \in 1 .. Len(t) : Occurs(x, t[i]) => Occurs(x, FlattenSeq(t))
           K == {k \in Nat : \A t \in Seq(Seq(S)) : Len(t) = k => Covers(t)}
<1>1. ASSUME NEW t \in Seq(Seq(S)), Len(t) = 0  PROVE Covers(t)
  BY <1>1
<1>2. ASSUME NEW t \in Seq(Seq(S)), NEW k \in Nat, Len(t) = k + 1,
             \A b \in Seq(Seq(S)) : Len(b) = k => Covers(b)
      PROVE  Covers(t)
  <2> DEFINE b == [i \in 1 .. k |-> t[i]]
  <2>1. \A i \in 1 .. k + 1 : t[i] \in Seq(S)
    BY <1>2, ElementOfSeq
  <2>2. b \in Seq(Seq(S)) /\ Len(b) = k
    BY <2>1, IsASeq
  <2>3. \A i \in 1 .. Len(b) : b[i] = t[i]
    BY <2>2
  <2>4. \A i \in 1 .. k : b[i] = t[i]
    OBVIOUS
  <2>. HIDE DEF b
  <2>5. FlattenSeq(t) = FlattenSeq(b) \o t[Len(t)]
    BY <1>2, <2>2, <2>3, FlattenMore
  <2>6. FlattenSeq(b) \in Seq(S) /\ t[k + 1] \in Seq(S)
    BY <2>1, <2>2, FlattenType
  <2>7. ASSUME NEW i \in 1 .. k, Occurs(x, t[i])  PROVE Occurs(x, FlattenSeq(b))
    BY <1>2, <2>2, <2>4, <2>7
  <2>8. ASSUME Occurs(x, FlattenSeq(b)) \/ Occurs(x, t[k + 1])
        PROVE  Occurs(x, FlattenSeq(b) \o t[k + 1])
    BY <2>6, <2>8, ConcatOccurs
  <2>9. FlattenSeq(t) = FlattenSeq(b) \o t[k + 1]
    BY <1>2, <2>5
  <2>10. ASSUME NEW i \in 1 .. k + 1, Occurs(x, t[i])
         PROVE  Occurs(x, FlattenSeq(b)) \/ Occurs(x, t[k + 1])
    <3>1. CASE i \in 1 .. k
      BY <2>7, <2>10, <3>1
    <3>2. CASE i \notin 1 .. k
      <4>1. i = k + 1
        BY <3>2
      <4>. QED  BY <2>10, <4>1
    <3>. QED  BY <3>1, <3>2
  <2>11. \A i \in 1 .. k + 1 : Occurs(x, t[i]) => Occurs(x, FlattenSeq(t))
    BY <2>8, <2>9, <2>10, Zenon
  <2>. QED  BY <1>2, <2>11
<1>. HIDE DEF Covers
<1>3. 1 \in K
  <2>1. ASSUME NEW t \in Seq(Seq(S)), Len(t) = 1  PROVE Covers(t)
    <3>1. Len(t) = 0 + 1 /\ 0 \in Nat
      BY <2>1
    <3>. QED  BY <1>1, <1>2, <3>1, Zenon
  <2>. QED  BY <2>1
<1>4. ASSUME NEW k \in Nat, k \in K  PROVE k + 1 \in K
  BY <1>2, <1>4
<1>. HIDE DEF K
<1>5. ASSUME NEW n \in Nat, n # 0  PROVE n \in K
  <2>1. \A k \in 1 .. n - 1 : k \in K => k + 1 \in K
    BY <1>4
  <2>2. 1 .. n \subseteq K
    BY <1>3, <2>1, UpToInduction
  <2>. QED  BY <1>5, <2>2
<1>6. Len(s) \in Nat /\ DOMAIN s = 1 .. Len(s)
  BY LenProperties
<1>7. Covers(s)
  BY <1>1, <1>5, <1>6 DEF K
<1>. QED
  BY <1>6, <1>7 DEF Covers

----------------------------------------------------------------------------
(* Extremes of a bounded set of integers, from the smallest element of its *)
(* distances to the bound.                                                 *)

LEMMA MinOfIntegers ==
  ASSUME NEW S \in SUBSET Int, S # {}, NEW low \in Int, \A x \in S : low <= x
  PROVE  Min(S) \in S /\ \A x \in S : Min(S) <= x
<1> DEFINE D == {x - low : x \in S}
<1>0. \A x \in S : x - low \in Nat
  OBVIOUS
<1>1. D \in SUBSET Nat /\ D # {}
  BY <1>0
<1>2. Min(D) \in D /\ \A y \in D : Min(D) <= y
  BY <1>1, MinIsSmallest
<1>3. PICK m \in S : Min(D) = m - low
  BY <1>2
<1>4. \A x \in S : m <= x
  BY <1>2, <1>3
<1>. QED
  BY <1>4 DEF Min

LEMMA MaxOfIntegers ==
  ASSUME NEW S \in SUBSET Int, S # {}, NEW high \in Int, \A x \in S : x <= high
  PROVE  Max(S) \in S /\ \A x \in S : x <= Max(S)
<1> DEFINE D == {high - x : x \in S}
<1>0. \A x \in S : high - x \in Nat
  OBVIOUS
<1>1. D \in SUBSET Nat /\ D # {}
  BY <1>0
<1>2. Min(D) \in D /\ \A y \in D : Min(D) <= y
  BY <1>1, MinIsSmallest
<1>3. PICK m \in S : Min(D) = high - m
  BY <1>2
<1>4. \A x \in S : m >= x
  BY <1>2, <1>3
<1>5. Max(S) \in S /\ \A x \in S : Max(S) >= x
  BY <1>4 DEF Max
<1>. QED
  BY <1>5

----------------------------------------------------------------------------
(* The bounds that GetAddressByLine tests before it searches refuse no     *)
(* line of the table, whatever the uninitialised minimum holds.            *)
LEMMA BoundsRefuseNothing ==
  ASSUME NEW d \in Seq(LineinfoType), NEW garbage \in Int, NEW i \in DOMAIN d
  PROVE  /\ ~(d[i].unit > GetNoOfCompilationUnits(d))
         /\ ~(d[i].line > GetMaxLineNumber(d, d[i].unit))
         /\ ~(d[i].line < GetMinLineNumber(d, d[i].unit, garbage))
<1> DEFINE units == {0} \cup {d[j].unit : j \in DOMAIN d}
           u     == d[i].unit
           found == LinesOf(d, u)
<1>1. ASSUME NEW j \in DOMAIN d  PROVE d[j].unit \in Number /\ d[j].line \in Number
  <2>1. j \in 1 .. Len(d)
    BY LenProperties
  <2>2. d[j] \in LineinfoType
    BY <2>1, ElementOfSeq
  <2>. QED  BY <2>2 DEF LineinfoType
<1>2. \A n \in Number : n \in Int /\ 0 <= n /\ n <= IntLimit
  BY WidthAssumption DEF Number
<1>3. units \in SUBSET Int /\ \A n \in units : n <= IntLimit
  BY <1>1, <1>2, WidthAssumption
<1>4. u \in units /\ u \in Int
  BY <1>1, <1>2
<1>5. u <= Max(units) /\ Max(units) \in Int
  <2>1. IntLimit \in Int /\ units # {}
    BY WidthAssumption
  <2>. HIDE DEF units, u
  <2>2. Max(units) \in units /\ \A x \in units : x <= Max(units)
    BY <1>3, <2>1, MaxOfIntegers
  <2>. QED  BY <1>3, <1>4, <2>2
<1>7. ~(u > GetNoOfCompilationUnits(d))
  BY <1>4, <1>5 DEF GetNoOfCompilationUnits
<1>8. d[i].line \in found /\ \A n \in found : n \in Int /\ 0 <= n /\ n <= IntLimit
  BY <1>1, <1>2 DEF LinesOf
<1>. HIDE DEF u, found
<1>9. /\ Max({0} \cup found) \in Int /\ d[i].line <= Max({0} \cup found)
  <2> DEFINE T == {0} \cup found
  <2>1. T \in SUBSET Int /\ T # {} /\ IntLimit \in Int /\ d[i].line \in T
    BY <1>8, WidthAssumption
  <2>2. \A n \in T : n <= IntLimit
    BY <1>8, WidthAssumption
  <2>. HIDE DEF T
  <2>3. Max(T) \in T /\ \A x \in T : x <= Max(T)
    BY <2>1, <2>2, MaxOfIntegers
  <2>4. Max(T) \in Int /\ d[i].line <= Max(T)
    BY <2>1, <2>3
  <2>. QED  BY <2>4 DEF T
<1>10. /\ Min({garbage} \cup found) \in Int /\ Min({garbage} \cup found) <= d[i].line
  <2> DEFINE T   == {garbage} \cup found
             low == IF garbage <= 0 THEN garbage ELSE 0
  <2>1. T \in SUBSET Int /\ T # {} /\ low \in Int /\ d[i].line \in T
    BY <1>8
  <2>2. \A n \in T : low <= n
    BY <1>8
  <2>. HIDE DEF T, low
  <2>3. Min(T) \in T /\ \A x \in T : Min(T) <= x
    BY <2>1, <2>2, MinOfIntegers
  <2>4. Min(T) \in Int /\ Min(T) <= d[i].line
    BY <2>1, <2>3
  <2>. QED  BY <2>4 DEF T
<1>11. d[i].line \in Int
  BY <1>8
<1>12. ~(d[i].line > GetMaxLineNumber(d, u)) /\ ~(d[i].line < GetMinLineNumber(d, u, garbage))
  BY <1>7, <1>9, <1>10, <1>11 DEF GetMaxLineNumber, GetMinLineNumber, found
<1>. QED
  BY <1>7, <1>12 DEF u

(* GetAddressByLine answers like a search without bounds.                  *)
THEOREM LookupIsFirst ==
  ASSUME NEW d \in Seq(LineinfoType), NEW u \in Int, NEW l \in Int, NEW garbage \in Int
  PROVE  GetAddressByLine(d, u, l, garbage) = FirstAddress(d, u, l)
<1>1. CASE Matches(d, u, l) = {}
  BY <1>1 DEF GetAddressByLine, FirstAddress, Matches
<1>2. CASE Matches(d, u, l) # {}
  <2> DEFINE S == Matches(d, u, l)
             First(i) == /\ d[i].unit = u /\ d[i].line = l
                         /\ \A j \in DOMAIN d : d[j].unit = u /\ d[j].line = l => i <= j
             first == CHOOSE i \in DOMAIN d : First(i)
  <2>1. DOMAIN d \in SUBSET Nat
    BY LenProperties
  <2>2. Min(S) \in S /\ \A j \in S : Min(S) <= j
    <3>1. S \in SUBSET Nat /\ S # {}
      BY <1>2, <2>1 DEF Matches
    <3>. QED  BY <3>1, MinIsSmallest
  <2>3. Min(S) \in DOMAIN d /\ First(Min(S))
    BY <2>2 DEF Matches
  <2>4. first \in DOMAIN d /\ First(first)
    BY <2>3
  <2>5. first = Min(S)
    <3>1. first <= Min(S) /\ Min(S) <= first
      BY <2>2, <2>3, <2>4 DEF Matches
    <3>2. first \in Nat /\ Min(S) \in Nat
      BY <2>1, <2>3, <2>4
    <3>. HIDE DEF first
    <3>. QED  BY <3>1, <3>2
  <2>6. FirstAddress(d, u, l) = d[first].address
    BY <2>3 DEF FirstAddress
  <2>7. GetAddressByLine(d, u, l, garbage) = d[Min(S)].address
    <3>1. d[Min(S)].unit = u /\ d[Min(S)].line = l
      BY <2>3
    <3>. QED  BY <1>2, <2>3, <3>1, BoundsRefuseNothing DEF GetAddressByLine
  <2>. QED  BY <2>5, <2>6, <2>7
<1>. QED
  BY <1>1, <1>2

(* An answer is an address of the asked line and unit, or NotFound.        *)
LEMMA LookupAnswers ==
  ASSUME NEW d \in Seq(LineinfoType), NEW u, NEW l, NEW garbage,
         GetAddressByLine(d, u, l, garbage) # NotFound
  PROVE  \E i \in Matches(d, u, l) : GetAddressByLine(d, u, l, garbage) = d[i].address
<1>1. Matches(d, u, l) # {}
  BY DEF GetAddressByLine
<1>2. DOMAIN d \in SUBSET Nat
  BY LenProperties
<1>3. Matches(d, u, l) \in SUBSET Nat
  BY <1>2 DEF Matches
<1>4. Min(Matches(d, u, l)) \in Matches(d, u, l)
  BY <1>1, <1>3, MinIsSmallest
<1>. QED
  BY <1>4 DEF GetAddressByLine

(* And a line of the table has an answer.                                  *)
LEMMA MatchAnswers ==
  ASSUME NEW d \in Seq(LineinfoType), NEW u, NEW l, NEW garbage \in Int,
         Matches(d, u, l) # {}
  PROVE  \E i \in Matches(d, u, l) : GetAddressByLine(d, u, l, garbage) = d[i].address
<1>1. DOMAIN d \in SUBSET Nat
  BY LenProperties
<1>2. Matches(d, u, l) \in SUBSET Nat
  BY <1>1 DEF Matches
<1>3. PICK i \in Matches(d, u, l) : i = Min(Matches(d, u, l))
  BY <1>2, MinIsSmallest
<1>4. i \in DOMAIN d /\ d[i].unit = u /\ d[i].line = l
  BY DEF Matches
<1>. QED
  BY <1>3, <1>4, BoundsRefuseNothing DEF GetAddressByLine
=============================================================================
