------------------------ MODULE BreakpointListProofs ------------------------
(***************************************************************************)
(* Lemmas about the operators of BreakpointList: what the searches return, *)
(* and what appending, removing and disabling keep of the entries.         *)
(***************************************************************************)
EXTENDS BreakpointList, SequenceTheorems, WellFoundedInduction, TLAPS

(* A nonempty set of positions has a smallest one, and Min returns it: the *)
(* linear searches of breakpoint.cpp stop at an entry that matches.        *)
LEMMA MinIsSmallest ==
  ASSUME NEW S \in SUBSET Nat, S # {}
  PROVE  Min(S) \in S /\ \A y \in S : Min(S) <= y
<1>1. PICK x \in S : \A y \in S : ~ (<<y, x>> \in OpToRel(<, Nat))
  BY NatLessThanWellFounded, WFMin
<1>2. ASSUME NEW y \in S  PROVE  x <= y
  <2>1. <<y, x>> \in Nat \X Nat /\ <<y, x>>[1] = y /\ <<y, x>>[2] = x
    OBVIOUS
  <2>2. <<y, x>>[1] < <<y, x>>[2] => <<y, x>> \in OpToRel(<, Nat)
    BY <2>1, Zenon DEF OpToRel
  <2>3. ~ (y < x)
    BY <1>1, <2>1, <2>2
  <2>. QED  BY <2>3
<1>. QED
  BY <1>2 DEF Min

(* Induction over the first n numbers, from the smallest one left out.     *)
LEMMA UpToInduction ==
  ASSUME NEW n \in Nat, NEW S, 1 \in S, \A k \in 1 .. n - 1 : k \in S => k + 1 \in S
  PROVE  1 .. n \subseteq S
<1> DEFINE D == (1 .. n) \ S
<1>. SUFFICES ASSUME D # {} PROVE FALSE
  OBVIOUS
<1>1. D \in SUBSET Nat
  OBVIOUS
<1>2. Min(D) \in D /\ \A y \in D : Min(D) <= y
  BY <1>1, MinIsSmallest
<1>. HIDE DEF D
<1>3. PICK m \in D : \A y \in D : m <= y
  BY <1>2
<1>4. m \in 1 .. n /\ m \notin S /\ m # 1
  BY <1>3 DEF D
<1>5. m - 1 \in 1 .. n - 1 /\ ~(m <= m - 1)
  BY <1>4
<1>6. m - 1 \in S
  BY <1>3, <1>5 DEF D
<1>7. m - 1 + 1 \in S
  BY <1>5, <1>6
<1>. QED
  BY <1>4, <1>7

(* RemoveAt closes the gap: entries before i stay, the others move up.     *)
LEMMA RemoveAtProperties ==
  ASSUME NEW T, NEW s \in Seq(T), NEW i \in 1 .. Len(s)
  PROVE  /\ RemoveAt(s, i) \in Seq(T)
         /\ Len(RemoveAt(s, i)) = Len(s) - 1
         /\ \A j \in 1 .. Len(s) - 1 :
              RemoveAt(s, i)[j] = IF j < i THEN s[j] ELSE s[j + 1]
<1> DEFINE h == SubSeq(s, 1, i - 1)
           t == SubSeq(s, i + 1, Len(s))
<1>0. Len(s) \in Nat /\ i \in Int /\ 1 <= i /\ i <= Len(s)
  BY LenProperties
<1>1. \A j \in 1 .. Len(s) : s[j] \in T
  BY ElementOfSeq
<1>2. h \in Seq(T) /\ Len(h) = i - 1 /\ \A j \in 1 .. i - 1 : h[j] = s[j]
  <2>1. \A j \in 1 .. i - 1 : s[j] \in T
    BY <1>0, <1>1
  <2>2. /\ h \in Seq(T)
        /\ Len(h) = IF 1 <= i - 1 THEN (i - 1) - 1 + 1 ELSE 0
        /\ \A j \in 1 .. (i - 1) - 1 + 1 : h[j] = s[1 + j - 1]
    BY <1>0, <2>1, SubSeqProperties
  <2>. QED  BY <1>0, <2>2
<1>3. t \in Seq(T) /\ Len(t) = Len(s) - i /\ \A j \in 1 .. Len(s) - i : t[j] = s[i + j]
  <2>1. \A j \in i + 1 .. Len(s) : s[j] \in T
    BY <1>0, <1>1
  <2>2. /\ t \in Seq(T)
        /\ Len(t) = IF i + 1 <= Len(s) THEN Len(s) - (i + 1) + 1 ELSE 0
        /\ \A j \in 1 .. Len(s) - (i + 1) + 1 : t[j] = s[(i + 1) + j - 1]
    BY <1>0, <2>1, SubSeqProperties
  <2>. QED  BY <1>0, <2>2
<1>4. RemoveAt(s, i) = h \o t
  BY DEF RemoveAt
<1>. HIDE DEF h, t
<1>5. /\ h \o t \in Seq(T)
      /\ Len(h \o t) = Len(h) + Len(t)
      /\ \A j \in 1 .. Len(h) + Len(t) :
           (h \o t)[j] = IF j <= Len(h) THEN h[j] ELSE t[j - Len(h)]
  BY <1>2, <1>3, ConcatProperties
<1>6. ASSUME NEW j \in 1 .. Len(s) - 1
      PROVE  (h \o t)[j] = IF j < i THEN s[j] ELSE s[j + 1]
  <2>1. CASE j < i
    BY <1>0, <1>2, <1>3, <1>5, <2>1
  <2>2. CASE ~(j < i)
    <3>1. j - Len(h) \in 1 .. Len(s) - i /\ i + (j - Len(h)) = j + 1
      BY <1>0, <1>2, <2>2
    <3>2. j \in 1 .. Len(h) + Len(t) /\ ~(j <= Len(h))
      BY <1>0, <1>2, <1>3, <2>2
    <3>3. (h \o t)[j] = t[j - Len(h)]
      BY <1>5, <3>2
    <3>4. t[j - Len(h)] = s[j + 1]
      BY <1>3, <3>1
    <3>. QED  BY <2>2, <3>3, <3>4
  <2>. QED  BY <2>1, <2>2
<1>. QED
  BY <1>0, <1>2, <1>3, <1>4, <1>5, <1>6
----------------------------------------------------------------------------
(* Appending keeps the entries and adds one for the address at the end.    *)
LEMMA AppendElementProperties ==
  ASSUME NEW A, NEW W, NEW li \in Seq(BreakpointType(A, W)), NEW a \in A, NEW w \in W
  PROVE  /\ AppendElement(li, a, w) \in Seq(BreakpointType(A, W))
         /\ Len(AppendElement(li, a, w)) = Len(li) + 1
         /\ \A i \in 1 .. Len(li) : AppendElement(li, a, w)[i] = li[i]
         /\ AppendElement(li, a, w)[Len(li) + 1].address = a
         /\ AppendElement(li, a, w)[Len(li) + 1].origdata = w
         /\ AppendElement(li, a, w)[Len(li) + 1].number = Len(li) + 1
<1> DEFINE b == [address |-> a, origdata |-> w, number |-> Len(li) + 1, enabled |-> TRUE]
<1>1. Len(li) \in Nat
  BY LenProperties
<1>2. b \in BreakpointType(A, W)
  BY <1>1 DEF BreakpointType
<1>3. b.address = a /\ b.origdata = w /\ b.number = Len(li) + 1
  OBVIOUS
<1>4. AppendElement(li, a, w) = Append(li, b)
  BY DEF AppendElement
<1>. HIDE DEF b
<1>5. /\ Append(li, b) \in Seq(BreakpointType(A, W))
      /\ Len(Append(li, b)) = Len(li) + 1
      /\ \A i \in 1 .. Len(li) : Append(li, b)[i] = li[i]
      /\ Append(li, b)[Len(li) + 1] = b
  BY <1>2, AppendProperties
<1>. QED
  BY <1>3, <1>4, <1>5

(* Every entry of list r is one of list li, and every entry of list li but  *)
(* the one at position p is in list r.                                     *)
EntriesFrom(r, li)    == \A j \in DOMAIN r : \E i \in DOMAIN li : r[j] = li[i]
EntriesKept(li, r, p) == \A i \in DOMAIN li \ {p} : \E j \in DOMAIN r : r[j] = li[i]

(* RemoveElement finds an entry with the number, and keeps the others.     *)
LEMMA RemoveElementProperties ==
  ASSUME NEW A, NEW W, NEW li \in Seq(BreakpointType(A, W)), NEW n, Removable(li, n)
  PROVE  /\ RemovePosition(li, n) \in 1 .. Len(li)
         /\ li[RemovePosition(li, n)].number = n
         /\ RemoveElement(li, n) \in Seq(BreakpointType(A, W))
         /\ Len(RemoveElement(li, n)) = Len(li) - 1
         /\ EntriesFrom(RemoveElement(li, n), li)
         /\ EntriesKept(li, RemoveElement(li, n), RemovePosition(li, n))
<1> DEFINE p == RemovePosition(li, n)
           r == RemoveElement(li, n)
<1>1. Len(li) \in Nat /\ DOMAIN li = 1 .. Len(li)
  BY LenProperties
<1>2. WithNumber(li, n) \in SUBSET Nat /\ WithNumber(li, n) # {}
  BY <1>1 DEF WithNumber, Removable
<1>3. p \in WithNumber(li, n)
  BY <1>2, MinIsSmallest DEF RemovePosition
<1>4. p \in 1 .. Len(li) /\ li[p].number = n
  BY <1>1, <1>3 DEF WithNumber
<1>5. r = RemoveAt(li, p)
  BY DEF RemoveElement
<1>. HIDE DEF p, r
<1>6. /\ r \in Seq(BreakpointType(A, W))
      /\ Len(r) = Len(li) - 1
      /\ \A j \in 1 .. Len(li) - 1 : r[j] = IF j < p THEN li[j] ELSE li[j + 1]
  BY <1>4, <1>5, RemoveAtProperties
<1>7. ASSUME NEW j \in 1 .. Len(li) - 1
      PROVE  \E i \in 1 .. Len(li) : r[j] = li[i]
  <2>1. j \in 1 .. Len(li) /\ j + 1 \in 1 .. Len(li)
    BY <1>1
  <2>. QED  BY <1>6, <2>1
<1>8. ASSUME NEW i \in 1 .. Len(li) \ {p}
      PROVE  \E j \in 1 .. Len(li) - 1 : r[j] = li[i]
  <2>1. CASE i < p
    <3>1. i \in 1 .. Len(li) - 1
      BY <1>1, <1>4, <2>1
    <3>2. r[i] = li[i]
      BY <1>6, <2>1, <3>1
    <3>. QED  BY <3>1, <3>2
  <2>2. CASE ~(i < p)
    <3>1. i - 1 \in 1 .. Len(li) - 1 /\ ~(i - 1 < p) /\ (i - 1) + 1 = i
      BY <1>1, <1>4, <2>2
    <3>2. r[i - 1] = li[i]
      BY <1>6, <3>1
    <3>. QED  BY <3>1, <3>2
  <2>. QED  BY <2>1, <2>2
<1>9. DOMAIN r = 1 .. Len(li) - 1
  BY <1>6, LenProperties
<1>10. EntriesFrom(r, li)
  BY <1>1, <1>7, <1>9 DEF EntriesFrom
<1>11. EntriesKept(li, r, p)
  BY <1>1, <1>8, <1>9 DEF EntriesKept
<1>. QED
  BY <1>4, <1>6, <1>10, <1>11 DEF p, r

(* Disabling changes nothing but the flag.                                 *)
LEMMA DisableElementProperties ==
  ASSUME NEW A, NEW W, NEW li \in Seq(BreakpointType(A, W)), NEW n, FoundByNumber(li, n)
  PROVE  /\ DisableElement(li, n) \in Seq(BreakpointType(A, W))
         /\ Len(DisableElement(li, n)) = Len(li)
         /\ \A i \in 1 .. Len(li) :
              /\ DisableElement(li, n)[i].address = li[i].address
              /\ DisableElement(li, n)[i].origdata = li[i].origdata
              /\ DisableElement(li, n)[i].number = li[i].number
<1> DEFINE p == Min(WithNumber(li, n))
           b == [li[p] EXCEPT !.enabled = FALSE]
<1>1. Len(li) \in Nat /\ DOMAIN li = 1 .. Len(li)
  BY LenProperties
<1>2. WithNumber(li, n) \in SUBSET Nat /\ WithNumber(li, n) # {}
  BY <1>1 DEF WithNumber, FoundByNumber
<1>3. p \in WithNumber(li, n)
  BY <1>2, MinIsSmallest
<1>4. p \in 1 .. Len(li)
  BY <1>1, <1>3 DEF WithNumber
<1>5. li[p] \in BreakpointType(A, W)
  BY <1>4, ElementOfSeq
<1>6. /\ b \in BreakpointType(A, W)
      /\ b.address = li[p].address /\ b.origdata = li[p].origdata /\ b.number = li[p].number
  BY <1>5 DEF BreakpointType
<1>7. DisableElement(li, n) = [li EXCEPT ![p] = b]
  BY DEF DisableElement
<1>. HIDE DEF p, b
<1>8. /\ [li EXCEPT ![p] = b] \in Seq(BreakpointType(A, W))
      /\ Len([li EXCEPT ![p] = b]) = Len(li)
      /\ \A i \in 1 .. Len(li) : [li EXCEPT ![p] = b][i] = IF i = p THEN b ELSE li[i]
  BY <1>4, <1>6, ExceptSeq
<1>. QED
  BY <1>6, <1>7, <1>8

(* GetElementByAddress returns an entry of the list for that address.      *)
LEMMA GetElementByAddressProperties ==
  ASSUME NEW A, NEW W, NEW li \in Seq(BreakpointType(A, W)), NEW a, IsListed(li, a)
  PROVE  \E i \in 1 .. Len(li) : /\ GetElementByAddress(li, a) = li[i]
                                 /\ li[i].address = a
                                 /\ li[i] \in BreakpointType(A, W)
<1>1. Len(li) \in Nat /\ DOMAIN li = 1 .. Len(li)
  BY LenProperties
<1>2. WithAddress(li, a) \in SUBSET Nat /\ WithAddress(li, a) # {}
  BY <1>1 DEF WithAddress, IsListed
<1>3. Min(WithAddress(li, a)) \in WithAddress(li, a)
  BY <1>2, MinIsSmallest
<1>4. /\ Min(WithAddress(li, a)) \in 1 .. Len(li)
      /\ li[Min(WithAddress(li, a))].address = a
  BY <1>1, <1>3 DEF WithAddress
<1>. QED
  BY <1>4, ElementOfSeq DEF GetElementByAddress
=============================================================================
