---------------------------- MODULE SoftwareProofs ----------------------------
(***************************************************************************)
(* Proofs about the software of targets: the order of its versions, the    *)
(* catalogue of releases between two of them, and the notes with the       *)
(* security evidence drawn from their analysis.                            *)
(***************************************************************************)
EXTENDS VersionOrder, ReleaseCatalogue, SoftwareNotes, SequenceTheorems, WellFoundedInduction, TLAPS

----------------------------------------------------------------------------
(* Least and greatest numbers *)

LEMMA LeastOf ==
    ASSUME NEW S, S \subseteq Nat, S # {}
    PROVE  Min(S) \in S /\ \A y \in S : Min(S) <= y
<1>1. PICK x \in S : \A y \in S : ~(<<y, x>> \in OpToRel(<, Nat))
  BY WFMin, NatLessThanWellFounded
<1>2. ASSUME NEW y \in S PROVE x <= y
  <2>1. x \in Nat /\ y \in Nat
    OBVIOUS
  <2>2. y < x => <<y, x>> \in OpToRel(<, Nat)
    <3> SUFFICES ASSUME y < x PROVE <<y, x>> \in OpToRel(<, Nat)
      OBVIOUS
    <3>1. <<y, x>> \in Nat \X Nat
      BY <2>1
    <3>2. <<y, x>>[1] < <<y, x>>[2]
      OBVIOUS
    <3> QED BY <3>1, <3>2 DEF OpToRel
  <2>3. ~(y < x)
    BY Zenon, <1>1, <1>2, <2>2
  <2> QED BY <2>1, <2>3
<1> QED BY <1>2 DEF Min

LEMMA GreaterOf ==
    ASSUME NEW m \in Nat, NEW n \in Nat
    PROVE  Max({m, n}) = (IF m >= n THEN m ELSE n) /\ Min({m, n}) = (IF m <= n THEN m ELSE n)
<1>1. \E x \in {m, n} : \A y \in {m, n} : x >= y
  OBVIOUS
<1>2. \E x \in {m, n} : \A y \in {m, n} : x <= y
  OBVIOUS
<1>3. Max({m, n}) \in {m, n} /\ \A y \in {m, n} : Max({m, n}) >= y
  BY <1>1 DEF Max
<1>4. Min({m, n}) \in {m, n} /\ \A y \in {m, n} : Min({m, n}) <= y
  BY <1>2 DEF Min
<1> QED BY <1>3, <1>4

----------------------------------------------------------------------------
(* Words over an ordered alphabet are ordered by their first difference *)

Position == Nat \ {0}

\* R orders K strictly and totally.
Orders(R, K) ==
    /\ \A x \in K : <<x, x>> \notin R
    /\ \A x, y, z \in K : <<x, y>> \in R /\ <<y, z>> \in R => <<x, z>> \in R
    /\ \A x, y \in K : x = y \/ <<x, y>> \in R \/ <<y, x>> \in R

Agree(f, g, i) == \A j \in Position : j < i => f[j] = g[j]

Precedes(R, f, g) == \E i \in Position : Agree(f, g, i) /\ <<f[i], g[i]>> \in R

LEMMA PrecedesIsTransitive ==
    ASSUME NEW K, NEW R, Orders(R, K),
           NEW f \in [Position -> K], NEW g \in [Position -> K], NEW h \in [Position -> K],
           Precedes(R, f, g), Precedes(R, g, h)
    PROVE  Precedes(R, f, h)
<1>1. PICK i \in Position : Agree(f, g, i) /\ <<f[i], g[i]>> \in R
  BY DEF Precedes
<1>2. PICK j \in Position : Agree(g, h, j) /\ <<g[j], h[j]>> \in R
  BY DEF Precedes
<1>3. CASE i < j
  <2>1. Agree(f, h, i) /\ g[i] = h[i]
    BY <1>1, <1>2, <1>3 DEF Agree, Position
  <2> QED BY <1>1, <2>1 DEF Precedes
<1>4. CASE i = j
  <2>1. Agree(f, h, i)
    BY <1>1, <1>2, <1>4 DEF Agree
  <2>2. <<f[i], h[i]>> \in R
    BY <1>1, <1>2, <1>4 DEF Orders
  <2> QED BY <2>1, <2>2 DEF Precedes
<1>5. CASE j < i
  <2>1. Agree(f, h, j) /\ f[j] = g[j]
    BY <1>1, <1>2, <1>5 DEF Agree, Position
  <2> QED BY <1>2, <2>1 DEF Precedes
<1> QED BY <1>3, <1>4, <1>5 DEF Position

LEMMA PrecedesIsIrreflexive ==
    ASSUME NEW K, NEW R, Orders(R, K), NEW f \in [Position -> K]
    PROVE  ~Precedes(R, f, f)
BY DEF Orders, Precedes

\* What is said of the first difference decides.
LEMMA FirstDifference ==
    ASSUME NEW K, NEW R, Orders(R, K),
           NEW f \in [Position -> K], NEW g \in [Position -> K],
           NEW i \in Position, Agree(f, g, i), f[i] # g[i]
    PROVE  Precedes(R, f, g) <=> <<f[i], g[i]>> \in R
<1>1. ASSUME Precedes(R, f, g) PROVE <<f[i], g[i]>> \in R
  <2>1. PICK j \in Position : Agree(f, g, j) /\ <<f[j], g[j]>> \in R
    BY <1>1 DEF Precedes
  <2>2. f[j] # g[j]
    BY <2>1 DEF Orders
  <2>3. ~(j < i) /\ ~(i < j)
    BY <2>1, <2>2 DEF Agree
  <2>4. i = j
    BY <2>3 DEF Position
  <2> QED BY <2>1, <2>4
<1> QED BY <1>1 DEF Precedes

----------------------------------------------------------------------------
(* Versions as words: Compare looks for their first difference *)

\* Every version the pattern accepts, whatever its length.
Id == [numeric : BOOLEAN, value : Nat]

Version == [numbers : Seq(Nat), prerelease : Seq(Id)]

Ascending == {p \in Nat \X Nat : p[1] < p[2]}

NumbersWord(a) == [i \in Position |-> Component(a, i)]

\* The end of a prerelease precedes a number, which precedes a text; no
\* prerelease at all comes last.
Letter == (0..3) \X Nat

LetterOrder ==
    {p \in Letter \X Letter : \/ p[1][1] < p[2][1]
                              \/ p[1][1] = p[2][1] /\ p[1][2] < p[2][2]}

LetterOf(x) == <<IF x.numeric THEN 1 ELSE 2, x.value>>

SuffixWord(a) ==
    [i \in Position |-> IF a = <<>> THEN <<3, 0>>
                        ELSE IF i <= Len(a) THEN LetterOf(a[i]) ELSE <<0, 0>>]

LEMMA AscendingOrders == Orders(Ascending, Nat)
<1>1. \A x, y \in Nat : <<x, y>> \in Ascending <=> x < y
  BY DEF Ascending
<1> QED BY <1>1 DEF Orders

LEMMA LettersAreOrdered ==
    /\ \A x, y \in Letter :
          <<x, y>> \in LetterOrder <=> x[1] < y[1] \/ (x[1] = y[1] /\ x[2] < y[2])
    /\ Orders(LetterOrder, Letter)
<1>1. \A x, y \in Letter :
         <<x, y>> \in LetterOrder <=> x[1] < y[1] \/ (x[1] = y[1] /\ x[2] < y[2])
  BY DEF LetterOrder
<1>2. \A x \in Letter : x[1] \in 0..3 /\ x[2] \in Nat /\ x = <<x[1], x[2]>>
  BY DEF Letter
<1>3. \A x, y \in Letter : x[1] = y[1] /\ x[2] = y[2] => x = y
  BY <1>2
<1> HIDE DEF Letter
<1>4. ASSUME NEW x \in Letter, NEW y \in Letter, NEW z \in Letter,
             <<x, y>> \in LetterOrder, <<y, z>> \in LetterOrder
      PROVE  <<x, z>> \in LetterOrder
  <2>1. x[1] < z[1] \/ (x[1] = z[1] /\ x[2] < z[2])
    BY <1>1, <1>2, <1>4
  <2> QED BY <1>1, <2>1
<1>5. ASSUME NEW x \in Letter, NEW y \in Letter
      PROVE  x = y \/ <<x, y>> \in LetterOrder \/ <<y, x>> \in LetterOrder
  BY <1>1, <1>2, <1>3
<1>6. \A x \in Letter : <<x, x>> \notin LetterOrder
  BY <1>1, <1>2
<1> QED BY <1>1, <1>4, <1>5, <1>6 DEF Orders

\* What a comparison of two words returns: which comes first.
Tells(c, R, f, g) ==
    /\ c = -1 \/ c = 0 \/ c = 1
    /\ c = -1 <=> Precedes(R, f, g)
    /\ c = 1 <=> Precedes(R, g, f)
    /\ c = 0 <=> f = g

\* It is enough that it looks at the first difference.
LEMMA DifferenceTells ==
    ASSUME NEW K, NEW R, Orders(R, K), NEW f \in [Position -> K], NEW g \in [Position -> K],
           NEW i \in Position, Agree(f, g, i), f[i] # g[i],
           NEW c, c = -1 \/ c = 1, c = -1 <=> <<f[i], g[i]>> \in R
    PROVE  Tells(c, R, f, g)
<1>1. Agree(g, f, i) /\ f # g
  BY DEF Agree
<1>2. Precedes(R, f, g) <=> <<f[i], g[i]>> \in R
  BY FirstDifference
<1>3. Precedes(R, g, f) <=> <<g[i], f[i]>> \in R
  BY <1>1, FirstDifference
<1>4. /\ f[i] \in K /\ g[i] \in K
      /\ <<f[i], g[i]>> \in R \/ <<g[i], f[i]>> \in R
      /\ ~(<<f[i], g[i]>> \in R /\ <<g[i], f[i]>> \in R)
  <2>1. f[i] \in K /\ g[i] \in K
    OBVIOUS
  <2> QED BY <2>1 DEF Orders
<1> QED BY <1>1, <1>2, <1>3, <1>4 DEF Tells

LEMMA EqualityTells ==
    ASSUME NEW K, NEW R, Orders(R, K), NEW f \in [Position -> K]
    PROVE  Tells(0, R, f, f)
BY PrecedesIsIrreflexive DEF Tells

LEMMA WordsAreWords ==
    /\ \A a \in Seq(Nat) : NumbersWord(a) \in [Position -> Nat]
    /\ \A a \in Seq(Id) : SuffixWord(a) \in [Position -> Letter]
<1>1. ASSUME NEW a \in Seq(Nat) PROVE NumbersWord(a) \in [Position -> Nat]
  <2>1. \A i \in Position : Component(a, i) \in Nat
    BY DEF Component, Position
  <2> QED BY <2>1 DEF NumbersWord
<1>2. ASSUME NEW a \in Seq(Id) PROVE SuffixWord(a) \in [Position -> Letter]
  <2>1. \A x \in Id : LetterOf(x) \in Letter
    BY DEF Id, LetterOf, Letter
  <2>2. <<3, 0>> \in Letter /\ <<0, 0>> \in Letter
    BY DEF Letter
  <2>3. ASSUME NEW i \in Position, i <= Len(a) PROVE LetterOf(a[i]) \in Letter
    <3>1. a[i] \in Id
      BY <2>3 DEF Position
    <3> QED BY <2>1, <3>1
  <2> HIDE DEF Letter
  <2> QED BY <2>2, <2>3 DEF SuffixWord
<1> QED BY <1>1, <1>2

\* compareNumbers: missing numbers are zeros.
LEMMA NumbersTell ==
    ASSUME NEW a \in Seq(Nat), NEW b \in Seq(Nat)
    PROVE  Tells(CompareNumbers(a, b), Ascending, NumbersWord(a), NumbersWord(b))
<1> DEFINE m == Max({Len(a), Len(b)})
           differs == {i \in 1..m : Component(a, i) # Component(b, i)}
           f == NumbersWord(a)
           g == NumbersWord(b)
<1>1. m \in Nat /\ m >= Len(a) /\ m >= Len(b)
  <2>1. Len(a) \in Nat /\ Len(b) \in Nat
    OBVIOUS
  <2>2. m = IF Len(a) >= Len(b) THEN Len(a) ELSE Len(b)
    BY <2>1, GreaterOf
  <2> QED BY <2>1, <2>2
<1>2. /\ f \in [Position -> Nat] /\ g \in [Position -> Nat]
      /\ \A i \in Position : f[i] = Component(a, i) /\ g[i] = Component(b, i)
  BY WordsAreWords DEF NumbersWord
<1>3. \A i \in Position : i > m => f[i] = g[i]
  BY <1>1, <1>2 DEF Component, Position
<1>4. CompareNumbers(a, b) = IF differs = {} THEN 0
                             ELSE Sign(Component(a, Min(differs)), Component(b, Min(differs)))
  BY DEF CompareNumbers
<1> HIDE DEF m, f, g
<1>5. CASE differs = {}
  <2>1. \A i \in Position : f[i] = g[i]
    <3> SUFFICES ASSUME NEW i \in Position, ~(i > m) PROVE f[i] = g[i]
      BY <1>3
    <3>1. i \in 1..m
      BY <1>1 DEF Position
    <3>2. Component(a, i) = Component(b, i)
      BY <1>5, <3>1
    <3> QED BY <1>2, <3>2
  <2>2. f = g
    BY <1>2, <2>1
  <2> QED BY <1>2, <1>4, <1>5, <2>2, EqualityTells, AscendingOrders DEF f, g
<1>6. CASE differs # {}
  <2> DEFINE i == Min(differs)
  <2>1. i \in differs /\ \A j \in differs : i <= j
    <3>1. differs \subseteq Nat
      BY <1>1
    <3> HIDE DEF differs
    <3> QED BY <1>6, <3>1, LeastOf
  <2> HIDE DEF i
  <2>2. i \in Position /\ f[i] # g[i]
    BY <1>1, <1>2, <2>1 DEF Position
  <2>3. Agree(f, g, i)
    <3> SUFFICES ASSUME NEW j \in Position, j < i PROVE f[j] = g[j]
      BY DEF Agree
    <3>1. j \in 1..m /\ j \notin differs
      BY <1>1, <2>1 DEF Position
    <3> QED BY <1>2, <3>1
  <2>4. CompareNumbers(a, b) = Sign(f[i], g[i])
    BY <1>2, <1>4, <1>6, <2>2 DEF i
  <2>5. f[i] \in Nat /\ g[i] \in Nat
    BY <1>2, <2>2
  <2>6. /\ CompareNumbers(a, b) = -1 \/ CompareNumbers(a, b) = 1
        /\ CompareNumbers(a, b) = -1 <=> f[i] < g[i]
    BY <2>2, <2>4, <2>5 DEF Sign
  <2>7. <<f[i], g[i]>> \in Ascending <=> f[i] < g[i]
    BY <2>5 DEF Ascending
  <2> QED BY <1>2, <2>2, <2>3, <2>6, <2>7, DifferenceTells, AscendingOrders DEF f, g
<1> QED BY <1>5, <1>6

LEMMA IdentifiersTell ==
    ASSUME NEW x \in Id, NEW y \in Id, x # y
    PROVE  /\ LetterOf(x) # LetterOf(y) /\ LetterOf(x) \in Letter /\ LetterOf(y) \in Letter
           /\ CompareIdentifiers(x, y) = -1 \/ CompareIdentifiers(x, y) = 1
           /\ CompareIdentifiers(x, y) = -1 <=> <<LetterOf(x), LetterOf(y)>> \in LetterOrder
<1>1. /\ x.numeric \in BOOLEAN /\ y.numeric \in BOOLEAN /\ x.value \in Nat /\ y.value \in Nat
      /\ ~(x.numeric = y.numeric /\ x.value = y.value)
  BY DEF Id
<1>2. /\ LetterOf(x) \in Letter /\ LetterOf(y) \in Letter
      /\ LetterOf(x)[1] = (IF x.numeric THEN 1 ELSE 2) /\ LetterOf(x)[2] = x.value
      /\ LetterOf(y)[1] = (IF y.numeric THEN 1 ELSE 2) /\ LetterOf(y)[2] = y.value
  BY <1>1 DEF LetterOf, Letter
<1>3. /\ CompareIdentifiers(x, y) = -1 \/ CompareIdentifiers(x, y) = 1
      /\ CompareIdentifiers(x, y) = -1 <=>
            LetterOf(x)[1] < LetterOf(y)[1] \/ (LetterOf(x)[1] = LetterOf(y)[1] /\ x.value < y.value)
  <2>1. CASE x.numeric = y.numeric
    BY <1>1, <1>2, <2>1 DEF CompareIdentifiers, Sign
  <2>2. CASE x.numeric /\ ~y.numeric
    <3>1. ~(x.numeric = y.numeric) /\ ~(~x.numeric /\ y.numeric)
      BY <2>2
    <3>2. CompareIdentifiers(x, y) = -1
      BY Zenon, <2>2, <3>1 DEF CompareIdentifiers
    <3> QED BY <1>2, <2>2, <3>2
  <2>3. CASE ~x.numeric /\ y.numeric
    <3>1. ~(x.numeric = y.numeric) /\ ~(x.numeric /\ ~y.numeric)
      BY <2>3
    <3>2. CompareIdentifiers(x, y) = 1
      BY Zenon, <2>3, <3>1 DEF CompareIdentifiers
    <3> QED BY <1>2, <2>3, <3>2
  <2> QED BY <1>1, <2>1, <2>2, <2>3
<1>4. LetterOf(x) # LetterOf(y)
  BY <1>1, <1>2
<1> QED BY <1>2, <1>3, <1>4, LettersAreOrdered

\* comparePrerelease: no prerelease comes last, and of two that begin alike the
\* shorter one comes first.
LEMMA PrereleasesTell ==
    ASSUME NEW a \in Seq(Id), NEW b \in Seq(Id)
    PROVE  Tells(ComparePrerelease(a, b), LetterOrder, SuffixWord(a), SuffixWord(b))
<1> DEFINE n == Min({Len(a), Len(b)})
           differs == {i \in 1..n : a[i] # b[i]}
           f == SuffixWord(a)
           g == SuffixWord(b)
           c == ComparePrerelease(a, b)
<1>1. n \in Nat /\ n <= Len(a) /\ n <= Len(b) /\ (n = Len(a) \/ n = Len(b))
  <2>1. Len(a) \in Nat /\ Len(b) \in Nat
    OBVIOUS
  <2>2. n = IF Len(a) <= Len(b) THEN Len(a) ELSE Len(b)
    BY <2>1, GreaterOf
  <2> QED BY <2>1, <2>2
<1>2. f \in [Position -> Letter] /\ g \in [Position -> Letter]
  BY WordsAreWords
<1>3. \A i \in Position :
         /\ f[i] = IF a = <<>> THEN <<3, 0>> ELSE IF i <= Len(a) THEN LetterOf(a[i]) ELSE <<0, 0>>
         /\ g[i] = IF b = <<>> THEN <<3, 0>> ELSE IF i <= Len(b) THEN LetterOf(b[i]) ELSE <<0, 0>>
  BY DEF SuffixWord
<1>4. c = CASE a = b -> 0
            [] a # b /\ a = <<>> -> 1
            [] a # b /\ b = <<>> -> -1
            [] OTHER -> IF differs = {} THEN Sign(Len(a), Len(b))
                        ELSE CompareIdentifiers(a[Min(differs)], b[Min(differs)])
  BY DEF ComparePrerelease
<1>5. ASSUME NEW i \in Position, Agree(f, g, i), f[i] # g[i],
             c = -1 \/ c = 1, c = -1 <=> <<f[i], g[i]>> \in LetterOrder
      PROVE  Tells(c, LetterOrder, f, g)
  <2> HIDE DEF f, g, c
  <2> QED BY <1>2, <1>5, DifferenceTells, LettersAreOrdered
<1>6. \A x \in Id : LetterOf(x)[1] \in {1, 2} /\ LetterOf(x) \in Letter
  BY DEF LetterOf, Letter, Id
<1>7. /\ <<0, 0>> \in Letter /\ <<3, 0>> \in Letter
      /\ <<0, 0>>[1] = 0 /\ <<3, 0>>[1] = 3
  BY DEF Letter
<1>8. \A x \in Id : /\ <<LetterOf(x), <<3, 0>> >> \in LetterOrder /\ <<<<3, 0>>, LetterOf(x)>> \notin LetterOrder
                    /\ <<<<0, 0>>, LetterOf(x)>> \in LetterOrder /\ <<LetterOf(x), <<0, 0>> >> \notin LetterOrder
                    /\ LetterOf(x) # <<0, 0>> /\ LetterOf(x) # <<3, 0>>
  <2> DEFINE end == <<0, 0>>
             top == <<3, 0>>
  <2> SUFFICES ASSUME NEW x \in Id
               PROVE  /\ <<LetterOf(x), top>> \in LetterOrder /\ <<top, LetterOf(x)>> \notin LetterOrder
                      /\ <<end, LetterOf(x)>> \in LetterOrder /\ <<LetterOf(x), end>> \notin LetterOrder
                      /\ LetterOf(x) # end /\ LetterOf(x) # top
    OBVIOUS
  <2>1. LetterOf(x) \in Letter /\ (LetterOf(x)[1] = 1 \/ LetterOf(x)[1] = 2)
    BY <1>6
  <2>2. end \in Letter /\ top \in Letter /\ end[1] = 0 /\ top[1] = 3
    BY <1>7
  <2> DEFINE l == LetterOf(x)
  <2>3. l \in Letter /\ (l[1] = 1 \/ l[1] = 2)
    BY <2>1
  <2> HIDE DEF end, top, l
  <2>4. /\ <<l, top>> \in LetterOrder <=> l[1] < top[1] \/ (l[1] = top[1] /\ l[2] < top[2])
        /\ <<top, l>> \in LetterOrder <=> top[1] < l[1] \/ (l[1] = top[1] /\ top[2] < l[2])
        /\ <<end, l>> \in LetterOrder <=> end[1] < l[1] \/ (l[1] = end[1] /\ end[2] < l[2])
        /\ <<l, end>> \in LetterOrder <=> l[1] < end[1] \/ (l[1] = end[1] /\ l[2] < end[2])
    BY <2>2, <2>3, LettersAreOrdered
  <2>5. /\ <<l, top>> \in LetterOrder /\ <<top, l>> \notin LetterOrder
        /\ <<end, l>> \in LetterOrder /\ <<l, end>> \notin LetterOrder
        /\ l # end /\ l # top
    BY <2>2, <2>3, <2>4
  <2> QED BY <2>5 DEF l
<1> SUFFICES Tells(c, LetterOrder, f, g)
  OBVIOUS
<1>9. CASE a = b
  <2>1. c = 0 /\ f = g
    BY <1>4, <1>9
  <2> HIDE DEF f, g, c
  <2> QED BY <1>2, <2>1, EqualityTells, LettersAreOrdered
<1> HIDE DEF f, g, c, n
<1>10. 1 \in Position /\ Agree(f, g, 1)
  BY DEF Agree, Position
<1>11. CASE a # b /\ a = <<>>
  <2>1. 1 <= Len(b) /\ b[1] \in Id
    BY <1>11
  <2>2. f[1] = <<3, 0>> /\ g[1] = LetterOf(b[1])
    BY <1>3, <1>10, <1>11, <2>1
  <2>3. c = 1 /\ c # -1
    BY <1>4, <1>11
  <2>4. f[1] # g[1] /\ <<f[1], g[1]>> \notin LetterOrder
    BY Zenon, <1>8, <2>1, <2>2
  <2> QED BY <1>5, <1>10, <2>3, <2>4
<1>12. CASE a # b /\ a # <<>> /\ b = <<>>
  <2>1. 1 <= Len(a) /\ a[1] \in Id
    BY <1>12
  <2>2. g[1] = <<3, 0>> /\ f[1] = LetterOf(a[1])
    BY <1>3, <1>10, <1>12, <2>1
  <2>3. c = -1
    BY <1>4, <1>12
  <2>4. f[1] # g[1] /\ <<f[1], g[1]>> \in LetterOrder
    BY Zenon, <1>8, <2>1, <2>2
  <2> QED BY <1>5, <1>10, <2>3, <2>4
<1>13. CASE a # b /\ a # <<>> /\ b # <<>> /\ differs # {}
  <2> DEFINE i == Min(differs)
  <2>1. i \in differs /\ \A j \in differs : i <= j
    <3>1. differs \subseteq Nat
      BY <1>1
    <3> HIDE DEF differs
    <3> QED BY <1>13, <3>1, LeastOf
  <2>2. c = CompareIdentifiers(a[i], b[i])
    BY <1>4, <1>13
  <2> HIDE DEF i
  <2>3. /\ i \in Position /\ i <= n /\ i <= Len(a) /\ i <= Len(b)
        /\ a[i] # b[i] /\ a[i] \in Id /\ b[i] \in Id
    BY <1>1, <2>1 DEF Position
  <2>4. Agree(f, g, i)
    <3> SUFFICES ASSUME NEW j \in Position, j < i PROVE f[j] = g[j]
      BY DEF Agree
    <3>1. j \in 1..n /\ j \notin differs /\ j <= Len(a) /\ j <= Len(b)
      BY <1>1, <2>1, <2>3 DEF Position
    <3>2. a[j] = b[j]
      BY <3>1
    <3> QED BY <1>3, <1>13, <3>1, <3>2
  <2>5. f[i] = LetterOf(a[i]) /\ g[i] = LetterOf(b[i])
    BY <1>3, <1>13, <2>3
  <2> QED BY <1>5, <2>2, <2>3, <2>4, <2>5, IdentifiersTell
<1>14. CASE a # b /\ a # <<>> /\ b # <<>> /\ differs = {}
  <2>1. \A j \in 1..n : a[j] = b[j]
    BY <1>14
  <2>2. c = Sign(Len(a), Len(b))
    BY <1>4, <1>14
  <2>3. Len(a) \in Nat /\ Len(b) \in Nat /\ Len(a) # Len(b)
    <3> SUFFICES ASSUME Len(a) = Len(b) PROVE FALSE
      OBVIOUS
    <3>1. n = Len(a) /\ n = Len(b)
      BY <1>1
    <3>2. a = b
      BY <2>1, <3>1, SeqEqual
    <3> QED BY <1>14, <3>2
  <2> DEFINE i == n + 1
  <2>4. i \in Position /\ Agree(f, g, i)
    <3>1. i \in Position
      BY <1>1 DEF Position
    <3> SUFFICES ASSUME NEW j \in Position, j < i PROVE f[j] = g[j]
      BY <3>1 DEF Agree
    <3>2. j \in 1..n /\ j <= Len(a) /\ j <= Len(b)
      BY <1>1, <2>3 DEF Position
    <3> QED BY <1>3, <1>14, <2>1, <3>2
  <2>5. CASE Len(a) < Len(b)
    <3>1. i > Len(a) /\ i <= Len(b) /\ b[i] \in Id /\ c = -1
      BY <1>1, <2>2, <2>3, <2>5 DEF Sign
    <3> HIDE DEF i
    <3>2. i \in Position /\ ~(i <= Len(a))
      BY <2>3, <2>4, <3>1 DEF Position
    <3>3. f[i] = <<0, 0>>
      BY Zenon, <1>3, <1>14, <3>2
    <3>4. g[i] = LetterOf(b[i])
      BY Zenon, <1>3, <1>14, <2>4, <3>1
    <3>5. f[i] # g[i] /\ <<f[i], g[i]>> \in LetterOrder
      BY Zenon, <1>8, <3>1, <3>3, <3>4
    <3> QED BY <1>5, <2>4, <3>1, <3>5
  <2>6. CASE Len(b) < Len(a)
    <3>1. i > Len(b) /\ i <= Len(a) /\ a[i] \in Id /\ c = 1
      BY <1>1, <2>2, <2>3, <2>6 DEF Sign
    <3> HIDE DEF i
    <3>2. i \in Position /\ ~(i <= Len(b))
      BY <2>3, <2>4, <3>1 DEF Position
    <3>3. g[i] = <<0, 0>>
      BY Zenon, <1>3, <1>14, <3>2
    <3>4. f[i] = LetterOf(a[i])
      BY Zenon, <1>3, <1>14, <2>4, <3>1
    <3>5. f[i] # g[i] /\ <<f[i], g[i]>> \notin LetterOrder
      BY Zenon, <1>8, <3>1, <3>3, <3>4
    <3> QED BY <1>5, <2>4, <3>1, <3>5
  <2> QED BY <2>3, <2>5, <2>6
<1> QED BY <1>9, <1>11, <1>12, <1>13, <1>14

LEMMA SuffixIsPrerelease ==
    ASSUME NEW v \in Version
    PROVE  v.numbers \in Seq(Nat) /\ Prerelease(v) \in Seq(Id)
BY DEF Version, Prerelease

\* Compare orders versions by their numbers first, then by their prereleases.
LEMMA CompareTells ==
    ASSUME NEW a \in Version, NEW b \in Version
    PROVE  LET p == NumbersWord(a.numbers)
               q == NumbersWord(b.numbers)
               f == SuffixWord(Prerelease(a))
               g == SuffixWord(Prerelease(b))
           IN  /\ Compare(a, b) = -1 \/ Compare(a, b) = 0 \/ Compare(a, b) = 1
               /\ Compare(a, b) = -1 <=>
                     Precedes(Ascending, p, q) \/ (p = q /\ Precedes(LetterOrder, f, g))
               /\ Compare(a, b) = 1 <=>
                     Precedes(Ascending, q, p) \/ (p = q /\ Precedes(LetterOrder, g, f))
               /\ Compare(a, b) = 0 <=> p = q /\ f = g
<1> DEFINE p == NumbersWord(a.numbers)
           q == NumbersWord(b.numbers)
           f == SuffixWord(Prerelease(a))
           g == SuffixWord(Prerelease(b))
           n == CompareNumbers(a.numbers, b.numbers)
           s == ComparePrerelease(Prerelease(a), Prerelease(b))
<1>1. a.numbers \in Seq(Nat) /\ b.numbers \in Seq(Nat)
  BY SuffixIsPrerelease
<1>2. Prerelease(a) \in Seq(Id) /\ Prerelease(b) \in Seq(Id)
  BY SuffixIsPrerelease
<1>3. Tells(n, Ascending, p, q)
  BY <1>1, NumbersTell
<1>4. Tells(s, LetterOrder, f, g)
  BY <1>2, PrereleasesTell
<1>5. Compare(a, b) = IF n # 0 THEN n ELSE s
  BY DEF Compare
<1>6. p \in [Position -> Nat]
  BY <1>1, WordsAreWords
<1>7. ~Precedes(Ascending, p, p)
  BY <1>6, PrecedesIsIrreflexive, AscendingOrders
<1> HIDE DEF p, q, f, g, n, s
<1>8. /\ Compare(a, b) = -1 \/ Compare(a, b) = 0 \/ Compare(a, b) = 1
      /\ Compare(a, b) = -1 <=> Precedes(Ascending, p, q) \/ (p = q /\ Precedes(LetterOrder, f, g))
      /\ Compare(a, b) = 1 <=> Precedes(Ascending, q, p) \/ (p = q /\ Precedes(LetterOrder, g, f))
      /\ Compare(a, b) = 0 <=> p = q /\ f = g
  BY <1>3, <1>4, <1>5, <1>7 DEF Tells
<1> QED BY <1>8 DEF p, q, f, g

\* Whichever the versions, of any length and with any numbers, Compare is a total
\* order of what they say: turned round when its arguments are, and transitive.
THEOREM VersionsAreOrdered ==
    /\ \A a, b \in Version : Compare(a, b) \in {-1, 0, 1} /\ Compare(a, b) = -Compare(b, a)
    /\ \A a, b, c \in Version : Compare(a, b) <= 0 /\ Compare(b, c) <= 0 => Compare(a, c) <= 0
<1> DEFINE N(v) == NumbersWord(v.numbers)
           S(v) == SuffixWord(Prerelease(v))
           Before(a, b) == Precedes(Ascending, N(a), N(b)) \/ (N(a) = N(b) /\ Precedes(LetterOrder, S(a), S(b)))
           Same(a, b) == N(a) = N(b) /\ S(a) = S(b)
<1>1. ASSUME NEW a \in Version, NEW b \in Version
      PROVE  /\ Compare(a, b) = -1 \/ Compare(a, b) = 0 \/ Compare(a, b) = 1
             /\ Compare(a, b) = -1 <=> Before(a, b)
             /\ Compare(a, b) = 0 <=> Same(a, b)
             /\ Compare(a, b) = 1 <=> Before(b, a)
  <2>1. /\ Compare(a, b) = -1 \/ Compare(a, b) = 0 \/ Compare(a, b) = 1
        /\ Compare(a, b) = -1 <=> Before(a, b)
        /\ Compare(a, b) = 0 <=> Same(a, b)
        /\ Compare(a, b) = 1 <=>
              Precedes(Ascending, N(b), N(a)) \/ (N(a) = N(b) /\ Precedes(LetterOrder, S(b), S(a)))
    BY CompareTells
  <2> QED BY <2>1
<1>2. ASSUME NEW a \in Version PROVE N(a) \in [Position -> Nat] /\ S(a) \in [Position -> Letter]
  BY SuffixIsPrerelease, WordsAreWords
<1>3. ASSUME NEW a \in Version, NEW b \in Version, NEW c \in Version,
             Before(a, b) \/ Same(a, b), Before(b, c) \/ Same(b, c)
      PROVE  Before(a, c) \/ Same(a, c)
  <2> DEFINE na == N(a)
             nb == N(b)
             nc == N(c)
             sa == S(a)
             sb == S(b)
             sc == S(c)
  <2>1. na \in [Position -> Nat] /\ nb \in [Position -> Nat] /\ nc \in [Position -> Nat]
    BY <1>2
  <2>2. sa \in [Position -> Letter] /\ sb \in [Position -> Letter] /\ sc \in [Position -> Letter]
    BY <1>2
  <2>3. Precedes(Ascending, na, nb) \/ (na = nb /\ (Precedes(LetterOrder, sa, sb) \/ sa = sb))
    BY <1>3
  <2>4. Precedes(Ascending, nb, nc) \/ (nb = nc /\ (Precedes(LetterOrder, sb, sc) \/ sb = sc))
    BY <1>3
  <2> SUFFICES Precedes(Ascending, na, nc) \/ (na = nc /\ (Precedes(LetterOrder, sa, sc) \/ sa = sc))
    OBVIOUS
  <2> HIDE DEF N, S, na, nb, nc, sa, sb, sc
  <2>5. Precedes(Ascending, na, nb) /\ Precedes(Ascending, nb, nc) => Precedes(Ascending, na, nc)
    BY <2>1, PrecedesIsTransitive, AscendingOrders
  <2>6. Precedes(LetterOrder, sa, sb) /\ Precedes(LetterOrder, sb, sc) => Precedes(LetterOrder, sa, sc)
    BY <2>2, PrecedesIsTransitive, LettersAreOrdered
  <2> QED BY <2>3, <2>4, <2>5, <2>6
<1> HIDE DEF Before, Same
<1>4. ASSUME NEW a \in Version, NEW b \in Version
      PROVE  Compare(a, b) \in {-1, 0, 1} /\ Compare(a, b) = -Compare(b, a)
  <2>1. Same(a, b) <=> Same(b, a)
    BY DEF Same
  <2> QED BY <1>1, <2>1
<1>5. ASSUME NEW a \in Version, NEW b \in Version, Compare(a, b) <= 0
      PROVE  Before(a, b) \/ Same(a, b)
  BY <1>1, <1>5
<1>6. ASSUME NEW a \in Version, NEW b \in Version, NEW c \in Version,
             Compare(a, b) <= 0, Compare(b, c) <= 0
      PROVE  Compare(a, c) <= 0
  <2>1. Before(a, c) \/ Same(a, c)
    BY <1>3, <1>5, <1>6
  <2> QED BY <1>1, <2>1
<1> QED BY <1>4, <1>6

LEMMA RawIsVersion == Raw \subseteq Version
<1> SUFFICES ASSUME NEW v \in Raw PROVE v \in Version
  OBVIOUS
<1> USE OrderConstants DEF OrderConstants
<1>1. PICK n \in 1..MaxNumbers : v.numbers \in [1..n -> 0..MaxComponent]
  BY DEF Raw
<1>2. PICK m \in 0..MaxIdentifiers : v.prerelease \in [1..m -> Identifier]
  BY DEF Raw
<1>3. v.numbers \in Seq(Nat)
  <2>1. n \in Nat /\ 0..MaxComponent \subseteq Nat
    OBVIOUS
  <2>2. v.numbers \in [1..n -> Nat]
    BY <1>1, <2>1
  <2> QED BY <2>1, <2>2, SeqDef
<1>4. v.prerelease \in Seq(Id)
  <2>1. m \in Nat /\ Identifier \subseteq Id
    BY DEF Identifier, Id
  <2>2. v.prerelease \in [1..m -> Id]
    BY <1>2, <2>1
  <2> QED BY <2>1, <2>2, SeqDef
<1>5. v = [numbers |-> v.numbers, prerelease |-> v.prerelease]
  BY DEF Raw
<1> QED BY <1>3, <1>4, <1>5 DEF Version

\* Whatever is compared, with the bounds of the pattern or beyond, the answer
\* does not depend on the side nor on a version between, and a target is
\* proposed in one direction only (versions.Compare, versions.Assess).
THEOREM OrderHolds == OrderSpec => []OrderIsTotal
<1> DEFINE Pair == compared \in Raw \X Raw
<1>1. OrderInit => Pair
  BY DEF OrderInit
<1>2. Pair /\ [OrderNext]_compared => Pair'
  BY DEF OrderNext
<1>3. Pair => OrderIsTotal
  <2> SUFFICES ASSUME Pair PROVE OrderIsTotal
    OBVIOUS
  <2> DEFINE a == compared[1]
             b == compared[2]
  <2>1. a \in Raw /\ b \in Raw /\ a \in Version /\ b \in Version
    BY RawIsVersion
  <2> HIDE DEF a, b
  <2>2. Compare(a, b) \in {-1, 0, 1} /\ Compare(b, a) \in {-1, 0, 1} /\ Compare(a, b) = -Compare(b, a)
    BY <2>1, VersionsAreOrdered
  <2>3. Compare(a, b) <= 0 => \A c \in Raw : Compare(b, c) <= 0 => Compare(a, c) <= 0
    BY <2>1, VersionsAreOrdered, RawIsVersion
  <2>4. Assess(a, b) \in {"update", "prerelease"} <=> Assess(b, a) = "target_older"
    <3>1. Compare(a, b) = 0 => Assess(a, b) = "current" /\ Assess(b, a) = "current"
      BY <2>2 DEF Assess
    <3>2. Compare(a, b) = 1 => Assess(a, b) = "target_older" /\ Assess(b, a) \in {"update", "prerelease"}
      BY <2>2 DEF Assess
    <3>3. Compare(a, b) = -1 => Assess(a, b) \in {"update", "prerelease"} /\ Assess(b, a) = "target_older"
      BY <2>2 DEF Assess
    <3> QED BY <2>2, <3>1, <3>2, <3>3
  <2> QED BY <2>2, <2>3, <2>4 DEF OrderIsTotal, a, b
<1> QED BY <1>1, <1>2, <1>3, PTL DEF OrderSpec

----------------------------------------------------------------------------
(* The catalogue of releases *)

LEMMA WholePages ==
    ASSUME NEW k \in Nat, NEW s \in Nat \ {0}
    PROVE  (k * s) \div s = k /\ (k + 1) * s = k * s + s
OBVIOUS

LEMMA SmallerPages ==
    ASSUME NEW k \in Nat, NEW m \in Nat, NEW s \in Nat
    PROVE  k * m \in Nat /\ k * (m * s) = (k * m) * s
OBVIOUS

\* What descends from each to the next descends from every one to those after it.
LEMMA Descends ==
    ASSUME NEW L \in Seq(Nat), \A i \in 2..Len(L) : L[i - 1] > L[i],
           NEW i \in 1..Len(L), NEW j \in 1..Len(L), i < j
    PROVE  L[i] > L[j]
<1> DEFINE others == {m \in 1..Len(L) : i < m /\ ~(L[i] > L[m])}
           least == Min(others)
<1>1. \A m \in 1..Len(L) : L[m] \in Nat
  OBVIOUS
<1> SUFFICES ASSUME others # {} PROVE FALSE
  OBVIOUS
<1>2. others \subseteq Nat
  OBVIOUS
<1> HIDE DEF others
<1>3. least \in others /\ \A m \in others : least <= m
  BY <1>2, LeastOf
<1> HIDE DEF least
<1>4. least \in 1..Len(L) /\ i < least /\ ~(L[i] > L[least])
  BY <1>3 DEF others
<1>5. \A m \in 1..Len(L) : i < m /\ m < least => L[i] > L[m]
  <2> SUFFICES ASSUME NEW m \in 1..Len(L), i < m, m < least, ~(L[i] > L[m]) PROVE FALSE
    OBVIOUS
  <2>1. m \in others
    BY DEF others
  <2> QED BY <1>3, <1>4, <2>1
<1>6. least \in 2..Len(L) /\ least - 1 \in 1..Len(L) /\ (i = least - 1 \/ i < least - 1)
  BY <1>4
<1>7. L[i] = L[least - 1] \/ L[i] > L[least - 1]
  BY <1>4, <1>5, <1>6
<1>8. L[i] \in Nat /\ L[least] \in Nat /\ L[least - 1] \in Nat /\ L[least - 1] > L[least]
  BY <1>1, <1>4, <1>6
<1>9. \A x, y, z \in Nat : (x = y \/ x > y) /\ y > z => x > z
  OBVIOUS
<1> QED BY Zenon, <1>4, <1>7, <1>8, <1>9

Descending(L) == \A i \in 2..Len(L) : L[i - 1] > L[i]

CatType ==
    /\ releases \in Seq(Nat) /\ between \in [installed : Nat, target : Nat] /\ partial \in BOOLEAN
    /\ paging \in [resource : {"releases", "tags", "done", "failed"}, size : 1..Len(Sizes),
                   offset : Nat, attempt : Nat]

\* The offset is a whole number of pages, of the size to which they shrank.
OffsetIsWhole ==
    /\ \E k \in Nat : paging.offset = k * PageSize
    /\ paging.offset <= Len(Listing)

Entry(v) == [version |-> v, body |-> paging.resource = "releases"]

ReadIsCollected == Reading => \A i \in 1..paging.offset : Entry(Listing[i]) \in collected

\* What the releases and then the tags left behind them, where nothing was cut off.
ReleasesAreKept ==
    (paging.resource \in {"tags", "done"} /\ ~partial /\ Descending(releases)) =>
        \A i \in 1..Len(releases) :
            InRange(releases[i]) => [version |-> releases[i], body |-> TRUE] \in collected

TagsAreKept ==
    (paging.resource = "done" /\ ~partial) =>
        \A i \in 1..Len(Tags) : InRange(Tags[i]) => [version |-> Tags[i], body |-> FALSE] \in collected

CatInv ==
    /\ CatType /\ OffsetIsWhole /\ ReadIsCollected /\ PagesAreContiguous
    /\ ReleasesAreKept /\ TagsAreKept

LEMMA ListingIsSeq == CatType => Listing \in Seq(Nat)
<1> SUFFICES ASSUME CatType PROVE Listing \in Seq(Nat)
  OBVIOUS
<1>1. Tags \in [1..MaxRelease -> Nat]
  BY CatalogueConstants DEF Tags, CatalogueConstants
<1>2. Tags \in Seq(Nat)
  BY <1>1, CatalogueConstants, SeqDef DEF CatalogueConstants
<1> QED BY <1>2 DEF Listing, CatType

LEMMA TagsDescend ==
    Len(Tags) = MaxRelease /\ Tags \in Seq(Nat) /\ Descending(Tags)
<1>1. Tags \in [1..MaxRelease -> Nat] /\ \A i \in 1..MaxRelease : Tags[i] = MaxRelease + 1 - i
  BY CatalogueConstants DEF Tags, CatalogueConstants
<1>2. Tags \in Seq(Nat)
  BY <1>1, CatalogueConstants, SeqDef DEF CatalogueConstants
<1>3. Len(Tags) = MaxRelease
  BY <1>1, <1>2, CatalogueConstants DEF CatalogueConstants
<1> QED BY <1>1, <1>2, <1>3, CatalogueConstants DEF Descending, CatalogueConstants

LEMMA SizeIsPositive == CatType => PageSize \in Nat \ {0}
BY SizesDivide DEF SizesDivide, CatType, PageSize

\* The page is what follows the offset.
LEMMA ThisPage ==
    ASSUME CatType, OffsetIsWhole
    PROVE  /\ Page \in Seq(Nat) /\ Len(Page) \in Nat /\ Len(Page) <= PageSize
           /\ paging.offset + Len(Page) <= Len(Listing)
           /\ Len(Page) < PageSize => paging.offset + Len(Page) = Len(Listing)
           /\ \A i \in 1..Len(Page) : Page[i] = Listing[paging.offset + i]
           /\ Page = SubSeq(Listing, paging.offset + 1, paging.offset + Len(Page))
<1> DEFINE L == Listing
           o == paging.offset
           s == PageSize
           m == Min({o + s, Len(L)})
<1>1. L \in Seq(Nat) /\ s \in Nat \ {0} /\ o \in Nat /\ o <= Len(L)
  BY ListingIsSeq, SizeIsPositive DEF CatType, OffsetIsWhole
<1>2. PICK k \in Nat : o = k * s
  BY DEF OffsetIsWhole
<1>3. o \div s = k /\ (k + 1) * s = o + s
  BY <1>1, <1>2, WholePages
<1>4. Page = SubSeq(L, o + 1, m)
  BY <1>2, <1>3 DEF Page
<1>5. Len(L) \in Nat /\ \A i \in 1..Len(L) : L[i] \in Nat
  BY <1>1
<1>6. m = IF o + s <= Len(L) THEN o + s ELSE Len(L)
  <2>1. o + s \in Nat
    BY <1>1
  <2> QED BY Zenon, <1>5, <2>1, GreaterOf
<1> SUFFICES /\ Page \in Seq(Nat) /\ Len(Page) \in Nat /\ Len(Page) <= s /\ o + Len(Page) <= Len(L)
             /\ Len(Page) < s => o + Len(Page) = Len(L)
             /\ \A i \in 1..Len(Page) : Page[i] = L[o + i]
             /\ Page = SubSeq(L, o + 1, o + Len(Page))
  OBVIOUS
<1> HIDE DEF L, o, s, m
<1>7. o + 1 \in Int /\ m \in Int /\ \A i \in (o + 1)..m : L[i] \in Nat
  BY <1>1, <1>5, <1>6
<1>8. /\ Page \in Seq(Nat)
      /\ Len(Page) = IF o + 1 <= m THEN m - (o + 1) + 1 ELSE 0
      /\ \A i \in 1..(m - (o + 1) + 1) : Page[i] = L[o + 1 + i - 1]
  BY <1>4, <1>7, SubSeqProperties
<1>9. Len(Page) = m - o
  BY <1>1, <1>5, <1>6, <1>8
<1>10. Len(Page) \in Nat /\ Len(Page) <= s /\ o + Len(Page) <= Len(L) /\ (Len(Page) < s => o + Len(Page) = Len(L))
  BY <1>1, <1>5, <1>6, <1>9
<1>11. \A i \in 1..Len(Page) : Page[i] = L[o + i]
  BY <1>1, <1>7, <1>8, <1>9
<1>12. o + Len(Page) = m
  BY <1>1, <1>7, <1>9
<1> QED BY <1>4, <1>8, <1>10, <1>11, <1>12

\* A listing in order has nothing in the range behind a page that is not full or
\* that is older.
LEMMA NothingBehind ==
    ASSUME CatType, OffsetIsWhole, Len(Page) < PageSize \/ OlderPage, Descending(Listing),
           NEW j \in 1..Len(Listing), InRange(Listing[j])
    PROVE  j <= paging.offset + Len(Page)
<1> DEFINE L == Listing
           o == paging.offset
           n == Len(Page)
<1>1. /\ L \in Seq(Nat) /\ o \in Nat /\ n \in Nat /\ Len(L) \in Nat /\ o + n <= Len(L)
      /\ n < PageSize => o + n = Len(L)
      /\ \A i \in 1..n : Page[i] = L[o + i]
  BY ListingIsSeq, ThisPage DEF CatType
<1>2. Page \in Seq(Nat) /\ DOMAIN Page = 1..n
  BY ThisPage
<1> SUFFICES ASSUME j > o + n PROVE FALSE
  BY <1>1
<1>3. OlderPage
  BY <1>1
<1>4. 1 \in 1..n /\ Page[1] < between.installed
  BY <1>2, <1>3 DEF OlderPage
<1>5. Descending(L) /\ j \in 1..Len(L) /\ j > o + n /\ between.installed < L[j]
  BY DEF InRange
<1>6. between.installed \in Nat
  BY DEF CatType
<1> HIDE DEF L, o, n
<1>7. L[o + 1] < between.installed /\ o + 1 \in 1..Len(L) /\ o + 1 < j
  BY <1>1, <1>4, <1>5
<1>8. L[o + 1] > L[j]
  BY <1>1, <1>5, <1>7, Descends DEF Descending
<1>9. L[j] \in Nat /\ L[o + 1] \in Nat
  BY <1>1, <1>5, <1>7
<1> QED BY <1>5, <1>6, <1>7, <1>8, <1>9

LEMMA CatInitially == CatInit => CatInv
<1> SUFFICES ASSUME CatInit PROVE CatInv
  OBVIOUS
<1> USE CatalogueConstants DEF CatalogueConstants
<1>1. /\ paging = [resource |-> "releases", size |-> 1, offset |-> 0, attempt |-> 1]
      /\ read = <<>> /\ collected = {} /\ partial = FALSE
  BY DEF CatInit, FirstPage
<1>2. releases \in Seq(Nat)
  <2>1. PICK n \in 0..MaxRelease : releases \in [1..n -> 1..MaxRelease]
    BY DEF CatInit
  <2>2. n \in Nat /\ releases \in [1..n -> Nat]
    BY <2>1
  <2> QED BY <2>2, SeqDef
<1>3. between \in [installed : Nat, target : Nat]
  BY DEF CatInit
<1>4. 1 \in 1..Len(Sizes)
  BY SizesDivide DEF SizesDivide
<1>5. CatType
  BY <1>1, <1>2, <1>3, <1>4 DEF CatType
<1>6. OffsetIsWhole
  <2>1. PageSize \in Nat /\ Len(Listing) \in Nat
    BY <1>5, SizeIsPositive, ListingIsSeq
  <2>2. paging.offset = 0 /\ 0 = 0 * PageSize /\ 0 <= Len(Listing)
    BY <1>1, <2>1
  <2> QED BY <2>2 DEF OffsetIsWhole
<1>7. PagesAreContiguous
  <2>1. Len(Listing) \in Nat /\ paging.offset = 0
    BY <1>1, <1>5, ListingIsSeq
  <2>2. Min({0, Len(Listing)}) = 0
    BY <2>1, GreaterOf
  <2>3. SubSeq(Listing, 1, 0) = <<>>
    BY SubSeqEmpty
  <2> QED BY <1>1, <2>1, <2>2, <2>3 DEF PagesAreContiguous
<1> QED BY <1>1, <1>5, <1>6, <1>7 DEF CatInv, ReadIsCollected, ReleasesAreKept, TagsAreKept

LEMMA ListingNext == CatType' => Listing' \in Seq(Nat)
<1> SUFFICES ASSUME CatType' PROVE Listing' \in Seq(Nat)
  OBVIOUS
<1>1. Listing' = IF paging'.resource = "releases" THEN releases' ELSE Tags
  BY DEF Listing, Tags
<1>2. releases' \in Seq(Nat)
  BY DEF CatType
<1> QED BY <1>1, <1>2, TagsDescend

LEMMA NoPages ==
    ASSUME NEW n \in Nat, NEW s \in Nat
    PROVE  Min({0, n}) = 0 /\ 0 = 0 * s /\ 0 <= n
BY GreaterOf

\* A resource starts with nothing read.
LEMMA StartsAfresh ==
    ASSUME CatType', paging'.offset = 0, read' = <<>>
    PROVE  OffsetIsWhole' /\ ReadIsCollected' /\ PagesAreContiguous'
<1>1. PageSize' \in Nat
  BY SizesDivide DEF SizesDivide, CatType, PageSize
<1>2. Listing' \in Seq(Nat) /\ Len(Listing') \in Nat
  BY ListingNext
<1>3. OffsetIsWhole'
  <2>1. 0 = 0 * PageSize' /\ 0 <= Len(Listing') /\ 0 \in Nat
    BY Zenon, <1>1, <1>2, NoPages
  <2> QED BY <2>1 DEF OffsetIsWhole
<1>4. ReadIsCollected'
  BY DEF ReadIsCollected
<1>5. PagesAreContiguous'
  <2>1. Min({0, Len(Listing')}) = 0
    BY Zenon, <1>1, <1>2, NoPages
  <2>2. SubSeq(Listing', 1, 0) = <<>>
    BY SubSeqEmpty
  <2> QED BY <2>1, <2>2 DEF PagesAreContiguous
<1> QED BY <1>3, <1>4, <1>5

LEMMA NextResourceStarts ==
    ASSUME CatType, NextResource, UNCHANGED <<releases, between>>, partial' \in BOOLEAN
    PROVE  /\ CatType' /\ OffsetIsWhole' /\ ReadIsCollected' /\ PagesAreContiguous'
           /\ paging'.resource = IF paging.resource = "releases" THEN "tags" ELSE "done"
<1>1. /\ paging' = [resource |-> IF paging.resource = "releases" THEN "tags" ELSE "done",
                    size |-> 1, offset |-> 0, attempt |-> 1]
      /\ read' = <<>>
  BY DEF NextResource, FirstPage
<1>2. 1 \in 1..Len(Sizes)
  BY SizesDivide DEF SizesDivide
<1>3. CatType'
  BY <1>1, <1>2 DEF CatType
<1> QED BY <1>1, <1>3, StartsAfresh

LEMMA ShrinksKeeps == CatInv /\ Shrinks => CatInv'
<1> SUFFICES ASSUME CatInv, Shrinks PROVE CatInv'
  OBVIOUS
<1>1. /\ paging'.resource = paging.resource /\ paging'.offset = paging.offset
      /\ paging'.size = paging.size + 1 /\ paging.size \in 1..Len(Sizes) /\ paging.size < Len(Sizes)
      /\ paging' = [paging EXCEPT !.size = @ + 1, !.attempt = @ + 1]
      /\ UNCHANGED <<releases, between, read, collected, partial>>
  BY DEF CatInv, CatType, Shrinks
<1>2. CatType'
  <2>1. CatType
    BY DEF CatInv
  <2>2. /\ paging.attempt + 1 \in Nat /\ paging.offset \in Nat /\ paging.size + 1 \in 1..Len(Sizes)
        /\ paging.resource \in {"releases", "tags", "done", "failed"}
    BY <1>1, <2>1, SizesDivide DEF CatType, SizesDivide
  <2>3. paging' = [resource |-> paging.resource, size |-> paging.size + 1,
                   offset |-> paging.offset, attempt |-> paging.attempt + 1]
    BY <1>1, <2>1 DEF CatType
  <2> QED BY <1>1, <2>1, <2>2, <2>3 DEF CatType
<1>3. Listing' = Listing
  BY <1>1 DEF Listing, Tags
<1>4. OffsetIsWhole'
  <2>1. PICK k \in Nat : paging.offset = k * PageSize
    BY DEF CatInv, OffsetIsWhole
  <2>2. paging.size + 1 \in 2..Len(Sizes) /\ (paging.size + 1) - 1 = paging.size
    BY <1>1, SizesDivide DEF SizesDivide
  <2>3. PICK m \in 1..Sizes[paging.size] : Sizes[paging.size] = m * Sizes[paging.size + 1]
    BY <2>2, SizesDivide DEF SizesDivide
  <2>4. m \in Nat /\ PageSize = m * PageSize'
    BY <1>1, <2>3 DEF PageSize
  <2>5. PageSize' \in Nat
    BY <1>2, SizesDivide DEF SizesDivide, CatType, PageSize
  <2>6. \A p \in Nat : k * m \in Nat /\ k * (m * p) = (k * m) * p
    BY <2>4, SmallerPages
  <2>7. paging'.offset = (k * m) * PageSize'
    BY Zenon, <1>1, <2>1, <2>4, <2>5, <2>6
  <2> QED BY <1>1, <1>3, <2>6, <2>7 DEF CatInv, OffsetIsWhole
<1>5. ReadIsCollected' /\ PagesAreContiguous'
  BY <1>1, <1>3 DEF CatInv, ReadIsCollected, PagesAreContiguous, Reading, Entry
<1>6. ReleasesAreKept' /\ TagsAreKept'
  BY <1>1 DEF CatInv, ReleasesAreKept, TagsAreKept, Tags, InRange, Descending
<1> QED BY <1>2, <1>4, <1>5, <1>6 DEF CatInv

LEMMA CallBreaksKeeps == CatInv /\ CallBreaks => CatInv'
<1> SUFFICES ASSUME CatInv, CallBreaks PROVE CatInv'
  OBVIOUS
<1>1. UNCHANGED <<releases, between, collected>> /\ CatType
  BY DEF CatInv, CallBreaks
<1>2. CASE collected = {}
  <2>1. /\ paging' = [resource |-> "failed", size |-> 1, offset |-> 0, attempt |-> 1]
        /\ read' = <<>> /\ UNCHANGED partial
    BY <1>2 DEF CallBreaks, FirstPage
  <2>2. CatType'
    BY <1>1, <2>1, SizesDivide DEF CatType, SizesDivide
  <2>3. OffsetIsWhole' /\ ReadIsCollected' /\ PagesAreContiguous'
    BY <2>1, <2>2, StartsAfresh
  <2> QED BY <2>1, <2>2, <2>3 DEF CatInv, ReleasesAreKept, TagsAreKept
<1>3. CASE collected # {}
  <2>1. NextResource /\ partial' = TRUE
    BY <1>3 DEF CallBreaks, BreaksOff
  <2> QED BY <1>1, <2>1, NextResourceStarts DEF CatInv, ReleasesAreKept, TagsAreKept
<1> QED BY <1>2, <1>3

LEMMA PageIsCollected ==
    ASSUME CatInv, ReadPage
    PROVE  \A j \in 1..(paging.offset + Len(Page)) : Entry(Listing[j]) \in collected'
<1>1. /\ paging.offset \in Nat /\ Len(Page) \in Nat /\ Page \in Seq(Nat)
      /\ \A i \in 1..Len(Page) : Page[i] = Listing[paging.offset + i]
  BY ThisPage DEF CatInv, CatType
<1>2. \A i \in 1..paging.offset : Entry(Listing[i]) \in collected
  BY DEF CatInv, ReadIsCollected, ReadPage
<1>3. collected \subseteq collected' /\ \A v \in ToSet(Page) : Entry(v) \in collected'
  BY DEF ReadPage, Entry
<1>4. \A i \in 1..Len(Page) : Page[i] \in ToSet(Page)
  BY <1>1 DEF ToSet
<1> SUFFICES ASSUME NEW j \in 1..(paging.offset + Len(Page)) PROVE Entry(Listing[j]) \in collected'
  OBVIOUS
<1>5. CASE j <= paging.offset
  <2>1. j \in 1..paging.offset
    BY <1>1, <1>5
  <2> QED BY <1>2, <1>3, <2>1
<1>6. CASE ~(j <= paging.offset)
  <2>1. j - paging.offset \in 1..Len(Page) /\ paging.offset + (j - paging.offset) = j
    BY <1>1, <1>6
  <2>2. Listing[j] \in ToSet(Page)
    BY <1>1, <1>4, <2>1
  <2> QED BY <1>3, <2>2
<1> QED BY <1>5, <1>6

LEMMA ReadPageKeeps == CatInv /\ ReadPage => CatInv'
<1> SUFFICES ASSUME CatInv, ReadPage PROVE CatInv'
  OBVIOUS
<1> DEFINE o == paging.offset
           n == Len(Page)
           leaves == n < PageSize \/ OlderPage \/ LastAttempt
<1>1. /\ CatType /\ OffsetIsWhole /\ UNCHANGED <<releases, between>> /\ partial' \in BOOLEAN
      /\ partial' = (partial \/ CutOff) /\ Reading
  BY DEF CatInv, ReadPage, CatType, CutOff
<1>2. \A j \in 1..(o + n) : Entry(Listing[j]) \in collected'
  BY PageIsCollected
<1>3. collected \subseteq collected'
  BY DEF ReadPage
<1>4. /\ o \in Nat /\ n \in Nat /\ n <= PageSize /\ PageSize \in Nat \ {0} /\ o + n <= Len(Listing)
      /\ Listing \in Seq(Nat)
      /\ Page = SubSeq(Listing, o + 1, o + n)
  BY <1>1, ThisPage, ListingIsSeq, SizeIsPositive DEF CatType
<1> HIDE DEF o, n
<1>5. CASE leaves
  <2>1. NextResource
    BY <1>5 DEF ReadPage, n
  <2>2. /\ CatType' /\ OffsetIsWhole' /\ ReadIsCollected' /\ PagesAreContiguous'
        /\ paging'.resource = IF paging.resource = "releases" THEN "tags" ELSE "done"
    BY <1>1, <2>1, NextResourceStarts
  <2>3. ASSUME ~partial', Descending(Listing), NEW j \in 1..Len(Listing), InRange(Listing[j])
        PROVE  Entry(Listing[j]) \in collected'
    <3>1. n < PageSize \/ OlderPage
      <4>1. ~CutOff
        BY <1>1, <2>3
      <4>2. n < PageSize \/ n = PageSize
        BY <1>4
      <4> QED BY <1>5, <4>1, <4>2 DEF CutOff, n
    <3>2. j <= o + n
      BY <1>1, <2>3, <3>1, NothingBehind DEF o, n
    <3>3. j \in 1..(o + n)
      BY <1>4, <3>2
    <3> QED BY <1>2, <3>3
  <2>4. ReleasesAreKept'
    <3> SUFFICES ASSUME ~partial', Descending(releases), NEW i \in 1..Len(releases), InRange(releases[i])
                 PROVE  [version |-> releases[i], body |-> TRUE] \in collected'
      BY <1>1, Zenon DEF ReleasesAreKept, InRange, Descending
    <3>1. CASE paging.resource = "releases"
      <4>1. Listing = releases /\ Entry(releases[i]) = [version |-> releases[i], body |-> TRUE]
        BY <3>1 DEF Listing, Entry
      <4> QED BY <2>3, <4>1
    <3>2. CASE paging.resource # "releases"
      <4>1. paging.resource = "tags" /\ ~partial
        BY <1>1, <3>2 DEF Reading
      <4> QED BY <1>3, <4>1 DEF CatInv, ReleasesAreKept
    <3> QED BY <3>1, <3>2
  <2>5. TagsAreKept'
    <3> SUFFICES ASSUME paging'.resource = "done", ~partial', NEW i \in 1..Len(Tags), InRange(Tags[i])
                 PROVE  [version |-> Tags[i], body |-> FALSE] \in collected'
      BY <1>1, Zenon DEF TagsAreKept, InRange, Tags
    <3>1. Listing = Tags /\ Entry(Tags[i]) = [version |-> Tags[i], body |-> FALSE]
      BY <2>2 DEF Listing, Entry
    <3> QED BY <2>3, <3>1, TagsDescend
  <2> QED BY <2>2, <2>4, <2>5 DEF CatInv
<1>6. CASE ~leaves
  <2>1. /\ paging' = [paging EXCEPT !.offset = @ + PageSize, !.attempt = @ + 1]
        /\ read' = read \o Page /\ n = PageSize
    BY <1>4, <1>6 DEF ReadPage, n
  <2>2. paging' = [resource |-> paging.resource, size |-> paging.size,
                   offset |-> o + n, attempt |-> paging.attempt + 1]
    BY <1>1, <2>1 DEF CatType, o
  <2>3. CatType'
    BY <1>1, <1>4, <2>2 DEF CatType
  <2>4. Listing' = Listing /\ PageSize' = PageSize
    BY <1>1, <2>2 DEF Listing, PageSize, Tags
  <2>5. OffsetIsWhole'
    <3>1. PICK k \in Nat : o = k * PageSize
      BY <1>1 DEF OffsetIsWhole, o
    <3>2. (k + 1) * PageSize = k * PageSize + PageSize /\ k + 1 \in Nat
      BY <1>4, WholePages
    <3>3. paging'.offset = o + n /\ o + n <= Len(Listing)
      BY <1>4, <2>2
    <3>4. o + n = (k + 1) * PageSize
      BY Zenon, <2>1, <3>1, <3>2
    <3> QED BY <2>4, <3>2, <3>3, <3>4 DEF OffsetIsWhole
  <2>6. ReadIsCollected'
    BY <1>2, <2>2, <2>4 DEF ReadIsCollected, Entry
  <2>7. PagesAreContiguous'
    <3>1. Len(Listing) \in Nat /\ o <= Len(Listing) /\ o + n \in Nat
      BY <1>4
    <3>2. Min({o, Len(Listing)}) = o /\ Min({o + n, Len(Listing)}) = o + n
      BY <1>4, <3>1, GreaterOf
    <3>3. read = SubSeq(Listing, 1, o)
      BY <1>1, <3>2 DEF CatInv, PagesAreContiguous, o
    <3>4. SubSeq(Listing, 1, o) \o SubSeq(Listing, o + 1, o + n) = SubSeq(Listing, 1, o + n)
      <4>1. /\ 1 \in 1..(Len(Listing) + 1) /\ o \in (1 - 1)..Len(Listing)
            /\ o + n \in o..Len(Listing)
        BY <1>4, <3>1
      <4> QED BY Zenon, <1>4, <4>1, ConcatAdjacentSubSeq
    <3>5. read' = SubSeq(Listing, 1, o + n)
      BY <1>4, <2>1, <3>3, <3>4
    <3> QED BY <2>2, <2>4, <3>2, <3>5 DEF PagesAreContiguous
  <2>8. ReleasesAreKept' /\ TagsAreKept'
    <3>1. paging'.resource = paging.resource /\ paging.resource \in {"releases", "tags"}
      BY <1>1, <2>2 DEF Reading
    <3> QED BY <1>1, <1>3, <3>1 DEF CatInv, ReleasesAreKept, TagsAreKept, Descending, InRange
  <2> QED BY <2>3, <2>5, <2>6, <2>7, <2>8 DEF CatInv
<1> QED BY <1>5, <1>6

LEMMA CatNextKeeps == CatInv /\ [CatNext]_catVars => CatInv'
<1> SUFFICES ASSUME CatInv, [CatNext]_catVars PROVE CatInv'
  OBVIOUS
<1>1. CASE UNCHANGED catVars
  <2>1. UNCHANGED <<releases, between, paging, read, collected, partial>>
    BY <1>1 DEF catVars
  <2>2. Listing' = Listing /\ PageSize' = PageSize
    BY <2>1 DEF Listing, PageSize, Tags
  <2>3. CatType' /\ OffsetIsWhole'
    BY <2>1, <2>2 DEF CatInv, CatType, OffsetIsWhole
  <2>4. ReadIsCollected' /\ PagesAreContiguous'
    BY <2>1, <2>2 DEF CatInv, ReadIsCollected, PagesAreContiguous, Reading, Entry
  <2>5. ReleasesAreKept' /\ TagsAreKept'
    BY <2>1 DEF CatInv, ReleasesAreKept, TagsAreKept, Tags, InRange, Descending
  <2> QED BY <2>3, <2>4, <2>5 DEF CatInv
<1>2. CASE CatNext
  BY <1>2, ShrinksKeeps, CallBreaksKeeps, ReadPageKeeps DEF CatNext
<1> QED BY <1>1, <1>2

LEMMA CatalogueIsHonest == CatInv => CollectionIsHonest
<1> SUFFICES ASSUME CatInv PROVE CollectionIsHonest
  OBVIOUS
<1>1. PagesAreContiguous
  BY DEF CatInv
<1>2. MissingIsSaid
  <2> SUFFICES ASSUME paging.resource = "done", NEW v \in ToSet(Tags), InRange(v), ~Incomplete
               PROVE  v \in Notes
    BY DEF MissingIsSaid
  <2>1. ~partial
    BY DEF Incomplete
  <2>2. PICK i \in 1..Len(Tags) : v = Tags[i]
    BY TagsDescend DEF ToSet
  <2>3. [version |-> v, body |-> FALSE] \in collected
    BY <2>1, <2>2 DEF CatInv, TagsAreKept
  <2> QED BY <2>3 DEF Notes
<1>3. NotesAreComplete
  <2> SUFFICES ASSUME paging.resource = "done", ~Incomplete, Descending(releases),
                      NEW v \in ToSet(releases), InRange(v)
               PROVE  ~Missing(v)
    BY Zenon DEF NotesAreComplete, Descending
  <2>1. ~partial
    BY DEF Incomplete
  <2>2. PICK i \in 1..Len(releases) : v = releases[i]
    BY DEF CatInv, CatType, ToSet
  <2>3. [version |-> v, body |-> TRUE] \in collected
    BY <2>1, <2>2 DEF CatInv, ReleasesAreKept
  <2> QED BY <2>3 DEF Missing
<1> QED BY <1>1, <1>2, <1>3 DEF CollectionIsHonest

\* However the pages shrink on the way and wherever a call fails, a collection
\* that does not say it is incomplete lost nothing between the two versions
\* (collectRepository, Collect).
THEOREM CatalogueHolds == CatSpec => []CollectionIsHonest
BY CatInitially, CatNextKeeps, CatalogueIsHonest, PTL DEF CatSpec

----------------------------------------------------------------------------
(* The notes of software updates *)

Address == {noSource, "a", "m"}

Origin == {"argus", "manual"}

State ==
    {"", "awaiting_source", "pending", "retry", "ready", "notes_unavailable", "awaiting_ai", "up_to_date",
     "not_applicable"}

Content == [installed : Nat, target : Nat, source : Address, edition : Nat]

ArgusReading == [installed : Nat, target : Nat, url : Address, readable : BOOLEAN]

Service ==
    [installed : Nat, target : Nat, known : BOOLEAN, url : Address, source : Address, origin : Origin,
     revision : Nat, state : State, due : BOOLEAN, owner : NotesWorker \cup {vacant}, held : BOOLEAN,
     content : Content]

AtWork == {"collect", "collected", "committed", "analyse", "analysed"}

Job == [at : AtWork \cup {"ending"}, revision : Nat, state : State, content : Content, security : BOOLEAN]

NotesType ==
    /\ argus \in ArgusReading /\ soft \in Service /\ edition \in Nat
    /\ analyses = [k \in DOMAIN analyses |-> analyses[k]]
    /\ \A k \in DOMAIN analyses : k \in Content /\ analyses[k] \in [revision : Nat, security : BOOLEAN]
    /\ worker = [w \in NotesWorker |-> worker[w]]
    /\ \A w \in NotesWorker :
          \/ worker[w].at \in {"idle", "claimed"}
          \/ worker[w] \in Job
    /\ synced.at \in {"captured", "assessed"} => synced.reading \in ArgusReading

\* A lease lapses under nobody who works: one worker works at a time.
WorkIsLeased ==
    \A w \in NotesWorker : worker[w].at \notin {"idle", "ending"} => soft.owner = w /\ soft.held

\* A revision has its versions: what is of the revision of the row is about them.
RevisionsHaveVersions ==
    /\ \A w \in NotesWorker : worker[w].at \in AtWork =>
          /\ worker[w].revision <= soft.revision
          /\ worker[w].revision = soft.revision =>
                worker[w].content.installed = soft.installed /\ worker[w].content.target = soft.target
    /\ \A k \in DOMAIN analyses :
          /\ analyses[k].revision <= soft.revision
          /\ analyses[k].revision = soft.revision => k.installed = soft.installed /\ k.target = soft.target

\* Nobody analyses twice, so an analysis keeps what it said.
AnalysedOnce ==
    \A w \in NotesWorker :
        worker[w].at \in {"analyse", "analysed"} => worker[w].content \notin DOMAIN analyses

Earned(reading) ==
    \E k \in DOMAIN analyses : /\ analyses[k].security
                               /\ k.installed = reading.installed /\ k.target = reading.target

VerdictIsEarned == (synced.at = "assessed" /\ synced.verdict = "fixes") => Earned(synced.reading)

NotesInv == NotesType /\ WorkIsLeased /\ RevisionsHaveVersions /\ AnalysedOnce /\ VerdictIsEarned

\* A row that changes the columns of an assignment stays a row.
LEMMA RowsStayRows ==
    ASSUME NEW row \in Service
    PROVE  /\ \A n \in Nat : [row EXCEPT !.revision = n] \in Service
           /\ \A n \in Nat : [row EXCEPT !.installed = n] \in Service
           /\ \A n \in Nat : [row EXCEPT !.target = n] \in Service
           /\ \A x \in BOOLEAN : [row EXCEPT !.due = x] \in Service
           /\ \A x \in BOOLEAN : [row EXCEPT !.known = x] \in Service
           /\ \A x \in BOOLEAN : [row EXCEPT !.held = x] \in Service
           /\ \A x \in Address : [row EXCEPT !.url = x] \in Service
           /\ \A x \in Address : [row EXCEPT !.source = x] \in Service
           /\ \A x \in State : [row EXCEPT !.state = x] \in Service
           /\ \A x \in Origin : [row EXCEPT !.origin = x] \in Service
           /\ \A x \in NotesWorker \cup {vacant} : [row EXCEPT !.owner = x] \in Service
           /\ \A x \in Content : [row EXCEPT !.content = x] \in Service
<1> HIDE DEF Address, Origin, State, Content, vacant
<1> QED BY DEF Service

LEMMA NextRevisionIs ==
    ASSUME NEW row \in Service, NEW changed \in BOOLEAN
    PROVE  /\ NextRevision(row, changed) \in Service
           /\ NextRevision(row, changed).revision = IF changed THEN row.revision + 1 ELSE row.revision
           /\ NextRevision(row, changed).installed = row.installed
           /\ NextRevision(row, changed).target = row.target
           /\ NextRevision(row, changed).owner = row.owner /\ NextRevision(row, changed).held = row.held
<1>1. CASE changed
  <2>1. NextRevision(row, changed) = [[row EXCEPT !.revision = @ + 1] EXCEPT !.due = TRUE]
    BY <1>1 DEF NextRevision
  <2>2. row.revision + 1 \in Nat /\ TRUE \in BOOLEAN
    BY DEF Service
  <2>3. NextRevision(row, changed) \in Service
    BY Zenon, <2>1, <2>2, RowsStayRows
  <2>4. /\ NextRevision(row, changed).revision = row.revision + 1
        /\ NextRevision(row, changed).installed = row.installed
        /\ NextRevision(row, changed).target = row.target
        /\ NextRevision(row, changed).owner = row.owner /\ NextRevision(row, changed).held = row.held
    BY <2>1 DEF Service
  <2> QED BY <1>1, <2>3, <2>4
<1>2. CASE ~changed
  BY <1>2 DEF NextRevision, Service
<1> QED BY <1>1, <1>2

\* The trigger gives other versions another revision.
LEMMA CapturedIs ==
    ASSUME NotesType, NEW reading \in ArgusReading
    PROVE  LET row == Captured(reading)
           IN  /\ row \in Service /\ row.owner = soft.owner /\ row.held = soft.held
               /\ row.revision >= soft.revision
               /\ row.revision = soft.revision => row.installed = soft.installed /\ row.target = soft.target
<1> DEFINE moved == soft.origin = "argus" /\ reading.url # soft.url
           changed == soft.installed # reading.installed \/ soft.target # reading.target
           next == NextRevision(soft, moved)
           first == [next EXCEPT !.url = reading.url, !.state = IF moved THEN "pending" ELSE @]
           second == NextRevision(first, changed)
           row == Captured(reading)
<1>1. soft \in Service /\ moved \in BOOLEAN /\ changed \in BOOLEAN /\ soft.revision \in Nat
  BY DEF NotesType, Service
<1>2. /\ next \in Service /\ next.revision = (IF moved THEN soft.revision + 1 ELSE soft.revision)
      /\ next.installed = soft.installed /\ next.target = soft.target
      /\ next.owner = soft.owner /\ next.held = soft.held
  BY <1>1, NextRevisionIs
<1> HIDE DEF next, moved
<1>3. /\ first \in Service /\ first.revision = next.revision
      /\ first.installed = soft.installed /\ first.target = soft.target
      /\ first.owner = soft.owner /\ first.held = soft.held
  <2> DEFINE state == IF moved THEN "pending" ELSE next.state
  <2>1. reading.url \in Address /\ state \in State
    <3>1. reading.url \in Address
      BY DEF ArgusReading
    <3>2. next.state \in State
      BY <1>2 DEF Service
    <3>3. "pending" \in State
      BY DEF State
    <3> QED BY <3>1, <3>2, <3>3
  <2>2. first = [[next EXCEPT !.url = reading.url] EXCEPT !.state = state]
    BY <1>2 DEF Service
  <2> HIDE DEF state, first
  <2>3. first \in Service
    BY Zenon, <1>2, <2>1, <2>2, RowsStayRows
  <2>4. /\ first.revision = next.revision /\ first.installed = next.installed /\ first.target = next.target
        /\ first.owner = next.owner /\ first.held = next.held
    BY <1>2, <2>2 DEF Service
  <2> QED BY <1>2, <2>3, <2>4
<1>4. row = IF ~reading.readable THEN [first EXCEPT !.known = FALSE]
            ELSE [second EXCEPT !.installed = reading.installed, !.target = reading.target, !.known = TRUE,
                                !.state = IF ~changed THEN @ ELSE IF Confirmed THEN "pending" ELSE "awaiting_source"]
  BY DEF Captured, next, moved
<1> HIDE DEF first
<1>5. /\ second \in Service /\ second.revision = (IF changed THEN first.revision + 1 ELSE first.revision)
      /\ second.installed = soft.installed /\ second.target = soft.target
      /\ second.owner = soft.owner /\ second.held = soft.held
  BY <1>1, <1>3, NextRevisionIs
<1>6. next.revision >= soft.revision /\ first.revision \in Nat
  BY <1>1, <1>2, <1>3 DEF Service
<1> HIDE DEF second, row
<1> SUFFICES /\ row \in Service /\ row.owner = soft.owner /\ row.held = soft.held
             /\ row.revision >= soft.revision
             /\ row.revision = soft.revision => row.installed = soft.installed /\ row.target = soft.target
  BY DEF row
<1>7. CASE ~reading.readable
  <2>1. row = [first EXCEPT !.known = FALSE]
    BY <1>4, <1>7
  <2> QED BY <1>3, <1>6, <2>1 DEF Service
<1>8. CASE reading.readable /\ changed
  <2> DEFINE state == IF Confirmed THEN "pending" ELSE "awaiting_source"
  <2>1. row = [[[[second EXCEPT !.installed = reading.installed] EXCEPT !.target = reading.target]
                   EXCEPT !.known = TRUE] EXCEPT !.state = state]
    BY <1>4, <1>8
  <2>2. /\ reading.installed \in Nat /\ reading.target \in Nat /\ TRUE \in BOOLEAN
        /\ state \in State
    <3>1. state = "pending" \/ state = "awaiting_source"
      OBVIOUS
    <3> HIDE DEF state
    <3>2. state \in State
      BY <3>1 DEF State
    <3> QED BY <3>2 DEF ArgusReading
  <2> HIDE DEF state
  <2>3. row \in Service
    BY Zenon, <1>5, <2>1, <2>2, RowsStayRows
  <2>4. row.revision = second.revision /\ row.owner = second.owner /\ row.held = second.held
    BY <1>5, <2>1 DEF Service
  <2> QED BY <1>1, <1>3, <1>5, <1>6, <1>8, <2>3, <2>4
<1>9. CASE reading.readable /\ ~changed
  <2>1. row = [[[[second EXCEPT !.installed = reading.installed] EXCEPT !.target = reading.target]
                   EXCEPT !.known = TRUE] EXCEPT !.state = @]
    BY <1>4, <1>9
  <2>2. reading.installed \in Nat /\ reading.target \in Nat /\ TRUE \in BOOLEAN
    BY DEF ArgusReading
  <2> DEFINE third == [[[second EXCEPT !.installed = reading.installed] EXCEPT !.target = reading.target]
                          EXCEPT !.known = TRUE]
  <2>3. third \in Service
    BY Zenon, <1>5, <2>2, RowsStayRows
  <2>4. /\ third.revision = second.revision /\ third.owner = second.owner /\ third.held = second.held
        /\ third.installed = reading.installed /\ third.target = reading.target
    BY <1>5 DEF Service
  <2> HIDE DEF third
  <2>5. row = [third EXCEPT !.state = third.state] /\ third.state \in State
    BY <2>1, <2>3 DEF third, Service
  <2>6. row \in Service
    BY Zenon, <2>3, <2>5, RowsStayRows
  <2>7. /\ row.revision = second.revision /\ row.owner = second.owner /\ row.held = second.held
        /\ row.installed = reading.installed /\ row.target = reading.target
    BY <2>3, <2>4, <2>5 DEF Service
  <2> QED BY <1>1, <1>3, <1>5, <1>6, <1>9, <2>6, <2>7
<1> QED BY <1>7, <1>8, <1>9 DEF ArgusReading

\* What the row may do in a step: other versions come with another revision.
RowMoves ==
    /\ soft' \in Service /\ soft'.revision >= soft.revision
    /\ soft'.revision = soft.revision => soft'.installed = soft.installed /\ soft'.target = soft.target

\* What the analyses may do: they stay, with what they say and of their revision.
AnalysesStay ==
    /\ analyses' = [k \in DOMAIN analyses' |-> analyses'[k]]
    /\ \A k \in DOMAIN analyses' :
          /\ k \in Content /\ analyses'[k] \in [revision : Nat, security : BOOLEAN]
          /\ analyses'[k].revision <= soft'.revision
          /\ analyses'[k].revision = soft'.revision => k.installed = soft'.installed /\ k.target = soft'.target
    /\ \A k \in DOMAIN analyses : k \in DOMAIN analyses' /\ analyses'[k].security = analyses[k].security

LEMMA RowStays == NotesType /\ UNCHANGED soft => RowMoves
BY DEF NotesType, RowMoves, Service

LEMMA AnalysesUnchanged ==
    ASSUME NotesInv, RowMoves, UNCHANGED analyses
    PROVE  AnalysesStay
<1>1. /\ analyses = [k \in DOMAIN analyses |-> analyses[k]]
      /\ \A k \in DOMAIN analyses : k \in Content /\ analyses[k] \in [revision : Nat, security : BOOLEAN]
  BY DEF NotesInv, NotesType
<1>2. soft.revision \in Nat /\ soft'.revision \in Nat
  BY DEF NotesInv, NotesType, RowMoves, Service
<1>3. ASSUME NEW k \in DOMAIN analyses
      PROVE  /\ analyses[k].revision <= soft'.revision
             /\ analyses[k].revision = soft'.revision => k.installed = soft'.installed /\ k.target = soft'.target
  <2>1. analyses[k].revision \in Nat
    BY <1>1
  <2>2. /\ analyses[k].revision <= soft.revision
        /\ analyses[k].revision = soft.revision => k.installed = soft.installed /\ k.target = soft.target
    BY DEF NotesInv, RevisionsHaveVersions
  <2> QED BY <1>2, <2>1, <2>2 DEF RowMoves
<1> QED BY <1>1, <1>3 DEF AnalysesStay

LEMMA EarnedStays ==
    ASSUME AnalysesStay, NEW reading, Earned(reading)
    PROVE  Earned(reading)'
BY DEF AnalysesStay, Earned

\* A job at work is of a revision whose versions it has.
JobFits(job, row) ==
    /\ job.revision <= row.revision
    /\ job.revision = row.revision => job.content.installed = row.installed /\ job.content.target = row.target

LEMMA JobsStillFit ==
    ASSUME NotesInv, RowMoves, NEW v \in NotesWorker, worker[v].at \in AtWork
    PROVE  JobFits(worker[v], soft) /\ JobFits(worker[v], soft')
<1>1. worker[v].revision \in Nat
  BY DEF NotesInv, NotesType, AtWork, Job
<1>2. soft.revision \in Nat /\ soft'.revision \in Nat
  BY DEF NotesInv, NotesType, RowMoves, Service
<1>3. JobFits(worker[v], soft)
  BY DEF NotesInv, RevisionsHaveVersions, JobFits
<1> QED BY <1>1, <1>2, <1>3 DEF RowMoves, JobFits

\* A step of others than the workers.
LEMMA OthersKeep ==
    ASSUME NotesInv, RowMoves, UNCHANGED <<analyses, worker>>, argus' \in ArgusReading, edition' \in Nat,
           WorkIsLeased', VerdictIsEarned',
           synced'.at \in {"captured", "assessed"} => synced'.reading \in ArgusReading
    PROVE  NotesInv'
<1>1. NotesType'
  BY DEF NotesInv, NotesType, RowMoves
<1>2. AnalysesStay
  BY AnalysesUnchanged
<1>3. RevisionsHaveVersions'
  <2>1. ASSUME NEW v \in NotesWorker, worker[v].at \in AtWork PROVE JobFits(worker[v], soft')
    BY <2>1, JobsStillFit
  <2> QED BY <1>2, <2>1 DEF RevisionsHaveVersions, AnalysesStay, JobFits
<1>4. AnalysedOnce'
  BY DEF NotesInv, AnalysedOnce
<1> QED BY <1>1, <1>3, <1>4 DEF NotesInv

LEMMA LeaseStays ==
    ASSUME NotesInv, UNCHANGED worker, soft'.owner = soft.owner, soft'.held = soft.held
    PROVE  WorkIsLeased'
BY DEF NotesInv, WorkIsLeased

LEMMA VerdictStays ==
    ASSUME NotesInv, UNCHANGED <<analyses, synced>>
    PROVE  /\ VerdictIsEarned'
           /\ synced'.at \in {"captured", "assessed"} => synced'.reading \in ArgusReading
BY DEF NotesInv, NotesType, VerdictIsEarned, Earned

\* A step of a worker.
LEMMA WorkKeeps ==
    ASSUME NotesInv, RowMoves, AnalysesStay, NEW w \in NotesWorker, NEW to, Working(w, to),
           to.at \in {"idle", "claimed"} \/ to \in Job,
           to.at \notin {"idle", "ending"} => soft'.owner = w /\ soft'.held,
           \A v \in NotesWorker \ {w} :
               worker[v].at \notin {"idle", "ending"} => soft'.owner = v /\ soft'.held,
           to.at \in AtWork => JobFits(to, soft'),
           to.at \in {"analyse", "analysed"} => to.content \notin DOMAIN analyses',
           \A v \in NotesWorker \ {w} :
               worker[v].at \in {"analyse", "analysed"} => worker[v].content \notin DOMAIN analyses'
    PROVE  NotesInv'
<1>1. /\ UNCHANGED <<argus, edition, synced>>
      /\ worker' = [v \in NotesWorker |-> IF v = w THEN to ELSE worker[v]]
  BY DEF Working, NotesInv, NotesType
<1>2. worker'[w] = to /\ \A v \in NotesWorker \ {w} : worker'[v] = worker[v]
  BY <1>1
<1>3. worker' = [v \in NotesWorker |-> worker'[v]]
  BY <1>1
<1>4. NotesType'
  <2>1. \A v \in NotesWorker : worker'[v].at \in {"idle", "claimed"} \/ worker'[v] \in Job
    BY <1>2 DEF NotesInv, NotesType
  <2>2. /\ analyses' = [k \in DOMAIN analyses' |-> analyses'[k]]
        /\ \A k \in DOMAIN analyses' : k \in Content /\ analyses'[k] \in [revision : Nat, security : BOOLEAN]
    BY DEF AnalysesStay
  <2>3. argus' \in ArgusReading /\ soft' \in Service /\ edition' \in Nat
    BY <1>1 DEF NotesInv, NotesType, RowMoves
  <2>4. synced'.at \in {"captured", "assessed"} => synced'.reading \in ArgusReading
    BY <1>1 DEF NotesInv, NotesType
  <2> QED BY <1>3, <2>1, <2>2, <2>3, <2>4 DEF NotesType
<1>5. WorkIsLeased'
  BY <1>2 DEF WorkIsLeased
<1>6. RevisionsHaveVersions'
  <2>1. ASSUME NEW v \in NotesWorker, worker'[v].at \in AtWork PROVE JobFits(worker'[v], soft')
    <3>1. CASE v = w
      BY <1>2, <2>1, <3>1
    <3>2. CASE v # w
      BY <1>2, <2>1, <3>2, JobsStillFit
    <3> QED BY <3>1, <3>2
  <2> QED BY <2>1 DEF RevisionsHaveVersions, AnalysesStay, JobFits
<1>7. AnalysedOnce'
  BY <1>2 DEF AnalysedOnce
<1>8. VerdictIsEarned'
  <2> SUFFICES ASSUME synced'.at = "assessed", synced'.verdict = "fixes" PROVE Earned(synced.reading)'
    BY <1>1 DEF VerdictIsEarned, Earned
  <2>1. Earned(synced.reading)
    BY <1>1 DEF NotesInv, VerdictIsEarned
  <2> QED BY <1>1, <2>1 DEF AnalysesStay, Earned
<1> QED BY <1>4, <1>5, <1>6, <1>7, <1>8 DEF NotesInv

LEMMA NotesInitially == NotesInit => NotesInv
<1> SUFFICES ASSUME NotesInit PROVE NotesInv
  OBVIOUS
<1>1. NewService \in Service
  <2>1. [installed |-> 0, target |-> 0, source |-> noSource, edition |-> 0] \in Content
    BY DEF Content, Address
  <2> HIDE DEF Content
  <2> QED BY <2>1 DEF NewService, Service, Address, Origin, State
<1>2. argus \in ArgusReading
  BY DEF NotesInit, ArgusReading, Address
<1>3. DOMAIN analyses = {} /\ analyses = [k \in DOMAIN analyses |-> analyses[k]]
  BY DEF NotesInit
<1>4. worker = [w \in NotesWorker |-> worker[w]] /\ \A w \in NotesWorker : worker[w].at = "idle"
  BY DEF NotesInit, WorkerIdle
<1>5. synced.at = "idle" /\ edition \in Nat /\ soft = NewService
  BY DEF NotesInit, WorkerIdle
<1>6. NotesType
  BY <1>1, <1>2, <1>3, <1>4, <1>5 DEF NotesType
<1> QED BY <1>3, <1>4, <1>5, <1>6
        DEF NotesInv, WorkIsLeased, RevisionsHaveVersions, AnalysedOnce, VerdictIsEarned, AtWork

LEMMA UpdateArgusBindingsKeeps == NotesInv /\ UpdateArgusBindings => NotesInv'
<1> SUFFICES ASSUME NotesInv, UpdateArgusBindings PROVE NotesInv'
  OBVIOUS
<1>1. /\ soft' = Captured(argus) /\ synced' = [at |-> "captured", reading |-> argus]
      /\ UNCHANGED <<argus, edition, analyses, worker>>
  BY DEF UpdateArgusBindings, SyncArgus
<1>2. NotesType /\ argus \in ArgusReading /\ edition \in Nat
  BY DEF NotesInv, NotesType
<1>3. RowMoves /\ soft'.owner = soft.owner /\ soft'.held = soft.held
  BY <1>1, <1>2, CapturedIs DEF RowMoves
<1>4. WorkIsLeased'
  BY <1>1, <1>3, LeaseStays
<1>5. VerdictIsEarned' /\ synced'.reading \in ArgusReading
  BY <1>1, <1>2 DEF VerdictIsEarned
<1> QED BY <1>1, <1>2, <1>3, <1>4, <1>5, OthersKeep

\* The verdict is about the versions that were read: the row has them still,
\* under its revision, and so has the analysis of that revision.
LEMMA ReleaseSecurityKeeps == NotesInv /\ ReleaseSecurity => NotesInv'
<1> SUFFICES ASSUME NotesInv, ReleaseSecurity PROVE NotesInv'
  OBVIOUS
<1> DEFINE reading == synced.reading
           verdict == CASE ~reading.readable -> "pending"
                        [] reading.readable /\ ~Update(reading.installed, reading.target) -> "no_update"
                        [] OTHER -> IF ReadingAgrees(reading) THEN SecurityStatus ELSE "pending"
<1>1. /\ UNCHANGED <<soft, argus, edition, analyses, worker>> /\ synced.at = "captured"
      /\ synced' = [at |-> "assessed", reading |-> reading, verdict |-> verdict]
  BY DEF ReleaseSecurity, SyncArgus
<1>2. argus \in ArgusReading /\ edition \in Nat /\ reading \in ArgusReading /\ NotesType
  BY <1>1 DEF NotesInv, NotesType
<1>3. verdict = "fixes" => ReadingAgrees(reading) /\ SecurityStatus = "fixes"
  BY <1>2 DEF ArgusReading
<1>4. SecurityStatus = "fixes" => \E k \in CurrentAnalyses : analyses[k].security
  BY DEF SecurityStatus
<1> HIDE DEF verdict
<1>5. ASSUME verdict = "fixes" PROVE Earned(reading)
  <2>1. PICK k \in CurrentAnalyses : analyses[k].security
    BY <1>3, <1>4, <1>5
  <2>2. k \in DOMAIN analyses /\ analyses[k].revision = soft.revision
    BY <2>1 DEF CurrentAnalyses
  <2>3. k.installed = soft.installed /\ k.target = soft.target
    BY <2>2 DEF NotesInv, RevisionsHaveVersions
  <2> QED BY <1>3, <1>5, <2>1, <2>2, <2>3 DEF ReadingAgrees, Earned
<1>6. VerdictIsEarned' /\ synced'.reading \in ArgusReading
  BY <1>1, <1>2, <1>5 DEF VerdictIsEarned, Earned
<1>7. RowMoves /\ WorkIsLeased'
  BY <1>1, <1>2, RowStays, LeaseStays
<1> QED BY <1>1, <1>2, <1>6, <1>7, OthersKeep

LEMMA ReconcileArgusKeeps == NotesInv /\ ReconcileArgus => NotesInv'
<1> SUFFICES ASSUME NotesInv, ReconcileArgus PROVE NotesInv'
  OBVIOUS
<1>1. UNCHANGED <<soft, argus, edition, analyses, worker>> /\ synced'.at = "idle"
  BY DEF ReconcileArgus, SyncArgus, WorkerIdle
<1>2. argus \in ArgusReading /\ edition \in Nat /\ NotesType
  BY DEF NotesInv, NotesType
<1>3. VerdictIsEarned' /\ synced'.at \notin {"captured", "assessed"}
  BY <1>1 DEF VerdictIsEarned
<1>4. RowMoves /\ WorkIsLeased'
  BY <1>1, <1>2, RowStays, LeaseStays
<1> QED BY <1>1, <1>2, <1>3, <1>4, OthersKeep

\* What others do to the row leaves its lease, or takes it from nobody at work.
LEMMA RowActionsKeep ==
    ASSUME NotesInv, RowMoves, UNCHANGED <<analyses, worker, synced>>,
           argus' \in ArgusReading, edition' \in Nat,
           soft'.owner = soft.owner /\ soft'.held = soft.held
    PROVE  NotesInv'
BY LeaseStays, VerdictStays, OthersKeep

LEMMA ImportFromArgusKeeps == NotesInv /\ ImportFromArgus => NotesInv'
<1> SUFFICES ASSUME NotesInv, ImportFromArgus PROVE NotesInv'
  OBVIOUS
<1>1. soft' = Captured(argus) /\ UNCHANGED <<argus, edition, analyses, worker, synced>>
  BY DEF ImportFromArgus, NotesRest
<1>2. NotesType /\ argus \in ArgusReading /\ edition \in Nat
  BY DEF NotesInv, NotesType
<1>3. RowMoves /\ soft'.owner = soft.owner /\ soft'.held = soft.held
  BY <1>1, <1>2, CapturedIs DEF RowMoves
<1> QED BY <1>1, <1>2, <1>3, RowActionsKeep

LEMMA PublishesKeeps == NotesInv /\ Publishes => NotesInv'
<1> SUFFICES ASSUME NotesInv, Publishes PROVE NotesInv'
  OBVIOUS
<1>1. edition' = edition + 1 /\ UNCHANGED <<argus, soft, analyses, worker, synced>>
  BY DEF Publishes, NotesRest
<1>2. NotesType /\ argus \in ArgusReading /\ edition \in Nat
  BY DEF NotesInv, NotesType
<1> QED BY <1>1, <1>2, RowStays, RowActionsKeep

LEMMA ArgusChangesKeeps == NotesInv /\ ArgusChanges => NotesInv'
<1> SUFFICES ASSUME NotesInv, ArgusChanges PROVE NotesInv'
  OBVIOUS
<1>1. UNCHANGED <<soft, edition, analyses, worker, synced>>
  BY DEF ArgusChanges, NotesRest
<1>2. NotesType /\ argus \in ArgusReading /\ edition \in Nat
  BY DEF NotesInv, NotesType
<1>3. argus' \in ArgusReading
  <2>1. CASE \E v \in Release : argus' \in {[argus EXCEPT !.installed = v], [argus EXCEPT !.target = v]}
    BY <1>2, <2>1 DEF ArgusReading, Release
  <2>2. CASE argus' = [argus EXCEPT !.url = IF @ = noSource THEN "a" ELSE noSource]
    BY <1>2, <2>2 DEF ArgusReading, Address
  <2>3. CASE argus' = [argus EXCEPT !.readable = ~@]
    BY <1>2, <2>3 DEF ArgusReading
  <2> QED BY <2>1, <2>2, <2>3 DEF ArgusChanges
<1> QED BY <1>1, <1>2, <1>3, RowStays, RowActionsKeep

LEMMA CheckComesDueKeeps == NotesInv /\ CheckComesDue => NotesInv'
<1> SUFFICES ASSUME NotesInv, CheckComesDue PROVE NotesInv'
  OBVIOUS
<1>1. soft' = [soft EXCEPT !.due = TRUE] /\ UNCHANGED <<argus, edition, analyses, worker, synced>>
  BY DEF CheckComesDue, NotesRest
<1>2. soft \in Service /\ soft.revision \in Nat /\ argus \in ArgusReading /\ edition \in Nat
  BY DEF NotesInv, NotesType, Service
<1>3. soft' \in Service
  BY <1>1, <1>2, RowsStayRows
<1>4. /\ soft'.revision = soft.revision /\ soft'.installed = soft.installed /\ soft'.target = soft.target
      /\ soft'.owner = soft.owner /\ soft'.held = soft.held
  BY <1>1, <1>2 DEF Service
<1> QED BY <1>1, <1>2, <1>3, <1>4, RowActionsKeep DEF RowMoves

LEMMA SaveConfigKeeps == NotesInv /\ SaveConfig => NotesInv'
<1> SUFFICES ASSUME NotesInv, SaveConfig PROVE NotesInv'
  OBVIOUS
<1> DEFINE due == soft.due \/ soft.state \in {"awaiting_ai", "retry"}
<1>1. soft' = [soft EXCEPT !.due = due] /\ UNCHANGED <<argus, edition, analyses, worker, synced>>
  BY DEF SaveConfig, NotesRest
<1>2. soft \in Service /\ soft.revision \in Nat /\ argus \in ArgusReading /\ edition \in Nat /\ due \in BOOLEAN
  BY DEF NotesInv, NotesType, Service
<1> HIDE DEF due
<1>3. soft' \in Service
  BY Zenon, <1>1, <1>2, RowsStayRows
<1>4. /\ soft'.revision = soft.revision /\ soft'.installed = soft.installed /\ soft'.target = soft.target
      /\ soft'.owner = soft.owner /\ soft'.held = soft.held
  BY <1>1, <1>2 DEF Service
<1> QED BY <1>1, <1>2, <1>3, <1>4, RowActionsKeep DEF RowMoves

LEMMA ConfirmSourceKeeps == NotesInv /\ ConfirmSource => NotesInv'
<1> SUFFICES ASSUME NotesInv, ConfirmSource PROVE NotesInv'
  OBVIOUS
<1> DEFINE n == soft.revision + 1
<1>1. /\ soft' = [[[[[soft EXCEPT !.source = "m"] EXCEPT !.origin = "manual"] EXCEPT !.revision = n]
                      EXCEPT !.due = TRUE] EXCEPT !.state = "pending"]
      /\ UNCHANGED <<argus, edition, analyses, worker, synced>>
  <2>1. soft \in Service
    BY DEF NotesInv, NotesType
  <2> QED BY <2>1 DEF ConfirmSource, NotesRest, Service
<1>2. soft \in Service /\ soft.revision \in Nat /\ argus \in ArgusReading /\ edition \in Nat /\ n \in Nat
  BY DEF NotesInv, NotesType, Service
<1>3. "m" \in Address /\ "manual" \in Origin /\ TRUE \in BOOLEAN /\ "pending" \in State
  BY DEF Address, Origin, State
<1>4. soft' \in Service
  <2> HIDE DEF n
  <2> QED BY Zenon, <1>1, <1>2, <1>3, RowsStayRows
<1>5. /\ soft'.revision = soft.revision + 1 /\ soft'.owner = soft.owner /\ soft'.held = soft.held
  BY <1>1, <1>2 DEF Service
<1> QED BY <1>1, <1>2, <1>4, <1>5, RowActionsKeep DEF RowMoves

LEMMA SyncArgusSourcesKeeps == NotesInv /\ SyncArgusSources => NotesInv'
<1> SUFFICES ASSUME NotesInv, SyncArgusSources PROVE NotesInv'
  OBVIOUS
<1> DEFINE n == soft.revision + 1
           origin == IF soft.url = noSource THEN soft.origin ELSE "argus"
           state == IF soft.url = noSource THEN "awaiting_source" ELSE "pending"
<1>1. soft \in Service /\ soft.revision \in Nat /\ argus \in ArgusReading /\ edition \in Nat /\ n \in Nat
  BY DEF NotesInv, NotesType, Service
<1>2. /\ soft' = [[[[[soft EXCEPT !.source = soft.url] EXCEPT !.revision = n] EXCEPT !.due = TRUE]
                      EXCEPT !.origin = origin] EXCEPT !.state = state]
      /\ UNCHANGED <<argus, edition, analyses, worker, synced>>
  BY <1>1 DEF SyncArgusSources, Service
<1>3. soft.url \in Address /\ origin \in Origin /\ TRUE \in BOOLEAN /\ state \in State
  BY <1>1 DEF Service, Origin, State
<1> HIDE DEF n, origin, state
<1>4. soft' \in Service
  BY Zenon, <1>1, <1>2, <1>3, RowsStayRows
<1>5. soft'.revision = soft.revision + 1 /\ soft'.owner = soft.owner /\ soft'.held = soft.held
  BY <1>1, <1>2 DEF Service, n
<1> QED BY <1>1, <1>2, <1>4, <1>5, RowActionsKeep DEF RowMoves

LEMMA NotesLeaseLapsesKeeps == NotesInv /\ NotesLeaseLapses => NotesInv'
<1> SUFFICES ASSUME NotesInv, NotesLeaseLapses PROVE NotesInv'
  OBVIOUS
<1>1. /\ soft' = [soft EXCEPT !.held = FALSE] /\ worker[soft.owner].at \in {"idle", "ending"}
      /\ UNCHANGED <<argus, edition, analyses, worker, synced>>
  BY DEF NotesLeaseLapses, NotesRest
<1>2. soft \in Service /\ soft.revision \in Nat /\ argus \in ArgusReading /\ edition \in Nat
  BY DEF NotesInv, NotesType, Service
<1>3. soft' \in Service
  BY <1>1, <1>2, RowsStayRows
<1>4. soft'.revision = soft.revision /\ soft'.installed = soft.installed /\ soft'.target = soft.target
  BY <1>1, <1>2 DEF Service
<1>5. WorkIsLeased'
  BY <1>1 DEF NotesInv, WorkIsLeased
<1> QED BY <1>1, <1>2, <1>3, <1>4, <1>5, VerdictStays, OthersKeep DEF RowMoves

\* Who works has the lease, so nobody else is at work.
LEMMA WorkerIsAlone ==
    ASSUME NotesInv, NEW w \in NotesWorker, worker[w].at \notin {"idle", "ending"}
    PROVE  /\ soft.owner = w /\ soft.held
           /\ \A v \in NotesWorker \ {w} : worker[v].at \in {"idle", "ending"}
BY DEF NotesInv, WorkIsLeased

LEMMA JobIs ==
    ASSUME NotesInv, NEW w \in NotesWorker, worker[w].at \notin {"idle", "claimed"}
    PROVE  worker[w] \in Job
BY DEF NotesInv, NotesType

LEMMA EndingIs ==
    ASSUME NEW job \in Job, NEW state \in State
    PROVE  Ending(job, state) \in Job /\ Ending(job, state).at = "ending"
<1> HIDE DEF Content, State
<1> QED BY DEF Ending, Job

\* A worker goes on with the analyses as they are.
LEMMA WorkGoesOn ==
    ASSUME NotesInv, NEW w \in NotesWorker, NEW to, Working(w, to),
           worker[w].at \notin {"idle", "ending"},
           RowMoves, soft'.owner = soft.owner, soft'.held = soft.held,
           AnalysesStay, DOMAIN analyses' = DOMAIN analyses,
           to.at = "idle" \/ to \in Job,
           to.at \in AtWork => JobFits(to, soft'),
           to.at \in {"analyse", "analysed"} => to.content \notin DOMAIN analyses
    PROVE  NotesInv'
<1>1. /\ soft.owner = w /\ soft.held
      /\ \A v \in NotesWorker \ {w} : worker[v].at \in {"idle", "ending"}
  BY WorkerIsAlone
<1> QED BY <1>1, WorkKeeps

LEMMA ClaimServiceKeeps == ASSUME NEW w \in NotesWorker PROVE NotesInv /\ ClaimService(w) => NotesInv'
<1> SUFFICES ASSUME NotesInv, ClaimService(w) PROVE NotesInv'
  OBVIOUS
<1> DEFINE to == [at |-> "claimed"]
<1>1. /\ soft' = [[soft EXCEPT !.owner = w] EXCEPT !.held = TRUE] /\ ~soft.held /\ Working(w, to)
      /\ UNCHANGED analyses
  BY DEF ClaimService, ServiceFree
<1>2. soft \in Service /\ soft.revision \in Nat
  BY DEF NotesInv, NotesType, Service
<1>3. soft' \in Service
  BY Zenon, <1>1, <1>2, RowsStayRows
<1>4. /\ soft'.revision = soft.revision /\ soft'.installed = soft.installed /\ soft'.target = soft.target
      /\ soft'.owner = w /\ soft'.held
  BY <1>1, <1>2 DEF Service
<1>5. RowMoves
  BY <1>2, <1>3, <1>4 DEF RowMoves
<1>6. AnalysesStay
  BY <1>1, <1>5, AnalysesUnchanged
<1>7. \A v \in NotesWorker : worker[v].at \in {"idle", "ending"}
  BY <1>1 DEF NotesInv, WorkIsLeased
<1>8. to.at = "claimed" /\ to.at \notin AtWork
  BY DEF AtWork
<1> HIDE DEF to
<1> QED BY <1>1, <1>4, <1>5, <1>6, <1>7, <1>8, WorkKeeps

LEMMA GetServiceKeeps == ASSUME NEW w \in NotesWorker PROVE NotesInv /\ GetService(w) => NotesInv'
<1> SUFFICES ASSUME NotesInv, GetService(w) PROVE NotesInv'
  OBVIOUS
<1> DEFINE content == [installed |-> soft.installed, target |-> soft.target, source |-> soft.source,
                       edition |-> 0]
           job == [at |-> "collect", revision |-> soft.revision, state |-> "", content |-> content,
                   security |-> FALSE]
<1>1. soft \in Service /\ soft.installed \in Nat /\ soft.target \in Nat /\ soft.revision \in Nat
  BY DEF NotesInv, NotesType, Service
<1>2. content \in Content
  BY <1>1 DEF Service, Content
<1>3. /\ UNCHANGED <<soft, analyses>> /\ worker[w].at = "claimed"
      /\ \/ Working(w, job)
         \/ Working(w, Ending(job, "up_to_date"))
         \/ Working(w, Ending(job, "not_applicable"))
  <2>1. \/ Update(soft.installed, soft.target) \/ soft.installed = soft.target
        \/ soft.installed > soft.target
    BY <1>1 DEF Update
  <2> QED BY <2>1 DEF GetService
<1>4. job.content.installed = soft.installed /\ job.content.target = soft.target
  OBVIOUS
<1> HIDE DEF content
<1>5. job \in Job
  <2> HIDE DEF Content
  <2> QED BY <1>1, <1>2 DEF Job, AtWork, State
<1>6. JobFits(job, soft) /\ job.at = "collect"
  BY <1>1, <1>4 DEF JobFits
<1> HIDE DEF job
<1>7. RowMoves
  BY <1>3, RowStays DEF NotesInv
<1>8. AnalysesStay
  BY <1>3, <1>7, AnalysesUnchanged
<1>9. ASSUME NEW state \in {"up_to_date", "not_applicable"}
      PROVE  Ending(job, state) \in Job /\ Ending(job, state).at = "ending"
  <2>1. state \in State
    BY DEF State
  <2> QED BY <1>5, <2>1, EndingIs
<1>10. "ending" \notin AtWork
  BY DEF AtWork
<1>11. CASE Working(w, job)
  <2>1. JobFits(job, soft')
    BY <1>3, <1>6
  <2> QED BY <1>3, <1>5, <1>6, <1>7, <1>8, <1>11, <2>1, WorkGoesOn
<1>12. CASE Working(w, Ending(job, "up_to_date"))
  BY <1>3, <1>7, <1>8, <1>9, <1>10, <1>12, WorkGoesOn
<1>13. CASE Working(w, Ending(job, "not_applicable"))
  BY <1>3, <1>7, <1>8, <1>9, <1>10, <1>13, WorkGoesOn
<1> QED BY <1>3, <1>11, <1>12, <1>13

\* A job that goes on with the revision and the versions it has still fits.
LEMMA StepFits ==
    ASSUME NEW job \in Job, NEW row \in Service, JobFits(job, row), NEW at \in AtWork
    PROVE  /\ [job EXCEPT !.at = at] \in Job /\ JobFits([job EXCEPT !.at = at], row)
           /\ [job EXCEPT !.at = at].content = job.content /\ [job EXCEPT !.at = at].at = at
<1>1. [job EXCEPT !.at = at] \in Job
  <2> HIDE DEF Content, State
  <2> QED BY DEF Job
<1>2. /\ [job EXCEPT !.at = at].at = at /\ [job EXCEPT !.at = at].revision = job.revision
      /\ [job EXCEPT !.at = at].content = job.content
  BY DEF Job
<1> QED BY <1>1, <1>2 DEF JobFits

LEMMA CollectionFits ==
    ASSUME NEW job \in Job, NEW row \in Service, JobFits(job, row), NEW at \in AtWork, NEW edited \in Nat
    PROVE  LET next == [job EXCEPT !.at = at, !.content.edition = edited]
           IN  next \in Job /\ JobFits(next, row) /\ next.at = at
<1> DEFINE next == [job EXCEPT !.at = at, !.content.edition = edited]
<1>1. next \in Job
  <2>1. job.content \in Content
    BY DEF Job
  <2>2. [job.content EXCEPT !.edition = edited] \in Content
    BY <2>1 DEF Content
  <2>3. next = [job EXCEPT !.at = at, !.content = [job.content EXCEPT !.edition = edited]]
    BY DEF Job
  <2> HIDE DEF Content, State, next
  <2> QED BY <2>2, <2>3 DEF Job
<1>2. /\ next.at = at /\ next.revision = job.revision
      /\ next.content.installed = job.content.installed /\ next.content.target = job.content.target
  BY DEF Job, Content
<1> QED BY <1>1, <1>2 DEF JobFits

\* What holds of the job of a worker that is past its claim.
LEMMA JobAtWork ==
    ASSUME NotesInv, NEW w \in NotesWorker, worker[w].at \in AtWork
    PROVE  /\ worker[w] \in Job /\ soft \in Service /\ JobFits(worker[w], soft)
           /\ worker[w].content \in Content /\ worker[w].security \in BOOLEAN
           /\ worker[w].revision \in Nat /\ soft.revision \in Nat /\ edition \in Nat
           /\ worker[w].at \notin {"idle", "ending", "claimed"}
<1>1. worker[w].at \notin {"idle", "ending", "claimed"}
  BY DEF AtWork
<1>2. worker[w] \in Job /\ soft \in Service /\ edition \in Nat
  BY <1>1 DEF NotesInv, NotesType
<1>3. JobFits(worker[w], soft)
  BY DEF NotesInv, RevisionsHaveVersions, JobFits
<1> QED BY <1>1, <1>2, <1>3 DEF Job, Service

\* A worker that comes to its end, whatever the state it leaves.
LEMMA WorkEnds ==
    ASSUME NotesInv, NEW w \in NotesWorker, worker[w].at \in AtWork,
           NEW state \in State, Working(w, Ending(worker[w], state)),
           UNCHANGED soft, AnalysesStay, DOMAIN analyses' = DOMAIN analyses
    PROVE  NotesInv'
<1>1. worker[w] \in Job /\ worker[w].at \notin {"idle", "ending"}
  BY JobAtWork
<1>2. Ending(worker[w], state) \in Job /\ Ending(worker[w], state).at = "ending"
  BY <1>1, EndingIs
<1>3. RowMoves
  BY RowStays DEF NotesInv
<1>4. "ending" \notin AtWork
  BY DEF AtWork
<1> QED BY <1>1, <1>2, <1>3, <1>4, WorkGoesOn

LEMMA CollectNotesKeeps == ASSUME NEW w \in NotesWorker PROVE NotesInv /\ CollectNotes(w) => NotesInv'
<1> SUFFICES ASSUME NotesInv, CollectNotes(w) PROVE NotesInv'
  OBVIOUS
<1> DEFINE job == [worker[w] EXCEPT !.at = "collected", !.content.edition = edition]
<1>1. UNCHANGED <<soft, analyses>> /\ worker[w].at \in AtWork
  BY DEF CollectNotes, AtWork
<1>2. Working(w, job) \/ Working(w, Ending(worker[w], "retry"))
  BY DEF CollectNotes
<1>3. worker[w] \in Job /\ soft \in Service /\ JobFits(worker[w], soft) /\ edition \in Nat
      /\ worker[w].at \notin {"idle", "ending"}
  BY <1>1, JobAtWork
<1>4. job \in Job /\ JobFits(job, soft) /\ job.at = "collected"
  <2>1. "collected" \in AtWork
    BY DEF AtWork
  <2> QED BY <1>3, <2>1, CollectionFits
<1> HIDE DEF job
<1>5. RowMoves
  BY <1>1, RowStays DEF NotesInv
<1>6. AnalysesStay
  BY <1>1, <1>5, AnalysesUnchanged
<1>7. "retry" \in State
  BY DEF State
<1>8. CASE Working(w, job)
  <2>1. JobFits(job, soft')
    BY <1>1, <1>4
  <2> QED BY <1>1, <1>3, <1>4, <1>5, <1>6, <1>8, <2>1, WorkGoesOn
<1>9. CASE Working(w, Ending(worker[w], "retry"))
  BY <1>1, <1>6, <1>7, <1>9, WorkEnds
<1> QED BY <1>2, <1>8, <1>9

LEMMA CommitCollectionKeeps == ASSUME NEW w \in NotesWorker PROVE NotesInv /\ CommitCollection(w) => NotesInv'
<1> SUFFICES ASSUME NotesInv, CommitCollection(w) PROVE NotesInv'
  OBVIOUS
<1> DEFINE job == [worker[w] EXCEPT !.at = "committed"]
<1>1. worker[w].at \in AtWork /\ UNCHANGED analyses
  BY DEF CommitCollection, AtWork
<1>2. /\ worker[w] \in Job /\ soft \in Service /\ JobFits(worker[w], soft) /\ worker[w].content \in Content
      /\ worker[w].at \notin {"idle", "ending"} /\ soft.revision \in Nat
  BY <1>1, JobAtWork
<1>3. CASE Holds(w)
  <2>1. soft' = [soft EXCEPT !.content = worker[w].content] /\ Working(w, job)
    BY <1>3 DEF CommitCollection
  <2>2. soft' \in Service
    BY Zenon, <1>2, <2>1, RowsStayRows
  <2>3. /\ soft'.revision = soft.revision /\ soft'.installed = soft.installed /\ soft'.target = soft.target
        /\ soft'.owner = soft.owner /\ soft'.held = soft.held
    BY <1>2, <2>1 DEF Service
  <2>4. RowMoves
    BY <1>2, <2>2, <2>3 DEF RowMoves
  <2>5. job \in Job /\ JobFits(job, soft) /\ job.at = "committed"
    <3>1. "committed" \in AtWork
      BY DEF AtWork
    <3> QED BY <1>2, <3>1, StepFits
  <2> HIDE DEF job
  <2>6. JobFits(job, soft')
    BY <2>3, <2>5 DEF JobFits
  <2>7. AnalysesStay
    BY <1>1, <2>4, AnalysesUnchanged
  <2> QED BY <1>1, <1>2, <2>1, <2>3, <2>4, <2>5, <2>6, <2>7, WorkGoesOn
<1>4. CASE ~Holds(w)
  <2>1. UNCHANGED soft /\ Working(w, Ending(worker[w], "pending")) /\ "pending" \in State
    BY <1>4 DEF CommitCollection, State
  <2>2. RowMoves
    BY <2>1, RowStays DEF NotesInv
  <2>3. AnalysesStay
    BY <1>1, <2>2, AnalysesUnchanged
  <2> QED BY <1>1, <2>1, <2>3, WorkEnds
<1> QED BY <1>3, <1>4

LEMMA GenerateKeeps == ASSUME NEW w \in NotesWorker PROVE NotesInv /\ Generate(w) => NotesInv'
<1> SUFFICES ASSUME NotesInv, Generate(w) PROVE NotesInv'
  OBVIOUS
<1>1. UNCHANGED <<soft, analyses>> /\ worker[w].at = "analyse" /\ worker[w].at \in AtWork
  BY DEF Generate, AtWork
<1>2. /\ worker[w] \in Job /\ soft \in Service /\ JobFits(worker[w], soft)
      /\ worker[w].at \notin {"idle", "ending"}
  BY <1>1, JobAtWork
<1>3. RowMoves
  BY <1>1, RowStays DEF NotesInv
<1>4. AnalysesStay
  BY <1>1, <1>3, AnalysesUnchanged
<1>5. "retry" \in State /\ "analysed" \in AtWork
  BY DEF State, AtWork
<1>6. ASSUME NEW said \in BOOLEAN, Working(w, [worker[w] EXCEPT !.at = "analysed", !.security = said])
      PROVE  NotesInv'
  <2> DEFINE job == [worker[w] EXCEPT !.at = "analysed", !.security = said]
  <2>1. job \in Job /\ JobFits(job, soft) /\ job.content = worker[w].content /\ job.at = "analysed"
    <3>1. job \in Job
      <4> HIDE DEF Content, State
      <4> QED BY <1>2, <1>5 DEF Job
    <3>2. job.at = "analysed" /\ job.revision = worker[w].revision /\ job.content = worker[w].content
      BY <1>2 DEF Job
    <3> QED BY <1>2, <3>1, <3>2 DEF JobFits
  <2>2. Working(w, job)
    BY <1>6
  <2> HIDE DEF job
  <2>3. worker[w].content \notin DOMAIN analyses
    BY <1>1 DEF NotesInv, AnalysedOnce
  <2>4. JobFits(job, soft')
    BY <1>1, <2>1
  <2> QED BY <1>1, <1>2, <1>3, <1>4, <2>1, <2>2, <2>3, <2>4, WorkGoesOn
<1>7. CASE Working(w, Ending(worker[w], "retry"))
  BY <1>1, <1>4, <1>5, <1>7, WorkEnds
<1> QED BY <1>6, <1>7 DEF Generate

LEMMA LookUpAnalysisKeeps == ASSUME NEW w \in NotesWorker PROVE NotesInv /\ LookUpAnalysis(w) => NotesInv'
<1> SUFFICES ASSUME NotesInv, LookUpAnalysis(w) PROVE NotesInv'
  OBVIOUS
<1> DEFINE k == worker[w].content
           n == worker[w].revision
           job == [worker[w] EXCEPT !.at = "analyse"]
<1>1. UNCHANGED soft /\ Working(w, AfterLookUp(w)) /\ worker[w].at \in AtWork
  BY DEF LookUpAnalysis, AtWork
<1>2. /\ worker[w] \in Job /\ soft \in Service /\ JobFits(worker[w], soft) /\ n \in Nat
      /\ worker[w].at \notin {"idle", "ending"}
  BY <1>1, JobAtWork
<1>3. RowMoves
  BY <1>1, RowStays DEF NotesInv
<1>4. CASE k \in DOMAIN analyses
  <2>1. analyses' = [analyses EXCEPT ![k].revision = n]
    BY <1>4 DEF LookUpAnalysis
  <2>2. Working(w, Ending(worker[w], "ready")) /\ "ready" \in State
    BY <1>1, <1>4 DEF AfterLookUp, State
  <2>3. /\ analyses = [c \in DOMAIN analyses |-> analyses[c]]
        /\ \A c \in DOMAIN analyses : c \in Content /\ analyses[c] \in [revision : Nat, security : BOOLEAN]
    BY DEF NotesInv, NotesType
  <2>4. /\ DOMAIN analyses' = DOMAIN analyses
        /\ \A c \in DOMAIN analyses :
              /\ analyses'[c].revision = IF c = k THEN n ELSE analyses[c].revision
              /\ analyses'[c].security = analyses[c].security
              /\ analyses'[c] \in [revision : Nat, security : BOOLEAN]
    BY <1>2, <2>1, <2>3
  <2>5. analyses' = [c \in DOMAIN analyses' |-> analyses'[c]]
    BY <2>1, <2>3
  <2>6. \A c \in DOMAIN analyses :
           /\ analyses[c].revision <= soft.revision
           /\ analyses[c].revision = soft.revision => c.installed = soft.installed /\ c.target = soft.target
    BY DEF NotesInv, RevisionsHaveVersions
  <2>7. n <= soft.revision /\ (n = soft.revision => k.installed = soft.installed /\ k.target = soft.target)
    BY <1>2 DEF JobFits
  <2> HIDE DEF k, n
  <2>8. AnalysesStay
    BY <1>1, <2>3, <2>4, <2>5, <2>6, <2>7 DEF AnalysesStay
  <2> QED BY <1>1, <2>2, <2>4, <2>8, WorkEnds
<1>5. CASE k \notin DOMAIN analyses
  <2>1. UNCHANGED analyses
    BY <1>5 DEF LookUpAnalysis
  <2>2. AnalysesStay
    BY <1>3, <2>1, AnalysesUnchanged
  <2>3. \/ Working(w, Ending(worker[w], "notes_unavailable"))
        \/ Working(w, job)
        \/ Working(w, Ending(worker[w], "awaiting_ai"))
    BY <1>1, <1>5 DEF AfterLookUp
  <2>4. "notes_unavailable" \in State /\ "awaiting_ai" \in State /\ "analyse" \in AtWork
    BY DEF State, AtWork
  <2>5. CASE Working(w, job)
    <3>1. job \in Job /\ JobFits(job, soft) /\ job.at = "analyse" /\ job.content = k
      BY Zenon, <1>2, <2>4, StepFits
    <3> HIDE DEF job
    <3>2. JobFits(job, soft') /\ job.content \notin DOMAIN analyses
      BY <1>1, <1>5, <3>1
    <3> QED BY <1>1, <1>2, <1>3, <2>1, <2>2, <2>5, <3>1, <3>2, WorkGoesOn
  <2> HIDE DEF job
  <2>6. CASE Working(w, Ending(worker[w], "notes_unavailable"))
    BY <1>1, <2>1, <2>2, <2>4, <2>6, WorkEnds
  <2>7. CASE Working(w, Ending(worker[w], "awaiting_ai"))
    BY <1>1, <2>1, <2>2, <2>4, <2>7, WorkEnds
  <2> QED BY <2>3, <2>5, <2>6, <2>7
<1> QED BY <1>4, <1>5

\* An analysis is of the versions of its revision, and of a content that had none.
LEMMA InsertAnalysisKeeps == ASSUME NEW w \in NotesWorker PROVE NotesInv /\ InsertAnalysis(w) => NotesInv'
<1> SUFFICES ASSUME NotesInv, InsertAnalysis(w) PROVE NotesInv'
  OBVIOUS
<1> DEFINE c == worker[w].content
           said == worker[w].security
           to == Ending(worker[w], "ready")
<1>1. UNCHANGED soft /\ Working(w, to) /\ worker[w].at = "analysed" /\ worker[w].at \in AtWork
  BY DEF InsertAnalysis, AtWork
<1>2. /\ worker[w] \in Job /\ soft \in Service /\ JobFits(worker[w], soft) /\ c \in Content /\ said \in BOOLEAN
      /\ worker[w].at \notin {"idle", "ending"} /\ soft.revision \in Nat /\ worker[w].revision \in Nat
  BY <1>1, JobAtWork
<1>3. RowMoves
  BY <1>1, RowStays DEF NotesInv
<1>4. to \in Job /\ to.at = "ending" /\ "ending" \notin AtWork
  <2>1. "ready" \in State /\ "ending" \notin AtWork
    BY DEF State, AtWork
  <2> QED BY <1>2, <2>1, EndingIs
<1>5. /\ soft.owner = w /\ soft.held
      /\ \A v \in NotesWorker \ {w} : worker[v].at \in {"idle", "ending"}
  BY <1>2, WorkerIsAlone
<1>6. AnalysesStay
  <2>1. CASE ~Holds(w)
    BY <1>3, <2>1, AnalysesUnchanged DEF InsertAnalysis
  <2>2. CASE Holds(w)
    <3> DEFINE S == DOMAIN analyses \cup {c}
               made == [revision |-> soft.revision, security |-> said]
    <3>1. analyses' = [k \in S |-> IF k = c THEN made ELSE analyses[k]]
      BY <2>2 DEF InsertAnalysis
    <3>2. made \in [revision : Nat, security : BOOLEAN] /\ made.revision = soft.revision
      BY <1>2
    <3>3. c.installed = soft.installed /\ c.target = soft.target
      BY <1>2, <2>2 DEF Holds, JobFits
    <3>4. c \notin DOMAIN analyses
      BY <1>1 DEF NotesInv, AnalysedOnce
    <3>5. \A k \in DOMAIN analyses :
             /\ k \in Content /\ analyses[k] \in [revision : Nat, security : BOOLEAN]
             /\ analyses[k].revision <= soft.revision
             /\ analyses[k].revision = soft.revision => k.installed = soft.installed /\ k.target = soft.target
      BY DEF NotesInv, NotesType, RevisionsHaveVersions
    <3> HIDE DEF c, made
    <3>6. DOMAIN analyses' = S /\ analyses'[c] = made /\ \A k \in DOMAIN analyses : analyses'[k] = analyses[k]
      BY <3>1, <3>4
    <3>7. analyses' = [k \in DOMAIN analyses' |-> analyses'[k]]
      BY <3>1
    <3>8. c \in Content /\ soft' = soft /\ made.revision <= soft.revision
      BY <1>1, <1>2, <3>2 DEF c
    <3>9. ASSUME NEW k \in DOMAIN analyses'
          PROVE  /\ k \in Content /\ analyses'[k] \in [revision : Nat, security : BOOLEAN]
                 /\ analyses'[k].revision <= soft.revision
                 /\ analyses'[k].revision = soft.revision =>
                       k.installed = soft.installed /\ k.target = soft.target
      <4>1. CASE k = c
        BY <3>2, <3>3, <3>6, <3>8, <4>1
      <4>2. CASE k # c
        BY <3>5, <3>6, <4>2
      <4> QED BY <4>1, <4>2
    <3> QED BY <3>6, <3>7, <3>8, <3>9 DEF AnalysesStay
  <2> QED BY <2>1, <2>2
<1> HIDE DEF to
<1> QED BY <1>1, <1>3, <1>4, <1>5, <1>6, WorkKeeps

LEMMA WorkerStopsKeeps == ASSUME NEW w \in NotesWorker PROVE NotesInv /\ WorkerStops(w) => NotesInv'
<1> SUFFICES ASSUME NotesInv, WorkerStops(w) PROVE NotesInv'
  OBVIOUS
<1>1. UNCHANGED <<soft, analyses>> /\ Working(w, WorkerIdle)
  BY DEF WorkerStops
<1>2. RowMoves
  BY <1>1, RowStays DEF NotesInv
<1>3. AnalysesStay
  BY <1>1, <1>2, AnalysesUnchanged
<1>4. WorkerIdle.at = "idle" /\ WorkerIdle.at \notin AtWork
  BY DEF WorkerIdle, AtWork
<1>5. /\ \A v \in NotesWorker :
            worker[v].at \notin {"idle", "ending"} => soft'.owner = v /\ soft'.held
      /\ \A v \in NotesWorker :
            worker[v].at \in {"analyse", "analysed"} => worker[v].content \notin DOMAIN analyses'
  BY <1>1 DEF NotesInv, WorkIsLeased, AnalysedOnce
<1> QED BY <1>1, <1>2, <1>3, <1>4, <1>5, WorkKeeps

LEMMA EndPassKeeps == ASSUME NEW w \in NotesWorker PROVE NotesInv /\ EndPass(w) => NotesInv'
<1> SUFFICES ASSUME NotesInv, EndPass(w) PROVE NotesInv'
  OBVIOUS
<1>1. UNCHANGED analyses /\ Working(w, WorkerIdle) /\ worker[w].at = "ending"
  BY DEF EndPass
<1>2. WorkerIdle.at = "idle" /\ WorkerIdle.at \notin AtWork
  BY DEF WorkerIdle, AtWork
<1>3. soft \in Service /\ soft.revision \in Nat /\ worker[w].state \in State
  <2>1. worker[w] \in Job
    BY <1>1, JobIs
  <2> QED BY <2>1 DEF Job, Service, NotesInv, NotesType
<1>4. /\ RowMoves
      /\ \A v \in NotesWorker :
            worker[v].at \notin {"idle", "ending"} => soft'.owner = v /\ soft'.held
  <2>1. CASE soft.owner # w
    <3>1. UNCHANGED soft
      BY <2>1 DEF EndPass
    <3> QED BY <3>1, RowStays DEF NotesInv, WorkIsLeased
  <2>2. CASE soft.owner = w
    <3> DEFINE state == IF Holds(w) THEN worker[w].state ELSE soft.state
               due == IF Holds(w) THEN worker[w].state = "pending" ELSE soft.due
    <3>1. soft' = [[[[soft EXCEPT !.state = state] EXCEPT !.due = due] EXCEPT !.owner = vacant]
                     EXCEPT !.held = FALSE]
      BY <1>3, <2>2 DEF EndPass, Service
    <3>2. state \in State
      BY <1>3 DEF Service
    <3>3. due \in BOOLEAN
      BY <1>3 DEF Service
    <3> HIDE DEF state, due
    <3>4. soft' \in Service
      BY Zenon, <1>3, <3>1, <3>2, <3>3, RowsStayRows
    <3>5. soft'.revision = soft.revision /\ soft'.installed = soft.installed /\ soft'.target = soft.target
      BY <1>3, <3>1 DEF Service
    <3>6. \A v \in NotesWorker : worker[v].at \in {"idle", "ending"}
      BY <1>1, <2>2 DEF NotesInv, WorkIsLeased
    <3> QED BY <1>3, <3>4, <3>5, <3>6 DEF RowMoves
  <2> QED BY <2>1, <2>2
<1>5. AnalysesStay
  BY <1>1, <1>4, AnalysesUnchanged
<1>6. \A v \in NotesWorker :
         worker[v].at \in {"analyse", "analysed"} => worker[v].content \notin DOMAIN analyses'
  BY <1>1 DEF NotesInv, AnalysedOnce
<1> QED BY <1>1, <1>2, <1>4, <1>5, <1>6, WorkKeeps

LEMMA NotesNextKeeps == NotesInv /\ [NotesNext]_notesVars => NotesInv'
<1> SUFFICES ASSUME NotesInv, [NotesNext]_notesVars PROVE NotesInv'
  OBVIOUS
<1>1. CASE UNCHANGED notesVars
  <2>1. UNCHANGED <<argus, soft, edition, analyses, worker, synced>>
    BY <1>1 DEF notesVars
  <2>2. argus \in ArgusReading /\ edition \in Nat /\ NotesType
    BY DEF NotesInv, NotesType
  <2> QED BY <2>1, <2>2, RowStays, RowActionsKeep
<1>2. CASE SyncArgusStep
  BY <1>2, UpdateArgusBindingsKeeps, ReleaseSecurityKeeps, ReconcileArgusKeeps DEF SyncArgusStep
<1>3. ASSUME NEW w \in NotesWorker, ClaimService(w) \/ NotesStep(w) \/ WorkerStops(w) PROVE NotesInv'
  BY <1>3, ClaimServiceKeeps, GetServiceKeeps, CollectNotesKeeps, CommitCollectionKeeps, LookUpAnalysisKeeps,
     GenerateKeeps, InsertAnalysisKeeps, EndPassKeeps, WorkerStopsKeeps DEF NotesStep
<1> QED BY <1>1, <1>2, <1>3, SyncArgusSourcesKeeps, NotesLeaseLapsesKeeps, CheckComesDueKeeps, ArgusChangesKeeps,
           ImportFromArgusKeeps, PublishesKeeps, ConfirmSourceKeeps, SaveConfigKeeps DEF NotesNext

\* Only the synchroniser opens evidence, on the verdict it carries.
LEMMA OpeningIsEarned ==
    ASSUME NotesInv, [NotesNext]_notesVars, proof = "closed", proof' = "open"
    PROVE  \E k \in DOMAIN analyses : /\ analyses[k].security
                                      /\ k.installed = synced.reading.installed
                                      /\ k.target = synced.reading.target
<1>1. ReconcileArgus
  BY DEF NotesNext, notesVars, SyncArgusStep, UpdateArgusBindings, ReleaseSecurity, SyncArgusSources,
         NotesLeaseLapses, NotesRest, CheckComesDue, ArgusChanges, ImportFromArgus, Publishes, ConfirmSource,
         SaveConfig, ClaimService, NotesStep, GetService, CollectNotes, CommitCollection, LookUpAnalysis,
         Generate, InsertAnalysis, EndPass, WorkerStops, Working
<1>2. synced.at = "assessed" /\ synced.verdict = "fixes"
  BY <1>1 DEF ReconcileArgus
<1> QED BY <1>2 DEF NotesInv, VerdictIsEarned, Earned

\* However checks, changes in Argus, imports, administrators and workers whose
\* lease is over interleave with a synchronisation, it opens evidence only on an
\* analysis of the versions it read (releaseSecurity, ReconcileArgus).
THEOREM ProofIsAlwaysEarned == NotesSpec => ProofIsEarned
BY NotesInitially, NotesNextKeeps, OpeningIsEarned, PTL DEF NotesSpec, ProofIsEarned

===============================================================================
