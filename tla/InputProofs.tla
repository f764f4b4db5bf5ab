----------------------------- MODULE InputProofs -----------------------------
(***************************************************************************)
(* Each question is answered by one line of the input, and a text is read   *)
(* as a number when all of it is one.                                       *)
(***************************************************************************)
EXTENDS LineInput, SequenceTheorems, FiniteSetTheorems, WellFoundedInduction, TLAPS

(*************************** Positions *************************************)

LEMMA LeastOf ==
    ASSUME NEW S \in SUBSET Nat, S # {}
    PROVE  \E x \in S : \A y \in S : x <= y
  <1> DEFINE Less == OpToRel(<, Nat)
  <1>1. IsWellFoundedOn(Less, Nat)
    BY NatLessThanWellFounded
  <1>2. \A x, y \in Nat : x < y => <<x, y>> \in Less
    BY DEF OpToRel
  <1> HIDE DEF Less
  <1>3. PICK x \in S : \A y \in S : <<y, x>> \notin Less
    BY <1>1, WFMin
  <1>4. ASSUME NEW y \in S PROVE x <= y
    <2>1. x \in Nat /\ y \in Nat /\ ~(y < x)
      BY <1>2, <1>3
    <2> QED
      BY <2>1
  <1> QED
    BY <1>4

\* What Upto is: the first position that is not in C.
First(s, from, C, j) ==
    /\ j \in from .. Len(s) + 1
    /\ j > Len(s) \/ s[j] \notin C
    /\ \A i \in from .. j - 1 : s[i] \in C

LEMMA UptoIs ==
    ASSUME NEW s, Len(s) \in Nat, NEW from \in 1 .. Len(s) + 1, NEW C
    PROVE  First(s, from, C, Upto(s, from, C))
  <1> DEFINE S == {j \in from .. Len(s) + 1 : j > Len(s) \/ s[j] \notin C}
  <1>1. S \in SUBSET Nat /\ S # {}
    <2>1. Len(s) + 1 \in S
      OBVIOUS
    <2> QED
      BY <2>1
  <1>2. PICK j \in S : \A i \in S : j <= i
    BY <1>1, LeastOf
  <1>3. \A i \in from .. j - 1 : s[i] \in C
    <2> SUFFICES ASSUME NEW i \in from .. j - 1 PROVE s[i] \in C
      OBVIOUS
    <2>1. i \notin S /\ i \in from .. Len(s) + 1
      BY <1>2
    <2> QED
      BY <2>1
  <1> QED
    BY <1>2, <1>3 DEF First, Upto

LEMMA UptoOne ==
    ASSUME NEW s, Len(s) \in Nat, NEW from \in 1 .. Len(s) + 1, NEW C, NEW j,
           First(s, from, C, j)
    PROVE  Upto(s, from, C) = j
  <1> DEFINE u == Upto(s, from, C)
  <1>1. First(s, from, C, u)
    BY UptoIs
  <1> HIDE DEF u
  <1>2. u \in Int /\ j \in Int
    BY <1>1 DEF First
  <1>3. ASSUME u < j PROVE FALSE
    BY <1>1, <1>2, <1>3 DEF First
  <1>4. ASSUME j < u PROVE FALSE
    BY <1>1, <1>2, <1>4 DEF First
  <1>5. u = j
    BY <1>2, <1>3, <1>4
  <1> QED
    BY <1>5 DEF u

\* Without a NUL the C string is the whole buffer.
LEMMA WholeString ==
    ASSUME "NUL" \notin Chars, NEW s \in Seq(Chars)
    PROVE  CString(s) = s
  <1>1. First(s, 1, Chars \ {"NUL"}, Len(s) + 1)
    BY DEF First
  <1>2. Upto(s, 1, Chars \ {"NUL"}) = Len(s) + 1
    BY <1>1, UptoOne
  <1> QED
    BY <1>2, SubSeqFull DEF CString

(*************************** trim ******************************************)

LastShown(s, j) ==
    /\ j \in 0 .. Len(s)
    /\ j = 0 \/ ~isspace(s[j])
    /\ \A i \in j + 1 .. Len(s) : isspace(s[i])

LEMMA LastShownExists ==
    ASSUME NEW s, Len(s) \in Nat
    PROVE  \E j : LastShown(s, j)
  <1> DEFINE S == {k \in 0 .. Len(s) : k = Len(s) \/ ~isspace(s[Len(s) - k])}
  <1>1. S \in SUBSET Nat /\ S # {}
    <2>1. Len(s) \in S
      OBVIOUS
    <2> QED
      BY <2>1
  <1>2. PICK k \in S : \A i \in S : k <= i
    BY <1>1, LeastOf
  <1>3. \A i \in Len(s) - k + 1 .. Len(s) : isspace(s[i])
    <2> SUFFICES ASSUME NEW i \in Len(s) - k + 1 .. Len(s) PROVE isspace(s[i])
      OBVIOUS
    <2>1. k \in 0 .. Len(s)
      OBVIOUS
    <2>2. Len(s) - i \in 0 .. Len(s) /\ ~(k <= Len(s) - i) /\ Len(s) - (Len(s) - i) = i
      BY <2>1
    <2>3. Len(s) - i \notin S
      BY <1>2, <2>2
    <2> QED
      BY <2>2, <2>3
  <1>4. LastShown(s, Len(s) - k)
    BY <1>2, <1>3 DEF LastShown
  <1> QED
    BY <1>4

LEMMA LastShownOne ==
    ASSUME NEW s, Len(s) \in Nat, NEW i, NEW j, LastShown(s, i), LastShown(s, j)
    PROVE  i = j
  <1>1. i \in Int /\ j \in Int
    BY DEF LastShown
  <1>2. CASE i < j
    BY <1>1, <1>2 DEF LastShown
  <1>3. CASE j < i
    BY <1>1, <1>3 DEF LastShown
  <1> QED
    BY <1>1, <1>2, <1>3

LEMMA TrimIs ==
    ASSUME NEW s, Len(s) \in Nat, NEW i, First(s, 1, Blanks, i), NEW j, LastShown(s, j)
    PROVE  Trim(s) = SubSeq(s, i, j)
  <1>1. Upto(s, 1, Blanks) = i
    BY UptoOne
  <1> DEFINE last == CHOOSE k \in 0 .. Len(s) :
                         /\ k = 0 \/ ~isspace(s[k])
                         /\ \A l \in k + 1 .. Len(s) : isspace(s[l])
  <1>2. LastShown(s, last)
    BY DEF LastShown
  <1>3. last = j
    BY <1>2, LastShownOne
  <1> HIDE DEF last
  <1>4. Trim(s) = SubSeq(s, Upto(s, 1, Blanks), last)
    BY DEF Trim, last
  <1> QED
    BY <1>1, <1>3, <1>4

LEMMA StripKeeps ==
    ASSUME NEW s \in Seq(Chars), NEW c
    PROVE  StripLast(s, c) \in Seq(Chars)
  <1>1. CASE s # <<>>
    <2>1. Len(s) - 1 \in Nat /\ \A k \in 1 .. Len(s) - 1 : s[k] \in Chars
      BY <1>1
    <2>2. Front(s) \in Seq(Chars)
      BY <2>1, SubSeqProperties DEF Front
    <2> QED
      BY <2>2 DEF StripLast
  <1> QED
    BY <1>1 DEF StripLast

\* A blank at the end makes no difference to trim.
LEMMA TrimEnd ==
    ASSUME NEW s \in Seq(Chars), NEW c \in Blanks
    PROVE  Trim(StripLast(s, c)) = Trim(s)
  <1>1. CASE ~(s # <<>> /\ Last(s) = c)
    BY <1>1 DEF StripLast
  <1>2. CASE s # <<>> /\ Last(s) = c
    <2> DEFINE n == Len(s)
               t == Front(s)
    <2>1. /\ n \in Nat \ {0} /\ s[n] = c
          /\ t = SubSeq(s, 1, n - 1) /\ StripLast(s, c) = t
      BY <1>2 DEF StripLast, Last, Front
    <2>2. Len(t) = n - 1 /\ \A k \in 1 .. n - 1 : t[k] = s[k]
      <3>1. \A k \in 1 .. n - 1 : s[k] \in Chars
        OBVIOUS
      <3>2. n - 1 \in Nat
        BY <2>1
      <3> HIDE DEF n, t
      <3>3. /\ Len(SubSeq(s, 1, n - 1)) = IF 1 <= n - 1 THEN n - 1 - 1 + 1 ELSE 0
            /\ \A k \in 1 .. n - 1 - 1 + 1 : SubSeq(s, 1, n - 1)[k] = s[1 + k - 1]
        BY <3>1, <3>2, SubSeqProperties
      <3> QED
        BY <2>1, <3>2, <3>3
    <2> HIDE DEF n, t
    <2>3. Len(s) = n
      BY DEF n
    <2>4. Len(t) \in Nat /\ 1 \in 1 .. Len(t) + 1
      BY <2>1, <2>2
    <2>5. PICK i : First(t, 1, Blanks, i)
      BY <2>4, UptoIs
    <2>6. PICK j : LastShown(t, j)
      BY <2>4, LastShownExists
    <2>7. LastShown(s, j)
      BY <2>1, <2>2, <2>3, <2>6 DEF LastShown, isspace
    <2>8. Trim(t) = SubSeq(t, i, j)
      BY <2>4, <2>5, <2>6, TrimIs
    <2>9. CASE i <= n - 1
      <3>1. First(s, 1, Blanks, i)
        BY <2>1, <2>2, <2>3, <2>5, <2>9 DEF First
      <3>2. Trim(s) = SubSeq(s, i, j)
        BY <2>1, <2>3, <2>7, <3>1, TrimIs
      <3>3. SubSeq(s, i, j) = SubSeq(t, i, j)
        <4>1. i \in 1 .. n - 1 /\ j \in 0 .. n - 1
          BY <2>1, <2>2, <2>5, <2>6, <2>9 DEF First, LastShown
        <4>2. \A k \in i .. j : s[k] \in Chars /\ t[k] \in Chars /\ t[k] = s[k]
          BY <2>1, <2>2, <2>3, <4>1
        <4>3. /\ SubSeq(s, i, j) \in Seq(Chars) /\ SubSeq(t, i, j) \in Seq(Chars)
              /\ Len(SubSeq(s, i, j)) = IF i <= j THEN j - i + 1 ELSE 0
              /\ Len(SubSeq(t, i, j)) = IF i <= j THEN j - i + 1 ELSE 0
              /\ \A k \in 1 .. j - i + 1 : SubSeq(s, i, j)[k] = s[i + k - 1]
              /\ \A k \in 1 .. j - i + 1 : SubSeq(t, i, j)[k] = t[i + k - 1]
          BY <2>1, <4>1, <4>2, SubSeqProperties
        <4>4. \A k \in 1 .. j - i + 1 : SubSeq(s, i, j)[k] = SubSeq(t, i, j)[k]
          BY <2>1, <2>2, <4>1, <4>3
        <4>5. \A k \in 1 .. Len(SubSeq(s, i, j)) : SubSeq(s, i, j)[k] = SubSeq(t, i, j)[k]
          BY <2>1, <4>1, <4>3, <4>4
        <4> QED
          BY <4>3, <4>5, SeqEqual
      <3> QED
        BY <2>1, <2>8, <3>2, <3>3
    <2>10. CASE ~(i <= n - 1)
      <3>1. i = n /\ \A k \in 1 .. n - 1 : s[k] \in Blanks
        BY <2>1, <2>2, <2>5, <2>10 DEF First
      <3>2. First(s, 1, Blanks, n + 1)
        BY <2>1, <2>3, <3>1 DEF First
      <3>3. j = 0
        BY <2>1, <2>2, <2>6, <3>1 DEF LastShown, isspace
      <3>4. Trim(s) = SubSeq(s, n + 1, 0) /\ Trim(t) = SubSeq(t, n, 0)
        BY <2>1, <2>3, <2>7, <2>8, <3>1, <3>2, <3>3, TrimIs
      <3> QED
        BY <2>1, <3>4, SubSeqEmpty
    <2> QED
      BY <2>9, <2>10
  <1> QED
    BY <1>1, <1>2

(*************************** Lines *****************************************)

Before(j) == {i \in LineEnds : i <= j}

\* k lines end at or before s, where a line begins.
LineStart(s, k) ==
    /\ s \in 0 .. Len(given)
    /\ s = 0 \/ s \in LineEnds
    /\ Cardinality(Before(s)) = k

\* A line begins behind s and ends at e, and k lines came before it.
IsLine(k, s, e) ==
    /\ LineStart(s, k)
    /\ e \in LineEnds /\ s < e
    /\ \A i \in s + 1 .. e - 1 : i \notin LineEnds

TheLine(s, e) == SubSeq(given, s + 1, e)

LEMMA FiniteEnds ==
    ASSUME given \in Seq(Chars)
    PROVE  /\ LineEnds \subseteq 1 .. Len(given)
           /\ IsFiniteSet(LineEnds)
           /\ \A j : IsFiniteSet(Before(j)) /\ Cardinality(Before(j)) \in Nat
           /\ \A j : Cardinality(Before(j)) <= Cardinality(LineEnds)
           /\ Cardinality(LineEnds) \in Nat
  <1>1. Len(given) \in Nat
    OBVIOUS
  <1>2. LineEnds \in SUBSET (1 .. Len(given))
    BY DEF LineEnds
  <1>3. IsFiniteSet(LineEnds)
    <2>1. IsFiniteSet(1 .. Len(given))
      BY <1>1, FS_Interval
    <2> QED
      BY <1>2, <2>1, FS_Subset
  <1>4. \A j : Before(j) \in SUBSET LineEnds
    BY DEF Before
  <1> QED
    BY <1>2, <1>3, <1>4, FS_Subset, FS_CardinalityType

LEMMA CountsGrow ==
    ASSUME given \in Seq(Chars), NEW i \in LineEnds, NEW j \in LineEnds, i < j
    PROVE  Cardinality(Before(i)) # Cardinality(Before(j))
  <1>1. i \in Int /\ j \in Int /\ \A x \in LineEnds : x \in Int
    BY DEF LineEnds
  <1>2. \A x \in LineEnds : x <= i => x <= j
    BY <1>1
  <1>3. j <= j /\ ~(j <= i)
    BY <1>1
  <1>4. Before(i) \in SUBSET Before(j) /\ Before(i) # Before(j)
    BY <1>2, <1>3, Zenon DEF Before
  <1> QED
    BY <1>4, FiniteEnds, FS_Subset

LEMMA EndOfLine ==
    ASSUME given \in Seq(Chars), NEW k \in Nat, NEW j \in LineEnds,
           Cardinality(Before(j)) = k
    PROVE  EndOf(k) = j
  <1> DEFINE c == CHOOSE i \in LineEnds : Cardinality(Before(i)) = k
  <1>1. c \in LineEnds /\ Cardinality(Before(c)) = k
    OBVIOUS
  <1> HIDE DEF c
  <1>2. c \in Int /\ j \in Int
    BY <1>1 DEF LineEnds
  <1>3. c = j
    BY <1>1, <1>2, CountsGrow
  <1> QED
    BY <1>3 DEF c, Before, EndOf

LEMMA NextStart ==
    ASSUME given \in Seq(Chars), NEW k \in Nat, NEW s, NEW e, IsLine(k, s, e)
    PROVE  LineStart(e, k + 1)
  <1>1. s \in Int /\ e \in 1 .. Len(given) /\ e \in LineEnds /\ s < e
    BY FiniteEnds DEF IsLine, LineStart
  <1>2. Before(e) = Before(s) \cup {e}
    <2>1. ASSUME NEW x \in LineEnds PROVE x <= e <=> x <= s \/ x = e
      BY <1>1, <2>1, FiniteEnds DEF IsLine
    <2> QED
      BY <1>1, <2>1 DEF Before
  <1>3. e \notin Before(s)
    BY <1>1 DEF Before
  <1>4. Cardinality(Before(e)) = k + 1
    BY <1>2, <1>3, FiniteEnds, FS_AddElement DEF IsLine, LineStart
  <1> QED
    BY <1>1, <1>4 DEF LineStart

LEMMA LineIs ==
    ASSUME given \in Seq(Chars), NEW k \in Nat, NEW s, NEW e, IsLine(k, s, e)
    PROVE  Line(k + 1) = TheLine(s, e)
  <1>1. e \in LineEnds /\ Cardinality(Before(e)) = k + 1 /\ k + 1 \in Nat
    BY NextStart DEF IsLine, LineStart
  <1>2. EndOf(k + 1) = e
    BY <1>1, EndOfLine
  <1>3. StartOf(k + 1) = s + 1
    <2>1. CASE s = 0
      <3>1. Before(0) = {}
        BY FiniteEnds DEF Before
      <3>2. k = 0
        BY <2>1, <3>1, FS_EmptySet DEF IsLine, LineStart
      <3> QED
        BY <2>1, <3>2 DEF StartOf
    <2>2. CASE s # 0
      <3>1. s \in LineEnds /\ Cardinality(Before(s)) = k
        BY <2>2 DEF IsLine, LineStart
      <3>2. s \in Before(s)
        BY <3>1 DEF Before, LineEnds
      <3>3. k # 0
        BY <3>1, <3>2, FiniteEnds, FS_EmptySet
      <3>4. EndOf(k) = s
        BY <3>1, EndOfLine
      <3>5. PICK m : m = k + 1 /\ m # 1 /\ m - 1 = k
        BY <3>3
      <3>6. StartOf(m) = EndOf(m - 1) + 1
        BY <3>5, Zenon DEF StartOf
      <3> QED
        BY <3>4, <3>5, <3>6
    <2> QED
      BY <2>1, <2>2
  <1> QED
    BY <1>2, <1>3 DEF Line, TheLine
LEMMA FirstOfIs ==
    ASSUME NEW s \in Seq(Chars), NEW n \in Nat
    PROVE  /\ FirstOf(s, n) \in Seq(Chars)
           /\ Len(FirstOf(s, n)) = IF Len(s) <= n THEN Len(s) ELSE n
           /\ \A i \in 1 .. Len(FirstOf(s, n)) : FirstOf(s, n)[i] = s[i]
  <1>1. CASE Len(s) <= n
    BY <1>1 DEF FirstOf
  <1>2. CASE ~(Len(s) <= n)
    <2>1. \A i \in 1 .. n : s[i] \in Chars
      BY <1>2
    <2>2. /\ SubSeq(s, 1, n) \in Seq(Chars)
          /\ Len(SubSeq(s, 1, n)) = IF 1 <= n THEN n - 1 + 1 ELSE 0
          /\ \A i \in 1 .. n - 1 + 1 : SubSeq(s, 1, n)[i] = s[1 + i - 1]
      BY <2>1, SubSeqProperties
    <2>3. FirstOf(s, n) = SubSeq(s, 1, n)
      BY <1>2 DEF FirstOf
    <2> QED
      BY <1>2, <2>2, <2>3
  <1> QED
    BY <1>1, <1>2

LEMMA TheLineIs ==
    ASSUME given \in Seq(Chars), NEW s \in 0 .. Len(given), NEW e \in s + 1 .. Len(given)
    PROVE  /\ TheLine(s, e) \in Seq(Chars)
           /\ Len(TheLine(s, e)) = e - s
           /\ \A i \in 1 .. e - s : TheLine(s, e)[i] = given[s + i]
  <1>1. \A i \in s + 1 .. e : given[i] \in Chars
    OBVIOUS
  <1>2. /\ SubSeq(given, s + 1, e) \in Seq(Chars)
        /\ Len(SubSeq(given, s + 1, e)) = IF s + 1 <= e THEN e - (s + 1) + 1 ELSE 0
        /\ \A i \in 1 .. e - (s + 1) + 1 : SubSeq(given, s + 1, e)[i] = given[s + 1 + i - 1]
    BY <1>1, SubSeqProperties
  <1> QED
    BY <1>2 DEF TheLine

(*************************** The invariant *********************************)

\* How far the input has been read.
Consumed == Len(given) - Len(stdin)

StdinInv ==
    /\ given \in Seq(Chars) /\ stdin \in Seq(Chars)
    /\ Len(stdin) <= Len(given)
    /\ \A i \in 1 .. Len(stdin) : stdin[i] = given[Consumed + i]

\* What fits of the line the input is in, and how much of it is read.
InTheLine(s, e) ==
    LET fits == FirstOf(TheLine(s, e), buf_size - 1) IN
    /\ pc \in {"drain?", "drain", "strip"} => buf = fits
    /\ pc = "drain?" => Consumed = s + Len(buf)
    /\ pc = "drain" => /\ s < Consumed /\ Consumed <= e
                       /\ \A i \in s + 1 .. Consumed : given[i] # "newline"
    /\ pc \in {"strip", "trim"} => Consumed = e
    /\ pc = "trim" => Trim(buf) = Fitting(TheLine(s, e))

LinesInv ==
    /\ StdinInv
    /\ pc \in {"prompt", "eof", "drain?", "drain", "strip", "trim", "answered"}
    /\ used \in Seq(Seq(Chars))
    /\ \A k \in 1 .. Len(used) : used[k] = Fitting(Line(k))
    /\ pc \in {"prompt", "eof", "answered"} => LineStart(Consumed, Len(used))
    /\ pc \in {"drain?", "drain", "strip", "trim"} =>
           \E s, e : IsLine(Len(used), s, e) /\ InTheLine(s, e)

LEMMA Room == buf_size - 1 \in Nat \ {0}
  <1>1. buf_size \in Nat /\ buf_size >= 2
    BY LineInputAssumption
  <1> QED
    BY <1>1

LEMMA TakenIs ==
    ASSUME StdinInv, NEW k, NEW e, IsLine(k, Consumed, e)
    PROVE  /\ Taken = FirstOf(TheLine(Consumed, e), buf_size - 1)
           /\ Len(Taken) \in 1 .. Len(stdin)
  <1> DEFINE most == buf_size - 1
             line == FirstOf(stdin, most)
             s == Consumed
             j == Upto(line, 1, Chars \ {"newline"})
             m == Len(line)
             size == IF j > m THEN m ELSE j
             fits == FirstOf(TheLine(s, e), most)
  <1>1. /\ most \in Nat \ {0}
        /\ s \in 0 .. Len(given) - 1 /\ e \in s + 1 .. Len(given)
        /\ Len(given) \in Nat /\ Len(stdin) = Len(given) - s
    <2>1. /\ given \in Seq(Chars) /\ Len(given) \in Nat /\ Len(stdin) \in Nat
          /\ e \in LineEnds /\ s < e /\ s \in 0 .. Len(given)
      BY DEF StdinInv, IsLine, LineStart
    <2>2. e \in 1 .. Len(given)
      BY <2>1, FiniteEnds
    <2>3. Len(stdin) = Len(given) - s
      BY <2>1 DEF Consumed
    <2>4. most \in Nat \ {0}
      BY Room
    <2> HIDE DEF s, most
    <2> QED
      BY <2>1, <2>2, <2>3, <2>4
  <1>2. /\ line \in Seq(Chars)
        /\ m = IF Len(given) - s <= most THEN Len(given) - s ELSE most
        /\ \A i \in 1 .. m : line[i] = given[s + i]
    <2>1. /\ line \in Seq(Chars)
          /\ m = IF Len(stdin) <= most THEN Len(stdin) ELSE most
          /\ \A i \in 1 .. m : line[i] = stdin[i]
      BY <1>1, FirstOfIs DEF StdinInv
    <2>2. \A i \in 1 .. m : i \in 1 .. Len(stdin)
      BY <1>1, <2>1
    <2> QED
      BY <1>1, <2>1, <2>2 DEF StdinInv
  <1>3. m \in Nat /\ First(line, 1, Chars \ {"newline"}, j)
    BY <1>1, <1>2, UptoIs
  <1>4. Taken = IF j > m THEN line ELSE SubSeq(line, 1, j)
    BY DEF Taken
  <1>5. /\ fits \in Seq(Chars)
        /\ Len(fits) = IF e - s <= most THEN e - s ELSE most
        /\ \A i \in 1 .. Len(fits) : fits[i] = given[s + i]
    <2>1. /\ TheLine(s, e) \in Seq(Chars) /\ Len(TheLine(s, e)) = e - s
          /\ \A i \in 1 .. e - s : TheLine(s, e)[i] = given[s + i]
      <3>1. given \in Seq(Chars)
        BY DEF StdinInv
      <3> HIDE DEF s, most, line, j, m, fits
      <3>2. s \in 0 .. Len(given)
        BY <1>1
      <3> QED
        BY <1>1, <3>1, <3>2, TheLineIs
    <2>2. /\ fits \in Seq(Chars)
          /\ Len(fits) = IF e - s <= most THEN e - s ELSE most
          /\ \A i \in 1 .. Len(fits) : fits[i] = TheLine(s, e)[i]
      BY <1>1, <2>1, FirstOfIs
    <2>3. \A i \in 1 .. Len(fits) : i \in 1 .. e - s
      BY <1>1, <2>2
    <2> QED
      BY <2>1, <2>2, <2>3
  <1>6. /\ e \in LineEnds /\ \A i \in s + 1 .. e - 1 : i \notin LineEnds
        /\ \A i \in 1 .. Len(given) :
               i \in LineEnds <=> given[i] = "newline" \/ i = Len(given)
    BY DEF IsLine, LineEnds
  <1> HIDE DEF most, line, s, j, m, fits
  <1>7. /\ Taken \in Seq(Chars) /\ Len(Taken) = size
        /\ \A i \in 1 .. size : Taken[i] = given[s + i]
    <2>1. CASE j > m
      BY <1>2, <1>4, <2>1 DEF m
    <2>2. CASE ~(j > m)
      <3>1. j \in 1 .. m /\ \A i \in 1 .. j : line[i] \in Chars
        BY <1>2, <1>3, <2>2 DEF First, m
      <3>2. /\ SubSeq(line, 1, j) \in Seq(Chars)
            /\ Len(SubSeq(line, 1, j)) = IF 1 <= j THEN j - 1 + 1 ELSE 0
            /\ \A i \in 1 .. j - 1 + 1 : SubSeq(line, 1, j)[i] = line[1 + i - 1]
        BY <1>3, <3>1, SubSeqProperties
      <3> QED
        BY <1>2, <1>3, <1>4, <2>2, <3>1, <3>2
    <2> QED
      BY <2>1, <2>2
  <1>8. size = Len(fits) /\ size \in 1 .. Len(stdin)
    <2>1. CASE j > m
      <3>1. \A i \in 1 .. m : given[s + i] # "newline"
        BY <1>2, <1>3, <2>1 DEF First, m
      <3>2. CASE e - s <= m
        <4>1. e - s \in 1 .. m /\ s + (e - s) = e
          BY <1>1, <1>3, <3>2
        <4>2. given[e] # "newline"
          BY <3>1, <4>1
        <4>3. e = Len(given)
          BY <1>1, <1>6, <4>2
        <4> QED
          BY <1>1, <1>2, <1>5, <2>1, <3>2, <4>3
      <3>3. CASE ~(e - s <= m)
        BY <1>1, <1>2, <1>3, <1>5, <2>1, <3>3
      <3> QED
        BY <3>2, <3>3
    <2>2. CASE ~(j > m)
      <3>1. j \in 1 .. m /\ line[j] \notin Chars \ {"newline"} /\ line[j] \in Chars
        BY <1>2, <1>3, <2>2 DEF First, m
      <3>2. given[s + j] = "newline" /\ s + j \in 1 .. Len(given)
        BY <1>1, <1>2, <3>1
      <3>3. s + j >= e
        BY <1>1, <1>6, <3>1, <3>2
      <3>4. ASSUME e < s + j PROVE FALSE
        <4>1. e - s \in 1 .. j - 1 /\ e - s \in 1 .. m /\ s + (e - s) = e
          BY <1>1, <1>3, <3>1, <3>4
        <4>2. line[e - s] # "newline"
          BY <1>3, <4>1 DEF First
        <4>3. given[e] # "newline"
          BY <1>2, <4>1, <4>2
        <4> QED
          BY <1>1, <1>6, <3>2, <3>4, <4>3
      <3>5. e = s + j
        BY <1>1, <3>1, <3>3, <3>4
      <3> QED
        BY <1>1, <1>2, <1>5, <2>2, <3>1, <3>5
    <2> QED
      BY <2>1, <2>2
  <1>9. \A i \in 1 .. Len(Taken) : Taken[i] = fits[i]
    BY <1>5, <1>7, <1>8
  <1>10. Taken = fits
    BY <1>5, <1>7, <1>8, <1>9, SeqEqual
  <1> QED
    BY <1>7, <1>8, <1>10 DEF fits, s, most
LEMMA NextLine ==
    ASSUME StdinInv, stdin # <<>>, NEW k, LineStart(Consumed, k)
    PROVE  \E e : IsLine(k, Consumed, e)
  <1>1. PICK s : s = Consumed
    OBVIOUS
  <1>2. /\ s \in 0 .. Len(given) /\ s < Len(given) /\ Len(given) \in Nat
    BY <1>1 DEF StdinInv, Consumed
  <1> DEFINE S == {i \in LineEnds : s < i}
  <1>3. Len(given) \in S /\ S \in SUBSET Nat
    BY <1>2 DEF LineEnds
  <1>4. PICK e \in S : \A i \in S : e <= i
    BY <1>3, LeastOf
  <1>5. e \in LineEnds /\ s < e /\ e \in Int
    BY <1>3, <1>4
  <1>6. ASSUME NEW i \in s + 1 .. e - 1, i \in LineEnds PROVE FALSE
    <2>1. s < i /\ ~(e <= i)
      BY <1>2, <1>5, <1>6
    <2>2. i \in S
      BY <1>6, <2>1
    <2> QED
      BY <1>4, <2>1, <2>2
  <1> QED
    BY <1>1, <1>5, <1>6 DEF IsLine

\* The lines stay what they are.
LEMMA SameInput ==
    ASSUME UNCHANGED given
    PROVE  /\ \A k, s, e : IsLine(k, s, e) => IsLine(k, s, e)'
           /\ \A s, k : LineStart(s, k) => LineStart(s, k)'
           /\ \A s, e : TheLine(s, e)' = TheLine(s, e)
           /\ \A k : Line(k)' = Line(k)
  <1>1. LineEnds' = LineEnds
    BY DEF LineEnds
  <1> QED
    BY <1>1 DEF IsLine, LineStart, Before, TheLine, Line, StartOf, EndOf

LEMMA ReadingOn ==
    ASSUME StdinInv, given' = given, NEW n \in 0 .. Len(stdin),
           stdin' = SubSeq(stdin, n + 1, Len(stdin))
    PROVE  StdinInv' /\ Consumed' = Consumed + n
  <1>1. /\ stdin \in Seq(Chars) /\ Len(stdin) \in Nat /\ Len(given) \in Nat
        /\ Len(stdin) <= Len(given)
        /\ \A i \in 1 .. Len(stdin) : stdin[i] = given[Len(given) - Len(stdin) + i]
    BY DEF StdinInv, Consumed
  <1>2. \A i \in n + 1 .. Len(stdin) : stdin[i] \in Chars
    BY <1>1
  <1>3. /\ stdin' \in Seq(Chars)
        /\ Len(stdin') = IF n + 1 <= Len(stdin) THEN Len(stdin) - (n + 1) + 1 ELSE 0
        /\ \A i \in 1 .. Len(stdin) - (n + 1) + 1 : stdin'[i] = stdin[n + 1 + i - 1]
    BY <1>1, <1>2, SubSeqProperties
  <1>4. Len(stdin') = Len(stdin) - n
    BY <1>1, <1>3
  <1>5. \A i \in 1 .. Len(stdin) - n : stdin'[i] = stdin[n + i]
    BY <1>1, <1>3
  <1>6. Consumed' = Consumed + n
    <2>1. Consumed' = Len(given) - Len(stdin')
      BY DEF Consumed
    <2>2. Consumed = Len(given) - Len(stdin)
      BY DEF Consumed
    <2>3. Len(given) \in Nat /\ Len(stdin) \in Nat
      BY <1>1
    <2> QED
      BY <1>4, <2>1, <2>2, <2>3
  <1>7. ASSUME NEW i \in 1 .. Len(stdin') PROVE stdin'[i] = given'[Consumed' + i]
    <2>1. i \in 1 .. Len(stdin) - n /\ n + i \in 1 .. Len(stdin)
      BY <1>1, <1>4, <1>7
    <2>2. stdin'[i] = given[Consumed + (n + i)]
      BY <1>1, <1>5, <2>1 DEF Consumed
    <2>3. Consumed + (n + i) = Consumed' + i
      <3>1. Consumed \in Int
        BY <1>1 DEF Consumed
      <3> QED
        BY <1>6, <3>1
    <2> QED
      BY <2>2, <2>3
  <1> QED
    BY <1>1, <1>3, <1>4, <1>6, <1>7 DEF StdinInv

\* What a step of read_line keeps.
LEMMA FgetsLines ==
    ASSUME LinesInv, Fgets
    PROVE  LinesInv'
  <1>1. /\ pc = "prompt" /\ UNCHANGED <<used, given>>
        /\ StdinInv /\ LineStart(Consumed, Len(used))
    BY DEF Fgets, LinesInv
  <1>2. CASE stdin = <<>>
    <2>1. pc' = "eof" /\ UNCHANGED <<stdin, used, given>>
      BY <1>1, <1>2 DEF Fgets
    <2> QED
      BY <1>1, <2>1, SameInput DEF LinesInv, StdinInv, Consumed
  <1>3. CASE stdin # <<>>
    <2>1. PICK k, n, s, e : /\ k = Len(used) /\ n = Len(Taken) /\ s = Consumed
                            /\ IsLine(k, s, e)
      BY <1>1, <1>3, NextLine
    <2>2. /\ pc' = "drain?" /\ buf' = Taken
          /\ stdin' = SubSeq(stdin, n + 1, Len(stdin))
      BY <1>1, <1>3, <2>1 DEF Fgets
    <2>3. Taken = FirstOf(TheLine(s, e), buf_size - 1) /\ n \in 1 .. Len(stdin)
      BY <1>1, <2>1, TakenIs
    <2>4. StdinInv' /\ Consumed' = s + Len(buf')
      <3>1. n \in 0 .. Len(stdin)
        BY <2>3
      <3> QED
        BY <1>1, <2>1, <2>2, <3>1, ReadingOn
    <2>5. InTheLine(s, e)'
      BY <1>1, <2>2, <2>3, <2>4, SameInput DEF InTheLine
    <2>6. (\E x, y : IsLine(Len(used), x, y) /\ InTheLine(x, y))'
      BY <1>1, <2>1, <2>5, SameInput
    <2> QED
      BY <1>1, <2>2, <2>4, <2>6, SameInput DEF LinesInv
  <1> QED
    BY <1>2, <1>3

\* In the middle of a line; k, s and e do not change until it is answered.
LEMMA WithinLine ==
    ASSUME LinesInv, pc \in {"drain?", "drain", "strip", "trim"}
    PROVE  \E k, s, e : /\ k = Len(used) /\ k \in Nat
                        /\ IsLine(k, s, e) /\ InTheLine(s, e)
                        /\ s \in 0 .. Len(given) /\ e \in s + 1 .. Len(given)
                        /\ e \in LineEnds
  <1>1. PICK s, e : IsLine(Len(used), s, e) /\ InTheLine(s, e)
    BY DEF LinesInv
  <1>2. /\ s \in 0 .. Len(given) /\ s < e /\ e \in LineEnds
        /\ Len(given) \in Nat /\ Len(used) \in Nat /\ given \in Seq(Chars)
    BY <1>1 DEF IsLine, LineStart, LinesInv, StdinInv
  <1>3. e \in 1 .. Len(given)
    BY <1>2, FiniteEnds
  <1>4. e \in s + 1 .. Len(given)
    BY <1>2, <1>3
  <1> QED
    BY <1>1, <1>2, <1>4

LEMMA StaysWithin ==
    ASSUME LinesInv, UNCHANGED <<used, given>>, StdinInv',
           pc' \in {"drain?", "drain", "strip", "trim"},
           NEW s, NEW e, IsLine(Len(used), s, e), InTheLine(s, e)'
    PROVE  LinesInv'
  <1>1. PICK k : k = Len(used)
    OBVIOUS
  <1>2. IsLine(k, s, e)' /\ Len(used)' = k
    BY <1>1, SameInput
  <1>3. (\E x, y : IsLine(Len(used), x, y) /\ InTheLine(x, y))'
    BY <1>1, <1>2
  <1> QED
    BY <1>3, SameInput DEF LinesInv

LEMMA CheckFitLines ==
    ASSUME "NUL" \notin Chars, LinesInv, CheckFit
    PROVE  LinesInv'
  <1>1. /\ pc = "drain?" /\ UNCHANGED <<stdin, buf, used, given>>
        /\ pc' = IF DidNotFit(CString(buf)) THEN "drain" ELSE "strip"
    BY DEF CheckFit
  <1>2. PICK k, s, e : /\ k = Len(used) /\ k \in Nat
                       /\ IsLine(k, s, e) /\ InTheLine(s, e)
                       /\ s \in 0 .. Len(given) /\ e \in s + 1 .. Len(given)
                       /\ e \in LineEnds
    BY <1>1, WithinLine
  <1>3. StdinInv /\ StdinInv' /\ Consumed' = Consumed
    BY <1>1 DEF LinesInv, StdinInv, Consumed
  <1> DEFINE n == Len(buf)
  <1>4. /\ buf \in Seq(Chars) /\ n \in 1 .. e - s
        /\ \A i \in 1 .. n : buf[i] = given[s + i]
        /\ buf = FirstOf(TheLine(s, e), buf_size - 1) /\ Consumed = s + n
    <2>1. /\ TheLine(s, e) \in Seq(Chars)
          /\ Len(TheLine(s, e)) = e - s
          /\ \A i \in 1 .. e - s : TheLine(s, e)[i] = given[s + i]
      BY <1>2, <1>3, TheLineIs DEF StdinInv
    <2>2. buf = FirstOf(TheLine(s, e), buf_size - 1) /\ Consumed = s + n
      BY <1>1, <1>2 DEF InTheLine
    <2>3. /\ buf \in Seq(Chars)
          /\ n = IF e - s <= buf_size - 1 THEN e - s ELSE buf_size - 1
          /\ \A i \in 1 .. n : buf[i] = TheLine(s, e)[i]
      BY <2>1, <2>2, Room, FirstOfIs
    <2>4. n \in 1 .. e - s
      <3>1. e - s \in Nat \ {0}
        BY <1>2
      <3>2. n = IF e - s <= buf_size - 1 THEN e - s ELSE buf_size - 1
        BY <2>3
      <3>3. PICK l, r : l = e - s /\ r = buf_size - 1
        OBVIOUS
      <3>4. l \in Nat \ {0} /\ r \in Nat \ {0}
        BY <3>1, <3>3, Room
      <3>5. n = IF l <= r THEN l ELSE r
        BY <3>2, <3>3
      <3> HIDE DEF n
      <3>6. n \in 1 .. l
        BY <3>4, <3>5
      <3> QED
        BY <3>3, <3>6
    <2> QED
      BY <1>2, <2>1, <2>2, <2>3, <2>4
  <1>5. CString(buf) = buf
    BY <1>4, WholeString
  <1>6. DidNotFit(buf) <=> given[s + n] # "newline"
    BY <1>4 DEF DidNotFit, Last
  <1> HIDE DEF n
  <1>7. /\ \A i \in s + 1 .. e - 1 : i \notin LineEnds
        /\ \A i \in 1 .. Len(given) :
               i \in LineEnds <=> given[i] = "newline" \/ i = Len(given)
        /\ Len(given) \in Nat
    BY <1>2, <1>3 DEF IsLine, LineEnds, StdinInv
  <1>8. CASE given[s + n] # "newline"
    <2>1. ASSUME NEW i \in s + 1 .. s + n PROVE given[i] # "newline"
      <3>1. CASE i = s + n
        BY <1>8, <3>1
      <3>2. CASE i # s + n
        BY <1>2, <1>4, <1>7, <3>2
      <3> QED
        BY <3>1, <3>2
    <2>2. InTheLine(s, e)'
      BY <1>1, <1>2, <1>3, <1>4, <1>5, <1>6, <1>8, <2>1, SameInput DEF InTheLine
    <2> QED
      BY <1>1, <1>2, <1>3, <1>5, <2>2, StaysWithin
  <1>9. CASE given[s + n] = "newline"
    <2>1. s + n \in LineEnds /\ s + n \in s + 1 .. e
      BY <1>2, <1>4, <1>7, <1>9
    <2>2. s + n = e
      BY <1>2, <1>4, <1>7, <2>1
    <2>3. InTheLine(s, e)'
      BY <1>1, <1>3, <1>4, <1>5, <1>6, <1>9, <2>2, SameInput DEF InTheLine
    <2> QED
      BY <1>1, <1>2, <1>3, <1>5, <2>3, StaysWithin
  <1> QED
    BY <1>8, <1>9

LEMMA DrainLines ==
    ASSUME LinesInv, Drain
    PROVE  LinesInv'
  <1>1. /\ pc = "drain" /\ UNCHANGED <<buf, used, given>>
        /\ stdin' = IF stdin = <<>> THEN stdin ELSE Tail(stdin)
        /\ pc' = IF stdin = <<>> \/ stdin[1] = "newline" THEN "strip" ELSE "drain"
    BY DEF Drain
  <1>2. PICK k, s, e : /\ k = Len(used) /\ k \in Nat
                       /\ IsLine(k, s, e) /\ InTheLine(s, e)
                       /\ s \in 0 .. Len(given) /\ e \in s + 1 .. Len(given)
                       /\ e \in LineEnds
    BY <1>1, WithinLine
  <1>3. PICK c : c = Consumed
    OBVIOUS
  <1>4. /\ buf = FirstOf(TheLine(s, e), buf_size - 1)
        /\ s < c /\ c <= e /\ \A i \in s + 1 .. c : given[i] # "newline"
    BY <1>1, <1>2, <1>3 DEF InTheLine
  <1>5. /\ given \in Seq(Chars) /\ stdin \in Seq(Chars)
        /\ Len(given) \in Nat /\ Len(stdin) \in Nat /\ c = Len(given) - Len(stdin)
        /\ \A i \in 1 .. Len(stdin) : stdin[i] = given[c + i]
    <2>1. StdinInv
      BY DEF LinesInv
    <2>2. given \in Seq(Chars) /\ stdin \in Seq(Chars)
      BY <2>1 DEF StdinInv
    <2>3. \A i \in 1 .. Len(stdin) : stdin[i] = given[Consumed + i]
      BY <2>1 DEF StdinInv
    <2>4. c = Len(given) - Len(stdin)
      BY <1>3 DEF Consumed
    <2> QED
      BY <1>3, <2>2, <2>3, <2>4, LenProperties
  <1>6. /\ \A i \in s + 1 .. e - 1 : i \notin LineEnds
        /\ \A i \in 1 .. Len(given) :
               i \in LineEnds <=> given[i] = "newline" \/ i = Len(given)
    BY <1>2 DEF IsLine, LineEnds
  <1>7. CASE stdin = <<>>
    <2>1. c = e
      BY <1>2, <1>4, <1>5, <1>7
    <2>2. pc' = "strip" /\ stdin' = stdin
      BY <1>1, <1>7
    <2>3. StdinInv' /\ Consumed' = c
      BY <1>1, <1>3, <2>2 DEF LinesInv, StdinInv, Consumed
    <2>4. InTheLine(s, e)'
      BY <1>1, <1>4, <2>1, <2>2, <2>3, SameInput DEF InTheLine
    <2> QED
      BY <1>1, <1>2, <2>2, <2>3, <2>4, StaysWithin
  <1>8. CASE stdin # <<>>
    <2>1. Len(stdin) # 0 /\ stdin' = SubSeq(stdin, 2, Len(stdin))
      BY <1>1, <1>5, <1>8, TailIsSubSeq, EmptySeq
    <2>2. StdinInv' /\ Consumed' = c + 1
      <3>1. StdinInv /\ given' = given /\ 1 \in 0 .. Len(stdin) /\ 1 + 1 = 2
        BY <1>1, <1>5, <2>1 DEF LinesInv
      <3> QED
        BY <1>3, <2>1, <3>1, ReadingOn
    <2>3. stdin[1] = given[c + 1] /\ c \in Int /\ c < Len(given)
      BY <1>5, <2>1
    <2>4. c < e
      <3>1. CASE c = e
        BY <1>2, <1>4, <1>5, <1>6, <2>3, <3>1
      <3> QED
        BY <1>2, <1>4, <2>3, <3>1
    <2>5. CASE stdin[1] = "newline"
      <3>1. c + 1 \in LineEnds /\ c + 1 \in s + 1 .. e
        <4>1. c + 1 \in s + 1 .. e
          BY <1>2, <1>4, <2>3, <2>4
        <4>2. c + 1 \in 1 .. Len(given)
          BY <1>2, <1>5, <4>1
        <4>3. given[c + 1] = "newline"
          BY <2>3, <2>5
        <4> QED
          BY <1>6, <4>1, <4>2, <4>3
      <3>2. c + 1 = e
        BY <1>2, <1>4, <1>6, <2>3, <3>1
      <3>3. pc' = "strip"
        BY <1>1, <2>5
      <3>4. InTheLine(s, e)'
        BY <1>1, <1>4, <2>2, <3>2, <3>3, SameInput DEF InTheLine
      <3> QED
        BY <1>1, <1>2, <2>2, <3>3, <3>4, StaysWithin
    <2>6. CASE stdin[1] # "newline"
      <3>1. ASSUME NEW i \in s + 1 .. c + 1 PROVE given[i] # "newline"
        BY <1>2, <1>4, <2>3, <2>6, <3>1
      <3>2. s < c + 1 /\ c + 1 <= e
        BY <1>2, <1>4, <2>3, <2>4
      <3>3. pc' = "drain"
        BY <1>1, <1>8, <2>6
      <3>4. InTheLine(s, e)'
        BY <1>1, <1>4, <2>2, <3>1, <3>2, <3>3, SameInput DEF InTheLine
      <3> QED
        BY <1>1, <1>2, <2>2, <3>3, <3>4, StaysWithin
    <2> QED
      BY <2>5, <2>6
  <1> QED
    BY <1>7, <1>8

LEMMA StripLines ==
    ASSUME "NUL" \notin Chars, LinesInv, Strip
    PROVE  LinesInv'
  <1>1. /\ pc = "strip" /\ pc' = "trim" /\ UNCHANGED <<stdin, used, given>>
        /\ buf' = StripLast(StripLast(CString(buf), "newline"), "CR")
    BY DEF Strip
  <1>2. PICK k, s, e : /\ k = Len(used) /\ k \in Nat
                       /\ IsLine(k, s, e) /\ InTheLine(s, e)
                       /\ s \in 0 .. Len(given) /\ e \in s + 1 .. Len(given)
                       /\ e \in LineEnds
    BY <1>1, WithinLine
  <1>3. StdinInv /\ StdinInv' /\ Consumed' = Consumed
    BY <1>1 DEF LinesInv, StdinInv, Consumed
  <1>4. /\ buf = FirstOf(TheLine(s, e), buf_size - 1) /\ Consumed = e
    BY <1>1, <1>2 DEF InTheLine
  <1>5. buf \in Seq(Chars)
    <2>1. TheLine(s, e) \in Seq(Chars)
      BY <1>2, <1>3, TheLineIs DEF StdinInv
    <2> QED
      BY <1>4, <2>1, Room, FirstOfIs
  <1>6. CString(buf) = buf
    BY <1>5, WholeString
  <1>7. StripLast(buf, "newline") \in Seq(Chars)
    BY <1>5, StripKeeps
  <1>8. Trim(buf') = Trim(StripLast(buf, "newline"))
    BY <1>1, <1>6, <1>7, TrimEnd DEF Blanks
  <1>9. Trim(buf') = Fitting(TheLine(s, e))
    BY <1>4, <1>6, <1>8 DEF Fitting
  <1>10. InTheLine(s, e)'
    BY <1>1, <1>3, <1>4, <1>9, SameInput DEF InTheLine
  <1> QED
    BY <1>1, <1>2, <1>3, <1>10, StaysWithin
\* What trim returns is text of the same characters.
LEMMA TrimKeeps ==
    ASSUME NEW s \in Seq(Chars)
    PROVE  Trim(s) \in Seq(Chars)
  <1>1. Len(s) \in Nat /\ 1 \in 1 .. Len(s) + 1
    OBVIOUS
  <1>2. PICK i : First(s, 1, Blanks, i)
    BY <1>1, UptoIs
  <1>3. PICK j : LastShown(s, j)
    BY <1>1, LastShownExists
  <1>4. i \in Int /\ j \in Int /\ i >= 1 /\ j <= Len(s)
    BY <1>1, <1>2, <1>3 DEF First, LastShown
  <1>5. \A k \in i .. j : s[k] \in Chars
    BY <1>1, <1>4
  <1>6. SubSeq(s, i, j) \in Seq(Chars)
    BY <1>4, <1>5, SubSeqProperties
  <1> QED
    BY <1>1, <1>2, <1>3, <1>6, TrimIs

LEMMA FittingIs ==
    ASSUME "NUL" \notin Chars, NEW line \in Seq(Chars)
    PROVE  Fitting(line) \in Seq(Chars)
  <1>1. FirstOf(line, buf_size - 1) \in Seq(Chars)
    BY Room, FirstOfIs
  <1>2. CString(FirstOf(line, buf_size - 1)) \in Seq(Chars)
    BY <1>1, WholeString
  <1> QED
    BY <1>2, StripKeeps, TrimKeeps DEF Fitting

LEMMA AnswerLines ==
    ASSUME "NUL" \notin Chars, LinesInv, Answer
    PROVE  LinesInv'
  <1>1. /\ pc = "trim" /\ pc' = "answered" /\ UNCHANGED <<stdin, given>>
        /\ used' = Append(used, Trim(buf))
    BY DEF Answer
  <1>2. PICK k, s, e : /\ k = Len(used) /\ k \in Nat
                       /\ IsLine(k, s, e) /\ InTheLine(s, e)
                       /\ s \in 0 .. Len(given) /\ e \in s + 1 .. Len(given)
                       /\ e \in LineEnds
    BY <1>1, WithinLine
  <1>3. StdinInv /\ StdinInv' /\ Consumed' = Consumed
    BY <1>1 DEF LinesInv, StdinInv, Consumed
  <1>4. given \in Seq(Chars) /\ used \in Seq(Seq(Chars))
    BY <1>3 DEF StdinInv, LinesInv
  <1>5. Consumed = e /\ Trim(buf) = Fitting(TheLine(s, e))
    BY <1>1, <1>2 DEF InTheLine
  <1>6. Trim(buf) = Fitting(Line(k + 1)) /\ Trim(buf) \in Seq(Chars)
    <2>1. TheLine(s, e) \in Seq(Chars)
      BY <1>2, <1>4, TheLineIs
    <2>2. Line(k + 1) = TheLine(s, e)
      BY <1>2, <1>4, LineIs
    <2> QED
      BY <1>5, <2>1, <2>2, FittingIs
  <1>7. /\ used' \in Seq(Seq(Chars)) /\ Len(used') = k + 1
        /\ \A i \in 1 .. k : used'[i] = used[i]
        /\ used'[k + 1] = Fitting(Line(k + 1))
    BY <1>1, <1>2, <1>4, <1>6, AppendProperties
  <1>8. \A i \in 1 .. Len(used') : used'[i] = Fitting(Line(i))'
    <2>1. \A i : Fitting(Line(i))' = Fitting(Line(i))
      BY <1>1, SameInput DEF Fitting
    <2>2. ASSUME NEW i \in 1 .. k + 1 PROVE used'[i] = Fitting(Line(i))
      <3>1. CASE i = k + 1
        BY <1>7, <3>1
      <3>2. CASE i # k + 1
        <4>1. i \in 1 .. k
          BY <1>2, <3>2
        <4> QED
          BY <1>2, <1>7, <4>1 DEF LinesInv
      <3> QED
        BY <3>1, <3>2
    <2> QED
      BY <1>7, <2>1, <2>2
  <1>9. LineStart(Consumed, Len(used))'
    <2>1. PICK m : m = k + 1
      OBVIOUS
    <2>2. LineStart(e, m)'
      BY <1>1, <1>2, <1>4, <2>1, NextStart, SameInput
    <2>3. Consumed' = e /\ Len(used)' = m
      BY <1>3, <1>5, <1>7, <2>1
    <2> QED
      BY <2>2, <2>3
  <1> QED
    BY <1>1, <1>3, <1>7, <1>8, <1>9 DEF LinesInv

\* Between two lines only the place in the program changes.
LEMMA BetweenLines ==
    ASSUME LinesInv, UNCHANGED <<stdin, used, given>>,
           pc \in {"prompt", "eof", "answered"}, pc' \in {"prompt", "eof", "answered"}
    PROVE  LinesInv'
  <1>1. StdinInv' /\ Consumed' = Consumed
    BY DEF LinesInv, StdinInv, Consumed
  <1>2. \A i : Fitting(Line(i))' = Fitting(Line(i))
    BY SameInput DEF Fitting
  <1>3. PICK c, k : c = Consumed /\ k = Len(used)
    OBVIOUS
  <1>4. LineStart(c, k)'
    BY <1>3, SameInput DEF LinesInv
  <1>5. LineStart(Consumed, Len(used))'
    BY <1>1, <1>3, <1>4
  <1> QED
    BY <1>1, <1>2, <1>5 DEF LinesInv

LEMMA InitLines ==
    ASSUME Init
    PROVE  LinesInv
  <1>1. given \in Seq(Chars) /\ stdin = given /\ used = <<>> /\ pc = "prompt"
    <2>1. given \in UNION {[1 .. m -> Chars] : m \in 0 .. MaxInput}
      BY DEF Init, BoundedSeq, SeqOf
    <2>2. PICK m \in 0 .. MaxInput : given \in [1 .. m -> Chars]
      BY <2>1, Zenon
    <2>3. given \in Seq(Chars)
      <3>1. MaxInput \in Nat
        BY LineInputAssumption
      <3>2. m \in Nat
        BY <3>1
      <3> QED
        BY <2>2, <3>2, SeqDef
    <2> QED
      BY <2>3 DEF Init
  <1>2. StdinInv /\ Consumed = 0
    BY <1>1 DEF StdinInv, Consumed
  <1>3. LineStart(0, 0)
    <2>1. Before(0) = {}
      BY <1>1, FiniteEnds DEF Before
    <2> QED
      BY <1>1, <2>1, FS_EmptySet DEF LineStart
  <1> QED
    BY <1>1, <1>2, <1>3 DEF LinesInv

LEMMA LinesInductive ==
    ASSUME "NUL" \notin Chars, LinesInv, [Next]_vars
    PROVE  LinesInv'
  <1>1. CASE Fgets
    BY <1>1, FgetsLines
  <1>2. CASE CheckFit
    BY <1>2, CheckFitLines
  <1>3. CASE Drain
    BY <1>3, DrainLines
  <1>4. CASE Strip
    BY <1>4, StripLines
  <1>5. CASE Answer
    BY <1>5, AnswerLines
  <1>6. CASE AskNext
    BY <1>6, BetweenLines DEF AskNext
  <1>7. CASE UNCHANGED vars
    <2>1. CASE pc \in {"prompt", "eof", "answered"}
      BY <1>7, <2>1, BetweenLines DEF vars
    <2>2. CASE pc \in {"drain?", "drain", "strip", "trim"}
      <3>1. PICK k, s, e : /\ k = Len(used) /\ IsLine(k, s, e) /\ InTheLine(s, e)
        BY <2>2, WithinLine
      <3>2. InTheLine(s, e)' /\ StdinInv'
        BY <1>7, <3>1, SameInput
           DEF InTheLine, LinesInv, StdinInv, Consumed, vars, TheLine
      <3> QED
        BY <1>7, <2>2, <3>1, <3>2, StaysWithin DEF vars
    <2> QED
      BY <2>1, <2>2 DEF LinesInv
  <1> QED
    BY <1>1, <1>2, <1>3, <1>4, <1>5, <1>6, <1>7
       DEF Next, PromptLine, ReadLine, AtEof

LEMMA LinesGive ==
    ASSUME LinesInv
    PROVE  OneLineOneAnswer
  <1>1. given \in Seq(Chars) /\ Len(used) \in Nat
    BY DEF LinesInv, StdinInv
  <1>2. \E s : LineStart(s, Len(used))
    BY DEF LinesInv, IsLine
  <1>3. Len(used) <= Cardinality(LineEnds)
    BY <1>1, <1>2, FiniteEnds DEF LineStart
  <1> QED
    BY <1>3 DEF LinesInv, OneLineOneAnswer

\* Whatever the input, its lines and the size of the buffer, the k-th question
\* is answered by what fits of the k-th line, and by nothing of another: as
\* long as no NUL is typed, at which strlen stops (read_line, prompt_line).
THEOREM LinesAreAnswers ==
    ASSUME "NUL" \notin Chars
    PROVE  Spec => []OneLineOneAnswer
  <1>1. Init => LinesInv
    BY InitLines
  <1>2. LinesInv /\ [Next]_vars => LinesInv'
    BY LinesInductive
  <1>3. LinesInv => OneLineOneAnswer
    BY LinesGive
  <1> QED
    BY <1>1, <1>2, <1>3, PTL DEF Spec
(*************************** Numbers ***************************************)

\* g is what the function step makes of 0 when applied 0, 1, .. n times.
Repeated(step, n, g) ==
    g = [k \in 0 .. n |-> IF k = 0 THEN 0 ELSE step[g[k - 1]]]

LEMMA RepeatedStep ==
    ASSUME NEW step, NEW n \in Nat, NEW g, Repeated(step, n, g)
    PROVE  g[0] = 0 /\ \A k \in 1 .. n : g[k] = step[g[k - 1]]
  <1>1. \A k \in 0 .. n : g[k] = IF k = 0 THEN 0 ELSE step[g[k - 1]]
    BY DEF Repeated
  <1>2. g[0] = 0
    BY <1>1
  <1>3. ASSUME NEW k \in 1 .. n PROVE g[k] = step[g[k - 1]]
    <2>1. k \in 0 .. n /\ k # 0
      OBVIOUS
    <2> QED
      BY <1>1, <2>1, Zenon
  <1> QED
    BY <1>2, <1>3, Zenon

LEMMA RepeatedExists ==
    ASSUME NEW step, NEW n \in Nat
    PROVE  \E g : Repeated(step, n, g)
  <1> DEFINE S == {m \in 0 .. n : ~\E g : Repeated(step, m, g)}
  <1>1. CASE S = {}
    BY <1>1
  <1>2. CASE S # {}
    <2>1. PICK x \in S : \A y \in S : x <= y
      <3>1. S \in SUBSET Nat
        OBVIOUS
      <3> QED
        BY <1>2, <3>1, LeastOf
    <2>2. CASE x = 0
      <3> DEFINE g == [k \in 0 .. 0 |-> 0]
      <3>1. Repeated(step, 0, g)
        BY DEF Repeated
      <3> QED
        BY <2>1, <2>2, <3>1
    <2>3. CASE x # 0
      <3>1. x - 1 \in 0 .. n /\ x - 1 \notin S
        BY <2>1, <2>3
      <3>2. PICK g : Repeated(step, x - 1, g)
        BY <3>1
      <3> DEFINE h == [k \in 0 .. x |-> IF k = 0 THEN 0 ELSE step[g[k - 1]]]
      <3>3. \A k \in 0 .. x - 1 : g[k] = IF k = 0 THEN 0 ELSE step[g[k - 1]]
        BY <3>2 DEF Repeated
      <3>4. \A k \in 0 .. x - 1 : h[k] = g[k]
        BY <3>3, <2>1
      <3>5. ASSUME NEW k \in 0 .. x, k # 0 PROVE h[k - 1] = g[k - 1]
        <4>1. k - 1 \in 0 .. x - 1
          BY <2>1, <3>5
        <4> HIDE DEF h
        <4> QED
          BY <3>4, <4>1
      <3>6. h = [k \in 0 .. x |-> IF k = 0 THEN 0 ELSE step[h[k - 1]]]
        <4>1. ASSUME NEW k \in 0 .. x
              PROVE  (IF k = 0 THEN 0 ELSE step[g[k - 1]])
                         = (IF k = 0 THEN 0 ELSE step[h[k - 1]])
          <5>1. CASE k = 0
            BY <5>1
          <5>2. CASE k # 0
            <6>1. h[k - 1] = g[k - 1]
              BY <3>5, <5>2
            <6> HIDE DEF h
            <6> QED
              BY <5>2, <6>1
          <5> QED
            BY <5>1, <5>2
        <4> QED
          BY <4>1, Zenon
      <3>7. Repeated(step, x, h)
        BY <3>6 DEF Repeated
      <3> QED
        BY <2>1, <3>7
    <2> QED
      BY <2>2, <2>3
  <1> QED
    BY <1>1, <1>2

\* The first n results are the same whether or not more follow.
LEMMA RepeatedSame ==
    ASSUME NEW step, NEW n \in Nat, NEW m \in Nat, n <= m, NEW g, NEW h,
           Repeated(step, n, g), Repeated(step, m, h)
    PROVE  g[n] = h[n]
  <1> SUFFICES ASSUME g[n] # h[n] PROVE FALSE
    OBVIOUS
  <1> DEFINE S == {k \in 0 .. n : g[k] # h[k]}
  <1>1. PICK x \in S : \A y \in S : x <= y
    <2>1. S # {} /\ S \in SUBSET Nat
      OBVIOUS
    <2> QED
      BY <2>1, LeastOf
  <1>2. x # 0
    BY <1>1, RepeatedStep
  <1>3. x \in 1 .. n /\ x \in 1 .. m /\ g[x] # h[x]
    BY <1>1, <1>2
  <1>4. x - 1 \in 0 .. n /\ x - 1 \notin S
    BY <1>1, <1>3
  <1>5. g[x - 1] = h[x - 1]
    BY <1>4
  <1>6. g[x] = step[g[x - 1]] /\ h[x] = step[h[x - 1]]
    BY <1>3, RepeatedStep
  <1> QED
    BY <1>3, <1>5, <1>6

LEMMA IteratedIs ==
    ASSUME NEW step, NEW n \in Nat
    PROVE  \E g : Repeated(step, n, g) /\ Iterated(step, n) = g[n]
  <1> DEFINE g == CHOOSE g : Repeated(step, n, g)
  <1>1. Repeated(step, n, g)
    BY RepeatedExists
  <1>2. Iterated(step, n) = g[n]
    BY DEF Iterated, Repeated
  <1> QED
    BY <1>1, <1>2

LEMMA IteratedStep ==
    ASSUME NEW step
    PROVE  /\ Iterated(step, 0) = 0
           /\ \A n \in Nat \ {0} : Iterated(step, n) = step[Iterated(step, n - 1)]
  <1>1. Iterated(step, 0) = 0
    BY IteratedIs, RepeatedStep
  <1>2. ASSUME NEW n \in Nat \ {0}
        PROVE  Iterated(step, n) = step[Iterated(step, n - 1)]
    <2>1. PICK m \in Nat : m = n - 1 /\ m <= n /\ n \in 1 .. n
      OBVIOUS
    <2>2. PICK g : Repeated(step, n, g) /\ Iterated(step, n) = g[n]
      BY IteratedIs
    <2>3. PICK h : Repeated(step, m, h) /\ Iterated(step, m) = h[m]
      BY IteratedIs
    <2>4. h[m] = g[m]
      BY <2>1, <2>2, <2>3, RepeatedSame
    <2>5. g[n] = step[g[m]]
      BY <2>1, <2>2, RepeatedStep
    <2> QED
      BY <2>1, <2>2, <2>3, <2>4, <2>5
  <1> QED
    BY <1>1, <1>2
LEMMA NinesIs ==
    /\ Nines(0) = 0
    /\ \A n \in Nat : Nines(n) \in Nat
    /\ \A n \in Nat \ {0} : Nines(n) = Nines(n - 1) * 10 + 9
  <1> DEFINE step == [v \in Nat |-> v * 10 + 9]
  <1>1. Nines(0) = 0 /\ \A n \in Nat \ {0} : Nines(n) = step[Nines(n - 1)]
    BY IteratedStep DEF Nines
  <1>2. \A n \in Nat : Nines(n) \in Nat
    <2> SUFFICES ASSUME NEW z \in Nat, Nines(z) \notin Nat PROVE FALSE
      OBVIOUS
    <2> DEFINE S == {n \in Nat : Nines(n) \notin Nat}
    <2>1. PICK x \in S : \A y \in S : x <= y
      <3>1. S # {} /\ S \in SUBSET Nat
        OBVIOUS
      <3> QED
        BY <3>1, LeastOf
    <2>2. x \in Nat \ {0} /\ Nines(x) \notin Nat
      BY <1>1, <2>1
    <2>3. PICK y \in Nat : y = x - 1 /\ ~(x <= y)
      BY <2>2
    <2>4. PICK v \in Nat : v = Nines(y)
      BY <2>1, <2>3
    <2>5. Nines(x) = step[v]
      BY <1>1, <2>2, <2>3, <2>4
    <2> QED
      BY <2>2, <2>5
  <1>3. ASSUME NEW n \in Nat \ {0} PROVE Nines(n) = Nines(n - 1) * 10 + 9
    <2>1. PICK v \in Nat : v = Nines(n - 1)
      <3>1. n - 1 \in Nat
        OBVIOUS
      <3> QED
        BY <1>2, <3>1
    <2>2. Nines(n) = step[v]
      BY <1>1, <2>1
    <2> QED
      BY <2>1, <2>2
  <1> QED
    BY <1>1, <1>2, <1>3

\* strtol reads nines as the number they are, as long as it fits.
LEMMA ValueIs ==
    ASSUME NEW n \in Nat
    PROVE  Iterated(NextDigit, n) = IF Nines(n) <= LONG_MAX + 1 THEN Nines(n)
                                    ELSE LONG_MAX + 2
  <1> DEFINE W(k) == IF Nines(k) <= LONG_MAX + 1 THEN Nines(k) ELSE LONG_MAX + 2
             V(k) == Iterated(NextDigit, k)
  <1>1. PICK L \in Nat : L = LONG_MAX
    BY LineInputAssumption
  <1>2. V(0) = 0 /\ \A k \in Nat \ {0} : V(k) = NextDigit[V(k - 1)]
    BY IteratedStep
  <1>3. SUFFICES ASSUME V(n) # W(n) PROVE FALSE
    OBVIOUS
  <1> DEFINE S == {k \in Nat : V(k) # W(k)}
  <1>4. PICK x \in S : \A y \in S : x <= y
    <2>1. S # {} /\ S \in SUBSET Nat
      BY <1>3
    <2> QED
      BY <2>1, LeastOf
  <1>5. W(0) = 0
    BY <1>1, NinesIs
  <1>6. x \in Nat \ {0} /\ V(x) # W(x)
    BY <1>2, <1>4, <1>5
  <1>7. PICK y \in Nat : y = x - 1 /\ ~(x <= y)
    BY <1>6
  <1>8. V(y) = W(y)
    BY <1>4, <1>7
  <1>9. V(x) = NextDigit[V(y)]
    BY <1>2, <1>6, <1>7
  <1> HIDE DEF V
  <1>10. PICK v, w, z : /\ v = V(y) /\ w = Nines(y) /\ z = Nines(x)
                        /\ w \in Nat /\ z = w * 10 + 9
    <2>1. Nines(y) \in Nat /\ Nines(x) = Nines(y) * 10 + 9
      BY <1>6, <1>7, NinesIs
    <2> QED
      BY <2>1
  <1>11. v = IF w <= L + 1 THEN w ELSE L + 2
    BY <1>1, <1>8, <1>10
  <1>12. v \in Nat
    BY <1>10, <1>11
  <1>13. V(x) = IF v * 10 + 9 > L + 1 THEN L + 2 ELSE v * 10 + 9
    BY <1>1, <1>9, <1>10, <1>12 DEF NextDigit
  <1>14. V(x) = IF z <= L + 1 THEN z ELSE L + 2
    BY <1>10, <1>11, <1>13
  <1> QED
    BY <1>1, <1>6, <1>10, <1>14

\* parse_int cuts s into blanks, perhaps a sign, and the digits before end.
Negative(s, sign) == sign <= Len(s) /\ s[sign] = "-"
WithSign(s, sign) == sign <= Len(s) /\ s[sign] \in Signs
Signed(s, sign, m) == IF Negative(s, sign) THEN -m ELSE m
Cut(s, sign, from, end) ==
    /\ First(s, 1, Blanks, sign)
    /\ from = IF WithSign(s, sign) THEN sign + 1 ELSE sign
    /\ First(s, from, Digits, end)

LEMMA CutIs ==
    ASSUME NEW s \in Seq(Chars), NEW sign, NEW from, NEW end, Cut(s, sign, from, end)
    PROVE  /\ Len(s) \in Nat /\ sign \in 1 .. Len(s) + 1 /\ from \in 1 .. Len(s) + 1
           /\ end \in from .. Len(s) + 1
           /\ Negative(s, sign) => WithSign(s, sign) /\ s[sign] = "-"
           /\ WithSign(s, sign) => sign <= Len(s) /\ from = sign + 1
           /\ ~WithSign(s, sign) => from = sign
           /\ \A i \in 1 .. sign - 1 : s[i] \in Blanks
           /\ \A i \in from .. end - 1 : s[i] \in Digits
           /\ First(s, 1, Blanks, sign) /\ First(s, from, Digits, end)
           /\ end - from \in Nat
  <1>1. Len(s) \in Nat
    OBVIOUS
  <1>2. First(s, 1, Blanks, sign) /\ First(s, from, Digits, end)
    BY DEF Cut
  <1>3. sign \in 1 .. Len(s) + 1
    BY <1>2 DEF First
  <1>4. /\ Negative(s, sign) => WithSign(s, sign) /\ s[sign] = "-"
        /\ WithSign(s, sign) => sign <= Len(s) /\ from = sign + 1
    BY DEF Cut, Negative, WithSign, Signs
  <1>5. ~WithSign(s, sign) => from = sign
    BY DEF Cut
  <1>6. from \in 1 .. Len(s) + 1
    BY <1>1, <1>3, <1>4, <1>5
  <1>7. end \in from .. Len(s) + 1
    BY <1>2 DEF First
  <1>8. end \in Int /\ from \in Int /\ from <= end
    BY <1>1, <1>6, <1>7
  <1>9. /\ \A i \in 1 .. sign - 1 : s[i] \in Blanks
        /\ \A i \in from .. end - 1 : s[i] \in Digits
    BY <1>2 DEF First
  <1> QED
    BY <1>1, <1>2, <1>3, <1>4, <1>5, <1>6, <1>7, <1>8, <1>9

\* Where parse_int finds a sign, digits and what follows them.
LEMMA ParsesTo ==
    ASSUME NEW s \in Seq(Chars), NEW v,
           NEW sign, NEW from, NEW end, Cut(s, sign, from, end)
    PROVE  parse_int(s) = <<v>>
               <=> /\ from < end
                   /\ Spaces(s, end, Len(s))
                   /\ v = Signed(s, sign, Nines(end - from))
                   /\ v <= INT_MAX /\ v >= -INT_MAX - 1
  <1>1. Len(s) \in Nat /\ sign \in 1 .. Len(s) + 1 /\ from \in 1 .. Len(s) + 1
    BY CutIs
  <1>2. end \in from .. Len(s) + 1
    BY CutIs
  <1>3. Upto(s, 1, Blanks) = sign
    BY <1>1, CutIs, UptoOne
  <1>4. Upto(s, from, Digits) = end
    BY <1>1, CutIs, UptoOne
  <1>5. PICK n \in Nat : n = end - from
    BY CutIs
  <1>6. Len(SubSeq(s, from, end - 1)) = n
    <2>1. \A i \in from .. end - 1 : s[i] \in Chars
      BY <1>1, <1>2
    <2>2. PICK last \in Int : last = end - 1
      BY <1>2
    <2>3. Len(SubSeq(s, from, last)) = IF from <= last THEN last - from + 1 ELSE 0
      BY <1>1, <2>1, <2>2, SubSeqProperties
    <2>4. (IF from <= last THEN last - from + 1 ELSE 0) = n
      BY <1>1, <1>2, <1>5, <2>2
    <2> QED
      BY <2>2, <2>3, <2>4
  <1> DEFINE minus == Negative(s, sign)
             long == Value(SubSeq(s, from, end - 1))
             value == IF minus THEN -long ELSE long
             after == Upto(s, end, Blanks)
  <1>7. long = IF Nines(n) <= LONG_MAX + 1 THEN Nines(n) ELSE LONG_MAX + 2
    BY <1>6, ValueIs DEF Value
  <1>8. parse_int(s) =
            IF \/ s = <<>>
               \/ long > IF minus THEN LONG_MAX + 1 ELSE LONG_MAX
               \/ end = from
               \/ after <= Len(s)
               \/ value > INT_MAX \/ value < -INT_MAX - 1
            THEN <<>> ELSE <<value>>
    BY <1>3, <1>4 DEF parse_int, NoDigits, Negative, WithSign, Cut
  <1>9. after <= Len(s) <=> ~Spaces(s, end, Len(s))
    <2>1. First(s, end, Blanks, after)
      BY <1>1, <1>2, UptoIs
    <2> HIDE DEF after
    <2>2. after \in end .. Len(s) + 1
      BY <2>1 DEF First
    <2>3. CASE after <= Len(s)
      <3>1. s[after] \notin Blanks /\ after \in end .. Len(s)
        BY <1>1, <1>2, <2>1, <2>2, <2>3 DEF First
      <3> QED
        BY <2>3, <3>1 DEF Spaces, isspace
    <2>4. CASE ~(after <= Len(s))
      <3>1. \A i \in end .. Len(s) : s[i] \in Blanks
        BY <1>1, <1>2, <2>1, <2>2, <2>4 DEF First
      <3> QED
        BY <2>4, <3>1 DEF Spaces, isspace
    <2> QED
      BY <2>3, <2>4
  <1>10. s = <<>> => end = from
    BY <1>1, <1>2
  <1> DEFINE m == Nines(n)
  <1>11. PICK L, I : L = LONG_MAX /\ I = INT_MAX /\ L \in Nat /\ I \in Nat /\ I <= L
    BY LineInputAssumption
  <1>12. m \in Nat
    BY NinesIs
  <1> HIDE DEF long, after, m, minus
  <1>13. long = IF m <= L + 1 THEN m ELSE L + 2
    BY <1>7, <1>11 DEF m
  <1> DEFINE fits == /\ ~(long > IF minus THEN L + 1 ELSE L)
                     /\ ~(value > I) /\ ~(value < -I - 1)
             signed == IF minus THEN -m ELSE m
  <1>14. fits <=> signed <= I /\ signed >= -I - 1
    <2>1. CASE minus
      BY <1>11, <1>12, <1>13, <2>1
    <2>2. CASE ~minus
      BY <1>11, <1>12, <1>13, <2>2
    <2> QED
      BY <2>1, <2>2
  <1>15. fits => value = signed
    <2>1. CASE minus
      BY <1>11, <1>12, <1>13, <2>1
    <2>2. CASE ~minus
      BY <1>11, <1>12, <1>13, <2>2
    <2> QED
      BY <2>1, <2>2
  <1>16. parse_int(s) = <<v>> <=> /\ fits /\ v = value /\ end # from
                                  /\ Spaces(s, end, Len(s))
    <2>1. parse_int(s) = IF fits /\ s # <<>> /\ end # from /\ Spaces(s, end, Len(s))
                         THEN <<value>> ELSE <<>>
      BY <1>8, <1>9, <1>11
    <2> HIDE DEF fits, value
    <2> QED
      BY <1>10, <2>1
  <1>17. end # from <=> from < end
    BY <1>1, <1>2
  <1>18. signed = Signed(s, sign, Nines(end - from))
    BY <1>5 DEF m, minus, Signed
  <1> HIDE DEF fits, value, signed
  <1>19. parse_int(s) = <<v>> <=> /\ signed <= I /\ signed >= -I - 1 /\ v = signed
                                  /\ from < end /\ Spaces(s, end, Len(s))
    BY <1>14, <1>15, <1>16, <1>17
  <1> QED
    BY <1>11, <1>18, <1>19
\* A text whose signs, digits and blanks lie as Numeral asks is cut there.
LEMMA NumeralParsed ==
    ASSUME NEW s \in Seq(Chars), NEW v, Numeral(s, v),
           NEW sign, NEW from, NEW end, Cut(s, sign, from, end)
    PROVE  /\ from < end /\ Spaces(s, end, Len(s))
           /\ v = Signed(s, sign, Nines(end - from))
  <1>1. PICK a, b \in 0 .. Len(s) :
            /\ a < b
            /\ \A j \in a + 1 .. b : s[j] \in Digits
            /\ Spaces(s, b + 1, Len(s))
            /\ \/ Spaces(s, 1, a) /\ v = Nines(b - a)
               \/ a > 0 /\ s[a] = "+" /\ Spaces(s, 1, a - 1) /\ v = Nines(b - a)
               \/ a > 0 /\ s[a] = "-" /\ Spaces(s, 1, a - 1) /\ v = -Nines(b - a)
    BY DEF Numeral
  <1>2. Len(s) \in Nat
    OBVIOUS
  <1>3. s[a + 1] = "9" /\ a + 1 \in 1 .. Len(s)
    BY <1>1, <1>2 DEF Digits
  <1>4. First(s, a + 1, Digits, b + 1)
    <2>1. CASE b + 1 > Len(s)
      BY <1>1, <1>2, <2>1 DEF First
    <2>2. CASE ~(b + 1 > Len(s))
      <3>1. s[b + 1] \in Blanks
        BY <1>1, <1>2, <2>2 DEF Spaces, isspace
      <3>2. s[b + 1] \notin Digits
        BY <3>1 DEF Blanks, Digits
      <3> QED
        BY <1>1, <1>2, <2>2, <3>2 DEF First
    <2> QED
      BY <2>1, <2>2
  <1>5. CASE Spaces(s, 1, a) /\ v = Nines(b - a)
    <2>1. First(s, 1, Blanks, a + 1)
      <3>1. \A i \in 1 .. a : s[i] \in Blanks
        BY <1>5 DEF Spaces, isspace
      <3>2. s[a + 1] \notin Blanks
        BY <1>3 DEF Blanks
      <3>3. a + 1 - 1 = a
        OBVIOUS
      <3> QED
        BY <1>2, <1>3, <3>1, <3>2, <3>3 DEF First
    <2>2. sign = a + 1
      BY <1>2, <2>1, CutIs, UptoOne
    <2>3. ~Negative(s, sign) /\ from = a + 1
      BY <1>3, <2>2, CutIs DEF Negative, WithSign, Signs
    <2>4. end = b + 1
      BY <1>2, <1>3, <1>4, <2>3, CutIs, UptoOne
    <2>5. from < end /\ end - from = b - a
      BY <1>1, <1>2, <2>3, <2>4
    <2> QED
      BY <1>1, <1>5, <2>3, <2>4, <2>5 DEF Signed
  <1>6. CASE /\ a > 0 /\ s[a] \in Signs /\ Spaces(s, 1, a - 1)
             /\ v = IF s[a] = "-" THEN -Nines(b - a) ELSE Nines(b - a)
    <2>1. First(s, 1, Blanks, a)
      <3>1. \A i \in 1 .. a - 1 : s[i] \in Blanks
        BY <1>6 DEF Spaces, isspace
      <3>2. s[a] \notin Blanks
        BY <1>6 DEF Blanks, Signs
      <3>3. a \in 1 .. Len(s) + 1
        BY <1>2, <1>6
      <3> QED
        BY <3>1, <3>2, <3>3 DEF First
    <2>2. sign = a
      <3>1. 1 \in 1 .. Len(s) + 1
        BY <1>2
      <3>2. Upto(s, 1, Blanks) = sign
        BY <1>2, <3>1, CutIs, UptoOne
      <3>3. Upto(s, 1, Blanks) = a
        BY <1>2, <2>1, <3>1, UptoOne
      <3> QED
        BY <3>2, <3>3
    <2>3. (Negative(s, sign) <=> s[a] = "-") /\ from = a + 1
      <3>1. WithSign(s, sign) /\ (Negative(s, sign) <=> s[a] = "-")
        BY <1>2, <1>6, <2>2 DEF Negative, WithSign
      <3> QED
        BY <2>2, <3>1, CutIs
    <2>4. end = b + 1
      BY <1>2, <1>3, <1>4, <2>3, CutIs, UptoOne
    <2>5. from < end /\ end - from = b - a
      BY <1>1, <1>2, <2>3, <2>4
    <2> QED
      BY <1>1, <1>6, <2>3, <2>4, <2>5 DEF Signed
  <1> QED
    BY <1>1, <1>5, <1>6 DEF Signs

LEMMA ParsedNumeral ==
    ASSUME NEW s \in Seq(Chars), NEW v,
           NEW sign, NEW from, NEW end, Cut(s, sign, from, end),
           from < end, Spaces(s, end, Len(s)),
           v = Signed(s, sign, Nines(end - from))
    PROVE  Numeral(s, v)
  <1>1. Len(s) \in Nat /\ sign \in 1 .. Len(s) + 1 /\ from \in 1 .. Len(s) + 1
    BY CutIs
  <1>2. end \in from .. Len(s) + 1 /\ \A i \in from .. end - 1 : s[i] \in Digits
    BY CutIs
  <1>3. PICK a, b \in 0 .. Len(s) : a = from - 1 /\ b = end - 1
    BY <1>1, <1>2
  <1>4. /\ a < b /\ b - a = end - from /\ b + 1 = end /\ a + 1 = from
    BY <1>1, <1>2, <1>3
  <1>5. \A j \in a + 1 .. b : s[j] \in Digits
    BY <1>2, <1>3, <1>4
  <1>6. \A i \in 1 .. sign - 1 : s[i] \in Blanks
    BY CutIs
  <1>7. CASE WithSign(s, sign)
    <2>1. a = sign /\ a > 0 /\ s[a] \in Signs
      BY <1>1, <1>3, <1>7, CutIs DEF WithSign
    <2>2. Spaces(s, 1, a - 1)
      BY <1>6, <2>1 DEF Spaces, isspace
    <2>3. v = IF s[a] = "-" THEN -Nines(b - a) ELSE Nines(b - a)
      BY <1>4, <1>7, <2>1 DEF Signed, Negative, WithSign
    <2> QED
      BY <1>4, <1>5, <2>1, <2>2, <2>3 DEF Numeral, Signs
  <1>8. CASE ~WithSign(s, sign)
    <2>1. a = sign - 1 /\ ~Negative(s, sign)
      BY <1>1, <1>3, <1>8, CutIs
    <2>2. Spaces(s, 1, a)
      BY <1>6, <2>1 DEF Spaces, isspace
    <2>3. v = Nines(b - a)
      BY <1>4, <2>1 DEF Signed
    <2> QED
      BY <1>4, <1>5, <2>2, <2>3 DEF Numeral
  <1> QED
    BY <1>7, <1>8

\* parse_int reads a text as v exactly when it is a numeral for v in range.
LEMMA ParsesNumerals ==
    ASSUME NEW s \in Seq(Chars), NEW v
    PROVE  parse_int(s) = <<v>>
               <=> Numeral(s, v) /\ v <= INT_MAX /\ v >= -INT_MAX - 1
  <1>1. Len(s) \in Nat /\ 1 \in 1 .. Len(s) + 1
    OBVIOUS
  <1>2. PICK sign : First(s, 1, Blanks, sign)
    BY <1>1, UptoIs
  <1>3. PICK from : from = IF WithSign(s, sign) THEN sign + 1 ELSE sign
    OBVIOUS
  <1>4. from \in 1 .. Len(s) + 1
    <2>1. sign \in 1 .. Len(s) + 1
      BY <1>1, <1>2 DEF First
    <2>2. WithSign(s, sign) => sign <= Len(s)
      BY DEF WithSign
    <2>3. (from = sign + 1 /\ WithSign(s, sign)) \/ from = sign
      BY <1>3
    <2> QED
      BY <1>1, <2>1, <2>2, <2>3
  <1>5. PICK end : First(s, from, Digits, end)
    BY <1>1, <1>4, UptoIs
  <1>6. Cut(s, sign, from, end)
    BY <1>2, <1>3, <1>5 DEF Cut
  <1>7. Numeral(s, v) <=> /\ from < end /\ Spaces(s, end, Len(s))
                          /\ v = Signed(s, sign, Nines(end - from))
    BY <1>6, NumeralParsed, ParsedNumeral
  <1> QED
    BY <1>6, <1>7, ParsesTo
\* Whatever the program reads, keeps and returns is made of the characters given.
TextInv ==
    /\ stdin \in Seq(Chars) /\ buf \in Seq(Chars)
    /\ \A k \in 1 .. Len(used) : used[k] \in Seq(Chars)
    /\ Len(used) \in Nat /\ used \in Seq(Seq(Chars))

LEMMA PartOf ==
    ASSUME NEW s \in Seq(Chars), NEW i \in Nat \ {0}, NEW j \in Int, j <= Len(s)
    PROVE  SubSeq(s, i, j) \in Seq(Chars)
  <1>1. \A k \in i .. j : s[k] \in Chars
    OBVIOUS
  <1> QED
    BY <1>1, SubSeqProperties

LEMMA CStringKeeps ==
    ASSUME NEW s \in Seq(Chars)
    PROVE  CString(s) \in Seq(Chars)
  <1>1. Len(s) \in Nat /\ 1 \in 1 .. Len(s) + 1 /\ 1 \in Nat \ {0}
    OBVIOUS
  <1>2. PICK u : u = Upto(s, 1, Chars \ {"NUL"})
    OBVIOUS
  <1>3. First(s, 1, Chars \ {"NUL"}, u)
    BY <1>1, <1>2, UptoIs
  <1>4. u - 1 \in Int /\ u - 1 <= Len(s)
    BY <1>1, <1>3 DEF First
  <1> QED
    BY <1>1, <1>2, <1>4, PartOf DEF CString

LEMMA TakenKeeps ==
    ASSUME stdin \in Seq(Chars)
    PROVE  Taken \in Seq(Chars) /\ Len(Taken) \in Nat
  <1>1. PICK line : line = FirstOf(stdin, buf_size - 1)
    OBVIOUS
  <1>2. line \in Seq(Chars)
    BY <1>1, Room, FirstOfIs
  <1>3. Len(line) \in Nat /\ 1 \in 1 .. Len(line) + 1 /\ 1 \in Nat \ {0}
    BY <1>2
  <1>4. PICK j : j = Upto(line, 1, Chars \ {"newline"})
    OBVIOUS
  <1>5. First(line, 1, Chars \ {"newline"}, j)
    BY <1>3, <1>4, UptoIs
  <1>6. j \in Int
    BY <1>3, <1>5 DEF First
  <1>7. Taken = IF j > Len(line) THEN line ELSE SubSeq(line, 1, j)
    BY <1>1, <1>4 DEF Taken
  <1>8. CASE j > Len(line)
    BY <1>2, <1>3, <1>7, <1>8
  <1>9. CASE ~(j > Len(line))
    <2>1. SubSeq(line, 1, j) \in Seq(Chars)
      BY <1>2, <1>3, <1>6, <1>9, PartOf
    <2> QED
      BY <1>7, <1>9, <2>1
  <1> QED
    BY <1>8, <1>9

LEMMA TrimInPlaceKeeps ==
    ASSUME NEW s \in Seq(Chars)
    PROVE  TrimInPlace(s) \in Seq(Chars)
  <1>1. Len(s) \in Nat /\ 1 \in 1 .. Len(s) + 1 /\ 1 \in Nat \ {0}
    OBVIOUS
  <1>2. PICK u : u = Upto(s, 1, Blanks)
    OBVIOUS
  <1>3. First(s, 1, Blanks, u)
    BY <1>1, <1>2, UptoIs
  <1>4. u - 1 \in Int /\ u - 1 <= Len(s)
    BY <1>1, <1>3 DEF First
  <1>5. SubSeq(s, 1, u - 1) \in Seq(Chars)
    BY <1>1, <1>4, PartOf
  <1>6. SubSeq(s, 1, u - 1) \o Trim(s) \in Seq(Chars)
    BY <1>5, TrimKeeps, ConcatProperties
  <1> QED
    BY <1>2, <1>6 DEF TrimInPlace

LEMMA TextInductive ==
    ASSUME TextInv, [Next]_vars
    PROVE  TextInv'
  <1>1. CASE Fgets
    <2>1. CASE stdin = <<>>
      BY <1>1, <2>1 DEF Fgets, TextInv
    <2>2. CASE stdin # <<>>
      <3>1. PICK n : n = Len(Taken)
        OBVIOUS
      <3>2. Taken \in Seq(Chars) /\ n \in Nat
        BY <3>1, TakenKeeps DEF TextInv
      <3>3. SubSeq(stdin, n + 1, Len(stdin)) \in Seq(Chars)
        <4>1. n + 1 \in Nat \ {0} /\ Len(stdin) \in Int /\ Len(stdin) <= Len(stdin)
          BY <3>2 DEF TextInv
        <4> QED
          BY <4>1, PartOf DEF TextInv
      <3> QED
        BY <1>1, <2>2, <3>1, <3>2, <3>3 DEF Fgets, TextInv
    <2> QED
      BY <2>1, <2>2
  <1>2. CASE CheckFit
    BY <1>2 DEF CheckFit, TextInv
  <1>3. CASE Drain
    <2>1. stdin # <<>> => Tail(stdin) \in Seq(Chars)
      BY HeadTailProperties DEF TextInv
    <2> QED
      BY <1>3, <2>1 DEF Drain, TextInv
  <1>4. CASE Strip
    <2>1. StripLast(StripLast(CString(buf), "newline"), "CR") \in Seq(Chars)
      BY CStringKeeps, StripKeeps DEF TextInv
    <2> QED
      BY <1>4, <2>1 DEF Strip, TextInv
  <1>5. CASE Answer
    <2>1. Trim(buf) \in Seq(Chars) /\ TrimInPlace(buf) \in Seq(Chars)
      BY TrimKeeps, TrimInPlaceKeeps DEF TextInv
    <2>2. used' \in Seq(Seq(Chars))
      BY <1>5, <2>1, AppendProperties DEF Answer, TextInv
    <2> QED
      BY <1>5, <2>1, <2>2 DEF Answer, TextInv
  <1>6. CASE AskNext
    BY <1>6 DEF AskNext, TextInv
  <1>7. CASE UNCHANGED vars
    BY <1>7 DEF vars, TextInv
  <1> QED
    BY <1>1, <1>2, <1>3, <1>4, <1>5, <1>6, <1>7
       DEF Next, PromptLine, ReadLine, AtEof

LEMMA InitText == Init => TextInv
  <1> SUFFICES ASSUME Init PROVE TextInv
    OBVIOUS
  <1>1. LinesInv
    BY InitLines
  <1> QED
    BY <1>1 DEF Init, TextInv, LinesInv, StdinInv

\* Every text that prompt_line can return or leave in the buffer, of any length, is
\* read by parse_int as a number exactly when all of it is a numeral and the
\* number is an int; saturation in strtol never passes for a value.
THEOREM NumbersAreRead == Spec => []ParsesStrictly
  <1>1. Init => TextInv
    BY InitText
  <1>2. TextInv /\ [Next]_vars => TextInv'
    BY TextInductive
  <1>3. TextInv => ParsesStrictly
    BY ParsesNumerals DEF TextInv, ParsesStrictly, ReadsAs
  <1> QED
    BY <1>1, <1>2, <1>3, PTL DEF Spec
=============================================================================
