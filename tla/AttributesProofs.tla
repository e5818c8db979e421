--------------------------- MODULE AttributesProofs ---------------------------
(***************************************************************************)
(* Proofs, for every text, that parseAttributes stays inside its input,    *)
(* that its loop ends, and that it reads the attributes the text means or  *)
(* refuses it for a known reason.                                          *)
(***************************************************************************)
EXTENDS Attributes, TLAPS, SequenceTheorems, FunctionTheorems, FiniteSetTheorems,
        WellFoundedInduction

-----------------------------------------------------------------------------
(* The scans.                                                              *)

(* A non-empty set of naturals has a least element.                        *)
LEMMA MinIsLeast ==
  ASSUME NEW ks \in SUBSET Nat, ks # {}
  PROVE  /\ Min(ks) \in ks
         /\ \A j \in ks : Min(ks) <= j
<1> DEFINE less == {p \in Nat \X Nat : p[1] < p[2]}
<1>1. IsWellFoundedOn(less, Nat)
  BY NatLessThanWellFounded DEF OpToRel
<1>2. PICK x \in ks : \A y \in ks : <<y, x>> \notin less
  <2> HIDE DEF less
  <2> QED BY <1>1, WFMin
<1>3. ASSUME NEW y \in ks PROVE x <= y
  <2>1. x \in Nat /\ y \in Nat
    OBVIOUS
  <2>2. <<y, x>> \notin less
    BY <1>2
  <2> QED BY <2>1, <2>2 DEF less
<1> QED BY <1>2, <1>3 DEF Min

(* A scan from a position inside the text or behind it ends at a stop or   *)
(* behind the text, and passes no stop.                                    *)
LEMMA ScanEnds ==
  ASSUME NEW s \in Seq(Character), NEW i \in 1..(Len(s) + 1), NEW stops \in SUBSET (1..Len(s))
  PROVE  /\ FirstFrom(s, i, stops) \in i..(Len(s) + 1)
         /\ FirstFrom(s, i, stops) <= Len(s) => FirstFrom(s, i, stops) \in stops
         /\ \A j \in i..(FirstFrom(s, i, stops) - 1) : j \notin stops
<1> DEFINE ks == {j \in stops : j >= i} \cup {Len(s) + 1}
<1>1. Len(s) \in Nat
  BY LenProperties
<1>2. ks \in SUBSET Nat /\ ks # {} /\ \A k \in ks : k \in i..(Len(s) + 1)
  <2>1. Len(s) + 1 \in ks
    OBVIOUS
  <2>2. ASSUME NEW k \in ks PROVE k \in Nat /\ k \in i..(Len(s) + 1)
    <3>1. CASE k = Len(s) + 1
      BY <1>1, <3>1
    <3>2. CASE k \in stops /\ k >= i
      <4>1. k \in 1..Len(s)
        BY <3>2
      <4> QED BY <1>1, <3>2, <4>1
    <3> QED BY <2>2, <3>1, <3>2
  <2> QED BY <2>1, <2>2
<1>3. Min(ks) \in ks /\ \A j \in ks : Min(ks) <= j
  <2> HIDE DEF ks
  <2> QED BY <1>2, MinIsLeast
<1>4. FirstFrom(s, i, stops) = Min(ks)
  BY DEF FirstFrom
<1> DEFINE m == Min(ks)
<1> HIDE DEF m
<1>5. m \in ks /\ \A j \in ks : m <= j
  BY <1>3 DEF m
<1>6. m \in i..(Len(s) + 1) /\ (m <= Len(s) => m \in stops)
  BY <1>1, <1>2, <1>5
<1>7. ASSUME NEW j \in i..(m - 1) PROVE j \notin stops
  BY <1>1, <1>5, <1>6
<1> QED BY <1>4, <1>6, <1>7 DEF m

(* Where a text has a character of a kind there is a character.            *)
LEMMA AtInside ==
  ASSUME NEW s \in Seq(Character), NEW kind
  PROVE  /\ At(s, kind) \in SUBSET (1..Len(s))
         /\ UnescapedQuotes(s) \in SUBSET (1..Len(s))
         /\ Len(s) \in Nat /\ DOMAIN s = 1..Len(s)
BY LenProperties DEF At, UnescapedQuotes

-----------------------------------------------------------------------------
(* The inductive invariant: the value that is being read begins before the *)
(* position, inside a text that is not empty.                              *)
ScanInv ==
  /\ TypeOK
  /\ Len(input) >= 1
  /\ pc \in {"value", "unquote"} => valueStart < position

LEMMA InitScan == Init => ScanInv
<1> SUFFICES ASSUME Init PROVE ScanInv
  OBVIOUS
<1>1. input \in Seq(Character) /\ input # <<>>
  BY AttributesAssumption DEF Init
<1>2. Len(input) \in Nat /\ Len(input) >= 1
  BY <1>1, LenProperties, EmptySeq
<1>3. key \in Seq(Character \ {Equals, Space})
  BY DEF Init
<1> QED BY <1>1, <1>2, <1>3 DEF Init, ScanInv, TypeOK

(* A key is made of characters of the text.                                *)
LEMMA KeyOfText ==
  ASSUME NEW s \in Seq(Character), NEW start \in 1..Len(s), NEW end \in start..Len(s),
         \A j \in start..(end - 1) : j \notin At(s, {Equals, Space})
  PROVE  SubSeq(s, start, end - 1) \in Seq(Character \ {Equals, Space})
<1>1. Len(s) \in Nat /\ DOMAIN s = 1..Len(s)
  BY LenProperties
<1>2. ASSUME NEW j \in start..(end - 1)
      PROVE  s[j] \in Character \ {Equals, Space}
  <2>1. j \in 1..Len(s)
    BY <1>1
  <2>2. s[j] \in Character
    BY <2>1, ElementOfSeq
  <2>3. j \notin At(s, {Equals, Space})
    OBVIOUS
  <2> QED BY <1>1, <2>1, <2>2, <2>3 DEF At
<1>3. start \in Int /\ end - 1 \in Int
  BY <1>1
<1> QED BY <1>1, <1>2, <1>3, SubSeqProperties

(* Every step keeps to the text and none goes back; a key takes at least   *)
(* one character, so every turn of the loop gets on.                       *)
Forward ==
  /\ position' >= position
  /\ pc = "key" /\ pc' = "open" => position' > position

LEMMA ReadKeyScan ==
  ASSUME ScanInv, ReadKey
  PROVE  ScanInv' /\ Forward
<1> DEFINE start == FirstFrom(input, position, At(input, Character \ {Space}))
           end   == FirstFrom(input, start, At(input, {Equals, Space}))
<1>1. /\ input \in Seq(Character) /\ position \in 1..(Len(input) + 1)
      /\ pc = "key" /\ start <= Len(input)
      /\ UNCHANGED <<input, valueStart, attrs>>
  BY DEF ScanInv, TypeOK, ReadKey
<1>2. /\ Len(input) \in Nat
      /\ At(input, Character \ {Space}) \in SUBSET (1..Len(input))
      /\ At(input, {Equals, Space}) \in SUBSET (1..Len(input))
  BY <1>1, AtInside
<1>3. start \in position..(Len(input) + 1)
  BY <1>1, <1>2, ScanEnds
<1>4. /\ start \in 1..Len(input) /\ start \in 1..(Len(input) + 1) /\ start >= position
  BY <1>1, <1>2, <1>3
<1>5. (end = start \/ end > Len(input) \/ input[end] # Equals)
        => position' = end /\ key' = key /\ Proceed("INVALID_ATTRIBUTE", "open")
  BY DEF ReadKey
<1>6. ~(end = start \/ end > Len(input) \/ input[end] # Equals)
        => /\ position' = end + 1 /\ Proceed(NoError, "open")
           /\ key' = SubSeq(input, start, end - 1)
  BY DEF ReadKey
<1> HIDE DEF start
<1>7. /\ end \in start..(Len(input) + 1)
      /\ \A j \in start..(end - 1) : j \notin At(input, {Equals, Space})
  BY <1>1, <1>2, <1>4, ScanEnds
<1> HIDE DEF end
<1>8. CASE end = start \/ end > Len(input) \/ input[end] # Equals
  <2>1. position' = end /\ key' = key /\ error' = "INVALID_ATTRIBUTE" /\ pc' = "returned"
    BY <1>5, <1>8 DEF Proceed, NoError
  <2>2. end \in 1..(Len(input) + 1) /\ end >= position
    BY <1>1, <1>2, <1>4, <1>7
  <2> QED BY <1>1, <2>1, <2>2 DEF ScanInv, TypeOK, Forward
<1>9. CASE ~(end = start \/ end > Len(input) \/ input[end] # Equals)
  <2>1. /\ position' = end + 1 /\ error' = NoError /\ pc' = "open"
        /\ key' = SubSeq(input, start, end - 1)
    BY <1>6, <1>9 DEF Proceed
  <2>2. end \in start..Len(input) /\ end + 1 \in 1..(Len(input) + 1) /\ end + 1 > position
    BY <1>1, <1>2, <1>4, <1>7, <1>9
  <2>3. key' \in Seq(Character \ {Equals, Space})
    BY <1>1, <1>4, <1>7, <2>1, <2>2, KeyOfText
  <2>4. position' \in 1..(Len(input) + 1) /\ position' > position /\ position' >= position
    BY <1>1, <1>2, <2>1, <2>2
  <2> QED BY <1>1, <2>1, <2>3, <2>4 DEF ScanInv, TypeOK, Forward
<1> QED BY <1>8, <1>9

LEMMA OpenQuoteScan ==
  ASSUME ScanInv, OpenQuote
  PROVE  ScanInv' /\ Forward
<1>1. /\ position \in 1..(Len(input) + 1) /\ Len(input) \in Nat /\ pc = "open"
      /\ UNCHANGED <<input, key, attrs>>
  BY LenProperties DEF ScanInv, TypeOK, OpenQuote
<1>2. CASE position > Len(input) \/ input[position] # Quote
  <2>1. /\ UNCHANGED <<position, valueStart>>
        /\ error' = "ATTRIBUTES_MUST_BE_QUOTED" /\ pc' = "returned"
    BY <1>2 DEF OpenQuote, Proceed, NoError
  <2> QED BY <1>1, <2>1 DEF ScanInv, TypeOK, Forward
<1>3. CASE ~(position > Len(input) \/ input[position] # Quote)
  <2>1. /\ valueStart' = position /\ position' = position + 1
        /\ error' = NoError /\ pc' = "value"
    BY <1>3 DEF OpenQuote, Proceed
  <2>2. /\ position \in 1..Len(input) /\ position + 1 \in 1..(Len(input) + 1)
        /\ position' >= position /\ valueStart' < position'
    BY <1>1, <1>3, <2>1
  <2> QED BY <1>1, <2>1, <2>2 DEF ScanInv, TypeOK, Forward
<1> QED BY <1>2, <1>3

LEMMA ReadValueScan ==
  ASSUME ScanInv, ReadValue
  PROVE  ScanInv' /\ Forward
<1> DEFINE close == FirstFrom(input, position, UnescapedQuotes(input))
           end   == Min({close, Len(input)})
<1>1. /\ input \in Seq(Character) /\ position \in 1..(Len(input) + 1) /\ pc = "value"
      /\ Len(input) >= 1 /\ valueStart < position /\ valueStart \in Nat
      /\ UNCHANGED <<input, key, valueStart, attrs>>
      /\ position' = end + 1
      /\ Proceed(IF input[end] = Quote THEN NoError ELSE "UNTERMINATED_ATTRIBUTE", "unquote")
  BY DEF ScanInv, TypeOK, ReadValue
<1>2. Len(input) \in Nat /\ UnescapedQuotes(input) \in SUBSET (1..Len(input))
  BY <1>1, AtInside
<1>3. close \in position..(Len(input) + 1)
  BY <1>1, <1>2, ScanEnds
<1> HIDE DEF close
<1>4. end \in {close, Len(input)} /\ end <= close /\ end <= Len(input)
  <2>1. {close, Len(input)} \in SUBSET Nat /\ {close, Len(input)} # {}
    BY <1>1, <1>2, <1>3
  <2>2. /\ Min({close, Len(input)}) \in {close, Len(input)}
        /\ \A j \in {close, Len(input)} : Min({close, Len(input)}) <= j
    BY <2>1, MinIsLeast
  <2> QED BY <2>2
<1> HIDE DEF end
<1>5. /\ end + 1 \in 1..(Len(input) + 1) /\ end + 1 >= position /\ valueStart < end + 1
  BY <1>1, <1>2, <1>3, <1>4
<1>6. /\ pc' \in {"unquote", "returned"}
      /\ error' \in {NoError, "UNTERMINATED_ATTRIBUTE"}
  BY <1>1 DEF Proceed
<1> QED BY <1>1, <1>5, <1>6 DEF ScanInv, TypeOK, Forward

LEMMA UnquoteValueScan ==
  ASSUME ScanInv, UnquoteValue
  PROVE  ScanInv' /\ Forward
<1>1. /\ pc = "unquote" /\ UNCHANGED <<input, position, key, valueStart>>
      /\ position \in Nat
  BY LenProperties DEF ScanInv, TypeOK, UnquoteValue
<1>2. pc' \in {"key", "returned"} /\ error' \in {NoError, "INVALID_SYNTAX"}
  BY DEF UnquoteValue, Proceed
<1> QED BY <1>1, <1>2 DEF ScanInv, TypeOK, Forward

LEMMA ReturnScan ==
  ASSUME ScanInv, ReturnAttributes
  PROVE  ScanInv' /\ Forward
<1>1. /\ pc' = "returned" /\ position' = Len(input) + 1 /\ Len(input) \in Nat
      /\ position \in 1..(Len(input) + 1)
      /\ UNCHANGED <<input, key, valueStart, attrs, error>>
  BY LenProperties DEF ScanInv, TypeOK, ReturnAttributes
<1>2. position' \in 1..(Len(input) + 1) /\ position' >= position
  BY <1>1
<1> QED BY <1>1, <1>2 DEF ScanInv, TypeOK, Forward

(* No scan leaves the text, whatever it is: no index of parseAttributes is *)
(* out of range (compile.go:167-207).                                      *)
THEOREM ScanInvariant == Spec => []ScanInv
<1>1. ScanInv /\ [Next]_vars => ScanInv'
  <2> SUFFICES ASSUME ScanInv, [Next]_vars PROVE ScanInv'
    OBVIOUS
  <2>1. CASE UNCHANGED vars
    BY <2>1 DEF vars, ScanInv, TypeOK
  <2>2. CASE Next
    BY <2>1, <2>2, ReadKeyScan, OpenQuoteScan, ReadValueScan, UnquoteValueScan, ReturnScan
       DEF Next, Returned
  <2> QED BY <2>1, <2>2
<1> QED BY <1>1, InitScan, PTL DEF Spec

(* The kinds of values of the scanner, for every text.                     *)
THEOREM TypeCorrect == Spec => []TypeOK
<1>1. ScanInv => TypeOK
  BY DEF ScanInv
<1> QED BY <1>1, ScanInvariant, PTL

(* The loop never goes back and every turn of it takes at least one        *)
(* character of the text, so it ends (compile.go:170-205).                 *)
THEOREM LoopAdvances == Spec => [][Forward]_vars
<1>1. ScanInv /\ [Next]_vars => [Forward]_vars
  <2> SUFFICES ASSUME ScanInv, Next, ~(UNCHANGED vars) PROVE Forward
    OBVIOUS
  <2> QED BY ReadKeyScan, OpenQuoteScan, ReadValueScan, UnquoteValueScan, ReturnScan
          DEF Next, Returned
<1> QED BY <1>1, ScanInvariant, PTL DEF Spec

-----------------------------------------------------------------------------
(* Backslashes.                                                            *)

(* The backslashes directly before place j, behind the opening quote.      *)
Run(s, open, j) == {i \in (open + 1)..(j - 1) : \A h \in i..(j - 1) : s[h] = Backslash}

LEMMA Parity ==
  ASSUME NEW n \in Nat
  PROVE  /\ (n + 1) % 2 = 0 <=> n % 2 # 0
         /\ 0 % 2 = 0
OBVIOUS

LEMMA RunFinite ==
  ASSUME NEW s, NEW open \in Nat, NEW j \in Nat
  PROVE  IsFiniteSet(Run(s, open, j)) /\ Cardinality(Run(s, open, j)) \in Nat
<1>1. Run(s, open, j) \in SUBSET ((open + 1)..(j - 1))
  BY DEF Run
<1>2. IsFiniteSet((open + 1)..(j - 1))
  BY FS_Interval
<1> QED BY <1>1, <1>2, FS_Subset, FS_CardinalityType

LEMMA UnescapedByRun ==
  ASSUME NEW s, NEW open, NEW j
  PROVE  Unescaped(s, open, j) <=> Cardinality(Run(s, open, j)) % 2 = 0
BY DEF Unescaped, Run

(* A backslash changes whether the next character is taken along; behind   *)
(* any other character, and behind the opening quote, it is not.           *)
LEMMA UnescapedNext ==
  ASSUME NEW s, NEW open \in Nat, NEW j \in Nat, j >= open + 1
  PROVE  /\ Unescaped(s, open, open + 1)
         /\ s[j] # Backslash => Unescaped(s, open, j + 1)
         /\ s[j] = Backslash => (Unescaped(s, open, j + 1) <=> ~Unescaped(s, open, j))
<1>0. 0 % 2 = 0
  BY Parity
<1>1. Unescaped(s, open, open + 1)
  <2>1. Run(s, open, open + 1) = {}
    BY DEF Run
  <2>2. Cardinality(Run(s, open, open + 1)) = 0
    BY <2>1, FS_EmptySet
  <2> QED BY <1>0, <2>2, UnescapedByRun
<1>2. ASSUME s[j] # Backslash PROVE Unescaped(s, open, j + 1)
  <2>1. ASSUME NEW i \in Run(s, open, j + 1) PROVE FALSE
    <3>1. i \in (open + 1)..j /\ \A h \in i..j : s[h] = Backslash
      BY DEF Run
    <3>2. j \in i..j
      BY <3>1
    <3> QED BY <1>2, <3>1, <3>2
  <2>2. Run(s, open, j + 1) = {}
    BY <2>1
  <2>3. Cardinality(Run(s, open, j + 1)) = 0
    BY <2>2, FS_EmptySet
  <2> QED BY <1>0, <2>3, UnescapedByRun
<1>3. ASSUME s[j] = Backslash
      PROVE  Unescaped(s, open, j + 1) <=> ~Unescaped(s, open, j)
  <2>1. ASSUME NEW i \in Run(s, open, j + 1), i # j PROVE i \in Run(s, open, j)
    <3>1. i \in (open + 1)..j /\ \A h \in i..j : s[h] = Backslash
      BY DEF Run
    <3>2. i \in (open + 1)..(j - 1) /\ \A h \in i..(j - 1) : h \in i..j
      BY <2>1, <3>1
    <3> QED BY <3>1, <3>2 DEF Run
  <2>2. ASSUME NEW i \in Run(s, open, j) PROVE i \in Run(s, open, j + 1)
    <3>1. i \in (open + 1)..(j - 1) /\ \A h \in i..(j - 1) : s[h] = Backslash
      BY DEF Run
    <3>2. i \in (open + 1)..j /\ \A h \in i..j : h = j \/ h \in i..(j - 1)
      BY <3>1
    <3>3. \A h \in i..((j + 1) - 1) : s[h] = Backslash
      BY <1>3, <3>1, <3>2
    <3> QED BY <3>2, <3>3 DEF Run
  <2>3. j \in Run(s, open, j + 1)
    <3>1. j \in (open + 1)..((j + 1) - 1) /\ \A h \in j..((j + 1) - 1) : h = j
      OBVIOUS
    <3> QED BY <1>3, <3>1 DEF Run
  <2>4. j \notin Run(s, open, j)
    BY DEF Run
  <2>5. Run(s, open, j + 1) = Run(s, open, j) \cup {j}
    BY <2>1, <2>2, <2>3
  <2>6. IsFiniteSet(Run(s, open, j)) /\ Cardinality(Run(s, open, j)) \in Nat
    BY RunFinite
  <2>7. Cardinality(Run(s, open, j + 1)) = Cardinality(Run(s, open, j)) + 1
    BY <2>4, <2>5, <2>6, FS_AddElement
  <2> QED BY <2>6, <2>7, UnescapedByRun, Parity
<1> QED BY <1>1, <1>2, <1>3

-----------------------------------------------------------------------------
(* What strconv.Unquote and the reference reading are, for any text: the   *)
(* two recursive definitions go from a place to later ones, so a solution  *)
(* behind a place is one from that place on, and the equation holds.       *)

(* A set that holds the last place, and every place before one it holds.   *)
LEMMA DownToFirst ==
  ASSUME NEW n \in Nat, NEW S \in SUBSET Nat, n \in S,
         \A k \in 1..n : k + 1 \in S \/ k = n => k \in S
  PROVE  \A k \in 1..n : k \in S
<1> DEFINE less == {p \in Nat \X Nat : p[1] < p[2]}
           Bad  == {m \in Nat : m < n /\ n - m \notin S}
<1> SUFFICES ASSUME NEW k \in 1..n, k \notin S PROVE FALSE
  OBVIOUS
<1>1. Bad \in SUBSET Nat /\ n - k \in Bad
  OBVIOUS
<1>2. PICK x \in Bad : \A y \in Bad : <<y, x>> \notin less
  <2>1. IsWellFoundedOn(less, Nat)
    BY NatLessThanWellFounded DEF OpToRel
  <2> HIDE DEF less, Bad
  <2> QED BY <1>1, <2>1, WFMin
<1>3. x \in Nat /\ x < n /\ n - x \notin S /\ n - x \in 1..n
  OBVIOUS
<1>4. x # 0 /\ n - x # n
  BY <1>3
<1>5. x - 1 \in Nat /\ x - 1 < n /\ <<x - 1, x>> \in less
  BY <1>3, <1>4
<1>6. n - (x - 1) \in S
  BY <1>2, <1>5
<1>7. n - (x - 1) = (n - x) + 1
  BY <1>3
<1> QED BY <1>3, <1>6, <1>7

(* The equation of Unquote at place i, and that it looks at later places.  *)
UnquotedStep(body, g, i) ==
  IF i > Len(body) THEN IF i = Len(body) + 1 THEN {<<>>} ELSE {}
  ELSE IF body[i] = Quote THEN {}
  ELSE IF body[i] # Backslash THEN {<<body[i]>> \o v : v \in g[i + 1]}
  ELSE IF i < Len(body) /\ body[i + 1] \in {Quote, Backslash}
       THEN {<<body[i + 1]>> \o v : v \in g[i + 2]}
       ELSE {}

LEMMA UnquotedStepLater ==
  ASSUME NEW body, Len(body) \in Nat, NEW g, NEW h, NEW i \in 1..(Len(body) + 2),
         \A j \in (i + 1)..(Len(body) + 2) : g[j] = h[j]
  PROVE  UnquotedStep(body, g, i) = UnquotedStep(body, h, i)
<1>1. CASE i > Len(body)
  BY <1>1 DEF UnquotedStep
<1>2. CASE i <= Len(body)
  <2>1. i + 1 \in (i + 1)..(Len(body) + 2) /\ i + 2 \in (i + 1)..(Len(body) + 2)
    BY <1>2
  <2>2. g[i + 1] = h[i + 1] /\ g[i + 2] = h[i + 2]
    BY <2>1
  <2> QED BY <1>2, <2>2 DEF UnquotedStep
<1> QED BY <1>1, <1>2

LEMMA UnquotedSolved ==
  ASSUME NEW body, Len(body) \in Nat
  PROVE  UnquotedFrom(body)
           = [i \in 1..(Len(body) + 2) |-> UnquotedStep(body, UnquotedFrom(body), i)]
<1> DEFINE n == Len(body) + 2
           Solves(g, k) == g = [i \in k..n |-> UnquotedStep(body, g, i)]
           S == {k \in Nat : \E g : Solves(g, k)}
<1>1. ASSUME NEW k \in 1..n, NEW g, \A j \in (k + 1)..n : g[j] = UnquotedStep(body, g, j)
      PROVE  \E h : Solves(h, k)
  <2> DEFINE h == [i \in k..n |-> IF i = k THEN UnquotedStep(body, g, k) ELSE g[i]]
  <2>1. ASSUME NEW j \in k..n PROVE h[j] = UnquotedStep(body, h, j)
    <3>1. \A m \in (j + 1)..n : m \in k..n /\ m # k /\ h[m] = g[m]
      OBVIOUS
    <3>2. j \in 1..n
      OBVIOUS
    <3> HIDE DEF h
    <3>3. UnquotedStep(body, g, j) = UnquotedStep(body, h, j)
      BY <3>1, <3>2, UnquotedStepLater
    <3>4. CASE j = k
      <4>1. h[j] = UnquotedStep(body, g, j)
        BY <3>4 DEF h
      <4> QED BY <3>3, <4>1
    <3>5. CASE j # k
      <4>1. h[j] = g[j] /\ j \in (k + 1)..n
        BY <3>5 DEF h
      <4>2. g[j] = UnquotedStep(body, g, j)
        BY <1>1, <4>1
      <4> QED BY <3>3, <4>1, <4>2
    <3> QED BY <3>4, <3>5
  <2>2. Solves(h, k)
    <3>1. h = [i \in k..n |-> h[i]]
      OBVIOUS
    <3> HIDE DEF h
    <3>2. [i \in k..n |-> h[i]] = [i \in k..n |-> UnquotedStep(body, h, i)]
      BY <2>1, Zenon
    <3> QED BY <3>1, <3>2, Zenon
  <2> HIDE DEF Solves
  <2> QED BY <2>2
<1>2. n \in Nat /\ n \in 1..n /\ S \in SUBSET Nat
  OBVIOUS
<1>3. ASSUME NEW k \in 1..n, k + 1 \in S \/ k = n PROVE k \in S
  <2>1. ASSUME NEW g, Solves(g, k + 1) PROVE \A j \in (k + 1)..n : g[j] = UnquotedStep(body, g, j)
    BY <2>1, Zenon
  <2>2. CASE k = n
    <3>1. \A j \in (k + 1)..n : FALSE
      BY <2>2
    <3>2. \E h : Solves(h, k)
      <4> HIDE DEF Solves
      <4> QED BY <1>1, <3>1
    <3> HIDE DEF Solves
    <3> QED BY <3>2
  <2>3. CASE k + 1 \in S
    <3>1. PICK g : Solves(g, k + 1)
      <4> HIDE DEF Solves
      <4> QED BY <2>3
    <3> HIDE DEF Solves
    <3>2. \E h : Solves(h, k)
      BY <1>1, <2>1, <3>1
    <3> QED BY <3>2
  <2> QED BY <1>3, <2>2, <2>3
<1>4. PICK g : Solves(g, 1)
  <2>1. n \in S
    BY <1>2, <1>3
  <2>2. 1 \in 1..n
    OBVIOUS
  <2>3. 1 \in S
    <3> HIDE DEF S, n
    <3> QED BY <1>2, <1>3, <2>1, <2>2, DownToFirst
  <2> HIDE DEF Solves
  <2> QED BY <2>3
<1> DEFINE U == UnquotedFrom(body)
<1>5. U = CHOOSE f : Solves(f, 1)
  BY DEF UnquotedFrom, UnquotedStep
<1>6. Solves(U, 1)
  <2> HIDE DEF Solves, U
  <2> QED BY <1>4, <1>5, Zenon
<1> QED BY <1>6

(* What an attribute is, at any place of a text.                           *)
AttributeRecord == [start: Nat, open: Nat, close: Nat, correct: BOOLEAN]

LEMMA AttributeShape ==
  ASSUME NEW s \in Seq(Character), NEW i \in 1..(Len(s) + 1), NEW a, a = Attribute(s, i)
  PROVE  /\ a.start = FirstFrom(s, i, At(s, Character \ {Space}))
         /\ a.open = FirstFrom(s, a.start, At(s, {Equals, Space})) + 1
         /\ a.close = Closing(s, a.open)
         /\ a.start \in i..(Len(s) + 1) /\ a.open \in (a.start + 1)..(Len(s) + 2)
         /\ a.correct =
              (/\ a.start + 1 < a.open /\ a.open < Len(s)
               /\ s[a.open - 1] = Equals /\ s[a.open] = Quote
               /\ a.close <= Len(s)
               /\ unquote(SubSeq(s, a.open + 1, a.close - 1)) # {})
         /\ a.correct => /\ a \in AttributeRecord
                         /\ a.close \in (a.open + 1)..Len(s) /\ s[a.close] = Quote
                         /\ a.close + 1 \in (i + 1)..(Len(s) + 1)
<1> DEFINE start == FirstFrom(s, i, At(s, Character \ {Space}))
           open  == FirstFrom(s, start, At(s, {Equals, Space})) + 1
           close == Closing(s, open)
           correct == /\ start + 1 < open /\ open < Len(s)
                      /\ s[open - 1] = Equals /\ s[open] = Quote
                      /\ close <= Len(s)
                      /\ unquote(SubSeq(s, open + 1, close - 1)) # {}
<1>1. a = [start |-> start, open |-> open, close |-> close, correct |-> correct]
  BY DEF Attribute
<1>2. /\ Len(s) \in Nat /\ DOMAIN s = 1..Len(s)
      /\ \A kind : At(s, kind) \in SUBSET (1..Len(s))
  BY AtInside
<1>3. start \in i..(Len(s) + 1)
  BY <1>2, ScanEnds
<1>4. open \in (start + 1)..(Len(s) + 2)
  <2>1. start \in 1..(Len(s) + 1)
    BY <1>2, <1>3
  <2> HIDE DEF start
  <2>2. FirstFrom(s, start, At(s, {Equals, Space})) \in start..(Len(s) + 1)
    BY <1>2, <2>1, ScanEnds
  <2> QED BY <1>2, <2>1, <2>2
<1>5. ASSUME correct PROVE close \in (open + 1)..Len(s) /\ s[close] = Quote
  <2> DEFINE stops == {j \in At(s, {Quote}) : Unescaped(s, open, j)}
  <2>1. stops \in SUBSET (1..Len(s))
    BY <1>2
  <2>2. open + 1 \in 1..(Len(s) + 1)
    <3> HIDE DEF start, open, close
    <3> QED BY <1>2, <1>3, <1>4, <1>5
  <2> HIDE DEF start, open
  <2>3. close = FirstFrom(s, open + 1, stops)
    BY DEF Closing
  <2> HIDE DEF stops, close
  <2>4. /\ close \in (open + 1)..(Len(s) + 1)
        /\ close <= Len(s) => close \in stops
    BY <2>1, <2>2, <2>3, ScanEnds
  <2>5. close <= Len(s)
    BY <1>5
  <2>6. \A j \in stops : s[j] = Quote
    BY DEF stops, At
  <2>7. open \in Nat
    BY <1>2, <1>3, <1>4
  <2> QED BY <1>2, <2>4, <2>5, <2>6, <2>7
<1>6. /\ a.start = start /\ a.open = open /\ a.close = close /\ a.correct = correct
      /\ a = [start |-> a.start, open |-> a.open, close |-> a.close, correct |-> a.correct]
  <2>1. ASSUME NEW x, NEW y, NEW z, NEW b, NEW r,
               r = [start |-> x, open |-> y, close |-> z, correct |-> b]
        PROVE  /\ r.start = x /\ r.open = y /\ r.close = z /\ r.correct = b
               /\ r = [start |-> r.start, open |-> r.open, close |-> r.close,
                       correct |-> r.correct]
    BY <2>1
  <2> HIDE DEF start, open, close, correct
  <2> QED BY <1>1, <2>1
<1>7. correct \in BOOLEAN
  OBVIOUS
<1> HIDE DEF correct
<1>8. ASSUME correct
      PROVE  a \in AttributeRecord /\ close + 1 \in (i + 1)..(Len(s) + 1)
  <2>1. close \in (open + 1)..Len(s)
    BY <1>5, <1>8
  <2> HIDE DEF start, open, close
  <2>2. start \in Nat /\ open \in Nat /\ close \in Nat /\ close + 1 \in (i + 1)..(Len(s) + 1)
    BY <1>2, <1>3, <1>4, <2>1
  <2>3. a.start \in Nat /\ a.open \in Nat /\ a.close \in Nat /\ a.correct \in BOOLEAN
    BY <1>6, <1>7, <2>2
  <2> QED BY <1>6, <2>2, <2>3 DEF AttributeRecord
<1>9. correct =
        (/\ start + 1 < open /\ open < Len(s)
         /\ s[open - 1] = Equals /\ s[open] = Quote
         /\ close <= Len(s)
         /\ unquote(SubSeq(s, open + 1, close - 1)) # {})
  BY DEF correct
<1>10. close = Closing(s, open) /\ start = FirstFrom(s, i, At(s, Character \ {Space}))
       /\ open = FirstFrom(s, start, At(s, {Equals, Space})) + 1
  OBVIOUS
<1> HIDE DEF start, open, close
<1> QED BY <1>3, <1>4, <1>5, <1>6, <1>8, <1>9, <1>10, ZenonT(40)

(* The equation of the reference, and that it looks at later places.       *)
AttributesStep(s, g, i) ==
  IF \A j \in i..Len(s) : s[j] = Space THEN {<<>>}
  ELSE IF Attribute(s, i).correct
       THEN {<<Attribute(s, i)>> \o rest : rest \in g[Attribute(s, i).close + 1]}
       ELSE {}

LEMMA AttributesStepLater ==
  ASSUME NEW s \in Seq(Character), NEW g, NEW h, NEW i \in 1..(Len(s) + 1),
         \A j \in (i + 1)..(Len(s) + 1) : g[j] = h[j]
  PROVE  AttributesStep(s, g, i) = AttributesStep(s, h, i)
<1>1. CASE Attribute(s, i).correct
  <2>1. Attribute(s, i).close + 1 \in (i + 1)..(Len(s) + 1)
    BY <1>1, AttributeShape
  <2>2. g[Attribute(s, i).close + 1] = h[Attribute(s, i).close + 1]
    BY <2>1
  <2> QED BY <2>2 DEF AttributesStep
<1>2. CASE ~Attribute(s, i).correct
  BY <1>2 DEF AttributesStep
<1> QED BY <1>1, <1>2

LEMMA AttributesSolved ==
  ASSUME NEW s \in Seq(Character)
  PROVE  AttributesFrom(s)
           = [i \in 1..(Len(s) + 1) |-> AttributesStep(s, AttributesFrom(s), i)]
<1> DEFINE n == Len(s) + 1
           Solves(g, k) == g = [i \in k..n |-> AttributesStep(s, g, i)]
           S == {k \in Nat : \E g : Solves(g, k)}
<1>0. Len(s) \in Nat
  BY LenProperties
<1>1. ASSUME NEW k \in 1..n, NEW g, \A j \in (k + 1)..n : g[j] = AttributesStep(s, g, j)
      PROVE  \E h : Solves(h, k)
  <2> DEFINE h == [i \in k..n |-> IF i = k THEN AttributesStep(s, g, k) ELSE g[i]]
  <2>1. ASSUME NEW j \in k..n PROVE h[j] = AttributesStep(s, h, j)
    <3>1. \A m \in (j + 1)..n : m \in k..n /\ m # k /\ h[m] = g[m]
      BY <1>0
    <3>2. j \in 1..n
      BY <1>0
    <3> HIDE DEF h
    <3>3. AttributesStep(s, g, j) = AttributesStep(s, h, j)
      BY <3>1, <3>2, AttributesStepLater
    <3>4. CASE j = k
      <4>1. h[j] = AttributesStep(s, g, j)
        BY <3>4 DEF h
      <4> QED BY <3>3, <4>1
    <3>5. CASE j # k
      <4>1. h[j] = g[j] /\ j \in (k + 1)..n
        BY <1>0, <3>5 DEF h
      <4>2. g[j] = AttributesStep(s, g, j)
        BY <1>1, <4>1
      <4> QED BY <3>3, <4>1, <4>2
    <3> QED BY <3>4, <3>5
  <2>2. Solves(h, k)
    <3>1. h = [i \in k..n |-> h[i]]
      OBVIOUS
    <3> HIDE DEF h
    <3>2. [i \in k..n |-> h[i]] = [i \in k..n |-> AttributesStep(s, h, i)]
      BY <2>1, Zenon
    <3> QED BY <3>1, <3>2, Zenon
  <2> HIDE DEF Solves
  <2> QED BY <2>2
<1>2. n \in Nat /\ n \in 1..n /\ S \in SUBSET Nat
  BY <1>0
<1>3. ASSUME NEW k \in 1..n, k + 1 \in S \/ k = n PROVE k \in S
  <2>1. ASSUME NEW g, Solves(g, k + 1)
        PROVE  \A j \in (k + 1)..n : g[j] = AttributesStep(s, g, j)
    BY <2>1, Zenon
  <2>0. k \in Nat
    BY <1>0
  <2>2. CASE k = n
    <3>1. \A j \in (k + 1)..n : FALSE
      BY <1>0, <2>2
    <3>2. \E h : Solves(h, k)
      <4> HIDE DEF Solves
      <4> QED BY <1>1, <3>1
    <3> HIDE DEF Solves
    <3> QED BY <2>0, <3>2
  <2>3. CASE k + 1 \in S
    <3>1. PICK g : Solves(g, k + 1)
      <4> HIDE DEF Solves
      <4> QED BY <2>3
    <3> HIDE DEF Solves
    <3>2. \E h : Solves(h, k)
      BY <1>1, <2>1, <3>1
    <3> QED BY <2>0, <3>2
  <2> QED BY <1>3, <2>2, <2>3
<1>4. PICK g : Solves(g, 1)
  <2>1. n \in S
    BY <1>2, <1>3
  <2>2. 1 \in 1..n
    BY <1>0
  <2>3. 1 \in S
    <3> HIDE DEF S, n
    <3> QED BY <1>2, <1>3, <2>1, <2>2, DownToFirst
  <2> HIDE DEF Solves
  <2> QED BY <2>3
<1> DEFINE U == AttributesFrom(s)
<1>5. U = CHOOSE f : Solves(f, 1)
  BY DEF AttributesFrom, AttributesStep
<1>6. Solves(U, 1)
  <2> HIDE DEF Solves, U
  <2> QED BY <1>4, <1>5, Zenon
<1> QED BY <1>6

(* From a place on there are only spaces, or an attribute and more from    *)
(* behind it on, or something else.                                        *)
LEMMA AttributesFromPlace ==
  ASSUME NEW s \in Seq(Character), NEW i \in 1..(Len(s) + 1)
  PROVE  /\ (\A j \in i..Len(s) : s[j] = Space) => AttributesFrom(s)[i] = {<<>>}
         /\ ~(\A j \in i..Len(s) : s[j] = Space) /\ ~Attribute(s, i).correct =>
              AttributesFrom(s)[i] = {}
         /\ ~(\A j \in i..Len(s) : s[j] = Space) /\ Attribute(s, i).correct =>
              AttributesFrom(s)[i]
                = {<<Attribute(s, i)>> \o rest :
                     rest \in AttributesFrom(s)[Attribute(s, i).close + 1]}
<1>1. AttributesFrom(s)[i] = AttributesStep(s, AttributesFrom(s), i)
  <2> DEFINE F == AttributesFrom(s)
  <2>1. F = [h \in 1..(Len(s) + 1) |-> AttributesStep(s, F, h)]
    BY AttributesSolved
  <2> HIDE DEF F
  <2>2. F[i] = AttributesStep(s, F, i)
    BY <2>1, Zenon
  <2> QED BY <2>2 DEF F
<1> QED BY <1>1 DEF AttributesStep

(* A list is a sequence of attributes.                                     *)
LEMMA AttributesTyped ==
  ASSUME NEW s \in Seq(Character), NEW i \in 1..(Len(s) + 1)
  PROVE  AttributesFrom(s)[i] \in SUBSET Seq(AttributeRecord)
<1> DEFINE n == Len(s) + 1
           F == AttributesFrom(s)
           S == {k \in Nat : \A j \in k..n : F[j] \in SUBSET Seq(AttributeRecord)}
<1>0. n \in Nat /\ n \in 1..n /\ Len(s) \in Nat /\ S \in SUBSET Nat
  BY LenProperties
<1>1. ASSUME NEW k \in 1..n, \A j \in (k + 1)..n : F[j] \in SUBSET Seq(AttributeRecord)
      PROVE  F[k] \in SUBSET Seq(AttributeRecord)
  <2> DEFINE a == Attribute(s, k)
  <2>1. /\ (\A j \in k..Len(s) : s[j] = Space) => F[k] = {<<>>}
        /\ ~(\A j \in k..Len(s) : s[j] = Space) /\ ~a.correct => F[k] = {}
        /\ ~(\A j \in k..Len(s) : s[j] = Space) /\ a.correct =>
             F[k] = {<<a>> \o rest : rest \in F[a.close + 1]}
    <3>1. k \in 1..(Len(s) + 1)
      OBVIOUS
    <3> HIDE DEF n
    <3> QED BY <3>1, AttributesFromPlace
  <2>2. a.correct => a \in AttributeRecord /\ a.close + 1 \in (k + 1)..n
    BY AttributeShape
  <2> HIDE DEF a, F, n
  <2>3. <<>> \in Seq(AttributeRecord)
    OBVIOUS
  <2>4. ASSUME a.correct, NEW rest \in F[a.close + 1]
        PROVE  <<a>> \o rest \in Seq(AttributeRecord)
    <3>1. rest \in Seq(AttributeRecord) /\ <<a>> \in Seq(AttributeRecord)
      BY <1>1, <2>2, <2>4
    <3> QED BY <3>1
  <2>5. CASE \A j \in k..Len(s) : s[j] = Space
    BY <2>1, <2>3, <2>5
  <2>6. CASE ~(\A j \in k..Len(s) : s[j] = Space) /\ ~a.correct
    BY <2>1, <2>6
  <2>7. CASE ~(\A j \in k..Len(s) : s[j] = Space) /\ a.correct
    <3>1. F[k] = {<<a>> \o rest : rest \in F[a.close + 1]}
      BY <2>1, <2>7
    <3> QED BY <2>4, <2>7, <3>1
  <2> QED BY <2>5, <2>6, <2>7
<1>2. ASSUME NEW k \in 1..n, k + 1 \in S \/ k = n PROVE k \in S
  <2>1. \A j \in (k + 1)..n : F[j] \in SUBSET Seq(AttributeRecord)
    <3>1. CASE k = n
      BY <1>0, <3>1
    <3> QED BY <1>2, <3>1
  <2>2. F[k] \in SUBSET Seq(AttributeRecord)
    BY <1>1, <2>1
  <2>3. \A j \in k..n : j = k \/ j \in (k + 1)..n
    BY <1>0
  <2>4. k \in Nat
    BY <1>0
  <2> HIDE DEF F
  <2> QED BY <2>1, <2>2, <2>3, <2>4
<1>3. n \in S
  BY <1>0, <1>2
<1>4. i \in S
  <2> HIDE DEF S, n
  <2> QED BY <1>0, <1>2, <1>3, DownToFirst DEF n
<1> QED BY <1>0, <1>4

-----------------------------------------------------------------------------
(* Where a value ends, for the code and for the reference.                 *)

(* Where the reference ends a value, as a scan.                            *)
LEMMA ClosingScan ==
  ASSUME NEW s \in Seq(Character), NEW open \in 1..Len(s)
  PROVE  /\ Closing(s, open) \in (open + 1)..(Len(s) + 1)
         /\ Closing(s, open) <= Len(s) =>
              s[Closing(s, open)] = Quote /\ Unescaped(s, open, Closing(s, open))
         /\ \A j \in (open + 1)..(Closing(s, open) - 1) :
              ~(s[j] = Quote /\ Unescaped(s, open, j))
<1> DEFINE stops == {j \in At(s, {Quote}) : Unescaped(s, open, j)}
           close == Closing(s, open)
<1>1. Len(s) \in Nat /\ At(s, {Quote}) \in SUBSET (1..Len(s)) /\ DOMAIN s = 1..Len(s)
  BY AtInside
<1>2. stops \in SUBSET (1..Len(s)) /\ open + 1 \in 1..(Len(s) + 1)
  <2>1. \A j \in stops : j \in At(s, {Quote})
    OBVIOUS
  <2>2. open + 1 \in 1..(Len(s) + 1)
    BY <1>1
  <2> HIDE DEF stops
  <2> QED BY <1>1, <2>1, <2>2
<1>3. \A j \in 1..Len(s) : j \in stops <=> (s[j] = Quote /\ Unescaped(s, open, j))
  BY <1>1 DEF At
<1>4. close = FirstFrom(s, open + 1, stops)
  BY DEF Closing
<1> HIDE DEF stops, close
<1>5. /\ close \in (open + 1)..(Len(s) + 1)
      /\ close <= Len(s) => close \in stops
      /\ \A j \in (open + 1)..(close - 1) : j \notin stops
  BY <1>2, <1>4, ScanEnds
<1>6. ASSUME close <= Len(s) PROVE s[close] = Quote /\ Unescaped(s, open, close)
  BY <1>1, <1>3, <1>5, <1>6
<1>7. ASSUME NEW j \in (open + 1)..(close - 1)
      PROVE  ~(s[j] = Quote /\ Unescaped(s, open, j))
  <2>1. j \in 1..Len(s) /\ j \notin stops
    BY <1>1, <1>5
  <2> QED BY <1>3, <2>1
<1> QED BY <1>5, <1>6, <1>7 DEF close

(* What stands between two quotes.                                         *)
LEMMA BodyOfText ==
  ASSUME NEW s \in Seq(Character), NEW open \in 1..Len(s), NEW end \in (open + 1)..Len(s),
         NEW body, body = SubSeq(s, open + 1, end - 1)
  PROVE  /\ Len(s) \in Nat /\ Len(body) = end - 1 - open /\ Len(body) \in Nat
         /\ \A k \in 1..Len(body) : body[k] = s[open + k]
<1>1. Len(s) \in Nat
  BY LenProperties
<1>2. open + 1 \in 1..(Len(s) + 1) /\ end - 1 \in (open)..Len(s)
  BY <1>1
<1>3. open + 1 \in Int /\ end - 1 \in Int
      /\ \A i \in (open + 1)..(end - 1) : s[i] \in Character
  <2>1. \A i \in (open + 1)..(end - 1) : i \in 1..Len(s)
    BY <1>1
  <2> QED BY <1>1, <2>1, ElementOfSeq
<1>4. /\ Len(body) = IF open + 1 <= end - 1 THEN (end - 1) - (open + 1) + 1 ELSE 0
      /\ \A i \in 1..((end - 1) - (open + 1) + 1) : body[i] = s[(open + 1) + i - 1]
  BY <1>3, SubSeqProperties
<1>5. Len(body) = end - 1 - open /\ Len(body) \in Nat
  BY <1>1, <1>4
<1>6. ASSUME NEW k \in 1..Len(body) PROVE body[k] = s[open + k]
  <2>1. k \in 1..((end - 1) - (open + 1) + 1) /\ (open + 1) + k - 1 = open + k
    BY <1>1, <1>5
  <2> QED BY <1>4, <2>1
<1> QED BY <1>1, <1>5, <1>6

(* What can be unquoted ends where the reference says.                     *)
LEMMA UnquotedCloses ==
  ASSUME NEW s \in Seq(Character), NEW open \in 1..Len(s), NEW end \in (open + 1)..Len(s),
         s[end] = Quote, unquote(SubSeq(s, open + 1, end - 1)) # {}
  PROVE  Closing(s, open) = end
<1> DEFINE body == SubSeq(s, open + 1, end - 1)
           f    == UnquotedFrom(body)
           Even(k)  == Unescaped(s, open, open + k)
           Token(k) == k \in 1..(Len(body) + 1) /\ f[k] # {} /\ Even(k)
           Taken(k) == k \in 2..(Len(body) + 1) /\ Token(k - 1) /\ body[k - 1] = Backslash
<1>1. /\ Len(s) \in Nat /\ Len(body) = end - 1 - open /\ Len(body) \in Nat
      /\ \A k \in 1..Len(body) : body[k] = s[open + k]
  BY BodyOfText
<1>2. f[1] # {}
  BY DEF unquote
<1>3. ASSUME NEW k \in 1..(Len(body) + 2)
      PROVE  f[k] = UnquotedStep(body, f, k)
  <2>1. f = [i \in 1..(Len(body) + 2) |-> UnquotedStep(body, f, i)]
    BY <1>1, UnquotedSolved
  <2> HIDE DEF body, f
  <2> QED BY <2>1, Zenon
<1> HIDE DEF body, f
<1>4. ASSUME NEW k \in 1..Len(body)
      PROVE  /\ s[open + k] # Backslash => Even(k + 1)
             /\ s[open + k] = Backslash => (Even(k + 1) <=> ~Even(k))
  <2>1. open \in Nat /\ open + k \in Nat /\ open + k >= open + 1
        /\ (open + k) + 1 = open + (k + 1)
    BY <1>1
  <2> QED BY <2>1, UnescapedNext
<1>5. Token(1)
  <2>1. open \in Nat /\ open + 1 \in Nat /\ open + 1 >= open + 1
    BY <1>1
  <2>2. Even(1)
    BY <2>1, UnescapedNext
  <2> QED BY <1>1, <1>2, <2>2
<1>6. ASSUME NEW k \in 1..Len(body), Token(k)
      PROVE  /\ body[k] # Quote
             /\ body[k] # Backslash => Token(k + 1)
             /\ body[k] = Backslash => /\ k < Len(body) /\ body[k + 1] \in {Quote, Backslash}
                                       /\ Token(k + 2)
  <2>1. k \in 1..(Len(body) + 2) /\ ~(k > Len(body)) /\ k + 1 \in 1..(Len(body) + 1)
    BY <1>1
  <2>2. f[k] = UnquotedStep(body, f, k) /\ f[k] # {}
    BY <1>3, <1>6, <2>1
  <2>3. body[k] # Quote
    BY <2>1, <2>2 DEF UnquotedStep
  <2>4. body[k] # Backslash => f[k + 1] # {}
    BY <2>1, <2>2, <2>3 DEF UnquotedStep
  <2>5. body[k] = Backslash => /\ k < Len(body) /\ body[k + 1] \in {Quote, Backslash}
                               /\ f[k + 2] # {}
    BY <2>1, <2>2, <2>3 DEF UnquotedStep
  <2>6. ASSUME body[k] # Backslash PROVE Token(k + 1)
    <3>1. Even(k + 1)
      BY <1>1, <1>4, <2>6
    <3> QED BY <2>1, <2>4, <2>6, <3>1
  <2>7. ASSUME body[k] = Backslash PROVE Token(k + 2)
    <3>1. k < Len(body) /\ body[k + 1] \in {Quote, Backslash} /\ f[k + 2] # {}
      BY <2>5, <2>7
    <3>2. ~Even(k + 1)
      BY <1>1, <1>4, <1>6, <2>7
    <3>3. k + 1 \in 1..Len(body) /\ (k + 1) + 1 = k + 2 /\ k + 2 \in 1..(Len(body) + 1)
      BY <1>1, <3>1
    <3>4. body[k + 1] = s[open + (k + 1)]
      BY <1>1, <3>3
    <3>5. Even(k + 2)
      <4> HIDE DEF Even
      <4>1. /\ s[open + (k + 1)] # Backslash => Even((k + 1) + 1)
            /\ s[open + (k + 1)] = Backslash => (Even((k + 1) + 1) <=> ~Even(k + 1))
        BY <1>4, <3>3
      <4> QED BY <3>2, <3>3, <4>1
    <3> QED BY <3>1, <3>3, <3>5
  <2> QED BY <2>3, <2>5, <2>6, <2>7
<1> HIDE DEF Even
<1>7. ASSUME NEW k \in 1..(Len(body) + 1) PROVE Token(k) \/ Taken(k)
  <2>1. ASSUME NEW m \in 1..Len(body), Token(m) \/ Taken(m) PROVE Token(m + 1) \/ Taken(m + 1)
    <3>1. CASE Token(m)
      <4>1. CASE body[m] # Backslash
        BY <1>6, <3>1, <4>1
      <4>2. CASE body[m] = Backslash
        <5>1. m + 1 \in 2..(Len(body) + 1) /\ (m + 1) - 1 = m
          BY <1>1
        <5> QED BY <3>1, <4>2, <5>1
      <4> QED BY <4>1, <4>2
    <3>2. CASE Taken(m)
      <4>1. m - 1 \in 1..Len(body) /\ Token(m - 1) /\ body[m - 1] = Backslash
            /\ (m - 1) + 2 = m + 1
        BY <1>1, <3>2
      <4>2. Token((m - 1) + 2)
        BY <1>6, <4>1
      <4> QED BY <4>1, <4>2
    <3> QED BY <2>1, <3>1, <3>2
  <2> HIDE DEF Token, Taken
  <2> DEFINE T == {m \in 1..(Len(body) + 1) : ~(Token(m) \/ Taken(m))}
  <2>2. T \in SUBSET Nat
    BY <1>1
  <2>3. ASSUME T # {} PROVE FALSE
    <3>1. Min(T) \in T /\ \A j \in T : Min(T) <= j
      <4> HIDE DEF T
      <4> QED BY <2>2, <2>3, MinIsLeast
    <3> DEFINE m == Min(T)
    <3> HIDE DEF m
    <3>2. m \in T /\ \A j \in T : m <= j
      BY <3>1 DEF m
    <3>3. m # 1
      BY <1>5, <3>2
    <3>4. m - 1 \in 1..Len(body) /\ (m - 1) + 1 = m /\ m - 1 \in 1..(Len(body) + 1)
      BY <1>1, <3>2, <3>3
    <3>5. m - 1 \notin T
      BY <1>1, <3>2, <3>4
    <3>6. Token(m - 1) \/ Taken(m - 1)
      BY <3>4, <3>5
    <3>7. Token((m - 1) + 1) \/ Taken((m - 1) + 1)
      BY <2>1, <3>4, <3>6
    <3> QED BY <3>2, <3>4, <3>7
  <2> QED BY <2>3
<1>8. ASSUME NEW k \in 1..Len(body), body[k] = Quote PROVE ~Even(k)
  <2>1. k \in 1..(Len(body) + 1)
    BY <1>1
  <2>2. ~Token(k)
    BY <1>6, <1>8
  <2>3. Taken(k)
    BY <1>7, <2>1, <2>2
  <2>4. k - 1 \in 1..Len(body) /\ Even(k - 1) /\ body[k - 1] = Backslash /\ (k - 1) + 1 = k
        /\ body[k - 1] = s[open + (k - 1)]
    BY <1>1, <2>3
  <2>5. Even((k - 1) + 1) <=> ~Even(k - 1)
    BY <1>4, <2>4
  <2> QED BY <2>4, <2>5
<1>9. Even(Len(body) + 1)
  <2>1. Len(body) + 1 \in 1..(Len(body) + 1)
    BY <1>1
  <2>2. ASSUME Taken(Len(body) + 1) PROVE FALSE
    <3>1. Len(body) \in 1..Len(body) /\ Token(Len(body)) /\ body[Len(body)] = Backslash
      BY <1>1, <2>2
    <3> QED BY <1>1, <1>6, <3>1
  <2> QED BY <1>7, <2>1, <2>2
<1> DEFINE close == Closing(s, open)
<1>10. /\ close \in (open + 1)..(Len(s) + 1)
       /\ close <= Len(s) => s[close] = Quote /\ Unescaped(s, open, close)
       /\ \A j \in (open + 1)..(close - 1) : ~(s[j] = Quote /\ Unescaped(s, open, j))
  BY ClosingScan
<1> HIDE DEF close
<1>11. Unescaped(s, open, end)
  <2>1. open + (Len(body) + 1) = end
    BY <1>1
  <2> QED BY <1>9, <2>1 DEF Even
<1>12. ASSUME NEW j \in (open + 1)..(end - 1), s[j] = Quote, Unescaped(s, open, j)
       PROVE  FALSE
  <2>1. j - open \in 1..Len(body) /\ open + (j - open) = j
    BY <1>1
  <2>2. body[j - open] = s[j]
    BY <1>1, <2>1
  <2>3. Even(j - open)
    BY <1>12, <2>1 DEF Even
  <2> QED BY <1>8, <1>12, <2>1, <2>2, <2>3
<1>13. close <= end
  BY <1>1, <1>10, <1>11
<1>14. close >= end
  BY <1>1, <1>10, <1>12, <1>13
<1>15. close = end
  BY <1>1, <1>10, <1>13, <1>14
<1> QED BY <1>15 DEF close

(* And it never takes a value further than a quote that has no backslash   *)
(* before it.                                                              *)
LEMMA ClosesNotLater ==
  ASSUME NEW s \in Seq(Character), NEW open \in 1..Len(s), NEW end \in (open + 1)..Len(s),
         end \in UnescapedQuotes(s)
  PROVE  Closing(s, open) <= end
<1>1. Len(s) \in Nat /\ s[end] = Quote /\ s[end - 1] # Backslash
  BY LenProperties DEF UnescapedQuotes, At
<1>2. Unescaped(s, open, end)
  <2>1. open \in Nat /\ (end = open + 1 \/ (end - 1 \in Nat /\ end - 1 >= open + 1))
        /\ (end - 1) + 1 = end
    BY <1>1
  <2>2. CASE end = open + 1
    <3>1. open + 1 \in Nat /\ open + 1 >= open + 1
      BY <2>1
    <3>2. Unescaped(s, open, open + 1)
      BY <2>1, <3>1, UnescapedNext
    <3> QED BY <2>2, <3>2
  <2>3. CASE end - 1 \in Nat /\ end - 1 >= open + 1
    <3>1. s[end - 1] # Backslash => Unescaped(s, open, (end - 1) + 1)
      BY <2>1, <2>3, UnescapedNext
    <3> QED BY <1>1, <2>1, <3>1
  <2> QED BY <2>1, <2>2, <2>3
<1> DEFINE close == Closing(s, open)
<1>3. /\ close \in (open + 1)..(Len(s) + 1)
      /\ \A j \in (open + 1)..(close - 1) : ~(s[j] = Quote /\ Unescaped(s, open, j))
  BY ClosingScan
<1> HIDE DEF close
<1>4. close <= end
  BY <1>1, <1>2, <1>3
<1> QED BY <1>4 DEF close

-----------------------------------------------------------------------------
(* Lists of attributes.                                                    *)

(* What is bound after one more attribute: its key is overwritten.         *)
LEMMA BindingAppend ==
  ASSUME NEW s, NEW done \in Seq(AttributeRecord), NEW a \in AttributeRecord
  PROVE  Binding(s, Append(done, a))
           = Assigned(Binding(s, done), KeyOf(s, a), CHOOSE v \in unquote(BodyOf(s, a)) : TRUE)
<1> DEFINE as == Append(done, a)
           n  == Len(done)
           Keys(q) == {KeyOf(s, q[i]) : i \in DOMAIN q}
           Of(q, k) == {i \in DOMAIN q : KeyOf(s, q[i]) = k}
           Value(x) == CHOOSE v \in unquote(BodyOf(s, x)) : TRUE
           K == KeyOf(s, a)
<1>1. \A q : Binding(s, q) = [k \in Keys(q) |-> Value(q[Max(Of(q, k))])]
  BY Zenon DEF Binding
<1>2. /\ n \in Nat /\ DOMAIN done = 1..n /\ DOMAIN as = 1..(n + 1)
      /\ as[n + 1] = a /\ \A i \in 1..n : as[i] = done[i]
  BY LenProperties, AppendProperties
<1> HIDE DEF as, n, Value, K
<1>3. Keys(as) = {K} \cup Keys(done)
  <2>1. \A i \in 1..(n + 1) : i = n + 1 \/ i \in 1..n
    BY <1>2
  <2>2. n + 1 \in 1..(n + 1) /\ \A i \in 1..n : i \in 1..(n + 1)
    BY <1>2
  <2> QED BY <1>2, <2>1, <2>2 DEF K
<1>4. as[Max(Of(as, K))] = a
  <2>1. Of(as, K) \in SUBSET (1..(n + 1)) /\ n + 1 \in Of(as, K)
    <3>1. \A i \in Of(as, K) : i \in 1..(n + 1)
      BY <1>2
    <3>2. n + 1 \in DOMAIN as /\ KeyOf(s, as[n + 1]) = K
      BY <1>2 DEF K
    <3>3. n + 1 \in Of(as, K)
      BY <3>2
    <3> HIDE DEF Of
    <3> QED BY <3>1, <3>3
  <2> DEFINE S == Of(as, K)
  <2> HIDE DEF S
  <2>2. S \in SUBSET (1..(n + 1)) /\ n + 1 \in S
    BY <2>1 DEF S
  <2>3. Max(S) = n + 1
    <3>1. \A y \in S : n + 1 >= y
      BY <1>2, <2>2
    <3>2. Max(S) \in S /\ \A y \in S : Max(S) >= y
      BY <2>2, <3>1 DEF Max
    <3> QED BY <1>2, <2>2, <3>2
  <2> QED BY <1>2, <2>3 DEF S
<1>5. ASSUME NEW k \in Keys(done), k # K
      PROVE  as[Max(Of(as, k))] = done[Max(Of(done, k))]
  <2>1. Of(as, k) = Of(done, k)
    <3>1. \A i \in 1..(n + 1) : i = n + 1 \/ i \in 1..n
      BY <1>2
    <3>2. \A i \in 1..n : i \in 1..(n + 1)
      BY <1>2
    <3>3. ASSUME NEW i \in Of(as, k) PROVE i \in Of(done, k)
      <4>1. i \in 1..(n + 1) /\ KeyOf(s, as[i]) = k
        BY <1>2
      <4>2. i # n + 1
        BY <1>2, <1>5, <4>1 DEF K
      <4>3. i \in 1..n /\ as[i] = done[i]
        BY <1>2, <3>1, <4>1, <4>2
      <4> QED BY <1>2, <4>1, <4>3
    <3>4. ASSUME NEW i \in Of(done, k) PROVE i \in Of(as, k)
      <4>1. i \in 1..n /\ KeyOf(s, done[i]) = k
        BY <1>2
      <4>2. i \in 1..(n + 1) /\ as[i] = done[i]
        BY <1>2, <3>2, <4>1
      <4> QED BY <1>2, <4>1, <4>2
    <3> HIDE DEF Of
    <3> QED BY <3>3, <3>4
  <2> DEFINE S == Of(done, k)
  <2>2. S \in SUBSET (1..n) /\ S # {}
    BY <1>2
  <2> HIDE DEF S
  <2>3. Max(S) \in 1..n
    <3>1. \E x \in S : \A y \in S : x >= y
      <4> DEFINE T == {n - x : x \in S}
      <4>1. T \in SUBSET Nat /\ T # {}
        <5>1. \A x \in S : n - x \in Nat
          BY <1>2, <2>2
        <5>2. PICK x \in S : TRUE
          BY <2>2
        <5>3. n - x \in T
          BY <5>2
        <5> QED BY <5>1, <5>3
      <4> HIDE DEF T
      <4>2. Min(T) \in T /\ \A t \in T : Min(T) <= t
        BY <4>1, MinIsLeast
      <4> DEFINE m == Min(T)
      <4> HIDE DEF m
      <4>3. m \in T /\ \A t \in T : m <= t
        BY <4>2 DEF m
      <4>4. PICK x \in S : m = n - x
        BY <4>3 DEF T
      <4>5. ASSUME NEW y \in S PROVE x >= y
        <5>1. n - y \in T
          BY DEF T
        <5>2. m <= n - y /\ x \in 1..n /\ y \in 1..n
          BY <2>2, <4>3, <5>1
        <5> QED BY <1>2, <4>4, <5>2
      <4> QED BY <4>5
    <3>2. Max(S) \in S
      BY <3>1 DEF Max
    <3> QED BY <2>2, <3>2
  <2>4. Max(Of(as, k)) = Max(Of(done, k))
    BY <2>1, Zenon
  <2>5. Max(Of(done, k)) \in 1..n
    BY <2>3 DEF S
  <2> HIDE DEF Of
  <2> QED BY <1>2, <2>4, <2>5
<1> HIDE DEF Of
<1> DEFINE L == [k \in {K} \cup Keys(done) |-> Value(as[Max(Of(as, k))])]
           B == [k \in Keys(done) |-> Value(done[Max(Of(done, k))])]
           R == Assigned(B, K, Value(a))
<1>6. L = R
  <2>1. R = [x \in {K} \cup Keys(done) |-> IF x \in {K} THEN Value(a) ELSE B[x]]
    <3> DEFINE V == Value(a)
    <3>1. DOMAIN B = Keys(done)
      OBVIOUS
    <3> HIDE DEF B, Keys, V
    <3>2. Assigned(B, K, V) = [x \in DOMAIN B \cup {K} |-> IF x = K THEN V ELSE B[x]]
      BY DEF Assigned
    <3>3. DOMAIN B \cup {K} = {K} \cup Keys(done)
      BY <3>1
    <3>4. Assigned(B, K, V)
            = [x \in {K} \cup Keys(done) |-> IF x \in {K} THEN V ELSE B[x]]
      BY <3>2, <3>3
    <3> QED BY <3>4 DEF V
  <2>2. ASSUME NEW k \in {K} \cup Keys(done)
        PROVE  Value(as[Max(Of(as, k))]) = IF k \in {K} THEN Value(a) ELSE B[k]
    <3>1. CASE k = K
      BY <1>4, <3>1
    <3>2. CASE k # K
      <4>1. k \in Keys(done)
        BY <3>2
      <4>2. as[Max(Of(as, k))] = done[Max(Of(done, k))]
        BY <1>5, <3>2, <4>1
      <4>3. B[k] = Value(done[Max(Of(done, k))])
        BY <4>1
      <4> HIDE DEF B, Keys
      <4> QED BY <3>2, <4>2, <4>3
    <3> QED BY <3>1, <3>2
  <2> HIDE DEF R, B, Keys
  <2> QED BY <2>1, <2>2, Zenon
<1>7. Binding(s, as) = L
  <2>1. Binding(s, as) = [k \in Keys(as) |-> Value(as[Max(Of(as, k))])]
    BY <1>1 DEF Value
  <2> HIDE DEF Keys
  <2> QED BY <1>3, <2>1
<1>8. Binding(s, done) = B
  BY <1>1 DEF Value
<1> HIDE DEF L, B, Keys
<1> QED BY <1>6, <1>7, <1>8 DEF as, K, Value

(* Before the first attribute nothing is bound.                            *)
LEMMA BindingEmpty ==
  ASSUME NEW s
  PROVE  Binding(s, <<>>) = NoAttributes
<1>1. DOMAIN << >> = {}
  OBVIOUS
<1>2. {KeyOf(s, << >>[i]) : i \in DOMAIN << >>} = {}
  BY <1>1
<1> QED BY <1>2 DEF Binding, NoAttributes

-----------------------------------------------------------------------------
(* The inductive invariant of the reading.  At any time the attributes are *)
(* those of a list that has been read, and the lists that the text may be  *)
(* continue it with a list from the place on where the loop has begun.     *)

(* The key of the attribute from place i on has been read as it is.        *)
KeyRead(i) ==
  /\ Attribute(input, i).start + 1 < Attribute(input, i).open
  /\ Attribute(input, i).open <= Len(input) + 1
  /\ input[Attribute(input, i).open - 1] = Equals
  /\ key = KeyOf(input, Attribute(input, i))

(* Where the code takes the value to end, if it is terminated.             *)
ValueRead ==
  /\ input[position - 1] = Quote
  /\ \/ position - 1 > valueStart /\ position - 1 \in UnescapedQuotes(input)
     \/ position - 1 = Len(input)
  /\ \A j \in (valueStart + 1)..(position - 2) : j \notin UnescapedQuotes(input)

(* How far the attribute from place i on has been read.                    *)
Reading(i) ==
  /\ pc = "key" => i = position
  /\ pc \in {"open", "value", "unquote"} => KeyRead(i)
  /\ pc = "open" => position = Attribute(input, i).open
  /\ pc \in {"value", "unquote"} =>
       /\ valueStart = Attribute(input, i).open
       /\ valueStart <= Len(input) /\ input[valueStart] = Quote
  /\ pc = "value" => position = valueStart + 1
  /\ pc = "unquote" => ValueRead

(* The lists that begin with what has been read.                           *)
Continued(s, done, i) == {done \o rest : rest \in AttributesFrom(s)[i]}

ReadInv ==
  /\ input[Len(input)] # Space
  /\ pc # "returned" =>
       /\ error = NoError
       /\ \E done \in Seq(AttributeRecord), i \in 1..(Len(input) + 1) :
            /\ AttributesOf(input) = Continued(input, done, i)
            /\ attrs = Binding(input, done)
            /\ Reading(i)
  /\ ReadsWhatIsWritten
  /\ RefusesOnlyTrailingBackslash

(* At the beginning nothing has been read.                                 *)
LEMMA InitRead == Init => ReadInv
<1> SUFFICES ASSUME Init PROVE ReadInv
  OBVIOUS
<1>1. /\ input \in Seq(Character) /\ input # <<>> /\ input[Len(input)] # Space
      /\ pc = "key" /\ error = NoError /\ position = 1 /\ attrs = NoAttributes
  BY AttributesAssumption DEF Init
<1>2. 1 \in 1..(Len(input) + 1)
  BY <1>1, LenProperties
<1>3. <<>> \in Seq(AttributeRecord) /\ attrs = Binding(input, <<>>)
  BY <1>1, BindingEmpty
<1>4. AttributesOf(input) = Continued(input, <<>>, 1)
  <2>1. AttributesFrom(input)[1] \in SUBSET Seq(AttributeRecord)
    BY <1>1, <1>2, AttributesTyped
  <2> DEFINE rests == AttributesFrom(input)[1]
  <2>2. \A rest \in rests : <<>> \o rest = rest
    BY <2>1, ConcatEmptySeq
  <2> HIDE DEF rests
  <2>3. {<<>> \o rest : rest \in rests} = rests
    BY <2>2
  <2> QED BY <2>3 DEF AttributesOf, Continued, rests
<1>5. Reading(1)
  BY <1>1 DEF Reading
<1> QED BY <1>1, <1>2, <1>3, <1>4, <1>5 DEF ReadInv, ReadsWhatIsWritten, RefusesOnlyTrailingBackslash

(* Where a list is refused.  The attribute that begins here closes before  *)
(* the end, at a quote with a backslash before it, or there is no such     *)
(* attribute and the text is no list at all.                               *)
LEMMA RefusedForBackslash ==
  ASSUME NEW s \in Seq(Character), s # <<>>, s[Len(s)] # Space,
         NEW done \in Seq(AttributeRecord), NEW i \in 1..(Len(s) + 1),
         AttributesOf(s) = Continued(s, done, i),
         ~(\A j \in i..Len(s) : s[j] = Space),
         Attribute(s, i).correct =>
           /\ Attribute(s, i).close < Len(s)
           /\ Attribute(s, i).close \notin UnescapedQuotes(s),
         NEW as \in AttributesOf(s)
  PROVE  \E m \in DOMAIN as :
           /\ m < Len(as)
           /\ BodyOf(s, as[m]) # <<>>
           /\ s[as[m].close - 1] = Backslash
<1>1. PICK rest \in AttributesFrom(s)[i] : as = done \o rest
  BY DEF Continued
<1> DEFINE a == Attribute(s, i)
<1>2. a.correct /\ AttributesFrom(s)[i] = {<<a>> \o r : r \in AttributesFrom(s)[a.close + 1]}
  BY <1>1, AttributesFromPlace
<1>3. PICK r \in AttributesFrom(s)[a.close + 1] : rest = <<a>> \o r
  BY <1>1, <1>2
<1>4. /\ a.open \in 1..Len(s) /\ a.open < Len(s) /\ s[a.open] = Quote
      /\ a \in AttributeRecord
      /\ a.close \in (a.open + 1)..Len(s) /\ s[a.close] = Quote
      /\ a.close < Len(s) /\ a.close \notin UnescapedQuotes(s)
  <2>1. /\ a.open < Len(s) /\ s[a.open] = Quote /\ a \in AttributeRecord
        /\ a.close \in (a.open + 1)..Len(s) /\ s[a.close] = Quote
    BY <1>2, AttributeShape, ZenonT(30)
  <2>2. a.open \in 1..Len(s)
    <3>1. a.start \in i..(Len(s) + 1) /\ a.open \in (a.start + 1)..(Len(s) + 2)
      BY AttributeShape, ZenonT(30)
    <3>2. Len(s) \in Nat
      BY LenProperties
    <3> HIDE DEF a
    <3> QED BY <2>1, <3>1, <3>2
  <2> QED BY <1>2, <2>1, <2>2
<1> HIDE DEF a
<1>5. Len(s) \in Nat /\ Len(s) # 0 /\ DOMAIN s = 1..Len(s)
  BY LenProperties, EmptySeq
<1>6. s[a.close - 1] = Backslash /\ a.close - 1 > a.open
  <2>1. a.close \in DOMAIN s /\ a.close > 1
    <3>1. a.close \in 1..Len(s) /\ a.close > 1
      BY <1>4, <1>5
    <3> QED BY <1>5, <3>1
  <2>2. s[a.close - 1] = Backslash
    BY <1>4, <2>1 DEF UnescapedQuotes, At
  <2>3. a.close - 1 # a.open
    BY <1>4, <2>2 DEF Quote, Backslash
  <2> QED BY <1>4, <1>5, <2>2, <2>3
<1>7. BodyOf(s, a) # <<>>
  <2>1. \A j \in (a.open + 1)..(a.close - 1) : s[j] \in Character
    <3>1. \A j \in (a.open + 1)..(a.close - 1) : j \in 1..Len(s)
      BY <1>4, <1>5
    <3> QED BY <3>1, ElementOfSeq
  <2>3. a.open + 1 \in Int /\ a.close - 1 \in Int /\ a.open + 1 <= a.close - 1
    BY <1>4, <1>5, <1>6
  <2>4. Len(SubSeq(s, a.open + 1, a.close - 1)) = (a.close - 1) - (a.open + 1) + 1
    BY <2>1, <2>3, SubSeqProperties
  <2>5. Len(BodyOf(s, a)) # 0
    BY <1>4, <1>5, <2>3, <2>4 DEF BodyOf
  <2> QED BY <2>5
<1>8. r \in Seq(AttributeRecord) /\ Len(r) \in Nat /\ Len(r) # 0
  <2> DEFINE i2 == a.close + 1
  <2>1. i2 \in 1..(Len(s) + 1) /\ Len(s) \in i2..Len(s)
    BY <1>4, <1>5
  <2>2. AttributesFrom(s)[i2] \in SUBSET Seq(AttributeRecord)
    BY <2>1, AttributesTyped
  <2>3. ~(\A j \in i2..Len(s) : s[j] = Space)
    BY <2>1
  <2>4. r \in AttributesFrom(s)[i2]
    BY <1>3
  <2> HIDE DEF i2
  <2>5. r # <<>>
    <3>1. Attribute(s, i2).correct
      BY <2>1, <2>3, <2>4, AttributesFromPlace
    <3>2. AttributesFrom(s)[i2]
            = {<<Attribute(s, i2)>> \o q : q \in AttributesFrom(s)[Attribute(s, i2).close + 1]}
      BY <2>1, <2>3, <3>1, AttributesFromPlace
    <3>3. PICK q \in AttributesFrom(s)[Attribute(s, i2).close + 1] :
            r = <<Attribute(s, i2)>> \o q
      BY <2>4, <3>2
    <3>4. Attribute(s, i2) \in AttributeRecord
          /\ Attribute(s, i2).close + 1 \in (i2 + 1)..(Len(s) + 1)
      BY <2>1, <3>1, AttributeShape
    <3>5. Attribute(s, i2).close + 1 \in 1..(Len(s) + 1)
      BY <1>5, <2>1, <3>4
    <3>6. q \in Seq(AttributeRecord)
      BY <3>3, <3>5, AttributesTyped
    <3> DEFINE b == Attribute(s, i2)
    <3> HIDE DEF b
    <3>7. b \in AttributeRecord /\ r = <<b>> \o q
      BY <3>3, <3>4 DEF b
    <3>8. Len(<<b>> \o q) = 1 + Len(q) /\ Len(q) \in Nat
      BY <3>6, <3>7, ConcatProperties, LenProperties
    <3>9. Len(r) # 0
      BY <3>7, <3>8
    <3> QED BY <3>9
  <2> QED BY <2>2, <2>4, <2>5, LenProperties, EmptySeq
<1>9. /\ Len(done) \in Nat /\ Len(as) = Len(done) + 1 + Len(r)
      /\ as[Len(done) + 1] = a /\ DOMAIN as = 1..Len(as)
  <2>1. <<a>> \in Seq(AttributeRecord) /\ Len(<<a>>) = 1 /\ <<a>>[1] = a
    BY <1>4
  <2>2. /\ rest \in Seq(AttributeRecord) /\ Len(rest) = 1 + Len(r)
        /\ rest[1] = <<a>>[1]
    BY <1>3, <1>8, <2>1, ConcatProperties
  <2>3. /\ Len(done) \in Nat /\ as \in Seq(AttributeRecord)
        /\ Len(as) = Len(done) + Len(rest)
    BY <1>1, <2>2, ConcatProperties, LenProperties
  <2>4. as[Len(done) + 1] = rest[1]
    <3>1. Len(done) + 1 \in 1..(Len(done) + Len(rest)) /\ ~(Len(done) + 1 <= Len(done))
          /\ (Len(done) + 1) - Len(done) = 1
      BY <1>8, <2>2, <2>3
    <3>2. (done \o rest)[Len(done) + 1] = rest[(Len(done) + 1) - Len(done)]
      BY <2>2, <2>3, <3>1, ConcatProperties
    <3> QED BY <1>1, <3>1, <3>2
  <2>5. DOMAIN as = 1..Len(as)
    BY <2>3, LenProperties
  <2> QED BY <1>8, <2>1, <2>2, <2>3, <2>4, <2>5
<1>10. Len(done) + 1 \in DOMAIN as /\ Len(done) + 1 < Len(as)
  BY <1>8, <1>9
<1> QED BY <1>6, <1>7, <1>9, <1>10

(* A step that refuses the text, and one that reads on.                    *)
LEMMA StepRefuses ==
  ASSUME ScanInv, ReadInv, UNCHANGED input, pc' = "returned", error' # NoError,
         NEW done \in Seq(AttributeRecord), NEW i \in 1..(Len(input) + 1),
         AttributesOf(input) = Continued(input, done, i),
         ~(\A j \in i..Len(input) : input[j] = Space),
         Attribute(input, i).correct =>
           /\ Attribute(input, i).close < Len(input)
           /\ Attribute(input, i).close \notin UnescapedQuotes(input)
  PROVE  ReadInv'
<1>1. input \in Seq(Character) /\ input # <<>> /\ input[Len(input)] # Space
  BY EmptySeq DEF ScanInv, TypeOK, ReadInv
<1>2. ASSUME NEW as \in AttributesOf(input)
      PROVE  \E m \in DOMAIN as :
               /\ m < Len(as)
               /\ BodyOf(input, as[m]) # <<>>
               /\ input[as[m].close - 1] = Backslash
  BY <1>1, RefusedForBackslash
<1>3. RefusesOnlyTrailingBackslash'
  BY <1>2 DEF RefusesOnlyTrailingBackslash
<1>4. ReadsWhatIsWritten'
  BY DEF ReadsWhatIsWritten
<1> QED BY <1>1, <1>3, <1>4 DEF ReadInv

LEMMA StepReadsOn ==
  ASSUME ReadInv, UNCHANGED input, pc' # "returned", error' = NoError,
         NEW done \in Seq(AttributeRecord), NEW i \in 1..(Len(input) + 1),
         AttributesOf(input) = Continued(input, done, i),
         attrs' = Binding(input, done), Reading(i)'
  PROVE  ReadInv'
<1>1. RefusesOnlyTrailingBackslash' /\ ReadsWhatIsWritten'
  BY DEF RefusesOnlyTrailingBackslash, ReadsWhatIsWritten
<1> QED BY <1>1 DEF ReadInv

LEMMA ReadKeyReads ==
  ASSUME ScanInv, ReadInv, ReadKey
  PROVE  ReadInv'
<1> DEFINE start == FirstFrom(input, position, At(input, Character \ {Space}))
           end   == FirstFrom(input, start, At(input, {Equals, Space}))
           a     == Attribute(input, position)
<1>1. /\ input \in Seq(Character) /\ position \in 1..(Len(input) + 1)
      /\ pc = "key" /\ start <= Len(input)
      /\ UNCHANGED <<input, valueStart, attrs>>
  BY DEF ScanInv, TypeOK, ReadKey
<1>2. PICK done \in Seq(AttributeRecord), i \in 1..(Len(input) + 1) :
        /\ AttributesOf(input) = Continued(input, done, i)
        /\ attrs = Binding(input, done)
        /\ Reading(i)
  BY <1>1 DEF ReadInv
<1>3. i = position
  BY <1>1, <1>2 DEF Reading
<1>4. (end = start \/ end > Len(input) \/ input[end] # Equals)
        => Proceed("INVALID_ATTRIBUTE", "open")
  BY DEF ReadKey
<1>5. ~(end = start \/ end > Len(input) \/ input[end] # Equals)
        => /\ position' = end + 1 /\ Proceed(NoError, "open")
           /\ key' = SubSeq(input, start, end - 1)
  BY DEF ReadKey
<1>6. /\ Len(input) \in Nat /\ DOMAIN input = 1..Len(input)
      /\ \A kind : At(input, kind) \in SUBSET (1..Len(input))
  BY <1>1, AtInside
<1>7. /\ start \in position..Len(input) /\ input[start] # Space
  <2>1. /\ start \in position..(Len(input) + 1)
        /\ start <= Len(input) => start \in At(input, Character \ {Space})
    BY <1>1, <1>6, ScanEnds
  <2> HIDE DEF start
  <2>2. start \in At(input, Character \ {Space})
    BY <1>1, <2>1
  <2>3. input[start] # Space
    BY <2>2 DEF At
  <2> QED BY <1>1, <1>6, <2>1, <2>3
<1>8. /\ a.start = start /\ a.open = end + 1
      /\ a.correct => /\ start + 1 < end + 1 /\ end + 1 < Len(input)
                      /\ input[(end + 1) - 1] = Equals
  <2>1. a.start = start /\ a.open = end + 1
    BY <1>1, AttributeShape, ZenonT(30)
  <2>2. a.correct => /\ a.start + 1 < a.open /\ a.open < Len(input)
                     /\ input[a.open - 1] = Equals
    BY <1>1, AttributeShape, ZenonT(30)
  <2> HIDE DEF start, end, a
  <2> QED BY <2>1, <2>2
<1> HIDE DEF start
<1>9. end \in start..(Len(input) + 1)
  <2>1. start \in 1..(Len(input) + 1)
    BY <1>1, <1>6, <1>7
  <2> QED BY <1>1, <1>6, <2>1, ScanEnds
<1> HIDE DEF end, a
<1>10. CASE end = start \/ end > Len(input) \/ input[end] # Equals
  <2>1. pc' = "returned" /\ error' # NoError
    BY <1>4, <1>10 DEF Proceed, NoError
  <2>2. ~a.correct
    <3>1. (end + 1) - 1 = end
      BY <1>1, <1>6, <1>7, <1>9
    <3> QED BY <1>1, <1>6, <1>7, <1>8, <1>9, <1>10, <3>1
  <2>3. ~(\A j \in i..Len(input) : input[j] = Space)
    BY <1>3, <1>7
  <2>4. ~Attribute(input, i).correct
    BY <1>3, <2>2 DEF a
  <2> QED BY <1>1, <1>2, <2>1, <2>3, <2>4, StepRefuses
<1>11. CASE ~(end = start \/ end > Len(input) \/ input[end] # Equals)
  <2>1. /\ position' = end + 1 /\ error' = NoError /\ pc' = "open"
        /\ key' = SubSeq(input, start, end - 1)
    BY <1>5, <1>11 DEF Proceed
  <2>2. /\ start + 1 < end + 1 /\ end + 1 <= Len(input) + 1
        /\ (end + 1) - 1 = end /\ (end + 1) - 2 = end - 1 /\ input[end] = Equals
    BY <1>1, <1>6, <1>7, <1>9, <1>11
  <2>3. /\ a.start + 1 < a.open /\ a.open <= Len(input) + 1
        /\ input[a.open - 1] = Equals
        /\ key' = KeyOf(input, a)
        /\ position' = a.open
    BY <1>8, <2>1, <2>2 DEF KeyOf
  <2>4. KeyRead(i)' /\ position' = Attribute(input, i).open
    BY <1>1, <1>3, <2>3 DEF KeyRead, a
  <2>5. Reading(i)'
    BY <1>1, <2>1, <2>4 DEF Reading
  <2> QED BY <1>1, <1>2, <2>1, <2>5, StepReadsOn
<1> QED BY <1>10, <1>11

LEMMA OpenQuoteReads ==
  ASSUME ScanInv, ReadInv, OpenQuote
  PROVE  ReadInv'
<1>1. /\ input \in Seq(Character) /\ position \in 1..(Len(input) + 1)
      /\ pc = "open" /\ UNCHANGED <<input, key, attrs>>
  BY DEF ScanInv, TypeOK, OpenQuote
<1>2. PICK done \in Seq(AttributeRecord), i \in 1..(Len(input) + 1) :
        /\ AttributesOf(input) = Continued(input, done, i)
        /\ attrs = Binding(input, done)
        /\ Reading(i)
  BY <1>1 DEF ReadInv
<1> DEFINE a == Attribute(input, i)
<1>3. KeyRead(i) /\ position = a.open
  BY <1>1, <1>2 DEF Reading
<1>4. /\ a.start + 1 < a.open /\ a.open <= Len(input) + 1
      /\ input[a.open - 1] = Equals
  BY <1>3 DEF KeyRead
<1>5. /\ a.start \in i..(Len(input) + 1) /\ a.open \in (a.start + 1)..(Len(input) + 2)
      /\ a.correct => a.open < Len(input) /\ input[a.open] = Quote
  BY <1>1, AttributeShape, ZenonT(30)
<1>6. Len(input) \in Nat
  BY <1>1, LenProperties
<1>7. CASE position > Len(input) \/ input[position] # Quote
  <2>1. pc' = "returned" /\ error' # NoError
    BY <1>7 DEF OpenQuote, Proceed, NoError
  <2>2. ~a.correct
    <3> HIDE DEF a
    <3> QED BY <1>1, <1>3, <1>5, <1>6, <1>7
  <2>3. ~(\A j \in i..Len(input) : input[j] = Space)
    <3> HIDE DEF a
    <3>1. a.open - 1 \in i..Len(input)
      BY <1>4, <1>5, <1>6
    <3>2. Equals # Space
      BY DEF Equals, Space
    <3> QED BY <1>4, <3>1, <3>2
  <2> QED BY <1>1, <1>2, <2>1, <2>2, <2>3, StepRefuses
<1>8. CASE ~(position > Len(input) \/ input[position] # Quote)
  <2>1. /\ valueStart' = position /\ position' = position + 1
        /\ error' = NoError /\ pc' = "value"
    BY <1>8 DEF OpenQuote, Proceed
  <2>2. KeyRead(i)'
    BY <1>1, <1>3 DEF KeyRead
  <2>3. valueStart' <= Len(input) /\ input[valueStart'] = Quote
    BY <1>1, <1>6, <1>8, <2>1
  <2>4. valueStart' = Attribute(input, i).open
    BY <1>3, <2>1
  <2>5. Reading(i)'
    BY <1>1, <2>1, <2>2, <2>3, <2>4 DEF Reading
  <2> QED BY <1>1, <1>2, <2>1, <2>5, StepReadsOn
<1> QED BY <1>7, <1>8

(* What stands before the value that begins at the quote just read.        *)
LEMMA ValueBegins ==
  ASSUME NEW s \in Seq(Character), NEW i \in 1..(Len(s) + 1),
         Attribute(s, i).start + 1 < Attribute(s, i).open,
         Attribute(s, i).open <= Len(s), s[Attribute(s, i).open] = Quote
  PROVE  /\ Len(s) \in Nat /\ Attribute(s, i).open \in 1..Len(s)
         /\ ~(\A j \in i..Len(s) : s[j] = Space)
<1> DEFINE a == Attribute(s, i)
<1>1. a.start \in i..(Len(s) + 1) /\ a.open \in (a.start + 1)..(Len(s) + 2)
  BY AttributeShape, ZenonT(30)
<1>2. Len(s) \in Nat
  BY LenProperties
<1> HIDE DEF a
<1>3. a.start + 1 < a.open /\ a.open <= Len(s) /\ s[a.open] = Quote
  BY DEF a
<1>4. a.open \in i..Len(s) /\ a.open \in 1..Len(s)
  BY <1>1, <1>2, <1>3
<1>5. Quote # Space
  BY DEF Quote, Space
<1> QED BY <1>2, <1>3, <1>4, <1>5 DEF a

LEMMA ReadValueReads ==
  ASSUME ScanInv, ReadInv, ReadValue
  PROVE  ReadInv'
<1> DEFINE close == FirstFrom(input, position, UnescapedQuotes(input))
           end   == Min({close, Len(input)})
<1>1. /\ input \in Seq(Character) /\ position \in 1..(Len(input) + 1) /\ pc = "value"
      /\ UNCHANGED <<input, key, valueStart, attrs>>
      /\ position' = end + 1
      /\ Proceed(IF input[end] = Quote THEN NoError ELSE "UNTERMINATED_ATTRIBUTE", "unquote")
  BY DEF ScanInv, TypeOK, ReadValue
<1>2. PICK done \in Seq(AttributeRecord), i \in 1..(Len(input) + 1) :
        /\ AttributesOf(input) = Continued(input, done, i)
        /\ attrs = Binding(input, done)
        /\ Reading(i)
  BY <1>1 DEF ReadInv
<1> DEFINE a == Attribute(input, i)
<1>3. /\ KeyRead(i) /\ valueStart = a.open /\ valueStart <= Len(input)
      /\ input[valueStart] = Quote /\ position = valueStart + 1
  BY <1>1, <1>2 DEF Reading
<1>4. /\ Len(input) \in Nat /\ valueStart \in 1..Len(input)
      /\ ~(\A j \in i..Len(input) : input[j] = Space)
  BY <1>1, <1>3, ValueBegins DEF KeyRead
<1>5. /\ close \in position..(Len(input) + 1)
      /\ close <= Len(input) => close \in UnescapedQuotes(input)
      /\ \A j \in position..(close - 1) : j \notin UnescapedQuotes(input)
  BY <1>1, AtInside, ScanEnds
<1> HIDE DEF close
<1>6. end \in {close, Len(input)} /\ end <= close /\ end <= Len(input)
  <2>1. {close, Len(input)} \in SUBSET Nat /\ {close, Len(input)} # {}
    BY <1>1, <1>4, <1>5
  <2>2. /\ Min({close, Len(input)}) \in {close, Len(input)}
        /\ \A j \in {close, Len(input)} : Min({close, Len(input)}) <= j
    BY <2>1, MinIsLeast
  <2> QED BY <2>2
<1> HIDE DEF end
<1>7. /\ end \in Nat /\ (end + 1) - 1 = end /\ (end + 1) - 2 = end - 1
      /\ end = Len(input) \/ (end = close /\ close <= Len(input))
  BY <1>1, <1>4, <1>5, <1>6
<1>8. ASSUME NEW j \in (valueStart + 1)..(end - 1) PROVE j \notin UnescapedQuotes(input)
  <2>1. j \in position..(close - 1)
    BY <1>1, <1>3, <1>4, <1>5, <1>6, <1>7
  <2> QED BY <1>5, <2>1
<1>9. CASE input[end] = Quote
  <2>1. position' = end + 1 /\ error' = NoError /\ pc' = "unquote"
    BY <1>1, <1>9 DEF Proceed
  <2>2. \/ end > valueStart /\ end \in UnescapedQuotes(input)
        \/ end = Len(input)
    BY <1>1, <1>3, <1>4, <1>5, <1>7
  <2>3. ValueRead'
    <3>1. position' - 1 = end /\ position' - 2 = end - 1
      BY <1>7, <2>1
    <3> QED BY <1>1, <1>8, <1>9, <2>2, <3>1 DEF ValueRead
  <2>4. KeyRead(i)'
    BY <1>1, <1>3 DEF KeyRead
  <2>5. Reading(i)'
    BY <1>1, <1>3, <2>1, <2>3, <2>4 DEF Reading
  <2> QED BY <1>1, <1>2, <2>1, <2>5, StepReadsOn
<1>10. CASE input[end] # Quote
  <2>1. pc' = "returned" /\ error' # NoError
    BY <1>1, <1>10 DEF Proceed, NoError
  <2>2. end = Len(input) /\ end < close
    <3>1. ASSUME close <= Len(input) PROVE input[close] = Quote
      BY <1>5, <3>1 DEF UnescapedQuotes, At
    <3>2. close = Len(input) + 1
      BY <1>1, <1>4, <1>5, <1>6, <1>7, <1>10, <3>1
    <3> QED BY <1>4, <1>7, <3>2
  <2>3. ASSUME a.correct PROVE a.close < Len(input) /\ a.close \notin UnescapedQuotes(input)
    <3>1. a.close \in (a.open + 1)..Len(input) /\ input[a.close] = Quote
      BY <1>1, <2>3, AttributeShape, ZenonT(30)
    <3> HIDE DEF a
    <3>2. a.close # Len(input)
      BY <1>10, <2>2, <3>1
    <3>3. a.close < Len(input) /\ a.close \in (valueStart + 1)..(end - 1)
      BY <1>3, <1>4, <2>2, <3>1, <3>2
    <3> QED BY <1>8, <3>3
  <2> QED BY <1>1, <1>2, <1>4, <2>1, <2>3, StepRefuses
<1> QED BY <1>9, <1>10

(* One attribute more has been read: the list goes on behind it.           *)
LEMMA ContinuedBehind ==
  ASSUME NEW s \in Seq(Character), NEW done \in Seq(AttributeRecord),
         NEW i \in 1..(Len(s) + 1), Attribute(s, i).correct,
         ~(\A j \in i..Len(s) : s[j] = Space)
  PROVE  Continued(s, done, i)
           = Continued(s, Append(done, Attribute(s, i)), Attribute(s, i).close + 1)
<1> DEFINE a == Attribute(s, i)
           rests == AttributesFrom(s)[a.close + 1]
<1>1. AttributesFrom(s)[i] = {<<a>> \o r : r \in rests}
  BY AttributesFromPlace
<1>2. a \in AttributeRecord /\ a.close + 1 \in (i + 1)..(Len(s) + 1)
  BY AttributeShape, ZenonT(30)
<1>3. a.close + 1 \in 1..(Len(s) + 1)
  BY <1>2, LenProperties
<1>4. rests \in SUBSET Seq(AttributeRecord)
  BY <1>3, AttributesTyped
<1> HIDE DEF a, rests
<1>5. ASSUME NEW r \in rests PROVE done \o (<<a>> \o r) = Append(done, a) \o r
  <2>1. r \in Seq(AttributeRecord) /\ <<a>> \in Seq(AttributeRecord)
    BY <1>2, <1>4
  <2>2. done \o (<<a>> \o r) = (done \o <<a>>) \o r
    BY <2>1, ConcatAssociative
  <2>3. done \o <<a>> = Append(done, a)
    BY <1>2, AppendIsConcat
  <2> QED BY <2>2, <2>3
<1>6. Continued(s, done, i) = {done \o (<<a>> \o r) : r \in rests}
  BY <1>1 DEF Continued
<1>7. {done \o (<<a>> \o r) : r \in rests} = {Append(done, a) \o r : r \in rests}
  BY <1>5
<1> QED BY <1>6, <1>7 DEF Continued, a, rests

LEMMA UnquoteValueReads ==
  ASSUME ScanInv, ReadInv, UnquoteValue
  PROVE  ReadInv'
<1> DEFINE value == IF position - valueStart < 2 THEN {}
                    ELSE unquote(SubSeq(input, valueStart + 1, position - 2))
           end == position - 1
<1>1. /\ input \in Seq(Character) /\ position \in 1..(Len(input) + 1) /\ pc = "unquote"
      /\ valueStart < position /\ UNCHANGED <<input, position, key, valueStart>>
  BY DEF ScanInv, TypeOK, UnquoteValue
<1>2. PICK done \in Seq(AttributeRecord), i \in 1..(Len(input) + 1) :
        /\ AttributesOf(input) = Continued(input, done, i)
        /\ attrs = Binding(input, done)
        /\ Reading(i)
  BY <1>1 DEF ReadInv
<1> DEFINE a == Attribute(input, i)
<1>3. /\ KeyRead(i) /\ valueStart = a.open /\ valueStart <= Len(input)
      /\ input[valueStart] = Quote /\ ValueRead
  BY <1>1, <1>2 DEF Reading
<1>4. /\ Len(input) \in Nat /\ valueStart \in 1..Len(input)
      /\ ~(\A j \in i..Len(input) : input[j] = Space)
  BY <1>1, <1>3, ValueBegins DEF KeyRead
<1>5. /\ input[end] = Quote
      /\ (end > valueStart /\ end \in UnescapedQuotes(input)) \/ end = Len(input)
      /\ \A j \in (valueStart + 1)..(end - 1) : j \notin UnescapedQuotes(input)
  <2>1. position - 2 = end - 1
    BY <1>1
  <2> QED BY <1>3, <2>1 DEF ValueRead
<1>6. /\ value = {} => Proceed("INVALID_SYNTAX", "key")
      /\ value # {} =>
           /\ Proceed(NoError, "key")
           /\ attrs' = Assigned(attrs, key, CHOOSE v \in value : TRUE)
  BY DEF UnquoteValue
<1>7. /\ a.close = Closing(input, a.open)
      /\ a.correct = (/\ a.start + 1 < a.open /\ a.open < Len(input)
                      /\ input[a.open - 1] = Equals /\ input[a.open] = Quote
                      /\ a.close <= Len(input)
                      /\ unquote(SubSeq(input, a.open + 1, a.close - 1)) # {})
      /\ a.correct => /\ a \in AttributeRecord
                      /\ a.close \in (a.open + 1)..Len(input) /\ input[a.close] = Quote
  BY <1>1, AttributeShape, ZenonT(30)
<1>8. a.start + 1 < a.open /\ input[a.open - 1] = Equals /\ key = KeyOf(input, a)
  BY <1>3 DEF KeyRead
<1>9. /\ end \in valueStart..Len(input) /\ end + 1 = position
      /\ (position - valueStart < 2) <=> (end = valueStart)
      /\ end = valueStart => valueStart = Len(input)
      /\ position - 2 = end - 1
  <2>1. end \in valueStart..Len(input) /\ end + 1 = position /\ position - 2 = end - 1
    BY <1>1, <1>4
  <2>2. (position - valueStart < 2) <=> (end = valueStart)
    BY <1>1, <1>4
  <2>3. end = valueStart => valueStart = Len(input)
    BY <1>1, <1>4, <1>5
  <2> QED BY <2>1, <2>2, <2>3
<1>10. (end = valueStart => value = {})
       /\ (end # valueStart => value = unquote(SubSeq(input, valueStart + 1, end - 1)))
  BY <1>9
<1> HIDE DEF value, end, a
<1>11. CASE value = {}
  <2>1. pc' = "returned" /\ error' # NoError
    BY <1>6, <1>11 DEF Proceed, NoError
  <2>2. ASSUME a.correct PROVE a.close < Len(input) /\ a.close \notin UnescapedQuotes(input)
    <3>1. /\ a.open < Len(input) /\ a.close \in (a.open + 1)..Len(input)
          /\ unquote(SubSeq(input, a.open + 1, a.close - 1)) # {}
      BY <1>7, <2>2
    <3>2. end # valueStart
      BY <1>3, <1>9, <3>1
    <3>3. end \in (valueStart + 1)..Len(input)
      BY <1>4, <1>9, <3>2
    <3>4. a.close # end
      BY <1>3, <1>10, <1>11, <3>1, <3>2
    <3>5. a.close <= end
      <4>1. CASE end = Len(input)
        BY <3>1, <4>1
      <4>2. CASE end \in UnescapedQuotes(input)
        BY <1>1, <1>3, <1>4, <1>7, <3>3, <4>2, ClosesNotLater
      <4> QED BY <1>5, <4>1, <4>2
    <3>6. a.close < Len(input) /\ a.close \in (valueStart + 1)..(end - 1)
      BY <1>3, <1>4, <1>9, <3>1, <3>3, <3>4, <3>5
    <3> QED BY <1>5, <3>6
  <2> QED BY <1>1, <1>2, <1>4, <2>1, <2>2, StepRefuses DEF a
<1>12. CASE value # {}
  <2>1. /\ pc' = "key" /\ error' = NoError
        /\ attrs' = Assigned(attrs, key, CHOOSE v \in value : TRUE)
    BY <1>6, <1>12 DEF Proceed
  <2>2. /\ end # valueStart /\ value = unquote(SubSeq(input, valueStart + 1, end - 1))
        /\ end \in (valueStart + 1)..Len(input)
    BY <1>4, <1>9, <1>10, <1>12
  <2>3. Closing(input, valueStart) = end
    BY <1>1, <1>4, <1>5, <1>12, <2>2, UnquotedCloses
  <2>4. a.close = end
    BY <1>3, <1>7, <2>3
  <2>5. a.correct /\ value = unquote(BodyOf(input, a))
    <3>1. value = unquote(SubSeq(input, a.open + 1, a.close - 1))
      BY <1>3, <2>2, <2>4
    <3>2. a.open < Len(input) /\ a.close <= Len(input)
      BY <1>3, <1>4, <2>2, <2>4
    <3>3. a.correct
      BY <1>3, <1>7, <1>8, <1>12, <3>1, <3>2
    <3> QED BY <3>1, <3>3 DEF BodyOf
  <2> DEFINE more == Append(done, a)
  <2>6. a \in AttributeRecord /\ more \in Seq(AttributeRecord)
    <3>1. a \in AttributeRecord
      BY <1>7, <2>5
    <3> QED BY <3>1, AppendProperties
  <2>7. attrs' = Binding(input, more)
    <3>1. attrs' = Assigned(Binding(input, done), KeyOf(input, a),
                            CHOOSE v \in unquote(BodyOf(input, a)) : TRUE)
      BY <1>2, <1>8, <2>1, <2>5
    <3> QED BY <2>6, <3>1, BindingAppend
  <2>8. AttributesOf(input) = Continued(input, more, position)
    <3>1. Continued(input, done, i) = Continued(input, more, a.close + 1)
      BY <1>1, <1>4, <2>5, ContinuedBehind DEF a
    <3> QED BY <1>2, <1>9, <2>4, <3>1
  <2>9. Reading(position)'
    <3>1. pc' = "key" /\ position' = position
      BY <1>1, <2>1
    <3> QED BY <3>1 DEF Reading
  <2> HIDE DEF more
  <2> QED BY <1>1, <2>1, <2>6, <2>7, <2>8, <2>9, StepReadsOn
<1> QED BY <1>11, <1>12

LEMMA ReturnReads ==
  ASSUME ScanInv, ReadInv, ReturnAttributes
  PROVE  ReadInv'
<1>1. /\ input \in Seq(Character) /\ pc = "key" /\ pc' = "returned"
      /\ \A j \in position..Len(input) : input[j] = Space
      /\ UNCHANGED <<input, key, valueStart, attrs, error>>
  BY DEF ScanInv, TypeOK, ReturnAttributes
<1>2. error = NoError /\ input[Len(input)] # Space
  BY <1>1 DEF ReadInv
<1>3. PICK done \in Seq(AttributeRecord), i \in 1..(Len(input) + 1) :
        /\ AttributesOf(input) = Continued(input, done, i)
        /\ attrs = Binding(input, done)
        /\ Reading(i)
  BY <1>1 DEF ReadInv
<1>4. i = position
  BY <1>1, <1>3 DEF Reading
<1>5. AttributesFrom(input)[i] = {<<>>}
  BY <1>1, <1>4, AttributesFromPlace
<1>6. AttributesOf(input) = {done}
  <2>1. done \o <<>> = done
    BY ConcatEmptySeq
  <2>2. Continued(input, done, i) = {done \o <<>>}
    BY <1>5 DEF Continued
  <2> QED BY <1>3, <2>1, <2>2
<1>7. done \in AttributesOf(input) /\ attrs' = Binding(input, done)
  BY <1>1, <1>3, <1>6
<1>8. ReadsWhatIsWritten'
  BY <1>1, <1>7 DEF ReadsWhatIsWritten
<1>9. RefusesOnlyTrailingBackslash'
  BY <1>1, <1>2 DEF RefusesOnlyTrailingBackslash
<1> QED BY <1>1, <1>2, <1>8, <1>9 DEF ReadInv

LEMMA StutterReads ==
  ASSUME ReadInv, UNCHANGED vars
  PROVE  ReadInv'
BY DEF vars, ReadInv, Reading, KeyRead, ValueRead, ReadsWhatIsWritten,
       RefusesOnlyTrailingBackslash

(* Whatever the text, the attributes that parseAttributes has read so far  *)
(* are the first ones of every list of attributes that the text may be     *)
(* (compile.go:167-207).                                                   *)
THEOREM ReadInvariant == Spec => []ReadInv
<1>1. ScanInv /\ ReadInv /\ [Next]_vars => ReadInv'
  <2> SUFFICES ASSUME ScanInv, ReadInv, [Next]_vars PROVE ReadInv'
    OBVIOUS
  <2>1. CASE UNCHANGED vars
    BY <2>1, StutterReads
  <2>2. CASE Next
    BY <2>2, ReadKeyReads, OpenQuoteReads, ReadValueReads, UnquoteValueReads, ReturnReads,
       StutterReads DEF Next, Returned
  <2> QED BY <2>1, <2>2
<1> QED BY <1>1, InitRead, ScanInvariant, PTL DEF Spec

(* A text that is accepted is a list of attributes, and every key is bound *)
(* to the last value the text gives it: the look at one character before a *)
(* quote (compile.go:191-193) never misreads a value, because Unquote      *)
(* refuses a text that has been cut at the wrong place.                    *)
THEOREM AttributesRead == Spec => []ReadsWhatIsWritten
<1>1. ReadInv => ReadsWhatIsWritten
  BY DEF ReadInv
<1> QED BY <1>1, ReadInvariant, PTL

(* A list of attributes is refused only when a value that is not the last  *)
(* ends in a backslash (compile.go:191-203).                               *)
THEOREM RefusalsExplained == Spec => []RefusesOnlyTrailingBackslash
<1>1. ReadInv => RefusesOnlyTrailingBackslash
  BY DEF ReadInv
<1> QED BY <1>1, ReadInvariant, PTL
=============================================================================
