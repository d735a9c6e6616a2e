--------------------------- MODULE ComposeProofs ----------------------------
(***************************************************************************)
(* The check of the compose files is right about every repository: for any *)
(* files in any order, any paths and any manifest.                         *)
(***************************************************************************)
EXTENDS ComposeCheck, FiniteSetTheorems, SequenceTheorems, TLAPS

\* A set of naturals has a least member: what every induction below rests on.
LEMMA LeastOf ==
  ASSUME NEW S, S \subseteq Nat, S # {}
  PROVE  \E k \in S : \A j \in S : k <= j
<1>1. PICK k \in S : \A j \in S : ~ (<<j, k>> \in OpToRel(<, Nat))
  BY NatLessThanWellFounded, WFMin
<1>2. \A j \in S : ~ (j < k) BY <1>1 DEF OpToRel
<1> QED BY <1>2

\* A sequence is the function of its places.
LEMMA SeqIs ==
  ASSUME NEW R, NEW s \in Seq(R)
  PROVE  s = [i \in 1..Len(s) |-> s[i]]
OBVIOUS

(***************************************************************************)
(* Texts: where a separator cuts them.                                     *)
(***************************************************************************)

\* A text has a token at every place, and each of its tokens at some place.
LEMMA TextIs ==
  ASSUME NEW text, IsText(text)
  PROVE  /\ Len(text) \in Nat /\ DOMAIN text = 1..Len(text)
         /\ text = [i \in 1..Len(text) |-> text[i]]
         /\ \A i \in 1..Len(text) : text[i] \in Range(text)
         /\ \A token \in Range(text) : \E i \in 1..Len(text) : text[i] = token
<1>1. text \in Seq(Range(text)) BY DEF IsText
<1>2. Len(text) \in Nat /\ DOMAIN text = 1..Len(text) BY <1>1, LenProperties
<1>3. text = [i \in 1..Len(text) |-> text[i]] BY <1>1, SeqIs
<1> QED BY <1>2, <1>3 DEF Range

\* A sequence over any set is a text, of tokens of that set.
LEMMA TextOf ==
  ASSUME NEW S, NEW text \in Seq(S)
  PROVE  IsText(text) /\ Range(text) \subseteq S
<1>1. Len(text) \in Nat /\ text \in [1..Len(text) -> S] BY LenProperties
<1>2. Range(text) \subseteq S BY <1>1 DEF Range
<1>3. text \in [1..Len(text) -> Range(text)] BY <1>1 DEF Range
<1>4. text \in Seq(Range(text)) BY <1>1, <1>3
<1> QED BY <1>2, <1>4 DEF IsText

\* Two texts one after the other.
LEMMA TextSum ==
  ASSUME NEW x, NEW y, IsText(x), IsText(y)
  PROVE  /\ IsText(x \o y) /\ Range(x \o y) = Range(x) \cup Range(y)
         /\ Len(x \o y) = Len(x) + Len(y)
         /\ \A i \in 1..Len(x) : (x \o y)[i] = x[i]
         /\ \A i \in 1..Len(y) : (x \o y)[Len(x) + i] = y[i]
<1> DEFINE S == Range(x) \cup Range(y)
<1>1. x \in Seq(S) /\ y \in Seq(S)
  <2>1. x \in Seq(Range(x)) /\ y \in Seq(Range(y)) BY DEF IsText
  <2>2. Range(x) \subseteq S /\ Range(y) \subseteq S OBVIOUS
  <2> HIDE DEF S
  <2> QED BY <2>1, <2>2, SeqMonotonic
<1>2. Len(x) \in Nat /\ Len(y) \in Nat BY TextIs
<1> HIDE DEF S
<1>3. /\ x \o y \in Seq(S) /\ Len(x \o y) = Len(x) + Len(y)
      /\ \A i \in 1..(Len(x) + Len(y)) : (x \o y)[i] = IF i <= Len(x) THEN x[i] ELSE y[i - Len(x)]
  BY <1>1, ConcatProperties
<1>4. \A i \in 1..Len(x) : i \in 1..(Len(x) + Len(y)) /\ (x \o y)[i] = x[i]
  BY <1>2, <1>3
<1>5. \A i \in 1..Len(y) : Len(x) + i \in 1..(Len(x) + Len(y)) /\ (x \o y)[Len(x) + i] = y[i]
  <2> TAKE i \in 1..Len(y)
  <2>1. Len(x) + i \in 1..(Len(x) + Len(y)) /\ ~ (Len(x) + i <= Len(x)) /\ (Len(x) + i) - Len(x) = i BY <1>2
  <2> QED BY <1>3, <2>1
<1>6. IsText(x \o y) /\ Range(x \o y) \subseteq S
  BY <1>3, TextOf
<1>7. S \subseteq Range(x \o y)
  <2>1. \A i \in 1..(Len(x) + Len(y)) : (x \o y)[i] \in Range(x \o y) BY <1>3, <1>6, TextIs
  <2>2. \A i \in 1..Len(x) : x[i] \in Range(x \o y) BY <1>4, <2>1
  <2>3. \A i \in 1..Len(y) : y[i] \in Range(x \o y) BY <1>5, <2>1
  <2>4. ASSUME NEW token \in Range(x) PROVE token \in Range(x \o y)
    <3>1. PICK i \in 1..Len(x) : x[i] = token BY TextIs
    <3> QED BY <3>1, <2>2
  <2>5. ASSUME NEW token \in Range(y) PROVE token \in Range(x \o y)
    <3>1. PICK i \in 1..Len(y) : y[i] = token BY TextIs
    <3> QED BY <3>1, <2>3
  <2> QED BY <2>4, <2>5 DEF S
<1> QED BY <1>3, <1>4, <1>5, <1>6, <1>7 DEF S

\* A place in the second of two texts.
LEMMA TextTail ==
  ASSUME NEW x, NEW y, IsText(x), IsText(y), NEW i \in 1..Len(y)
  PROVE  (x \o y)[Len(x) + i] = y[i]
BY TextSum

\* Three texts one after the other, whichever two are put together first.
Grouped(x, y, z) == (x \o y) \o z = x \o (y \o z)

LEMMA TextAssoc ==
  ASSUME NEW x, NEW y, NEW z, IsText(x), IsText(y), IsText(z)
  PROVE  Grouped(x, y, z)
<1> DEFINE S == Range(x) \cup Range(y) \cup Range(z)
<1>1. x \in Seq(S) /\ y \in Seq(S) /\ z \in Seq(S)
  <2>1. x \in Seq(Range(x)) /\ y \in Seq(Range(y)) /\ z \in Seq(Range(z)) BY DEF IsText
  <2>2. Range(x) \subseteq S /\ Range(y) \subseteq S /\ Range(z) \subseteq S OBVIOUS
  <2> HIDE DEF S
  <2> QED BY <2>1, <2>2, SeqMonotonic
<1> HIDE DEF S
<1> QED BY <1>1, ConcatAssociative DEF Grouped

\* The empty text.
LEMMA TextNil ==
  /\ IsText(<<>>) /\ Range(<<>>) = {} /\ Len(<<>>) = 0
  /\ \A x : IsText(x) => x \o <<>> = x /\ <<>> \o x = x
  /\ \A x : IsText(x) => (x = <<>> <=> Len(x) = 0)
<1>1. <<>> \in Seq({}) /\ Len(<<>>) = 0 BY EmptySeq
<1>2. IsText(<<>>) /\ Range(<<>>) = {}
  <2>1. \A text \in Seq({}) : IsText(text) /\ Range(text) \subseteq {} BY TextOf
  <2>2. IsText(<<>>) /\ Range(<<>>) \subseteq {} BY <1>1, <2>1
  <2> QED BY <2>2
<1>3. ASSUME NEW x, IsText(x)
      PROVE  x \o <<>> = x /\ <<>> \o x = x
  <2>1. x \in Seq(Range(x)) BY <1>3 DEF IsText
  <2> QED BY <2>1, ConcatEmptySeq
<1>4. ASSUME NEW x, IsText(x)
      PROVE  x = <<>> <=> Len(x) = 0
  <2>1. x \in Seq(Range(x)) BY <1>4 DEF IsText
  <2> QED BY <2>1, EmptySeq
<1> QED BY <1>1, <1>2, <1>3, <1>4

\* A text of one token.
LEMMA TextOne ==
  ASSUME NEW token
  PROVE  IsText(<<token>>) /\ Range(<<token>>) = {token} /\ Len(<<token>>) = 1 /\ <<token>>[1] = token
<1>1. <<token>> \in Seq({token}) /\ Len(<<token>>) = 1 /\ <<token>>[1] = token OBVIOUS
<1>2. IsText(<<token>>) /\ Range(<<token>>) \subseteq {token} BY <1>1, TextOf
<1>3. token \in Range(<<token>>)
  <2>1. 1 \in 1..Len(<<token>>) BY <1>1
  <2> QED BY <1>1, <1>2, <2>1, TextIs
<1> QED BY <1>1, <1>2, <1>3

\* A part of a text.
LEMMA TextPart ==
  ASSUME NEW text, IsText(text), NEW first \in Nat \ {0}, NEW last \in Nat, last <= Len(text),
         NEW length \in Nat, first + length = last + 1
  PROVE  /\ IsText(SubSeq(text, first, last)) /\ Len(SubSeq(text, first, last)) = length
         /\ \A i \in 1..length : SubSeq(text, first, last)[i] = text[first + i - 1]
<1>1. Len(text) \in Nat /\ \A i \in 1..Len(text) : text[i] \in Range(text) BY TextIs
<1>2. \A i \in first..last : text[i] \in Range(text) BY <1>1
<1>3. first \in Int /\ last \in Int /\ last - first + 1 = length /\ (~ (first <= last) => length = 0) OBVIOUS
<1>4. /\ SubSeq(text, first, last) \in Seq(Range(text))
      /\ Len(SubSeq(text, first, last)) = IF first <= last THEN last - first + 1 ELSE 0
      /\ \A i \in 1..(last - first + 1) : SubSeq(text, first, last)[i] = text[first + i - 1]
  BY <1>2, <1>3, SubSeqProperties
<1> QED BY <1>3, <1>4, TextOf

\* Two texts with the same tokens.
LEMMA TextSame ==
  ASSUME NEW x, NEW y, IsText(x), IsText(y), Len(x) = Len(y), \A i \in 1..Len(x) : x[i] = y[i]
  PROVE  x = y
<1>1. x = [i \in 1..Len(x) |-> x[i]] /\ y = [i \in 1..Len(y) |-> y[i]] BY TextIs
<1> QED BY <1>1

\* A sum is cut where its parts meet.
LEMMA TextCut ==
  ASSUME NEW x, NEW y, IsText(x), IsText(y)
  PROVE  /\ SubSeq(x \o y, 1, Len(x)) = x
         /\ SubSeq(x \o y, Len(x) + 1, Len(x \o y)) = y
<1> DEFINE text == x \o y
<1>1. /\ Len(x) \in Nat /\ Len(y) \in Nat /\ IsText(text) /\ Len(text) = Len(x) + Len(y)
      /\ \A i \in 1..Len(x) : text[i] = x[i]
      /\ \A i \in 1..Len(y) : text[Len(x) + i] = y[i]
  BY TextIs, TextSum
<1> HIDE DEF text
<1>2. SubSeq(text, 1, Len(x)) = x
  <2> DEFINE part == SubSeq(text, 1, Len(x))
  <2>1. /\ IsText(part) /\ Len(part) = Len(x)
        /\ \A i \in 1..Len(x) : part[i] = text[1 + i - 1]
    <3>1. 1 \in Nat \ {0} /\ Len(x) <= Len(text) /\ 1 + Len(x) = Len(x) + 1 BY <1>1
    <3> QED BY <1>1, <3>1, TextPart
  <2> HIDE DEF part
  <2>2. \A i \in 1..Len(x) : part[i] = x[i] BY <2>1, <1>1
  <2>3. part = x BY <2>1, <2>2, TextSame
  <2> QED BY <2>3 DEF part
<1>3. SubSeq(text, Len(x) + 1, Len(text)) = y
  <2> DEFINE part == SubSeq(text, Len(x) + 1, Len(text))
  <2>1. /\ IsText(part) /\ Len(part) = Len(y)
        /\ \A i \in 1..Len(y) : part[i] = text[(Len(x) + 1) + i - 1]
    <3>1. /\ Len(x) + 1 \in Nat \ {0} /\ Len(text) \in Nat /\ Len(text) <= Len(text)
          /\ (Len(x) + 1) + Len(y) = Len(text) + 1
      BY <1>1
    <3> QED BY <1>1, <3>1, TextPart
  <2> HIDE DEF part
  <2>2. \A i \in 1..Len(y) : part[i] = y[i]
    <3> TAKE i \in 1..Len(y)
    <3>1. (Len(x) + 1) + i - 1 = Len(x) + i BY <1>1
    <3> QED BY <3>1, <2>1, <1>1
  <2>3. part = y BY <2>1, <2>2, <1>1, TextSame
  <2> QED BY <2>3 DEF part
<1> QED BY <1>2, <1>3 DEF text

\* Where a separator is not.
LEMMA NotCut ==
  ASSUME NEW text, IsText(text), NEW sep, sep \notin Range(text)
  PROVE  /\ Until(text, sep) = text /\ After(text, sep) = <<>>
         /\ BeforeLast(text, sep) = <<>> /\ AfterLast(text, sep) = text
<1>1. Positions(text, sep) = {} BY TextIs DEF Positions
<1> QED BY <1>1 DEF Until, After, BeforeLast, AfterLast

\* The places of a separator that is put between two texts.
LEMMA Places ==
  ASSUME NEW x, NEW sep, NEW y, IsText(x), IsText(y)
  PROVE  /\ IsText(x \o <<sep>> \o y) /\ Range(x \o <<sep>> \o y) = Range(x) \cup {sep} \cup Range(y)
         /\ Len(x) + 1 \in Positions(x \o <<sep>> \o y, sep)
         /\ \A k \in Positions(x \o <<sep>> \o y, sep) : k \in Nat
         /\ sep \notin Range(x) => \A k \in Positions(x \o <<sep>> \o y, sep) : Len(x) + 1 <= k
         /\ sep \notin Range(y) => \A k \in Positions(x \o <<sep>> \o y, sep) : k <= Len(x) + 1
<1> DEFINE head == x \o <<sep>>
           text == head \o y
<1>1. IsText(<<sep>>) /\ Range(<<sep>>) = {sep} /\ Len(<<sep>>) = 1 /\ <<sep>>[1] = sep BY TextOne
<1>2. Len(x) \in Nat /\ Len(y) \in Nat BY TextIs
<1>3. /\ IsText(head) /\ Range(head) = Range(x) \cup {sep} /\ Len(head) = Len(x) + 1
      /\ \A i \in 1..Len(x) : head[i] = x[i]
      /\ \A i \in 1..1 : head[Len(x) + i] = <<sep>>[i]
  BY <1>1, TextSum
<1> HIDE DEF head
<1>4. /\ IsText(text) /\ Range(text) = Range(head) \cup Range(y) /\ Len(text) = Len(head) + Len(y)
      /\ \A i \in 1..Len(head) : text[i] = head[i]
      /\ \A i \in 1..Len(y) : text[Len(head) + i] = y[i]
  BY <1>3, TextSum
<1>5. DOMAIN text = 1..Len(text) BY <1>4, TextIs
<1> HIDE DEF text
<1>6. Len(x) + 1 \in Positions(text, sep)
  <2>1. Len(x) + 1 \in 1..Len(head) /\ Len(x) + 1 \in 1..Len(text) BY <1>2, <1>3, <1>4
  <2>2. head[Len(x) + 1] = sep BY <1>1, <1>3
  <2> QED BY <2>1, <2>2, <1>4, <1>5 DEF Positions
<1>7. ASSUME NEW k \in Positions(text, sep)
      PROVE  /\ k \in Nat
             /\ sep \notin Range(x) => Len(x) + 1 <= k
             /\ sep \notin Range(y) => k <= Len(x) + 1
  <2>1. k \in 1..(Len(head) + Len(y)) /\ text[k] = sep BY <1>4, <1>5 DEF Positions
  <2>2. CASE k \in 1..Len(x)
    <3>1. k \in 1..Len(head) BY <2>2, <1>2, <1>3
    <3>2. x[k] = sep BY <2>1, <2>2, <3>1, <1>3, <1>4
    <3>3. sep \in Range(x) BY <2>2, <3>2, TextIs
    <3> QED BY <2>2, <3>3, <1>2
  <2>3. CASE k = Len(x) + 1
    BY <2>3, <1>2
  <2>4. CASE k \in (Len(head) + 1)..(Len(head) + Len(y))
    <3>1. k - Len(head) \in 1..Len(y) /\ Len(head) + (k - Len(head)) = k BY <2>4, <1>2, <1>3
    <3>2. y[k - Len(head)] = sep BY <2>1, <3>1, <1>4
    <3>3. sep \in Range(y) BY <3>1, <3>2, TextIs
    <3> QED BY <2>4, <3>3, <1>2, <1>3
  <2> QED BY <2>1, <2>2, <2>3, <2>4, <1>2, <1>3
<1> QED BY <1>3, <1>4, <1>6, <1>7 DEF head, text

\* A separator between two texts cuts at the first, if the first text does not hold it.
LEMMA CutFirst ==
  ASSUME NEW x, NEW sep, NEW y, IsText(x), IsText(y), sep \notin Range(x)
  PROVE  Until(x \o <<sep>> \o y, sep) = x /\ After(x \o <<sep>> \o y, sep) = y
<1> DEFINE text == x \o <<sep>> \o y
           places == Positions(text, sep)
<1>1. Len(x) + 1 \in places /\ \A k \in places : k \in Nat /\ Len(x) + 1 <= k
  BY Places
<1>2. Len(x) \in Nat BY TextIs
<1> HIDE DEF places
<1>3. Min(places) = Len(x) + 1
  BY <1>1, <1>2 DEF Min
<1>4. IsText(<<sep>>) /\ Len(<<sep>>) = 1 BY TextOne
<1>5. IsText(x \o <<sep>>) /\ Len(x \o <<sep>>) = Len(x) + 1 BY <1>4, TextSum
<1>6. IsText(<<sep>> \o y) /\ text = x \o (<<sep>> \o y)
  <2>1. IsText(<<sep>> \o y) BY <1>4, TextSum
  <2>2. Grouped(x, <<sep>>, y) BY <1>4, TextAssoc
  <2> QED BY <2>1, <2>2 DEF Grouped
<1>7. SubSeq(text, 1, Len(x)) = x BY <1>6, TextCut
<1>8. SubSeq(text, (Len(x) + 1) + 1, Len(text)) = y BY <1>5, TextCut
<1>9. places # {} /\ (Len(x) + 1) - 1 = Len(x) BY <1>1, <1>2
<1> HIDE DEF text
<1>10. Until(text, sep) = x BY <1>3, <1>7, <1>9 DEF Until, places
<1>11. After(text, sep) = y BY <1>3, <1>8, <1>9 DEF After, places
<1> QED BY <1>10, <1>11 DEF text

\* Or at the last, if the second text does not hold it.
LEMMA CutLast ==
  ASSUME NEW x, NEW sep, NEW y, IsText(x), IsText(y), sep \notin Range(y)
  PROVE  BeforeLast(x \o <<sep>> \o y, sep) = x /\ AfterLast(x \o <<sep>> \o y, sep) = y
<1> DEFINE text == x \o <<sep>> \o y
           places == Positions(text, sep)
<1>1. Len(x) + 1 \in places /\ \A k \in places : k \in Nat /\ k <= Len(x) + 1
  BY Places
<1>2. Len(x) \in Nat BY TextIs
<1> HIDE DEF places
<1>3. Max(places) = Len(x) + 1
  BY <1>1, <1>2 DEF Max
<1>4. IsText(<<sep>>) /\ Len(<<sep>>) = 1 BY TextOne
<1>5. IsText(x \o <<sep>>) /\ Len(x \o <<sep>>) = Len(x) + 1 BY <1>4, TextSum
<1>6. IsText(<<sep>> \o y) /\ text = x \o (<<sep>> \o y)
  <2>1. IsText(<<sep>> \o y) BY <1>4, TextSum
  <2>2. Grouped(x, <<sep>>, y) BY <1>4, TextAssoc
  <2> QED BY <2>1, <2>2 DEF Grouped
<1>7. SubSeq(text, 1, Len(x)) = x BY <1>6, TextCut
<1>8. SubSeq(text, (Len(x) + 1) + 1, Len(text)) = y BY <1>5, TextCut
<1>9. places # {} /\ (Len(x) + 1) - 1 = Len(x) BY <1>1, <1>2
<1> HIDE DEF text
<1>10. BeforeLast(text, sep) = x BY <1>3, <1>7, <1>9 DEF BeforeLast, places
<1>11. AfterLast(text, sep) = y BY <1>3, <1>8, <1>9 DEF AfterLast, places
<1> QED BY <1>10, <1>11 DEF text

(***************************************************************************)
(* Paths: os.path.normpath walks to where a path leads.                    *)
(***************************************************************************)

IsName(token) == token \notin {"/", ".", ".."}

\* The walk that Normal takes, up to a token of the path.
IsWalk(walk, path, upto) ==
  walk = [k \in 0..upto |-> IF k = 0 THEN <<>> ELSE Step(walk[k - 1], path[k])]

\* The recursion has a solution: up to any token there is a walk.
LEMMA WalkExists ==
  ASSUME NEW path, NEW upto \in Nat
  PROVE  \E walk : IsWalk(walk, path, upto)
<1> DEFINE Bad == {k \in Nat : ~ \E walk : IsWalk(walk, path, k)}
<1>1. SUFFICES ASSUME Bad # {} PROVE FALSE
  OBVIOUS
<1>2. PICK k \in Bad : \A j \in Bad : k <= j
  <2> HIDE DEF Bad
  <2>1. Bad \subseteq Nat BY DEF Bad
  <2> QED BY <1>1, <2>1, LeastOf
<1>3. k \in Nat /\ ~ \E walk : IsWalk(walk, path, k)
  OBVIOUS
<1>4. CASE k = 0
  <2>1. IsWalk([i \in 0..0 |-> <<>>], path, 0)
    BY DEF IsWalk
  <2> QED BY <1>3, <1>4, <2>1
<1>5. CASE k # 0
  <2>1. k - 1 \in Nat /\ k - 1 \notin Bad
    BY <1>2, <1>3, <1>5
  <2>2. PICK walk : IsWalk(walk, path, k - 1)
    BY <2>1
  <2> DEFINE longer == [i \in 0..k |-> IF i = k THEN Step(walk[k - 1], path[k]) ELSE walk[i]]
  <2>3. \A i \in 0..(k - 1) : walk[i] = IF i = 0 THEN <<>> ELSE Step(walk[i - 1], path[i])
    BY <2>2 DEF IsWalk
  <2>4. \A i \in 0..k : longer[i] = IF i = 0 THEN <<>> ELSE Step(longer[i - 1], path[i])
    <3> TAKE i \in 0..k
    <3>1. CASE i = k
      <4>1. longer[i - 1] = walk[k - 1] BY <3>1, <1>3, <1>5
      <4> QED BY <4>1, <3>1, <1>5
    <3>2. CASE i # k
      <4>1. i \in 0..(k - 1) /\ longer[i] = walk[i] BY <3>2, <1>3
      <4>2. i # 0 => longer[i - 1] = walk[i - 1] BY <3>2, <1>3
      <4> QED BY <4>1, <4>2, <2>3
    <3> QED BY <3>1, <3>2
  <2>5. longer = [i \in 0..k |-> IF i = 0 THEN <<>> ELSE Step(longer[i - 1], path[i])]
    <3>1. longer = [i \in 0..k |-> longer[i]] OBVIOUS
    <3> HIDE DEF longer
    <3> QED BY <2>4, <3>1
  <2>6. IsWalk(longer, path, k)
    BY <2>5 DEF IsWalk
  <2> QED BY <1>3, <2>6
<1> QED BY <1>4, <1>5

\* What `Normal` answers is the end of a walk over the whole path.
LEMMA NormalWalks ==
  ASSUME NEW path, IsText(path)
  PROVE  \E walk : IsWalk(walk, path, Len(path)) /\ Normal(path) = walk[Len(path)]
<1> DEFINE found == CHOOSE walk : IsWalk(walk, path, Len(path))
<1>1. IsWalk(found, path, Len(path))
  <2>1. \E walk : IsWalk(walk, path, Len(path)) BY WalkExists DEF IsText
  <2> QED BY <2>1
<1>2. Normal(path) = found[Len(path)]
  BY DEF Normal, IsWalk
<1> QED BY <1>1, <1>2

\* How many more names than `..` there are after k, up to j.
Excess(path, k, j) ==
  Cardinality(NamesOf(path, (k + 1)..j)) - Cardinality(UpsOf(path, (k + 1)..j))

\* What one more token changes.
LEMMA OneMore ==
  ASSUME NEW path, NEW k \in Nat, NEW j \in Nat, k <= j
  PROVE  /\ Cardinality(NamesOf(path, (k + 1)..j)) \in Nat
         /\ Cardinality(UpsOf(path, (k + 1)..j)) \in Nat
         /\ Excess(path, k, j) \in Int
         /\ Excess(path, j, j) = 0
         /\ IsName(path[j + 1]) => Excess(path, k, j + 1) = Excess(path, k, j) + 1
         /\ path[j + 1] = ".." => Excess(path, k, j + 1) = Excess(path, k, j) - 1
         /\ path[j + 1] \in {"/", "."} => Excess(path, k, j + 1) = Excess(path, k, j)
<1> DEFINE names(i) == NamesOf(path, (k + 1)..i)
           ups(i) == UpsOf(path, (k + 1)..i)
<1>1. ASSUME NEW i \in Nat
      PROVE  /\ IsFiniteSet(names(i)) /\ Cardinality(names(i)) \in Nat
             /\ IsFiniteSet(ups(i)) /\ Cardinality(ups(i)) \in Nat
  <2>1. IsFiniteSet((k + 1)..i)
    <3>1. k + 1 \in Int /\ i \in Int OBVIOUS
    <3> QED BY <3>1, FS_Interval
  <2>2. names(i) \subseteq (k + 1)..i /\ ups(i) \subseteq (k + 1)..i BY DEF NamesOf, UpsOf
  <2>3. IsFiniteSet(names(i)) /\ IsFiniteSet(ups(i)) BY <2>1, <2>2, FS_Subset
  <2> QED BY <2>3, FS_CardinalityType
<1>2. Excess(path, j, j) = 0
  <2>1. NamesOf(path, (j + 1)..j) = {} /\ UpsOf(path, (j + 1)..j) = {} BY DEF NamesOf, UpsOf
  <2>2. Cardinality({}) = 0 BY FS_EmptySet
  <2>3. Excess(path, j, j) = Cardinality({}) - Cardinality({}) BY <2>1 DEF Excess
  <2> QED BY <2>2, <2>3
<1>3. (k + 1)..(j + 1) = ((k + 1)..j) \cup {j + 1} /\ j + 1 \notin (k + 1)..j
  OBVIOUS
<1>4. \A i \in Nat : Excess(path, k, i) = Cardinality(names(i)) - Cardinality(ups(i))
  BY DEF Excess
<1>5. IsName(path[j + 1]) =>
        Cardinality(names(j + 1)) = Cardinality(names(j)) + 1 /\ ups(j + 1) = ups(j)
  <2>1. HAVE IsName(path[j + 1])
  <2>2. names(j + 1) = names(j) \cup {j + 1} /\ j + 1 \notin names(j) /\ ups(j + 1) = ups(j)
    BY <1>3, <2>1 DEF NamesOf, UpsOf, IsName
  <2> HIDE DEF names, ups
  <2> QED BY <2>2, <1>1, FS_AddElement
<1>6. path[j + 1] = ".." =>
        Cardinality(ups(j + 1)) = Cardinality(ups(j)) + 1 /\ names(j + 1) = names(j)
  <2>1. HAVE path[j + 1] = ".."
  <2>2. ups(j + 1) = ups(j) \cup {j + 1} /\ j + 1 \notin ups(j) /\ names(j + 1) = names(j)
    BY <1>3, <2>1 DEF NamesOf, UpsOf
  <2> HIDE DEF names, ups
  <2> QED BY <2>2, <1>1, FS_AddElement
<1>7. path[j + 1] \in {"/", "."} => ups(j + 1) = ups(j) /\ names(j + 1) = names(j)
  BY <1>3 DEF NamesOf, UpsOf
<1>10. /\ Cardinality(NamesOf(path, (k + 1)..j)) \in Nat
       /\ Cardinality(UpsOf(path, (k + 1)..j)) \in Nat
  BY <1>1
<1> HIDE DEF names, ups
<1>11. Excess(path, k, j) \in Int
  BY <1>1, <1>4
<1>12. IsName(path[j + 1]) => Excess(path, k, j + 1) = Excess(path, k, j) + 1
  BY <1>1, <1>4, <1>5
<1>13. path[j + 1] = ".." => Excess(path, k, j + 1) = Excess(path, k, j) - 1
  BY <1>1, <1>4, <1>6
<1>14. path[j + 1] \in {"/", "."} => Excess(path, k, j + 1) = Excess(path, k, j)
  BY <1>1, <1>4, <1>7
<1> QED BY <1>2, <1>10, <1>11, <1>12, <1>13, <1>14

\* The names that are on the walk after the first tokens, at their places: the
\* ones that no `..` of those took back.
Tops(path, upto, places, top) ==
  /\ top \in Nat /\ places \in [1..top -> 1..upto]
  /\ \A i \in 1..top : IsName(path[places[i]])
  /\ \A i, j \in 1..top : i < j => places[i] < places[j]
  /\ \A i \in 1..top : Excess(path, places[i], upto) = top - i
  /\ \A i \in 1..top : \A j \in places[i]..upto : Excess(path, places[i], j) >= 0
  /\ \A k \in 1..upto :
       IsName(path[k]) /\ (\A i \in 1..top : places[i] # k) =>
         \E j \in k..upto : Excess(path, k, j) < 0

At(path, places, top) == [i \in 1..top |-> path[places[i]]]

\* The names at some places, as a sequence.
LEMMA AtIs ==
  ASSUME NEW path, NEW places, NEW top \in Nat,
         NEW R, \A i \in 1..top : path[places[i]] \in R
  PROVE  At(path, places, top) \in Seq(R) /\ Len(At(path, places, top)) = top
<1>1. At(path, places, top) \in [1..top -> R] BY DEF At
<1> QED BY <1>1

\* A name is put after the ones on the walk.
LEMMA NameTops ==
  ASSUME NEW path, NEW upto \in Nat, NEW places, NEW top, Tops(path, upto, places, top),
         IsName(path[upto + 1])
  PROVE  \E more : /\ Tops(path, upto + 1, more, top + 1)
                   /\ At(path, more, top + 1) = Append(At(path, places, top), path[upto + 1])
<1> DEFINE more == [i \in 1..(top + 1) |-> IF i = top + 1 THEN upto + 1 ELSE places[i]]
<1>1. top \in Nat /\ \A i \in 1..top : places[i] \in 1..upto
  BY DEF Tops
<1>2. more \in [1..(top + 1) -> 1..(upto + 1)] /\ more[top + 1] = upto + 1
      /\ \A i \in 1..top : more[i] = places[i]
  BY <1>1
<1>3. ASSUME NEW k \in 0..upto
      PROVE  Excess(path, k, upto + 1) = Excess(path, k, upto) + 1 /\ Excess(path, k, upto) \in Int
  <2>1. k \in Nat /\ k <= upto OBVIOUS
  <2> QED BY <2>1, OneMore
<1>4. Excess(path, upto + 1, upto + 1) = 0
  BY OneMore
<1> HIDE DEF more
<1>5. \A i \in 1..(top + 1) : i # top + 1 => i \in 1..top
  BY <1>1
<1>6. \A i \in 1..(top + 1) : IsName(path[more[i]])
  BY <1>2, <1>5 DEF Tops
<1>7. \A i, j \in 1..(top + 1) : i < j => more[i] < more[j]
  <2> TAKE i, j \in 1..(top + 1)
  <2>1. HAVE i < j
  <2>2. i \in 1..top /\ more[i] = places[i] /\ places[i] \in 1..upto BY <2>1, <1>1, <1>2
  <2>3. CASE j = top + 1 BY <2>2, <2>3, <1>2
  <2>4. CASE j # top + 1
    <3>1. j \in 1..top /\ more[j] = places[j] BY <2>4, <1>2, <1>5
    <3> QED BY <2>1, <2>2, <3>1 DEF Tops
  <2> QED BY <2>3, <2>4
<1>8. \A i \in 1..(top + 1) : Excess(path, more[i], upto + 1) = (top + 1) - i
  <2> TAKE i \in 1..(top + 1)
  <2>1. CASE i = top + 1 BY <2>1, <1>1, <1>2, <1>4
  <2>2. CASE i # top + 1
    <3>1. i \in 1..top /\ more[i] = places[i] /\ places[i] \in 0..upto BY <2>2, <1>1, <1>2, <1>5
    <3>2. Excess(path, places[i], upto) = top - i BY <3>1 DEF Tops
    <3>3. Excess(path, places[i], upto + 1) = (top - i) + 1 BY <3>1, <3>2, <1>3
    <3> QED BY <3>1, <3>3, <1>1
  <2> QED BY <2>1, <2>2
<1>9. \A i \in 1..(top + 1) : \A j \in more[i]..(upto + 1) : Excess(path, more[i], j) >= 0
  <2> TAKE i \in 1..(top + 1)
  <2> TAKE j \in more[i]..(upto + 1)
  <2>1. CASE j = upto + 1
    BY <2>1, <1>1, <1>8
  <2>2. CASE j # upto + 1
    <3>1. more[i] \in 1..upto /\ j \in more[i]..upto BY <2>2, <1>2
    <3>2. i \in 1..top /\ more[i] = places[i] BY <3>1, <1>2, <1>5
    <3> QED BY <3>1, <3>2 DEF Tops
  <2> QED BY <2>1, <2>2
<1>10. ASSUME NEW k \in 1..(upto + 1), IsName(path[k]), \A i \in 1..(top + 1) : more[i] # k
       PROVE  \E j \in k..(upto + 1) : Excess(path, k, j) < 0
  <2>1. k # upto + 1 BY <1>1, <1>2, <1>10
  <2>2. k \in 1..upto BY <2>1
  <2>3. \A i \in 1..top : i \in 1..(top + 1) /\ more[i] = places[i] BY <1>1, <1>2
  <2>4. \A i \in 1..top : places[i] # k BY <2>3, <1>10
  <2>5. PICK j \in k..upto : Excess(path, k, j) < 0 BY <2>2, <2>4, <1>10 DEF Tops
  <2>6. j \in k..(upto + 1) BY <2>2
  <2> QED BY <2>5, <2>6
<1>11. Tops(path, upto + 1, more, top + 1)
  <2>1. top + 1 \in Nat /\ upto + 1 \in Nat BY <1>1
  <2> QED BY <2>1, <1>2, <1>6, <1>7, <1>8, <1>9, <1>10 DEF Tops
<1>12. At(path, more, top + 1) = Append(At(path, places, top), path[upto + 1])
  <2> DEFINE R == {path[places[i]] : i \in 1..top} \cup {path[upto + 1]}
             longer == Append(At(path, places, top), path[upto + 1])
  <2>1. /\ \A i \in 1..top : path[places[i]] \in R
        /\ path[upto + 1] \in R
    OBVIOUS
  <2> HIDE DEF R
  <2>2. At(path, places, top) \in Seq(R) /\ Len(At(path, places, top)) = top
    BY <2>1, <1>1, AtIs
  <2>3. \A i \in 1..top : At(path, places, top)[i] = path[places[i]] BY DEF At
  <2>4. /\ longer \in Seq(R) /\ Len(longer) = top + 1
        /\ \A i \in 1..top : longer[i] = path[places[i]]
        /\ longer[top + 1] = path[upto + 1]
    BY <2>1, <2>2, <2>3, AppendProperties
  <2> HIDE DEF longer
  <2>5. longer = [i \in 1..(top + 1) |-> longer[i]] BY <2>4, SeqIs
  <2>6. \A i \in 1..(top + 1) : longer[i] = path[more[i]] BY <2>4, <1>1, <1>2, <1>5
  <2>7. longer = At(path, more, top + 1) BY <2>5, <2>6 DEF At
  <2> QED BY <2>7 DEF longer
<1> QED BY <1>11, <1>12

\* An empty part or `.` leaves the names where they are.
LEMMA DotTops ==
  ASSUME NEW path, NEW upto \in Nat, NEW places, NEW top, Tops(path, upto, places, top),
         path[upto + 1] \in {"/", "."}
  PROVE  Tops(path, upto + 1, places, top)
<1>0. ~ IsName(path[upto + 1]) /\ path[upto + 1] # ".."
  BY DEF IsName
<1>1. ASSUME NEW k \in 0..upto
      PROVE  Excess(path, k, upto + 1) = Excess(path, k, upto) /\ Excess(path, k, upto) \in Int
  <2>1. k \in Nat /\ k <= upto OBVIOUS
  <2> QED BY <2>1, OneMore, <1>0
<1>2. top \in Nat /\ \A i \in 1..top : places[i] \in 1..upto
  BY DEF Tops
<1>3. ASSUME NEW i \in 1..top
      PROVE  Excess(path, places[i], upto + 1) = top - i
  <2>1. places[i] \in 0..upto /\ Excess(path, places[i], upto) = top - i BY <1>2 DEF Tops
  <2> QED BY <2>1, <1>1
<1>4. ASSUME NEW i \in 1..top, NEW j \in places[i]..(upto + 1)
      PROVE  Excess(path, places[i], j) >= 0
  <2>1. CASE j = upto + 1 BY <2>1, <1>2, <1>3
  <2>2. CASE j # upto + 1
    <3>1. j \in places[i]..upto BY <2>2, <1>2
    <3> QED BY <3>1 DEF Tops
  <2> QED BY <2>1, <2>2
<1>5. ASSUME NEW k \in 1..(upto + 1), IsName(path[k]), \A i \in 1..top : places[i] # k
      PROVE  \E j \in k..(upto + 1) : Excess(path, k, j) < 0
  <2>1. k \in 1..upto BY <1>0, <1>5
  <2>2. PICK j \in k..upto : Excess(path, k, j) < 0 BY <2>1, <1>5 DEF Tops
  <2> QED BY <2>1, <2>2
<1>6. places \in [1..top -> 1..(upto + 1)] /\ upto + 1 \in Nat
  BY <1>2 DEF Tops
<1> QED BY <1>2, <1>3, <1>4, <1>5, <1>6 DEF Tops

\* `..` takes back the last name on the walk, and at the root nothing.
LEMMA UpTops ==
  ASSUME NEW path, NEW upto \in Nat, NEW places, NEW top, Tops(path, upto, places, top),
         path[upto + 1] = ".."
  PROVE  IF top = 0 THEN Tops(path, upto + 1, places, 0)
         ELSE \E less : /\ Tops(path, upto + 1, less, top - 1)
                        /\ At(path, less, top - 1) = Front(At(path, places, top))
<1>0. ~ IsName(path[upto + 1])
  BY DEF IsName
<1>1. ASSUME NEW k \in 0..upto
      PROVE  Excess(path, k, upto + 1) = Excess(path, k, upto) - 1 /\ Excess(path, k, upto) \in Int
  <2>1. k \in Nat /\ k <= upto OBVIOUS
  <2> QED BY <2>1, OneMore, <1>0
<1>2. top \in Nat /\ \A i \in 1..top : places[i] \in 1..upto
  BY DEF Tops
<1>3. CASE top = 0
  <2>1. 1..top = {} BY <1>3
  <2>2. ASSUME NEW k \in 1..(upto + 1), IsName(path[k])
        PROVE  \E j \in k..(upto + 1) : Excess(path, k, j) < 0
    <3>1. k \in 1..upto BY <1>0, <2>2
    <3>2. PICK j \in k..upto : Excess(path, k, j) < 0 BY <2>1, <2>2, <3>1 DEF Tops
    <3> QED BY <3>1, <3>2
  <2>3. places \in [1..0 -> 1..(upto + 1)] BY <1>3, <2>1 DEF Tops
  <2> QED BY <1>3, <2>1, <2>2, <2>3 DEF Tops
<1>4. CASE top # 0
  <2> DEFINE less == [i \in 1..(top - 1) |-> places[i]]
  <2>1. /\ top - 1 \in Nat /\ top \in 1..top
        /\ \A i \in 1..(top - 1) : i \in 1..top /\ less[i] = places[i]
        /\ \A i \in 1..top : i # top => i \in 1..(top - 1)
    BY <1>2, <1>4
  <2>2. less \in [1..(top - 1) -> 1..(upto + 1)] BY <2>1, <1>2
  <2> HIDE DEF less
  <2>3. ASSUME NEW i \in 1..(top - 1)
        PROVE  /\ Excess(path, less[i], upto + 1) = (top - 1) - i
               /\ Excess(path, less[i], upto + 1) >= 0
    <3>1. Excess(path, places[i], upto) = top - i /\ places[i] \in 0..upto
      BY <2>1, <1>2 DEF Tops
    <3>2. Excess(path, places[i], upto + 1) = (top - i) - 1 BY <3>1, <1>1
    <3> QED BY <3>2, <2>1, <1>2
  <2>4. ASSUME NEW i \in 1..(top - 1), NEW j \in less[i]..(upto + 1)
        PROVE  Excess(path, less[i], j) >= 0
    <3>1. CASE j = upto + 1 BY <3>1, <2>3
    <3>2. CASE j # upto + 1
      <4>1. i \in 1..top /\ less[i] = places[i] /\ j \in places[i]..upto BY <3>2, <2>1, <1>2
      <4> QED BY <4>1 DEF Tops
    <3> QED BY <3>1, <3>2
  <2>5. ASSUME NEW k \in 1..(upto + 1), IsName(path[k]), \A i \in 1..(top - 1) : less[i] # k
        PROVE  \E j \in k..(upto + 1) : Excess(path, k, j) < 0
    <3>1. k \in 1..upto BY <1>0, <2>5
    <3>2. CASE k = places[top]
      <4>1. Excess(path, k, upto) = 0 BY <3>2, <2>1, <1>2 DEF Tops
      <4>2. Excess(path, k, upto + 1) = 0 - 1 BY <4>1, <3>1, <1>1
      <4>3. upto + 1 \in k..(upto + 1) BY <3>1
      <4> QED BY <4>2, <4>3
    <3>3. CASE k # places[top]
      <4>1. \A i \in 1..top : places[i] # k BY <3>3, <2>1, <2>5
      <4>2. PICK j \in k..upto : Excess(path, k, j) < 0 BY <4>1, <3>1, <2>5 DEF Tops
      <4> QED BY <4>2, <3>1
    <3> QED BY <3>2, <3>3
  <2>6. Tops(path, upto + 1, less, top - 1)
    <3>1. \A i \in 1..(top - 1) : IsName(path[less[i]]) BY <2>1 DEF Tops
    <3>2. \A i, j \in 1..(top - 1) : i < j => less[i] < less[j] BY <2>1 DEF Tops
    <3> QED BY <2>1, <2>2, <2>3, <2>4, <2>5, <3>1, <3>2 DEF Tops
  <2>7. At(path, less, top - 1) = Front(At(path, places, top))
    <3> DEFINE whole == At(path, places, top)
               R == {path[places[i]] : i \in 1..top}
    <3>0. \A i \in 1..top : path[places[i]] \in R OBVIOUS
    <3> HIDE DEF R
    <3>1. whole \in Seq(R) /\ Len(whole) = top BY <1>2, <3>0, AtIs
    <3>2. Front(whole) = SubSeq(whole, 1, top - 1) BY <3>1 DEF Front
    <3>3. \A i \in 1..(top - 1) : whole[i] = path[less[i]] BY <2>1 DEF At
    <3> HIDE DEF whole
    <3>4. \A i \in 1..(top - 1) : whole[i] \in R BY <2>1, <3>1
    <3>5. 1 \in Int /\ top - 1 \in Int /\ (top - 1) - 1 + 1 = top - 1
          /\ (~ (1 <= top - 1) => top - 1 = 0) BY <2>1
    <3>6. /\ SubSeq(whole, 1, top - 1) \in Seq(R)
          /\ Len(SubSeq(whole, 1, top - 1)) = IF 1 <= top - 1 THEN (top - 1) - 1 + 1 ELSE 0
          /\ \A i \in 1..((top - 1) - 1 + 1) : SubSeq(whole, 1, top - 1)[i] = whole[1 + i - 1]
      BY <3>4, <3>5, SubSeqProperties
    <3>7. Len(SubSeq(whole, 1, top - 1)) = top - 1
          /\ \A i \in 1..(top - 1) : SubSeq(whole, 1, top - 1)[i] = whole[i]
      BY <3>5, <3>6
    <3>8. SubSeq(whole, 1, top - 1) = [i \in 1..(top - 1) |-> SubSeq(whole, 1, top - 1)[i]]
      BY <3>6, <3>7, SeqIs
    <3>9. SubSeq(whole, 1, top - 1) = At(path, less, top - 1)
      BY <3>3, <3>7, <3>8 DEF At
    <3> QED BY <3>2, <3>9 DEF whole
  <2> QED BY <1>4, <2>6, <2>7
<1> QED BY <1>3, <1>4

\* The walk as far as any token.
LEMMA WalkTops ==
  ASSUME NEW path, NEW upto \in Nat, NEW walk, IsWalk(walk, path, upto)
  PROVE  \E places, top : Tops(path, upto, places, top) /\ walk[upto] = At(path, places, top)
<1> DEFINE Good(k) == \E places, top : Tops(path, k, places, top) /\ walk[k] = At(path, places, top)
           Bad == {k \in 0..upto : ~ Good(k)}
<1>1. /\ walk[0] = <<>>
      /\ \A k \in 0..upto : k + 1 \in 0..upto => walk[k + 1] = Step(walk[k], path[k + 1])
  <2>1. \A k \in 0..upto : walk[k] = IF k = 0 THEN <<>> ELSE Step(walk[k - 1], path[k])
    BY DEF IsWalk
  <2>2. 0 \in 0..upto /\ \A k \in 0..upto : k + 1 # 0 /\ (k + 1) - 1 = k OBVIOUS
  <2> QED BY <2>1, <2>2
<1>2. Good(0)
  <2> DEFINE none == [i \in 1..0 |-> i]
  <2>1. 1..0 = {} OBVIOUS
  <2>2. Tops(path, 0, none, 0) BY <2>1 DEF Tops
  <2>3. At(path, none, 0) = <<>> BY <2>1 DEF At
  <2> QED BY <2>2, <2>3, <1>1
<1>3. ASSUME NEW k \in 0..upto, k + 1 \in 0..upto, Good(k)
      PROVE  Good(k + 1)
  <2>1. PICK places, top : Tops(path, k, places, top) /\ walk[k] = At(path, places, top)
    BY <1>3
  <2>2. k \in Nat /\ walk[k + 1] = Step(At(path, places, top), path[k + 1])
    BY <2>1, <1>1, <1>3
  <2>3. CASE IsName(path[k + 1])
    <3>1. PICK more : /\ Tops(path, k + 1, more, top + 1)
                      /\ At(path, more, top + 1) = Append(At(path, places, top), path[k + 1])
      BY <2>1, <2>2, <2>3, NameTops
    <3>2. walk[k + 1] = At(path, more, top + 1) BY <2>2, <2>3, <3>1 DEF Step, IsName
    <3> QED BY <3>1, <3>2
  <2>4. CASE path[k + 1] \in {"/", "."}
    <3>1. Tops(path, k + 1, places, top) BY <2>1, <2>2, <2>4, DotTops
    <3>2. walk[k + 1] = At(path, places, top) BY <2>2, <2>4 DEF Step
    <3> QED BY <3>1, <3>2
  <2>5. CASE path[k + 1] = ".."
    <3>1. walk[k + 1] = IF At(path, places, top) = <<>> THEN At(path, places, top)
                        ELSE Front(At(path, places, top))
      BY <2>2, <2>5 DEF Step
    <3>2. top \in Nat BY <2>1 DEF Tops
    <3>3. CASE top = 0
      <4>1. Tops(path, k + 1, places, 0) BY <2>1, <2>2, <2>5, <3>3, UpTops
      <4>2. At(path, places, 0) = <<>>
        <5>1. 1..0 = {} OBVIOUS
        <5> QED BY <5>1 DEF At
      <4> QED BY <3>1, <3>3, <4>1, <4>2
    <3>4. CASE top # 0
      <4>1. PICK less : /\ Tops(path, k + 1, less, top - 1)
                        /\ At(path, less, top - 1) = Front(At(path, places, top))
        BY <2>1, <2>2, <2>5, <3>4, UpTops
      <4>2. At(path, places, top) # <<>>
        <5>1. 1 \in DOMAIN At(path, places, top) BY <3>2, <3>4 DEF At
        <5> QED BY <5>1
      <4> QED BY <3>1, <4>1, <4>2
    <3> QED BY <3>3, <3>4
  <2> QED BY <2>3, <2>4, <2>5 DEF IsName
<1>4. SUFFICES ASSUME Bad # {} PROVE FALSE
  BY DEF Bad
<1>5. PICK k \in Bad : \A j \in Bad : k <= j
  <2> HIDE DEF Good
  <2>1. Bad \subseteq Nat OBVIOUS
  <2> HIDE DEF Bad
  <2> QED BY <1>4, <2>1, LeastOf
<1>6. k # 0 BY <1>2
<1>7. k - 1 \in 0..upto /\ (k - 1) + 1 = k /\ k \in 0..upto /\ ~ Good(k) BY <1>6
<1>8. k - 1 \notin Bad
  <2> HIDE DEF Bad
  <2> QED BY <1>5, <1>7
<1>9. Good(k - 1) BY <1>7, <1>8
<1> HIDE DEF Good, Bad
<1>10. Good((k - 1) + 1) BY <1>3, <1>7, <1>9
<1> QED BY <1>7, <1>10

\* How many places there are.
LEMMA Count ==
  ASSUME NEW top \in Nat, NEW places, NEW upto \in 0..top,
         \A i \in 1..top : places[i] \in Nat,
         \A i, j \in 1..top : i < j => places[i] < places[j]
  PROVE  Cardinality({places[i] : i \in 1..upto}) = upto
<1> DEFINE P == {places[i] : i \in 1..upto}
           f == [i \in 1..upto |-> places[i]]
<1>1. f \in [1..upto -> P] /\ \A k \in P : \E i \in 1..upto : f[i] = k
  OBVIOUS
<1>2. \A i, j \in 1..upto : f[i] = f[j] => i = j
  <2> TAKE i, j \in 1..upto
  <2>1. i \in 1..top /\ j \in 1..top OBVIOUS
  <2>2. i < j => places[i] < places[j] BY <2>1
  <2>3. j < i => places[j] < places[i] BY <2>1
  <2>4. places[i] \in Nat /\ places[j] \in Nat BY <2>1
  <2> QED BY <2>2, <2>3, <2>4
<1>3. ExistsBijection(1..upto, P)
  <2> HIDE DEF f, P
  <2>1. f \in Injection(1..upto, P) BY <1>1, <1>2 DEF Injection, IsInjective
  <2>2. f \in Surjection(1..upto, P) BY <1>1 DEF Surjection
  <2> QED BY <2>1, <2>2 DEF ExistsBijection, Bijection
<1>4. upto \in Nat OBVIOUS
<1> HIDE DEF P
<1>5. Cardinality(P) = upto BY <1>3, <1>4, FS_CountingElements
<1> QED BY <1>5 DEF P

\* os.path.normpath leaves, of any path, the names that no later `..` takes back.
THEOREM NormalIsReal ==
  ASSUME NEW path, IsText(path)
  PROVE  Normal(path) = Real(path)
<1>1. Len(path) \in Nat /\ DOMAIN path = 1..Len(path)
  BY DEF IsText
<1>2. PICK walk : IsWalk(walk, path, Len(path)) /\ Normal(path) = walk[Len(path)]
  BY NormalWalks
<1>3. PICK places, top : Tops(path, Len(path), places, top) /\ Normal(path) = At(path, places, top)
  BY <1>1, <1>2, WalkTops
<1>4. /\ top \in Nat /\ \A i \in 1..top : places[i] \in 1..Len(path) /\ IsName(path[places[i]])
      /\ \A i, j \in 1..top : i < j => places[i] < places[j]
  BY <1>3 DEF Tops
<1>5. Stays(path) = {places[i] : i \in 1..top}
  <2>1. \A k \in 1..Len(path) : k \in NamesOf(path, DOMAIN path) <=> IsName(path[k])
    BY <1>1 DEF NamesOf, IsName
  <2>2. ASSUME NEW k \in 1..Len(path), NEW j \in k..Len(path)
        PROVE  Cardinality(UpsOf(path, (k + 1)..j)) <= Cardinality(NamesOf(path, (k + 1)..j))
               <=> Excess(path, k, j) >= 0
    <3>1. k \in Nat /\ j \in Nat /\ k <= j BY <1>1
    <3>2. /\ Cardinality(NamesOf(path, (k + 1)..j)) \in Nat
          /\ Cardinality(UpsOf(path, (k + 1)..j)) \in Nat
      BY <3>1, OneMore
    <3> QED BY <3>2 DEF Excess
  <2>3. ASSUME NEW k \in 1..Len(path)
        PROVE  k \in Stays(path) <=> IsName(path[k]) /\ \A j \in k..Len(path) : Excess(path, k, j) >= 0
    BY <2>1, <2>2 DEF Stays
  <2>4. Stays(path) \subseteq 1..Len(path)
    BY <1>1 DEF Stays, NamesOf
  <2>5. ASSUME NEW k \in Stays(path)
        PROVE  k \in {places[i] : i \in 1..top}
    <3>1. k \in 1..Len(path) BY <2>4
    <3>2. IsName(path[k]) /\ \A j \in k..Len(path) : Excess(path, k, j) >= 0 BY <2>3, <3>1
    <3>3. \A j \in k..Len(path) : ~ (Excess(path, k, j) < 0)
      <4> TAKE j \in k..Len(path)
      <4>1. k \in Nat /\ j \in Nat /\ k <= j BY <3>1, <1>1
      <4>2. Excess(path, k, j) \in Int BY <4>1, OneMore
      <4> QED BY <4>2, <3>2
    <3> QED BY <3>1, <3>2, <3>3, <1>3 DEF Tops
  <2>6. ASSUME NEW i \in 1..top
        PROVE  places[i] \in Stays(path)
    <3>1. places[i] \in 1..Len(path) /\ IsName(path[places[i]]) BY <1>4
    <3>2. \A j \in places[i]..Len(path) : Excess(path, places[i], j) >= 0 BY <1>3 DEF Tops
    <3> QED BY <2>3, <3>1, <3>2
  <2> QED BY <2>5, <2>6
<1>6. \A i \in 1..top : places[i] \in Nat
  BY <1>1, <1>4
<1>7. Cardinality(Stays(path)) = top
  <2>1. top \in 0..top BY <1>4
  <2> QED BY <1>4, <1>5, <1>6, <2>1, Count
<1>8. ASSUME NEW i \in 1..top
      PROVE  Cardinality(Stays(path) \cap 1..places[i]) = i
  <2>1. \A j \in 1..top : places[j] \in 1..places[i] <=> j \in 1..i
    <3> TAKE j \in 1..top
    <3>1. (i < j => places[i] < places[j]) /\ (j < i => places[j] < places[i]) BY <1>4
    <3>2. places[i] \in Nat /\ places[j] \in Nat /\ places[j] >= 1 BY <1>4, <1>6
    <3>3. i \in Nat /\ j \in Nat /\ j >= 1 BY <1>4
    <3> QED BY <3>1, <3>2, <3>3
  <2>2. \A j \in 1..i : j \in 1..top BY <1>4
  <2>3. Stays(path) \cap 1..places[i] = {places[j] : j \in 1..i}
    BY <1>5, <2>1, <2>2
  <2>4. i \in 0..top BY <1>4
  <2>5. Cardinality({places[j] : j \in 1..i}) = i BY <1>4, <1>6, <2>4, Count
  <2> QED BY <2>3, <2>5
<1>9. ASSUME NEW rank \in 1..top
      PROVE  (CHOOSE k \in Stays(path) : Cardinality(Stays(path) \cap 1..k) = rank) = places[rank]
  <2>1. places[rank] \in Stays(path) /\ Cardinality(Stays(path) \cap 1..places[rank]) = rank
    BY <1>5, <1>8
  <2>2. ASSUME NEW k \in Stays(path), Cardinality(Stays(path) \cap 1..k) = rank
        PROVE  k = places[rank]
    <3>1. PICK i \in 1..top : k = places[i] BY <1>5
    <3>2. i = rank BY <3>1, <2>2, <1>8
    <3> QED BY <3>1, <3>2
  <2> QED BY <2>1, <2>2
<1>10. Real(path) = At(path, places, top)
  <2> DEFINE at(rank) == CHOOSE k \in Stays(path) : Cardinality(Stays(path) \cap 1..k) = rank
  <2>1. Real(path) = [rank \in 1..top |-> path[at(rank)]] BY <1>7 DEF Real
  <2>2. \A rank \in 1..top : at(rank) = places[rank] BY <1>9
  <2> HIDE DEF at
  <2> QED BY <2>1, <2>2 DEF At
<1> QED BY <1>3, <1>10

(***************************************************************************)
(* Ports and volumes are read as they are meant.                           *)
(***************************************************************************)

\* A range from one number to another.
LEMMA RangeRead ==
  ASSUME NEW text, NEW low, NEW high, Value(Until(text, "-")) = {low},
         Value(IF After(text, "-") = <<>> THEN Until(text, "-") ELSE After(text, "-")) = {high}
  PROVE  PortRange(text) = low..high
<1> DEFINE ranges == {k..j : k \in {low}, j \in {high}}
<1>1. PortRange(text) = UNION ranges
  BY DEF PortRange
<1>2. \A range : range \in ranges <=> range = low..high
  <2>1. \A range : range \in ranges <=> \E k \in {low}, j \in {high} : range = k..j OBVIOUS
  <2> HIDE DEF ranges
  <2> QED BY <2>1, Zenon
<1> HIDE DEF ranges
<1> QED BY <1>1, <1>2, Zenon

\* The one token of a text that follows another.
LEMMA LastToken ==
  ASSUME NEW x, NEW y, IsText(x), IsText(y), Len(y) = 1
  PROVE  (x \o y)[Len(x) + 1] = y[1]
<1>1. 1 \in 1..Len(y) OBVIOUS
<1> QED BY <1>1, TextTail

\* A text of two tokens is the two one after the other.
LEMMA TwoTokens ==
  ASSUME NEW all, NEW x, NEW y, IsText(all), IsText(x), IsText(y), Len(all) = 2, Len(x) = 1, Len(y) = 1,
         all[1] = x[1], all[2] = y[1]
  PROVE  all = x \o y
<1> DEFINE sum == x \o y
<1>1. IsText(sum) /\ Len(sum) = Len(x) + Len(y) BY TextSum
<1>2. \A i \in 1..Len(x) : sum[i] = x[i] BY TextSum
<1>3. sum[Len(x) + 1] = y[1] BY LastToken
<1> HIDE DEF sum
<1>4. \A i \in 1..Len(all) : all[i] = sum[i] BY <1>1, <1>2, <1>3
<1>5. Len(all) = Len(sum) BY <1>1
<1>6. all = sum BY <1>1, <1>4, <1>5, TextSame
<1> QED BY <1>6 DEF sum

\* And one of three.
OneToken(text, token) == IsText(text) /\ Len(text) = 1 /\ text[1] = token
Spells(all, a, b, c) == IsText(all) /\ Len(all) = 3 /\ all[1] = a /\ all[2] = b /\ all[3] = c

LEMMA ThreeTokens ==
  ASSUME NEW a, NEW b, NEW c, NEW all, NEW x, NEW y, NEW z,
         Spells(all, a, b, c), OneToken(x, a), OneToken(y, b), OneToken(z, c)
  PROVE  all = x \o y \o z
<1> DEFINE pair == x \o y
           total == pair \o z
<1>1. /\ IsText(x) /\ Len(x) = 1 /\ x[1] = a
      /\ IsText(y) /\ Len(y) = 1 /\ y[1] = b
      /\ IsText(z) /\ Len(z) = 1 /\ z[1] = c
  BY DEF OneToken
<1>2. IsText(all) /\ Len(all) = 3 /\ all[1] = a /\ all[2] = b /\ all[3] = c
  BY DEF Spells
<1>3. IsText(pair) /\ Len(pair) = 2 /\ pair[1] = a /\ pair[2] = b
  <2>1. IsText(pair) /\ Len(pair) = Len(x) + Len(y) BY <1>1, TextSum
  <2>2. \A i \in 1..Len(x) : pair[i] = x[i] BY <1>1, TextSum
  <2>3. pair[Len(x) + 1] = y[1] BY <1>1, LastToken
  <2> HIDE DEF pair
  <2> QED BY <1>1, <2>1, <2>2, <2>3
<1> HIDE DEF pair
<1>4. IsText(total) /\ Len(total) = 3 /\ total[1] = a /\ total[2] = b /\ total[3] = c
  <2>1. IsText(total) /\ Len(total) = Len(pair) + Len(z) BY <1>1, <1>3, TextSum
  <2>2. \A i \in 1..Len(pair) : total[i] = pair[i] BY <1>1, <1>3, TextSum
  <2>3. total[Len(pair) + 1] = z[1] BY <1>1, <1>3, LastToken
  <2> HIDE DEF total
  <2> QED BY <1>1, <1>3, <2>1, <2>2, <2>3
<1> HIDE DEF total
<1>5. \A i \in 1..Len(all) : all[i] = total[i] BY <1>2, <1>4
<1>6. all = total BY <1>2, <1>4, <1>5, TextSame
<1> QED BY <1>6 DEF total, pair

\* What a port's host ports are written as is read as what it publishes.
LEMMA HostPortsRead ==
  ASSUME NEW x, IsPort(x)
  PROVE  /\ IsText(HostPorts(x)) /\ Range(HostPorts(x)) \cap {":", "/", "$", "["} = {}
         /\ PortRange(HostPorts(x)) = PublishedBy(x)
         /\ PublishedBy(x) = {} <=> x.ports = <<>>
<1>1. \A token \in DOMAIN Number : Number[token] \in Nat /\ token \notin {":", "/", "-", "$", "["}
  BY ComposeAssumption
<1>2. IsText(<<>>) /\ Range(<<>>) = {} /\ Len(<<>>) = 0 BY TextNil
<1>3. \A token \in DOMAIN Number :
        IsText(<<token>>) /\ Range(<<token>>) = {token} /\ Value(<<token>>) = {Number[token]}
  BY TextOne DEF Value
<1>4. CASE x.ports = <<>>
  <2>1. HostPorts(x) = <<>> /\ PublishedBy(x) = {} BY <1>4 DEF HostPorts, PublishedBy
  <2>2. Until(<<>>, "-") = <<>> /\ After(<<>>, "-") = <<>> BY <1>2, NotCut
  <2>3. Value(<<>>) = {} BY <1>2 DEF Value
  <2>4. PortRange(<<>>) = {} BY <2>2, <2>3 DEF PortRange
  <2> QED BY <1>2, <1>4, <2>1, <2>4
<1>5. CASE x.ports # <<>>
  <2>1. PICK from, to \in DOMAIN Number : x.ports = <<from, to>> /\ Number[from] <= Number[to]
    BY <1>5 DEF IsPort
  <2>2. x.ports[1] = from /\ x.ports[2] = to BY <2>1
  <2>3. PublishedBy(x) = Number[from]..Number[to] BY <1>5, <2>2 DEF PublishedBy
  <2>4. PublishedBy(x) # {} BY <1>1, <2>1, <2>3
  <2>5. CASE from = to
    <3>1. HostPorts(x) = <<from>> BY <1>5, <2>2, <2>5 DEF HostPorts
    <3>2. "-" \notin Range(<<from>>) BY <1>1, <1>3
    <3>3. Until(<<from>>, "-") = <<from>> /\ After(<<from>>, "-") = <<>> BY <1>3, <3>2, NotCut
    <3>4. Value(<<from>>) = {Number[from]} BY <1>3
    <3>5. PortRange(<<from>>) = Number[from]..Number[from] BY <3>3, <3>4, RangeRead
    <3> QED BY <1>1, <1>3, <1>5, <2>3, <2>4, <2>5, <3>1, <3>5
  <2>6. CASE from # to
    <3>1. HostPorts(x) = <<from, "-", to>> BY <1>5, <2>2, <2>6 DEF HostPorts
    <3>2. <<from, "-", to>> = <<from>> \o <<"-">> \o <<to>>
      <4> DEFINE all == <<from, "-", to>>
                 x1 == <<from>>
                 x2 == <<"-">>
                 x3 == <<to>>
      <4>1. Spells(all, from, "-", to)
        <5>1. all \in Seq({from, "-", to}) OBVIOUS
        <5> QED BY <5>1, TextOf DEF Spells
      <4>2. OneToken(x1, from) /\ OneToken(x2, "-") /\ OneToken(x3, to) BY TextOne DEF OneToken
      <4> HIDE DEF all, x1, x2, x3
      <4>3. all = x1 \o x2 \o x3 BY <4>1, <4>2, ThreeTokens
      <4> QED BY <4>3 DEF all, x1, x2, x3
    <3>3. "-" \notin Range(<<from>>) BY <1>1, <1>3
    <3>4. IsText(<<from>>) /\ IsText(<<to>>) /\ Range(<<from>>) = {from} /\ Range(<<to>>) = {to}
      BY <1>3
    <3>5. Until(HostPorts(x), "-") = <<from>> /\ After(HostPorts(x), "-") = <<to>>
      <4>1. /\ Until(<<from>> \o <<"-">> \o <<to>>, "-") = <<from>>
            /\ After(<<from>> \o <<"-">> \o <<to>>, "-") = <<to>>
        BY <3>3, <3>4, CutFirst
      <4> QED BY <3>1, <3>2, <4>1
    <3>6. <<to>> # <<>> OBVIOUS
    <3>7. PortRange(HostPorts(x)) = Number[from]..Number[to]
      <4>1. Value(<<from>>) = {Number[from]} /\ Value(<<to>>) = {Number[to]} BY <1>3
      <4> QED BY <3>5, <3>6, <4>1, RangeRead
    <3>8. IsText(HostPorts(x)) /\ Range(HostPorts(x)) = {from} \cup {"-"} \cup {to}
      <4>1. /\ IsText(<<from>> \o <<"-">> \o <<to>>)
            /\ Range(<<from>> \o <<"-">> \o <<to>>) = Range(<<from>>) \cup {"-"} \cup Range(<<to>>)
        BY <3>4, Places
      <4> QED BY <3>1, <3>2, <3>4, <4>1
    <3> QED BY <1>1, <1>5, <2>3, <2>4, <3>7, <3>8
  <2> QED BY <2>5, <2>6
<1> QED BY <1>4, <1>5

\* The rest of a short form, with the host's part and the container's.
LEMMA PublishedRest ==
  ASSUME NEW host, IsText(host), ":" \notin Range(host)
  PROVE  Published(host \o <<":">> \o <<"80">>) = PortRange(host)
<1>1. IsText(<<"80">>) /\ Range(<<"80">>) = {"80"} BY TextOne
<1>2. Until(host \o <<":">> \o <<"80">>, ":") = host /\ After(host \o <<":">> \o <<"80">>, ":") = <<"80">>
  BY <1>1, CutFirst
<1>3. Range(host \o <<":">> \o <<"80">>) = Range(host) \cup {":"} \cup {"80"} BY <1>1, Places
<1>4. HasColon(host \o <<":">> \o <<"80">>) /\ ~ HasColon(<<"80">>) BY <1>1, <1>3 DEF HasColon
<1> QED BY <1>2, <1>4 DEF Published

\* A short form without an address is left whole.
LEMMA SplitNone ==
  ASSUME NEW host, IsText(host), Range(host) \cap {":", "["} = {}
  PROVE  /\ SplitIp(<<"80">>) = [ip |-> <<>>, rest |-> <<"80">>]
         /\ SplitIp(host \o <<":">> \o <<"80">>) = [ip |-> <<>>, rest |-> host \o <<":">> \o <<"80">>]
<1>1. IsText(<<"80">>) /\ Range(<<"80">>) = {"80"} /\ <<"80">>[1] = "80" BY TextOne
<1>2. SplitIp(<<"80">>) = [ip |-> <<>>, rest |-> <<"80">>]
  <2>1. BeforeLast(<<"80">>, ":") = <<>> BY <1>1, NotCut
  <2>2. ~ HasColon(<<>>) BY TextNil DEF HasColon
  <2> QED BY <1>1, <2>1, <2>2 DEF SplitIp
<1>3. SplitIp(host \o <<":">> \o <<"80">>) = [ip |-> <<>>, rest |-> host \o <<":">> \o <<"80">>]
  <2> DEFINE text == host \o <<":">> \o <<"80">>
  <2>1. IsText(text) /\ Range(text) = Range(host) \cup {":"} \cup {"80"} BY <1>1, Places
  <2>2. BeforeLast(text, ":") = host BY <1>1, CutLast
  <2>3. ~ HasColon(host) BY DEF HasColon
  <2>4. text[1] # "["
    <3>1. IsText(<<":">>) /\ Len(<<":">>) = 1 BY TextOne
    <3>2. Len(host) \in Nat BY TextIs
    <3>3. Len(host \o <<":">>) = Len(host) + 1 /\ IsText(host \o <<":">>) BY <3>1, TextSum
    <3>4. Len(text) = (Len(host) + 1) + 1 BY <1>1, <3>3, TextSum, TextOne
    <3> HIDE DEF text
    <3>5. 1 \in 1..Len(text) BY <3>2, <3>4
    <3>6. text[1] \in Range(text) BY <2>1, <3>5, TextIs
    <3> QED BY <2>1, <3>6
  <2> HIDE DEF text
  <2>5. SplitIp(text) = [ip |-> <<>>, rest |-> text] BY <2>2, <2>3, <2>4 DEF SplitIp
  <2> QED BY <2>5 DEF text
<1> QED BY <1>2, <1>3

\* The address comes before the last two parts.
LEMMA SplitPlain ==
  ASSUME NEW ip, NEW host, IsText(ip), IsText(host), ip # <<>>,
         Range(ip) \cap {":", "["} = {}, ":" \notin Range(host)
  PROVE  SplitIp(ip \o <<":">> \o (host \o <<":">> \o <<"80">>))
           = [ip |-> ip, rest |-> host \o <<":">> \o <<"80">>]
<1> DEFINE rest == host \o <<":">> \o <<"80">>
           text == ip \o <<":">> \o rest
           front == ip \o <<":">> \o host
<1>1. IsText(<<"80">>) /\ Range(<<"80">>) = {"80"} /\ IsText(<<":">>) /\ Len(<<":">>) = 1 BY TextOne
<1>2. /\ IsText(rest) /\ IsText(ip \o <<":">>)
      /\ IsText(front) /\ Range(front) = Range(ip) \cup {":"} \cup Range(host)
  BY <1>1, Places, TextSum
<1>3. text = front \o <<":">> \o <<"80">>
  <2>1. IsText(host \o <<":">>) BY <1>1, TextSum
  <2>2. (ip \o <<":">>) \o ((host \o <<":">>) \o <<"80">>) = ((ip \o <<":">>) \o (host \o <<":">>)) \o <<"80">>
    <3>1. IsText(ip \o <<":">>) /\ IsText(host \o <<":">>) /\ IsText(<<"80">>) BY <1>1, <1>2, <2>1
    <3> DEFINE left == ip \o <<":">>
               middle == host \o <<":">>
               eighty == <<"80">>
    <3>2. IsText(left) /\ IsText(middle) /\ IsText(eighty) BY <3>1
    <3> HIDE DEF left, middle, eighty
    <3>3. Grouped(left, middle, eighty) BY <3>2, TextAssoc
    <3> QED BY <3>3 DEF Grouped, left, middle, eighty
  <2>3. (ip \o <<":">>) \o (host \o <<":">>) = ((ip \o <<":">>) \o host) \o <<":">>
    <3> DEFINE left == ip \o <<":">>
               colon == <<":">>
    <3>1. IsText(left) /\ IsText(colon) BY <1>1, <1>2
    <3> HIDE DEF left, colon
    <3>2. Grouped(left, host, colon) BY <3>1, TextAssoc
    <3> QED BY <3>2 DEF Grouped, left, colon
  <2> QED BY <2>2, <2>3
<1>4. BeforeLast(text, ":") = front
  <2> HIDE DEF text, front
  <2> QED BY <1>1, <1>2, <1>3, CutLast
<1>5. BeforeLast(front, ":") = ip BY CutLast
<1>6. HasColon(front) BY <1>2 DEF HasColon
<1>7. Len(ip) \in Nat /\ Len(ip) # 0 /\ Len(ip \o <<":">>) = Len(ip) + 1
  BY <1>1, TextIs, TextNil, TextSum
<1>8. SubSeq(text, Len(ip) + 2, Len(text)) = rest
  <2>1. SubSeq(text, Len(ip \o <<":">>) + 1, Len(text)) = rest
    <3> HIDE DEF rest
    <3> QED BY <1>2, TextCut
  <2>2. Len(ip \o <<":">>) + 1 = Len(ip) + 2 BY <1>7
  <2> HIDE DEF text, rest
  <2> QED BY <2>1, <2>2
<1>9. text[1] # "["
  <2>1. 1 \in 1..Len(ip) /\ 1 \in 1..Len(ip \o <<":">>) BY <1>7
  <2>2. (ip \o <<":">>)[1] = ip[1] BY <1>1, <2>1, TextSum
  <2>3. text[1] = ip[1]
    <3> HIDE DEF rest
    <3>1. \A i \in 1..Len(ip \o <<":">>) : text[i] = (ip \o <<":">>)[i] BY <1>2, TextSum
    <3> QED BY <2>1, <2>2, <3>1
  <2>4. ip[1] \in Range(ip) BY <2>1, TextIs
  <2> QED BY <2>3, <2>4
<1> HIDE DEF text, front, rest
<1>10. SplitIp(text) = [ip |-> ip, rest |-> rest]
  BY <1>4, <1>5, <1>6, <1>8, <1>9 DEF SplitIp
<1> QED BY <1>10 DEF text, rest

\* An address in brackets ends at its bracket, whatever it holds.
LEMMA SplitBrackets ==
  ASSUME NEW ip, NEW rest, IsText(ip), IsText(rest), "]" \notin Range(ip)
  PROVE  SplitIp(<<"[">> \o ip \o <<"]", ":">> \o rest)
           = [ip |-> <<"[">> \o ip \o <<"]">>, rest |-> rest]
<1> DEFINE front == <<"[">> \o ip
           back == <<":">> \o rest
           text == front \o <<"]", ":">> \o rest
<1>1. /\ IsText(<<"[">>) /\ Range(<<"[">>) = {"["} /\ Len(<<"[">>) = 1 /\ <<"[">>[1] = "["
      /\ IsText(<<"]">>) /\ IsText(<<":">>) /\ Len(<<":">>) = 1 /\ <<":">>[1] = ":"
  BY TextOne
<1>2. IsText(front) /\ Range(front) = {"["} \cup Range(ip) /\ "]" \notin Range(front) BY <1>1, TextSum
<1>3. IsText(back) /\ IsText(<<"]">> \o <<":">>) BY <1>1, TextSum
<1>4. <<"]", ":">> = <<"]">> \o <<":">> OBVIOUS
<1>5. text = front \o <<"]">> \o back
  <2> HIDE DEF front
  <2>1. IsText(front \o <<"]">>) BY <1>1, <1>2, TextSum
  <2>2. (front \o <<"]">>) \o (<<":">> \o rest) = ((front \o <<"]">>) \o <<":">>) \o rest
    <3> DEFINE left == front \o <<"]">>
               colon == <<":">>
    <3>1. IsText(left) /\ IsText(colon) BY <1>1, <2>1
    <3> HIDE DEF left, colon
    <3>2. Grouped(left, colon, rest) BY <3>1, TextAssoc
    <3> QED BY <3>2 DEF Grouped, left, colon
  <2>3. (front \o <<"]">>) \o <<":">> = front \o (<<"]">> \o <<":">>)
    <3> DEFINE bracket == <<"]">>
               colon == <<":">>
    <3>1. IsText(bracket) /\ IsText(colon) BY <1>1
    <3> HIDE DEF bracket, colon
    <3>2. Grouped(front, bracket, colon) BY <1>2, <3>1, TextAssoc
    <3> QED BY <3>2 DEF Grouped, bracket, colon
  <2> QED BY <1>4, <2>2, <2>3
<1>6. Until(text, "]") = front /\ After(text, "]") = back
  <2> HIDE DEF front, back, text
  <2> QED BY <1>2, <1>3, <1>5, CutFirst
<1>7. Tail(back) = rest
  <2>1. SubSeq(back, Len(<<":">>) + 1, Len(back)) = rest BY <1>1, TextCut
  <2>2. Tail(back) = SubSeq(back, 2, Len(back))
    <3>1. back \in Seq(Range(back)) BY <1>3 DEF IsText
    <3>2. back # <<>>
      <4>1. Len(rest) \in Nat /\ Len(back) = Len(<<":">>) + Len(rest) BY <1>1, TextIs, TextSum
      <4> HIDE DEF back
      <4>2. Len(back) # 0 BY <1>1, <4>1
      <4> QED BY <1>3, <4>2, TextNil
    <3> HIDE DEF back
    <3> QED BY <3>1, <3>2, TailIsSubSeq
  <2>3. Len(<<":">>) + 1 = 2 BY <1>1
  <2> HIDE DEF back
  <2> QED BY <2>1, <2>2, <2>3
<1>8. text[1] = "["
  <2>1. 1 \in 1..Len(<<"[">>) BY <1>1
  <2>2. front[1] = "[" BY <1>1, <2>1, TextSum
  <2>3. Len(ip) \in Nat /\ Len(front) = Len(<<"[">>) + Len(ip) BY <1>1, TextIs, TextSum
  <2> HIDE DEF front
  <2>4. 1 \in 1..Len(front) BY <1>1, <2>3
  <2>5. (front \o <<"]", ":">>)[1] = "[" /\ IsText(front \o <<"]", ":">>)
        /\ Len(front \o <<"]", ":">>) = Len(front) + Len(<<"]">> \o <<":">>)
    <3> DEFINE end == <<"]">> \o <<":">>
    <3> HIDE DEF end
    <3>1. IsText(end) BY <1>3 DEF end
    <3>2. (front \o end)[1] = "[" /\ IsText(front \o end) /\ Len(front \o end) = Len(front) + Len(end)
      BY <1>2, <2>2, <2>4, <3>1, TextSum
    <3> QED BY <1>4, <3>2 DEF end
  <2>6. Len(<<"]">> \o <<":">>) \in Nat BY <1>3, TextIs
  <2>7. 1 \in 1..Len(front \o <<"]", ":">>) BY <2>3, <2>5, <2>6, <1>1
  <2> QED BY <2>5, <2>7, TextSum
<1> HIDE DEF front, back, text
<1>9. SplitIp(text) = [ip |-> front \o <<"]">>, rest |-> rest]
  BY <1>6, <1>7, <1>8 DEF SplitIp
<1> QED BY <1>9 DEF text, front

\* The address as the short form has it.
Written(x) == IF HasColon(x.ip) THEN <<"[">> \o x.ip \o <<"]">> ELSE x.ip

\* The short form, up to the protocol.
Body(x) ==
  (IF x.ip = <<>> THEN <<>>
   ELSE IF HasColon(x.ip) THEN <<"[">> \o x.ip \o <<"]", ":">> ELSE x.ip \o <<":">>)
  \o (IF x.ip = <<>> /\ x.ports = <<>> THEN <<>> ELSE HostPorts(x) \o <<":">>)
  \o <<"80">>

BodyReads(x) ==
  /\ IsText(Body(x)) /\ "/" \notin Range(Body(x))
  /\ "$" \in Range(Body(x)) <=> "$" \in Range(x.ip)
  /\ SplitIp(Body(x)).ip = Written(x)
  /\ Published(SplitIp(Body(x)).rest) = PublishedBy(x)

\* A port without an address is read right.
LEMMA BodyNone ==
  ASSUME NEW x, IsPort(x), x.ip = <<>>
  PROVE  BodyReads(x)
<1>1. IsText(<<"80">>) /\ Range(<<"80">>) = {"80"} /\ IsText(<<":">>) BY TextOne
<1>2. /\ IsText(HostPorts(x)) /\ Range(HostPorts(x)) \cap {":", "/", "$", "["} = {}
      /\ PortRange(HostPorts(x)) = PublishedBy(x) /\ (PublishedBy(x) = {} <=> x.ports = <<>>)
  BY HostPortsRead
<1>3. IsText(<<>>) /\ Range(<<>>) = {} BY TextNil
<1>4. Written(x) = <<>> BY <1>3 DEF Written, HasColon
<1>5. CASE x.ports = <<>>
  <2>1. Body(x) = <<>> \o <<>> \o <<"80">> BY <1>5 DEF Body
  <2>2. Body(x) = <<"80">> BY <1>1, <1>3, <2>1, TextNil
  <2>3. SplitIp(<<"80">>) = [ip |-> <<>>, rest |-> <<"80">>] BY <1>3, SplitNone
  <2>4. Published(<<"80">>) = {} BY <1>1 DEF Published, HasColon
  <2>5. SplitIp(Body(x)).ip = <<>> /\ SplitIp(Body(x)).rest = <<"80">> BY <2>2, <2>3
  <2>6. Range(Body(x)) = {"80"} /\ IsText(Body(x)) /\ Range(x.ip) = {} BY <1>1, <1>3, <2>2
  <2>7. PublishedBy(x) = {} BY <1>2, <1>5
  <2> QED BY <1>4, <2>4, <2>5, <2>6, <2>7 DEF BodyReads
<1>6. CASE x.ports # <<>>
  <2>1. Body(x) = <<>> \o (HostPorts(x) \o <<":">>) \o <<"80">> BY <1>6 DEF Body
  <2>2. IsText(HostPorts(x) \o <<":">>) BY <1>1, <1>2, TextSum
  <2>3. <<>> \o (HostPorts(x) \o <<":">>) = HostPorts(x) \o <<":">> BY <2>2, TextNil
  <2>4. Body(x) = HostPorts(x) \o <<":">> \o <<"80">> BY <2>1, <2>3
  <2>5. SplitIp(HostPorts(x) \o <<":">> \o <<"80">>)
          = [ip |-> <<>>, rest |-> HostPorts(x) \o <<":">> \o <<"80">>]
    BY <1>2, SplitNone
  <2>6. Published(HostPorts(x) \o <<":">> \o <<"80">>) = PublishedBy(x) BY <1>2, PublishedRest
  <2>7. SplitIp(Body(x)).ip = <<>> /\ SplitIp(Body(x)).rest = Body(x) BY <2>4, <2>5
  <2>8. IsText(Body(x)) /\ Range(Body(x)) = Range(HostPorts(x)) \cup {":"} \cup Range(<<"80">>)
    BY <1>1, <1>2, <2>4, Places
  <2> QED BY <1>1, <1>2, <1>3, <1>4, <2>4, <2>6, <2>7, <2>8 DEF BodyReads
<1> QED BY <1>5, <1>6

\* And one with an address without colons.
LEMMA BodyPlain ==
  ASSUME NEW x, IsPort(x), x.ip # <<>>, ~ HasColon(x.ip)
  PROVE  BodyReads(x)
<1> DEFINE rest == HostPorts(x) \o <<":">> \o <<"80">>
<1>1. IsText(<<"80">>) /\ Range(<<"80">>) = {"80"} /\ IsText(<<":">>) BY TextOne
<1>2. /\ IsText(HostPorts(x)) /\ Range(HostPorts(x)) \cap {":", "/", "$", "["} = {}
      /\ PortRange(HostPorts(x)) = PublishedBy(x)
  BY HostPortsRead
<1>3. IsText(x.ip) /\ Range(x.ip) \cap {":", "/", "["} = {} BY DEF IsPort, HasColon
<1>4. Body(x) = (x.ip \o <<":">>) \o (HostPorts(x) \o <<":">>) \o <<"80">> BY DEF Body
<1>5. Body(x) = x.ip \o <<":">> \o rest
  <2> DEFINE left == x.ip \o <<":">>
             middle == HostPorts(x) \o <<":">>
  <2>1. IsText(left) /\ IsText(middle) BY <1>1, <1>2, <1>3, TextSum
  <2> HIDE DEF left, middle
  <2>2. (left \o middle) \o <<"80">> = left \o (middle \o <<"80">>)
    <3>1. IsText(<<"80">>) BY <1>1
    <3>2. Grouped(left, middle, <<"80">>) BY <2>1, <3>1, TextAssoc
    <3> QED BY <3>2 DEF Grouped
  <2> QED BY <1>4, <2>2 DEF left, middle
<1>6. IsText(rest) /\ Range(rest) = Range(HostPorts(x)) \cup {":"} \cup {"80"} BY <1>1, <1>2, Places
<1>7. Published(rest) = PublishedBy(x) BY <1>2, PublishedRest
<1>8. SplitIp(x.ip \o <<":">> \o rest) = [ip |-> x.ip, rest |-> rest] BY <1>2, <1>3, SplitPlain
<1> HIDE DEF rest
<1>9. IsText(Body(x)) /\ Range(Body(x)) = Range(x.ip) \cup {":"} \cup Range(rest)
  BY <1>3, <1>5, <1>6, Places
<1>10. SplitIp(Body(x)).ip = x.ip /\ SplitIp(Body(x)).rest = rest BY <1>5, <1>8
<1>11. Written(x) = x.ip BY DEF Written
<1> QED BY <1>2, <1>3, <1>6, <1>7, <1>9, <1>10, <1>11 DEF BodyReads

\* And one with an IPv6 address, whose colons are in brackets.
LEMMA BodyBrackets ==
  ASSUME NEW x, IsPort(x), x.ip # <<>>, HasColon(x.ip)
  PROVE  BodyReads(x)
<1> DEFINE rest == HostPorts(x) \o <<":">> \o <<"80">>
           left == <<"[">> \o x.ip \o <<"]", ":">>
<1>1. IsText(<<"80">>) /\ Range(<<"80">>) = {"80"} /\ IsText(<<":">>) /\ Range(<<":">>) = {":"}
      /\ IsText(<<"[">>) /\ Range(<<"[">>) = {"["} /\ IsText(<<"]">>) /\ Range(<<"]">>) = {"]"}
  BY TextOne
<1>2. /\ IsText(HostPorts(x)) /\ Range(HostPorts(x)) \cap {":", "/", "$", "["} = {}
      /\ PortRange(HostPorts(x)) = PublishedBy(x)
  BY HostPortsRead
<1>3. IsText(x.ip) /\ Range(x.ip) \cap {"/", "[", "]"} = {} BY DEF IsPort
<1>4. Body(x) = left \o (HostPorts(x) \o <<":">>) \o <<"80">> BY DEF Body
<1>5. <<"]", ":">> = <<"]">> \o <<":">> OBVIOUS
<1>6. IsText(left) /\ Range(left) = {"["} \cup Range(x.ip) \cup {"]", ":"}
  <2>1. IsText(<<"]", ":">>) /\ Range(<<"]", ":">>) = {"]"} \cup {":"}
    <3> DEFINE bracket == <<"]">>
               colon == <<":">>
    <3>1. IsText(bracket) /\ Range(bracket) = {"]"} /\ IsText(colon) /\ Range(colon) = {":"} BY <1>1
    <3> HIDE DEF bracket, colon
    <3>2. IsText(bracket \o colon) /\ Range(bracket \o colon) = {"]"} \cup {":"} BY <3>1, TextSum
    <3> QED BY <1>5, <3>2 DEF bracket, colon
  <2>2. IsText(<<"[">> \o x.ip) /\ Range(<<"[">> \o x.ip) = {"["} \cup Range(x.ip) BY <1>1, <1>3, TextSum
  <2> DEFINE front == <<"[">> \o x.ip
             end == <<"]", ":">>
  <2> HIDE DEF front, end
  <2>3. IsText(front \o end) /\ Range(front \o end) = Range(front) \cup Range(end)
    BY <2>1, <2>2, TextSum DEF front, end
  <2> QED BY <2>1, <2>2, <2>3 DEF front, end
<1> HIDE DEF left
<1>7. Body(x) = left \o rest
  <2> DEFINE middle == HostPorts(x) \o <<":">>
  <2>1. IsText(middle) BY <1>1, <1>2, TextSum
  <2> HIDE DEF middle
  <2>2. (left \o middle) \o <<"80">> = left \o (middle \o <<"80">>)
    <3>1. IsText(<<"80">>) BY <1>1
    <3>2. Grouped(left, middle, <<"80">>) BY <1>6, <2>1, <3>1, TextAssoc
    <3> QED BY <3>2 DEF Grouped
  <2> QED BY <1>4, <2>2 DEF middle
<1>8. IsText(rest) /\ Range(rest) = Range(HostPorts(x)) \cup {":"} \cup {"80"} BY <1>1, <1>2, Places
<1>9. Published(rest) = PublishedBy(x) BY <1>2, PublishedRest
<1> HIDE DEF rest
<1>10. SplitIp(left \o rest) = [ip |-> <<"[">> \o x.ip \o <<"]">>, rest |-> rest]
  BY <1>3, <1>8, SplitBrackets DEF left
<1>11. IsText(Body(x)) /\ Range(Body(x)) = Range(left) \cup Range(rest)
  BY <1>6, <1>7, <1>8, TextSum
<1>12. SplitIp(Body(x)).ip = <<"[">> \o x.ip \o <<"]">> /\ SplitIp(Body(x)).rest = rest BY <1>7, <1>10
<1>13. Written(x) = <<"[">> \o x.ip \o <<"]">> BY DEF Written
<1> QED BY <1>2, <1>3, <1>6, <1>8, <1>9, <1>11, <1>12, <1>13 DEF BodyReads

\* The whole short form: its protocol is cut off first.
LEMMA PortTextReads ==
  ASSUME NEW x, IsPort(x)
  PROVE  /\ Variable(PortText(x)) <=> Variable(x.ip)
         /\ Until(PortText(x), "/") = Body(x)
         /\ After(PortText(x), "/") = IF x.protocol = "tcp" THEN <<>> ELSE <<x.protocol>>
         /\ BodyReads(x)
<1>1. BodyReads(x) BY BodyNone, BodyPlain, BodyBrackets
<1>2. IsText(Body(x)) /\ "/" \notin Range(Body(x)) /\ ("$" \in Range(Body(x)) <=> "$" \in Range(x.ip))
  BY <1>1 DEF BodyReads
<1>3. PortText(x) = Body(x) \o (IF x.protocol = "tcp" THEN <<>> ELSE <<"/", x.protocol>>)
  BY DEF PortText, Body
<1>4. CASE x.protocol = "tcp"
  <2>1. PortText(x) = Body(x) BY <1>2, <1>3, <1>4, TextNil
  <2>2. Until(PortText(x), "/") = Body(x) /\ After(PortText(x), "/") = <<>> BY <1>2, <2>1, NotCut
  <2> QED BY <1>1, <1>2, <1>4, <2>1, <2>2 DEF Variable
<1>5. CASE x.protocol # "tcp"
  <2> DEFINE end == <<"/", x.protocol>>
             slash == <<"/">>
             protocol == <<x.protocol>>
             body == Body(x)
  <2>1. /\ IsText(slash) /\ Len(slash) = 1 /\ slash[1] = "/" /\ Range(slash) = {"/"}
        /\ IsText(protocol) /\ Len(protocol) = 1 /\ protocol[1] = x.protocol /\ Range(protocol) = {x.protocol}
    BY TextOne
  <2>2. IsText(end) /\ Len(end) = 2 /\ end[1] = "/" /\ end[2] = x.protocol
    <3>1. end \in Seq({"/", x.protocol}) /\ Len(end) = 2 OBVIOUS
    <3> QED BY <3>1, TextOf
  <2>3. x.protocol # "$" BY DEF IsPort
  <2>4. PortText(x) = body \o end BY <1>3, <1>5
  <2>5. IsText(body) /\ "/" \notin Range(body) BY <1>2
  <2> HIDE DEF end, slash, body
  <2>6. end = slash \o protocol
    <3> HIDE DEF protocol
    <3> QED BY <2>1, <2>2, TwoTokens
  <2> HIDE DEF protocol
  <2>7. PortText(x) = body \o slash \o protocol
    <3>1. IsText(slash) /\ IsText(protocol) BY <2>1
    <3>2. Grouped(body, slash, protocol) BY <2>5, <3>1, TextAssoc
    <3> QED BY <2>4, <2>6, <3>2 DEF Grouped
  <2>8. Until(PortText(x), "/") = body /\ After(PortText(x), "/") = protocol
    <3>1. IsText(protocol) BY <2>1
    <3> QED BY <2>5, <2>7, <3>1, CutFirst DEF slash
  <2>9. Range(PortText(x)) = Range(body) \cup {"/"} \cup Range(protocol)
    <3>1. IsText(protocol) BY <2>1
    <3> QED BY <2>5, <2>7, <3>1, Places DEF slash
  <2>10. Variable(PortText(x)) <=> Variable(x.ip)
    BY <1>2, <2>1, <2>3, <2>9 DEF Variable, body
  <2> QED BY <1>1, <1>5, <2>8, <2>10 DEF body, protocol
<1> QED BY <1>4, <1>5

\* The address as the check hears it.
Heard(x) == IF x.form = "short" THEN Written(x) ELSE x.ip

\* The addresses the check asks about are heard as they are meant.
LEMMA HeardIs ==
  ASSUME NEW x, IsPort(x)
  PROVE  /\ Heard(x) = <<>> <=> x.ip = <<>>
         /\ Heard(x) \in Ipv6All <=> x.ip = <<":", ":">>
         /\ Heard(x) = PublicIp <=> x.ip = PublicIp
<1>1. IsText(x.ip) /\ Range(x.ip) \cap {"/", "[", "]"} = {} BY DEF IsPort
<1>2. Len(x.ip) \in Nat /\ \A i \in 1..Len(x.ip) : x.ip[i] \in Range(x.ip) BY <1>1, TextIs
<1>3. CASE ~ (x.form = "short" /\ HasColon(x.ip))
  <2>1. Heard(x) = x.ip BY <1>3 DEF Heard, Written
  <2>2. x.ip # <<"[", ":", ":", "]">>
    <3>1. SUFFICES ASSUME x.ip = <<"[", ":", ":", "]">> PROVE FALSE OBVIOUS
    <3>2. Len(x.ip) = 4 /\ x.ip[1] = "[" BY <3>1
    <3>3. x.ip[1] \in Range(x.ip) BY <1>2, <3>2
    <3> QED BY <1>1, <3>2, <3>3
  <2> QED BY <2>1, <2>2 DEF Ipv6All
<1>4. CASE x.form = "short" /\ HasColon(x.ip)
  <2> DEFINE heard == <<"[">> \o x.ip \o <<"]">>
  <2>1. Heard(x) = heard BY <1>4 DEF Heard, Written
  <2>2. /\ IsText(heard) /\ Len(heard) = Len(x.ip) + 2 /\ heard[1] = "[" /\ heard[Len(x.ip) + 2] = "]"
        /\ \A i \in 1..Len(x.ip) : heard[1 + i] = x.ip[i]
    <3> DEFINE open == <<"[">>
               close == <<"]">>
               half == open \o x.ip
    <3>1. /\ IsText(open) /\ Len(open) = 1 /\ open[1] = "["
          /\ IsText(close) /\ Len(close) = 1 /\ close[1] = "]"
      BY TextOne
    <3> HIDE DEF open, close
    <3>2. IsText(half) /\ Len(half) = Len(open) + Len(x.ip)
      <4>1. IsText(open) BY <3>1
      <4> QED BY <1>1, <4>1, TextSum
    <3>3. \A i \in 1..Len(open) : half[i] = open[i]
      <4>1. IsText(open) BY <3>1
      <4> QED BY <1>1, <4>1, TextSum
    <3>4. \A i \in 1..Len(x.ip) : half[Len(open) + i] = x.ip[i]
      <4>1. IsText(open) BY <3>1
      <4> QED BY <1>1, <4>1, TextSum
    <3> HIDE DEF half
    <3> DEFINE whole == half \o close
    <3>5. IsText(whole) /\ Len(whole) = Len(half) + Len(close)
      <4>1. IsText(half) /\ IsText(close) BY <3>1, <3>2
      <4> QED BY <4>1, TextSum
    <3>6. \A i \in 1..Len(half) : whole[i] = half[i]
      <4>1. IsText(half) /\ IsText(close) BY <3>1, <3>2
      <4> QED BY <4>1, TextSum
    <3>7. whole[Len(half) + 1] = close[1]
      <4>1. IsText(half) /\ IsText(close) /\ Len(close) = 1 BY <3>1, <3>2
      <4> QED BY <4>1, LastToken
    <3> HIDE DEF whole
    <3>8. IsText(whole) /\ Len(whole) = Len(x.ip) + 2 BY <1>2, <3>1, <3>2, <3>5
    <3>9. whole[1] = "[" BY <1>2, <3>1, <3>2, <3>3, <3>6
    <3>10. whole[Len(x.ip) + 2] = "]"
      <4>1. Len(half) + 1 = Len(x.ip) + 2 BY <1>2, <3>1, <3>2
      <4> QED BY <4>1, <3>1, <3>7
    <3>11. \A i \in 1..Len(x.ip) : whole[1 + i] = x.ip[i]
      <4> TAKE i \in 1..Len(x.ip)
      <4>1. 1 + i \in 1..Len(half) /\ Len(open) + i = 1 + i BY <1>2, <3>1, <3>2
      <4> QED BY <4>1, <3>4, <3>6
    <3> QED BY <3>8, <3>9, <3>10, <3>11 DEF whole, half, open, close
  <2> HIDE DEF heard
  <2>3. x.ip # <<>> /\ x.ip # PublicIp
    <3>1. Range(<<>>) = {} BY TextNil
    <3>2. Range(PublicIp) = {"0.0.0.0"} BY TextOne DEF PublicIp
    <3>3. ":" \in Range(x.ip) BY <1>4 DEF HasColon
    <3> QED BY <3>1, <3>2, <3>3
  <2>4. heard # <<>> /\ heard # PublicIp /\ heard # <<":", ":">>
    <3>1. Len(heard) # 0 BY <1>2, <2>2
    <3>2. heard # <<>> BY <3>1, TextNil
    <3> QED BY <2>2, <3>2 DEF PublicIp
  <2>5. heard = <<"[", ":", ":", "]">> => x.ip = <<":", ":">>
    <3>1. HAVE heard = <<"[", ":", ":", "]">>
    <3>2. Len(heard) = 4 /\ heard[2] = ":" /\ heard[3] = ":" BY <3>1
    <3>3. Len(x.ip) = 2
      <4>1. Len(x.ip) \in Nat /\ Len(x.ip) + 2 = 4 BY <1>2, <2>2, <3>2
      <4>2. \A k \in Nat : k + 2 = 4 => k = 2 OBVIOUS
      <4> QED BY <4>1, <4>2
    <3>4. x.ip[1] = ":" /\ x.ip[2] = ":" BY <2>2, <3>2, <3>3
    <3>5. x.ip = [i \in 1..Len(x.ip) |-> x.ip[i]] BY <1>1, TextIs
    <3> QED BY <3>3, <3>4, <3>5
  <2>6. x.ip = <<":", ":">> => heard = <<"[", ":", ":", "]">>
    <3>1. HAVE x.ip = <<":", ":">>
    <3>2. Len(x.ip) = 2 /\ x.ip[1] = ":" /\ x.ip[2] = ":" BY <3>1
    <3>3. Len(heard) = 4 /\ heard[1] = "[" /\ heard[4] = "]" BY <2>2, <3>2
    <3>4. heard[2] = ":" /\ heard[3] = ":" BY <2>2, <3>2
    <3>5. heard = [i \in 1..Len(heard) |-> heard[i]] BY <2>2, TextIs
    <3> QED BY <3>3, <3>4, <3>5
  <2> QED BY <2>1, <2>3, <2>4, <2>5, <2>6 DEF Ipv6All
<1> QED BY <1>3, <1>4

\* What is made of a port.
LEMMA PortReads ==
  ASSUME NEW x, IsPort(x)
  PROVE  /\ Variable(x.ip) => ParsePort(x) = Error
         /\ ~ Variable(x.ip) =>
              /\ ParsePort(x) # Error
              /\ ParsePort(x).ip = Heard(x) /\ ParsePort(x).published = PublishedBy(x)
              /\ ParsePort(x).protocol = x.protocol
<1>1. Range(<<>>) = {} BY TextNil
<1>2. \A ip, published, protocol : [ip |-> ip, published |-> published, protocol |-> protocol] # Error
  <2> TAKE ip, published, protocol
  <2>1. "ip" \in DOMAIN [ip |-> ip, published |-> published, protocol |-> protocol] OBVIOUS
  <2>2. "ip" \notin DOMAIN Error BY DEF Error
  <2> QED BY <2>1, <2>2
<1>3. CASE x.form = "int"
  <2>1. x.ip = <<>> /\ x.ports = <<>> /\ x.protocol = "tcp" BY <1>3 DEF IsPort
  <2>2. ~ Variable(x.ip) BY <1>1, <2>1 DEF Variable
  <2>3. ParsePort(x) = [ip |-> <<>>, published |-> {}, protocol |-> "tcp"] BY <1>3 DEF ParsePort
  <2>4. PublishedBy(x) = {} /\ Heard(x) = <<>> BY <1>3, <2>1 DEF PublishedBy, Heard
  <2> QED BY <1>2, <2>1, <2>2, <2>3, <2>4
<1>4. CASE x.form # "int" /\ Variable(x.ip)
  <2>1. Variable(PortText(x)) BY <1>4, PortTextReads
  <2>2. ParsePort(x) = Error BY <1>4, <2>1 DEF ParsePort
  <2> QED BY <1>4, <2>2
<1>5. CASE x.form = "long" /\ ~ Variable(x.ip)
  <2>1. ~ Variable(PortText(x)) BY <1>5, PortTextReads
  <2>2. ParsePort(x) = [ip |-> x.ip, published |-> PortRange(HostPorts(x)), protocol |-> x.protocol]
    BY <1>5, <2>1 DEF ParsePort
  <2>3. PortRange(HostPorts(x)) = PublishedBy(x) BY HostPortsRead
  <2>4. Heard(x) = x.ip BY <1>5 DEF Heard
  <2> QED BY <1>2, <1>5, <2>2, <2>3, <2>4
<1>6. CASE x.form = "short" /\ ~ Variable(x.ip)
  <2>1. ~ Variable(PortText(x)) BY <1>6, PortTextReads
  <2>2. /\ Until(PortText(x), "/") = Body(x)
        /\ After(PortText(x), "/") = IF x.protocol = "tcp" THEN <<>> ELSE <<x.protocol>>
        /\ SplitIp(Body(x)).ip = Written(x) /\ Published(SplitIp(Body(x)).rest) = PublishedBy(x)
    BY PortTextReads DEF BodyReads
  <2> DEFINE after == After(PortText(x), "/")
  <2>3. ParsePort(x) = [ip |-> SplitIp(Body(x)).ip, published |-> Published(SplitIp(Body(x)).rest),
                        protocol |-> IF after = <<>> THEN "tcp" ELSE after[1]]
    BY <1>6, <2>1, <2>2 DEF ParsePort
  <2>4. (IF after = <<>> THEN "tcp" ELSE after[1]) = x.protocol BY <2>2
  <2>5. Heard(x) = Written(x) BY <1>6 DEF Heard
  <2> HIDE DEF after
  <2> QED BY <1>2, <1>6, <2>2, <2>3, <2>4, <2>5
<1> QED BY <1>3, <1>4, <1>5, <1>6 DEF IsPort

\* A port has a problem exactly when it does not conform.
LEMMA PortIsRight ==
  ASSUME NEW x, IsPort(x), NEW stack
  PROVE  PortProblem(x, stack) <=> ~ PortConforms(x, stack)
<1>1. CASE Variable(x.ip)
  <2>1. ParsePort(x) = Error BY <1>1, PortReads
  <2> QED BY <1>1, <2>1 DEF PortProblem, PortConforms
<1>2. CASE ~ Variable(x.ip)
  <2> DEFINE read == ParsePort(x)
  <2>1. read # Error /\ read.ip = Heard(x) /\ read.published = PublishedBy(x) /\ read.protocol = x.protocol
    BY <1>2, PortReads
  <2>2. PortProblem(x, stack) <=>
          \/ read.ip = <<>> \/ read.ip \in Ipv6All
          \/ /\ read.ip = PublicIp
             /\ \/ read.published = {}
                \/ \E p \in read.published : <<p, read.protocol>> \notin stack.publicPorts
    BY <2>1 DEF PortProblem
  <2> HIDE DEF read
  <2>3. PublishedBy(x) = {} <=> x.ports = <<>> BY HostPortsRead
  <2>4. PortProblem(x, stack) <=>
          \/ x.ip = <<>> \/ x.ip = <<":", ":">>
          \/ /\ x.ip = PublicIp
             /\ \/ x.ports = <<>>
                \/ \E p \in PublishedBy(x) : <<p, x.protocol>> \notin stack.publicPorts
    BY <2>1, <2>2, <2>3, HeardIs
  <2> QED BY <1>2, <2>4 DEF PortConforms
<1> QED BY <1>1, <1>2

\* What a file publishes on every address is what its ports mean.
LEMMA PublicIsRight ==
  ASSUME NEW doc, \A s \in DOMAIN doc.services : \A x \in doc.services[s].ports : IsPort(x),
         NEW p, NEW protocol
  PROVE  <<p, protocol>> \in Public(doc) <=>
           \E s \in DOMAIN doc.services : \E x \in doc.services[s].ports :
             x.ip = PublicIp /\ p \in PublishedBy(x) /\ protocol = x.protocol
<1> DEFINE Entries == UNION {doc.services[s].ports : s \in DOMAIN doc.services}
           Reads == {ParsePort(x) : x \in Entries} \ {Error}
           Mine == {q \in Reads : q.ip = PublicIp}
           Of(r) == {<<k, r.protocol>> : k \in r.published}
<1>1. \A x \in Entries : IsPort(x) /\ \E s \in DOMAIN doc.services : x \in doc.services[s].ports
  OBVIOUS
<1>2. \A s \in DOMAIN doc.services : \A x \in doc.services[s].ports : x \in Entries
  OBVIOUS
<1> HIDE DEF Entries
<1>3. Public(doc) = UNION {Of(r) : r \in Mine}
  BY DEF Public, Entries
<1>4. ~ Variable(PublicIp)
  BY TextOne DEF Variable, PublicIp
<1>5. ASSUME NEW x \in Entries, x.ip = PublicIp, p \in PublishedBy(x), protocol = x.protocol
      PROVE  <<p, protocol>> \in Public(doc)
  <2>1. ParsePort(x) # Error /\ ParsePort(x).ip = Heard(x) /\ ParsePort(x).published = PublishedBy(x)
        /\ ParsePort(x).protocol = x.protocol
    BY <1>1, <1>4, <1>5, PortReads
  <2>2. Heard(x) = PublicIp BY <1>1, <1>5, HeardIs
  <2>3. ParsePort(x) \in Mine BY <2>1, <2>2
  <2>4. <<p, protocol>> \in Of(ParsePort(x)) BY <1>5, <2>1
  <2> HIDE DEF Mine, Of
  <2> QED BY <1>3, <2>3, <2>4
<1>6. ASSUME <<p, protocol>> \in Public(doc)
      PROVE  \E x \in Entries : x.ip = PublicIp /\ p \in PublishedBy(x) /\ protocol = x.protocol
  <2>1. PICK r \in Mine : <<p, protocol>> \in Of(r)
    <3> HIDE DEF Mine, Of
    <3> QED BY <1>3, <1>6
  <2>2. PICK x \in Entries : r = ParsePort(x) /\ r # Error /\ r.ip = PublicIp BY <2>1
  <2>3. p \in r.published /\ protocol = r.protocol BY <2>1
  <2>4. ~ Variable(x.ip) BY <1>1, <2>2, PortReads
  <2>5. r.ip = Heard(x) /\ r.published = PublishedBy(x) /\ r.protocol = x.protocol
    BY <1>1, <2>2, <2>4, PortReads
  <2>6. x.ip = PublicIp BY <1>1, <2>2, <2>5, HeardIs
  <2> QED BY <2>3, <2>5, <2>6
<1> QED BY <1>1, <1>2, <1>5, <1>6

\* What is made of a volume.
LEMMA VolumeTextReads ==
  ASSUME NEW v, IsVolume(v)
  PROVE  LET text == VolumeText(v)
             rest == After(text, ":")
         IN  IF v.kind = "anonymous" THEN rest = <<>>
             ELSE /\ Until(text, ":") = v.path /\ rest # <<>>
                  /\ (HasColon(rest) /\ AfterLast(rest, ":") = <<"ro">>) <=> v.ro
<1> DEFINE inside == <<"/", "inside">>
           end == IF v.ro THEN <<":", "ro">> ELSE <<>>
           colon == <<":">>
           ro == <<"ro">>
<1>1. /\ IsText(inside) /\ ":" \notin Range(inside) /\ Len(inside) = 2
  <2>1. inside \in Seq({"/", "inside"}) /\ Len(inside) = 2 OBVIOUS
  <2>2. IsText(inside) /\ Range(inside) \subseteq {"/", "inside"} BY <2>1, TextOf
  <2> QED BY <2>1, <2>2
<1>2. /\ IsText(colon) /\ Len(colon) = 1 /\ colon[1] = ":"
      /\ IsText(ro) /\ Len(ro) = 1 /\ ro[1] = "ro" /\ Range(ro) = {"ro"}
  BY TextOne
<1>3. IsText(<<>>) /\ Range(<<>>) = {} BY TextNil
<1>4. IsText(end) /\ (v.ro => end = colon \o ro)
  <2>1. CASE v.ro
    <3> DEFINE both == <<":", "ro">>
    <3>1. IsText(both) /\ Len(both) = 2 /\ both[1] = ":" /\ both[2] = "ro"
      <4>1. both \in Seq({":", "ro"}) /\ Len(both) = 2 OBVIOUS
      <4> QED BY <4>1, TextOf
    <3>2. end = both BY <2>1
    <3> HIDE DEF both, end, colon, ro
    <3>3. both = colon \o ro BY <1>2, <3>1, TwoTokens
    <3> QED BY <3>1, <3>2, <3>3
  <2>2. CASE ~ v.ro
    BY <1>3, <2>2
  <2> QED BY <2>1, <2>2
<1>5. ~ v.ro => end = <<>>
  OBVIOUS
<1>6. v.ro \in BOOLEAN /\ IsText(v.path) /\ ":" \notin Range(v.path) BY DEF IsVolume
<1>7. VolumeText(v) = (IF v.kind = "anonymous" THEN <<>> ELSE v.path \o colon) \o inside \o end
  BY DEF VolumeText
<1>8. CASE v.kind = "anonymous"
  <2>1. ~ v.ro BY <1>8 DEF IsVolume
  <2>2. VolumeText(v) = <<>> \o inside \o <<>> BY <1>5, <1>7, <1>8, <2>1
  <2> HIDE DEF inside
  <2>3. VolumeText(v) = inside
    <3>1. <<>> \o inside = inside /\ inside \o <<>> = inside BY <1>1, TextNil
    <3> QED BY <2>2, <3>1
  <2> QED BY <1>1, <1>8, <2>3, NotCut
<1>9. CASE v.kind # "anonymous"
  <2> DEFINE text == VolumeText(v)
             rest == inside \o end
  <2>1. text = (v.path \o colon) \o inside \o end BY <1>7, <1>9
  <2> HIDE DEF inside, end
  <2>2. IsText(rest) /\ Range(rest) = Range(inside) \cup Range(end) /\ Len(rest) = Len(inside) + Len(end)
    BY <1>1, <1>4, TextSum
  <2>3. rest # <<>>
    <3>1. Len(end) \in Nat BY <1>4, TextIs
    <3>2. Len(rest) # 0 BY <1>1, <2>2, <3>1
    <3> HIDE DEF rest
    <3> QED BY <2>2, <3>2, TextNil
  <2>4. text = v.path \o colon \o rest
    <3> DEFINE left == v.path \o colon
    <3>1. IsText(left) BY <1>2, <1>6, TextSum
    <3> HIDE DEF left, text
    <3>2. (left \o inside) \o end = left \o (inside \o end)
      <4>1. IsText(inside) /\ IsText(end) BY <1>1, <1>4
      <4>2. Grouped(left, inside, end) BY <3>1, <4>1, TextAssoc
      <4> QED BY <4>2 DEF Grouped
    <3> QED BY <2>1, <3>2 DEF left
  <2> HIDE DEF rest, text
  <2>5. Until(text, ":") = v.path /\ After(text, ":") = rest
    BY <1>6, <2>2, <2>4, CutFirst DEF colon
  <2>6. CASE v.ro
    <3>1. rest = inside \o colon \o ro
      <4> HIDE DEF colon, ro
      <4>1. IsText(inside) /\ IsText(colon) /\ IsText(ro) BY <1>1, <1>2
      <4>2. Grouped(inside, colon, ro) BY <4>1, TextAssoc
      <4> QED BY <1>4, <2>6, <4>2 DEF Grouped, rest
    <3>2. IsText(ro) /\ ":" \notin Range(ro) /\ IsText(inside) BY <1>1, <1>2
    <3> HIDE DEF ro
    <3>3. AfterLast(rest, ":") = ro BY <3>1, <3>2, CutLast DEF colon
    <3>4. ":" \in Range(rest) BY <3>1, <3>2, Places DEF colon
    <3> QED BY <1>9, <2>3, <2>5, <2>6, <3>3, <3>4 DEF HasColon, ro, text
  <2>7. CASE ~ v.ro
    <3>1. ":" \notin Range(rest) BY <1>1, <1>3, <1>5, <2>2, <2>7
    <3> QED BY <1>9, <2>3, <2>5, <2>7, <3>1 DEF HasColon, text
  <2> QED BY <2>6, <2>7
<1> QED BY <1>8, <1>9

\* The source of a volume and its bind, in either form.
LEMMA VolumeReads ==
  ASSUME NEW v, IsVolume(v)
  PROVE  /\ Variable(VolumeSource(v)) <=> v.kind # "anonymous" /\ Variable(v.path)
         /\ v.kind = "anonymous" \/ ~ Variable(v.path) =>
              BindSources(v) = IF v.kind = "bind" THEN {[path |-> v.path, ro |-> v.ro]} ELSE {}
<1>1. ~ Variable(<<>>) BY TextNil DEF Variable
<1>2. v.kind \in {"anonymous", "bind", "named"} /\ v.form \in {"short", "long"} /\ v.ro \in BOOLEAN
  BY DEF IsVolume
<1>3. CASE v.form = "long"
  BY <1>1, <1>2, <1>3 DEF VolumeSource, BindSources
<1>4. CASE v.form = "short"
  <2> DEFINE text == VolumeText(v)
             rest == After(text, ":")
  <2>1. CASE v.kind = "anonymous"
    <3>1. rest = <<>> BY <2>1, VolumeTextReads
    <3>2. VolumeSource(v) = <<>> BY <1>4, <3>1 DEF VolumeSource
    <3>3. BindSources(v) = {} BY <1>4, <3>1 DEF BindSources
    <3> QED BY <1>1, <2>1, <3>2, <3>3
  <2>2. CASE v.kind # "anonymous"
    <3>1. /\ Until(text, ":") = v.path /\ rest # <<>>
          /\ (HasColon(rest) /\ AfterLast(rest, ":") = <<"ro">>) <=> v.ro
      BY <2>2, VolumeTextReads
    <3>2. VolumeSource(v) = v.path BY <1>4, <3>1 DEF VolumeSource
    <3>3. BindSources(v) = IF v.path[1] \notin PathStarts THEN {}
                           ELSE {[path |-> v.path, ro |-> HasColon(rest) /\ AfterLast(rest, ":") = <<"ro">>]}
      BY <1>4, <3>1 DEF BindSources
    <3>4. (HasColon(rest) /\ AfterLast(rest, ":") = <<"ro">>) = v.ro
      BY <1>2, <3>1 DEF HasColon
    <3>5. ~ Variable(v.path) => (v.kind = "bind" <=> v.path[1] \in PathStarts)
      BY <1>4, <2>2 DEF IsVolume, Variable
    <3> QED BY <2>2, <3>2, <3>3, <3>4, <3>5
  <2> QED BY <2>1, <2>2
<1> QED BY <1>2, <1>3, <1>4

\* A volume has a problem exactly when it does not conform.
LEMMA VolumeIsRight ==
  ASSUME NEW v, IsVolume(v), NEW stack
  PROVE  VolumeProblem(v, stack) <=> ~ VolumeConforms(v, stack)
<1>1. IsText(v.path) /\ v.ro \in BOOLEAN BY DEF IsVolume
<1>2. Normal(v.path) = Real(v.path) BY <1>1, NormalIsReal
<1> DEFINE bind == [path |-> v.path, ro |-> v.ro]
<1>3. BindProblem(bind, stack) <=>
        ~ (/\ v.path[1] = "/" /\ Real(v.path) \notin Sockets
           /\ \/ v.ro /\ Real(v.path) \in ReadOnlyAllowed
              \/ stack.dataDir # <<>> /\ Inside(Real(v.path), stack.dataDir))
  <2>1. bind.path = v.path /\ bind.ro = v.ro OBVIOUS
  <2> HIDE DEF bind
  <2> QED BY <1>1, <1>2, <2>1 DEF BindProblem
<1>4. CASE v.kind # "anonymous" /\ Variable(v.path)
  BY <1>4, VolumeReads DEF VolumeProblem, VolumeConforms
<1>5. CASE v.kind = "anonymous" \/ ~ Variable(v.path)
  <2>1. ~ Variable(VolumeSource(v)) BY <1>5, VolumeReads
  <2>2. BindSources(v) = IF v.kind = "bind" THEN {bind} ELSE {} BY <1>5, VolumeReads
  <2>3. VolumeProblem(v, stack) <=> v.kind = "bind" /\ BindProblem(bind, stack)
    <3> HIDE DEF bind
    <3> QED BY <2>1, <2>2 DEF VolumeProblem
  <2> HIDE DEF bind
  <2> QED BY <1>3, <1>5, <2>3 DEF VolumeConforms
<1> QED BY <1>4, <1>5

\* A file has a problem exactly when it does not conform.
LEMMA FileIsRight ==
  ASSUME NEW doc, NEW stack,
         \A s \in DOMAIN doc.services :
           /\ \A x \in doc.services[s].ports : IsPort(x)
           /\ \A v \in doc.services[s].volumes : IsVolume(v),
         \A public \in stack.publicPorts : public = <<public[1], public[2]>>
  PROVE  CheckFile(doc, stack) <=> ~ Conforms(doc, stack)
<1>1. \A s \in DOMAIN doc.services : \A x \in doc.services[s].ports :
        PortProblem(x, stack) <=> ~ PortConforms(x, stack)
  BY PortIsRight
<1>2. \A s \in DOMAIN doc.services : \A v \in doc.services[s].volumes :
        VolumeProblem(v, stack) <=> ~ VolumeConforms(v, stack)
  BY VolumeIsRight
<1>3. ASSUME NEW public \in stack.publicPorts
      PROVE  public \in Public(doc) <=>
               \E s \in DOMAIN doc.services : \E x \in doc.services[s].ports :
                 x.ip = PublicIp /\ public[1] \in PublishedBy(x) /\ public[2] = x.protocol
  <2>1. public = <<public[1], public[2]>> OBVIOUS
  <2>2. <<public[1], public[2]>> \in Public(doc) <=>
          \E s \in DOMAIN doc.services : \E x \in doc.services[s].ports :
            x.ip = PublicIp /\ public[1] \in PublishedBy(x) /\ public[2] = x.protocol
    BY PublicIsRight
  <2> QED BY <2>1, <2>2
<1>4. stack.publicPorts \ Public(doc) # {} <=> \E public \in stack.publicPorts : public \notin Public(doc)
  OBVIOUS
<1> DEFINE published ==
      \A public \in stack.publicPorts :
        \E s \in DOMAIN doc.services : \E x \in doc.services[s].ports :
          x.ip = PublicIp /\ public[1] \in PublishedBy(x) /\ public[2] = x.protocol
<1>5. stack.publicPorts \ Public(doc) # {} <=> ~ published
  BY <1>3, <1>4
<1> DEFINE fine ==
      \A s \in DOMAIN doc.services :
        /\ ~ doc.services[s].hostNetwork
        /\ \A x \in doc.services[s].ports : PortConforms(x, stack)
        /\ \A v \in doc.services[s].volumes : VolumeConforms(v, stack)
<1>6. (\E s \in DOMAIN doc.services :
         \/ doc.services[s].hostNetwork
         \/ \E x \in doc.services[s].ports : PortProblem(x, stack)
         \/ \E v \in doc.services[s].volumes : VolumeProblem(v, stack)) <=> ~ fine
  BY <1>1, <1>2
<1>7. Conforms(doc, stack) <=> DOMAIN doc.services = stack.services /\ ~ doc.hostBinding /\ fine /\ published
  BY DEF Conforms
<1> HIDE DEF published, fine
<1> QED BY <1>5, <1>6, <1>7 DEF CheckFile

(***************************************************************************)
(* The check over all files.                                               *)
(***************************************************************************)

\* The files that it has looked at.
ToldSoFar ==
  /\ manifest \in Manifests /\ files \in FileSets /\ nextFile \in 0..(Len(files) + 1)
  /\ failed \in BOOLEAN /\ (nextFile = 0 => ~ failed)
  /\ nextFile > 0 =>
       (~ failed <=>
          /\ \A name \in DOMAIN manifest : FileListed(name)
          /\ \A k \in DOMAIN files : k < nextFile =>
               files[k].dir \in DOMAIN manifest /\ Conforms(files[k].doc, manifest[files[k].dir]))

\* Before the first file nothing has failed.
LEMMA ToldInit == ComposeInit => ToldSoFar
<1>1. SUFFICES ASSUME ComposeInit PROVE ToldSoFar
  OBVIOUS
<1>2. Len(files) \in Nat BY <1>1, ComposeAssumption DEF ComposeInit
<1>3. nextFile \in 0..(Len(files) + 1) /\ ~ (nextFile > 0) BY <1>1, <1>2 DEF ComposeInit
<1> QED BY <1>1, <1>3 DEF ComposeInit, ToldSoFar

\* The checks before the loop, and one file more.
LEMMA ToldStep == ToldSoFar /\ [ComposeNext]_composeVars => ToldSoFar'
<1>1. SUFFICES ASSUME ToldSoFar, [ComposeNext]_composeVars PROVE ToldSoFar'
  OBVIOUS
<1>2. DOMAIN files = 1..Len(files) /\ Len(files) \in Nat
  BY <1>1, ComposeAssumption DEF ToldSoFar
<1>3. CASE UNCHANGED composeVars
  <2>1. UNCHANGED <<manifest, files, nextFile, failed>> BY <1>3 DEF composeVars
  <2>2. \A name : FileListed(name)' <=> FileListed(name) BY <2>1 DEF FileListed
  <2> QED BY <1>1, <2>1, <2>2 DEF ToldSoFar
<1>4. CASE CheckStacks
  <2>1. /\ nextFile = 0 /\ nextFile' = 1 /\ UNCHANGED <<manifest, files>>
        /\ failed' = \E name \in DOMAIN manifest : ~ FileListed(name)
    BY <1>4 DEF CheckStacks
  <2>2. \A name : FileListed(name)' <=> FileListed(name) BY <2>1 DEF FileListed
  <2>3. \A k \in DOMAIN files : ~ (k < 1) BY <1>2
  <2>4. nextFile' \in 0..(Len(files) + 1) /\ failed' \in BOOLEAN /\ nextFile' # 0 BY <1>2, <2>1
  <2>5. ~ failed' <=> \A name \in DOMAIN manifest : FileListed(name) BY <2>1
  <2> QED BY <1>1, <2>1, <2>2, <2>3, <2>4, <2>5 DEF ToldSoFar
<1>5. CASE CheckNext
  <2> DEFINE file == files[nextFile]
             problem == file.dir \notin DOMAIN manifest \/ CheckFile(file.doc, manifest[file.dir])
             listed == \A name \in DOMAIN manifest : FileListed(name)
             Right(k) == files[k].dir \in DOMAIN manifest /\ Conforms(files[k].doc, manifest[files[k].dir])
  <2>1. /\ nextFile \in DOMAIN files /\ nextFile' = nextFile + 1 /\ UNCHANGED <<manifest, files>>
        /\ failed' = (failed \/ problem)
    BY <1>5 DEF CheckNext, Found
  <2>2. problem <=> ~ Right(nextFile)
    <3>1. CASE file.dir \notin DOMAIN manifest
      BY <3>1
    <3>2. CASE file.dir \in DOMAIN manifest
      <4>1. \A s \in DOMAIN file.doc.services :
              /\ \A x \in file.doc.services[s].ports : IsPort(x)
              /\ \A v \in file.doc.services[s].volumes : IsVolume(v)
        BY <1>1, <2>1, ComposeAssumption DEF ToldSoFar
      <4>2. \A public \in manifest[file.dir].publicPorts : public = <<public[1], public[2]>>
        BY <1>1, <3>2, ComposeAssumption DEF ToldSoFar
      <4>3. CheckFile(file.doc, manifest[file.dir]) <=> ~ Conforms(file.doc, manifest[file.dir])
        <5> HIDE DEF file
        <5> QED BY <4>1, <4>2, FileIsRight
      <4> QED BY <3>2, <4>3
    <3> QED BY <3>1, <3>2
  <2>3. ~ failed <=> listed /\ \A k \in DOMAIN files : k < nextFile => Right(k)
    <3>1. nextFile > 0 BY <1>2, <2>1
    <3> QED BY <1>1, <3>1 DEF ToldSoFar
  <2>4. \A k \in DOMAIN files : k < nextFile + 1 <=> k < nextFile \/ k = nextFile BY <1>2, <2>1
  <2> HIDE DEF Right, problem, listed
  <2>5. (\A k \in DOMAIN files : k < nextFile + 1 => Right(k)) <=>
          (\A k \in DOMAIN files : k < nextFile => Right(k)) /\ Right(nextFile)
    BY <2>1, <2>4
  <2>6. ~ failed' <=> listed /\ \A k \in DOMAIN files : k < nextFile + 1 => Right(k)
    BY <2>1, <2>2, <2>3, <2>5
  <2>7. \A name : FileListed(name)' <=> FileListed(name) BY <2>1 DEF FileListed
  <2>8. nextFile' \in 0..(Len(files) + 1) /\ nextFile' # 0 BY <1>2, <2>1
  <2>9. failed' \in BOOLEAN BY <1>1, <2>1 DEF ToldSoFar, problem
  <2> QED BY <1>1, <2>1, <2>6, <2>7, <2>8, <2>9 DEF ToldSoFar, Right, listed
<1> QED BY <1>1, <1>3, <1>4, <1>5 DEF ComposeNext

\* At the end it has looked at every file.
LEMMA ToldExits == ToldSoFar => ExitTells
<1>1. SUFFICES ASSUME ToldSoFar, Exits PROVE failed <=> ~ AllConform
  BY DEF ExitTells
<1>2. DOMAIN files = 1..Len(files) /\ Len(files) \in Nat
  BY <1>1, ComposeAssumption DEF ToldSoFar
<1>3. nextFile > 0 /\ \A k \in DOMAIN files : k < nextFile BY <1>1, <1>2 DEF Exits
<1> QED BY <1>1, <1>3 DEF ToldSoFar, AllConform

\* `main` exits 0 exactly when the manifest and every compose file conform, for
\* any manifest and any files, in whatever form their ports and volumes are
\* written and whatever paths they mount.
THEOREM ExitIsRight == ComposeSpec => []ExitTells
<1>1. ToldSoFar /\ [ComposeNext]_composeVars => ToldSoFar' BY ToldStep
<1> QED BY ToldInit, <1>1, ToldExits, PTL DEF ComposeSpec
=============================================================================
