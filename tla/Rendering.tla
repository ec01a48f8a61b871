------------------------------- MODULE Rendering -------------------------------
(***************************************************************************)
(* What is sent to the display for a message: its text, padded with spaces *)
(* to the width of the display when it asks for an alignment.  A text is a *)
(* sequence of runes, any values; the display has one module per rune.     *)
(***************************************************************************)
EXTENDS Integers, Sequences, TLAPS

CONSTANTS Rune,  \* what a text is made of
          Space  \* the blank

\* strings.Repeat
Spaces(n) == [i \in 1 .. n |-> Space]

\* An alignment is "center", "right" or "left", for which the code has the empty string.
\* The odd space of a centred text goes to its right.
PadToWidth(text, align, width) ==
  LET rest == width - Len(text)
      left == IF align = "center" THEN rest \div 2 ELSE rest
  IN  IF width > 0 /\ rest > 0 /\ align \in {"center", "right"}
      THEN Spaces(left) \o text \o Spaces(rest - left) ELSE text

\* An empty text clears the display, when its width is known.
PublishPayload(text, align, width) ==
  IF text = <<>> THEN Spaces(width) ELSE PadToWidth(text, align, width)

-----------------------------------------------------------------------------
Larger(m, n) == IF m > n THEN m ELSE n

LEMMA NoSpaces ==
  ASSUME NEW n \in Int, n <= 0 PROVE Spaces(n) = <<>>
BY DEF Spaces

LEMMA Surrounded ==
  ASSUME NEW text \in Seq(Rune), NEW l \in Nat, NEW r \in Nat
  PROVE  LET p == Spaces(l) \o text \o Spaces(r)
         IN /\ Len(p) = l + Len(text) + r
            /\ \A i \in 1 .. Len(text) : p[l + i] = text[i]
            /\ \A i \in 1 .. Len(p) : i \notin l + 1 .. l + Len(text) => p[i] = Space
<1> DEFINE S == Rune \cup {Space}
           a == Spaces(l) \o text
           p == a \o Spaces(r)
<1>1. /\ Spaces(l) \in Seq(S) /\ Len(Spaces(l)) = l
      /\ Spaces(r) \in Seq(S) /\ Len(Spaces(r)) = r
      /\ text \in Seq(S)
  BY DEF Spaces
<1>2. a \in Seq(S) /\ Len(a) = l + Len(text)
  BY <1>1
<1>3. \A i \in 1 .. Len(a) : a[i] = IF i <= l THEN Spaces(l)[i] ELSE text[i - l]
  BY <1>1
<1>4. Len(p) = Len(a) + r
  BY <1>1, <1>2
<1>5. \A i \in 1 .. Len(p) : p[i] = IF i <= Len(a) THEN a[i] ELSE Spaces(r)[i - Len(a)]
  BY <1>1, <1>2
<1>6. /\ \A i \in 1 .. l : Spaces(l)[i] = Space
      /\ \A i \in 1 .. r : Spaces(r)[i] = Space
  BY DEF Spaces
<1>7. \A i \in 1 .. Len(text) : p[l + i] = text[i]
  BY <1>2, <1>3, <1>4, <1>5
<1>8. \A i \in 1 .. Len(p) : i \notin l + 1 .. l + Len(text) => p[i] = Space
  BY <1>2, <1>3, <1>4, <1>5, <1>6
<1> QED
  BY <1>2, <1>4, <1>7, <1>8

LEMMA LargerSum ==
  ASSUME NEW m \in Int, NEW n \in Nat PROVE Larger(m - n, 0) + n = Larger(m, n)
BY DEF Larger

Margin(text, align, width) ==
  IF text = <<>> \/ align \in {"center", "right"} THEN Larger(width - Len(text), 0) ELSE 0
Left(text, align, width) ==
  IF text # <<>> /\ align = "center" THEN Margin(text, align, width) \div 2
  ELSE Margin(text, align, width)
Right(text, align, width) == Margin(text, align, width) - Left(text, align, width)

LEMMA MarginsType ==
  ASSUME NEW text \in Seq(Rune), NEW width \in Int, NEW align
  PROVE  /\ Margin(text, align, width) \in Nat
         /\ Left(text, align, width) \in Nat /\ Right(text, align, width) \in Nat
<1>1. Margin(text, align, width) \in Nat
  BY DEF Margin, Larger
<1> QED
  BY <1>1 DEF Left, Right

\* publishPayload: whatever the configured width, the payload is the text between two
\* margins of spaces.
LEMMA PayloadIsText ==
  ASSUME NEW text \in Seq(Rune), NEW width \in Int, NEW align \in {"left", "center", "right"}
  PROVE  PublishPayload(text, align, width)
           = Spaces(Left(text, align, width)) \o text \o Spaces(Right(text, align, width))
<1> DEFINE rest == width - Len(text)
           m    == Margin(text, align, width)
           l    == Left(text, align, width)
           r    == Right(text, align, width)
<1>1. Spaces(0) = <<>>
  BY NoSpaces
<1>2. /\ text \in Seq(Rune \cup {Space}) /\ Len(text) \in Nat
      /\ \A n \in Nat : Spaces(n) \in Seq(Rune \cup {Space})
  BY DEF Spaces
<1>3. CASE text = <<>>
  <2>1. l = Larger(width, 0) /\ r = 0 /\ l \in Nat
    BY <1>3 DEF Left, Right, Margin, Larger
  <2>2. Spaces(l) = Spaces(width)
    BY <2>1 DEF Spaces, Larger
  <2>3. Spaces(l) \o <<>> \o <<>> = Spaces(l)
    BY <1>2, <2>1
  <2> QED
    BY <1>1, <1>3, <2>1, <2>2, <2>3 DEF PublishPayload
<1>4. CASE text # <<>> /\ width > 0 /\ rest > 0 /\ align = "center"
  <2>1. l = rest \div 2 /\ r = rest - rest \div 2
    BY <1>2, <1>4 DEF Left, Right, Margin, Larger
  <2>2. PublishPayload(text, align, width)
          = Spaces(rest \div 2) \o text \o Spaces(rest - rest \div 2)
    BY <1>4 DEF PublishPayload, PadToWidth
  <2> QED
    BY <2>1, <2>2
<1>5. CASE text # <<>> /\ width > 0 /\ rest > 0 /\ align = "right"
  <2>1. l = rest /\ r = 0
    BY <1>2, <1>5 DEF Left, Right, Margin, Larger
  <2>2. PublishPayload(text, align, width) = Spaces(rest) \o text \o Spaces(rest - rest)
    BY <1>5 DEF PublishPayload, PadToWidth
  <2>3. rest - rest = 0
    BY <1>2
  <2> QED
    BY <2>1, <2>2, <2>3
<1>6. CASE text # <<>> /\ (width <= 0 \/ rest <= 0 \/ align = "left")
  <2>0. rest <= 0 \/ align = "left"
    BY <1>2, <1>6
  <2>1. l = 0 /\ r = 0
    <3>1. m = 0
      <4>1. CASE align = "left"
        BY <1>6, <4>1 DEF Margin
      <4>2. CASE rest <= 0
        <5>1. Larger(rest, 0) = 0
          BY <1>2, <4>2 DEF Larger
        <5> QED
          BY <5>1 DEF Margin
      <4> QED
        BY <2>0, <4>1, <4>2
    <3> QED
      BY <1>6, <3>1 DEF Left, Right
  <2>2. PublishPayload(text, align, width) = text
    <3>1. ~(width > 0 /\ rest > 0 /\ align \in {"center", "right"})
      BY <1>2, <2>0
    <3> QED
      BY <1>6, <3>1 DEF PublishPayload, PadToWidth
  <2>3. <<>> \o text \o <<>> = text
    BY <1>2
  <2> QED
    BY <1>1, <2>1, <2>2, <2>3
<1> QED
  <2>1. width > 0 \/ width <= 0
    OBVIOUS
  <2>2. rest > 0 \/ rest <= 0
    BY <1>2
  <2> QED
    BY <2>1, <2>2, <1>3, <1>4, <1>5, <1>6

\* padToWidth and publishPayload: an aligned text, and an empty one, cover the whole
\* display, so nothing of the text before it stays visible; the text itself is sent
\* unchanged, with nothing but spaces around it, and a text as long as the display or
\* longer is never padded.
THEOREM PayloadCoversDisplay ==
  ASSUME NEW text \in Seq(Rune), NEW width \in Int, NEW align \in {"left", "center", "right"}
  PROVE  LET p == PublishPayload(text, align, width)
             l == Left(text, align, width)
         IN /\ text = <<>> \/ align # "left" => Len(p) = Larger(width, Len(text))
            /\ Len(text) >= width => Len(p) = Len(text)
            /\ \A i \in 1 .. Len(text) : p[l + i] = text[i]
            /\ \A i \in 1 .. Len(p) : i \notin l + 1 .. l + Len(text) => p[i] = Space
<1> DEFINE p == PublishPayload(text, align, width)
           m == Margin(text, align, width)
           l == Left(text, align, width)
           r == Right(text, align, width)
<1>1. /\ m \in Nat /\ l \in Nat /\ r \in Nat /\ p = Spaces(l) \o text \o Spaces(r)
      /\ Len(text) \in Nat
  <2>1. p = Spaces(l) \o text \o Spaces(r)
    BY PayloadIsText, Zenon
  <2>2. m \in Nat /\ l \in Nat /\ r \in Nat
    BY MarginsType, Zenon
  <2> HIDE DEF l, r, p, m
  <2> QED
    BY <2>1, <2>2
<1>2. l + r = m
  BY <1>1 DEF Right
<1>3. /\ Len(p) = l + Len(text) + r
      /\ \A i \in 1 .. Len(text) : p[l + i] = text[i]
      /\ \A i \in 1 .. Len(p) : i \notin l + 1 .. l + Len(text) => p[i] = Space
  <2> HIDE DEF l, r, p
  <2> QED
    BY <1>1, Surrounded
<1>4. text = <<>> \/ align # "left" => m = Larger(width - Len(text), 0)
  BY DEF Margin
<1>5. Len(text) >= width => m = 0
  BY <1>1 DEF Margin, Larger
<1>6. text = <<>> \/ align # "left" => Len(p) = Larger(width, Len(text))
  <2> HIDE DEF l, r, p, m
  <2> QED
    <3> SUFFICES ASSUME m = Larger(width - Len(text), 0)
                 PROVE  Len(p) = Larger(width, Len(text))
      BY <1>4
    <3>1. Len(p) = m + Len(text)
      BY <1>1, <1>2, <1>3
    <3>2. Larger(width - Len(text), 0) + Len(text) = Larger(width, Len(text))
      BY <1>1, LargerSum
    <3> QED
      BY <3>1, <3>2
<1>7. Len(text) >= width => Len(p) = Len(text)
  <2> HIDE DEF l, r, p, m
  <2> QED
    BY <1>1, <1>2, <1>3, <1>5
<1> QED
  BY <1>3, <1>6, <1>7

\* padToWidth: a centred text has as many spaces on its left as on its right, or one less.
THEOREM CentredToTheLeft ==
  ASSUME NEW text \in Seq(Rune), text # <<>>, NEW width \in Int
  PROVE  Right(text, "center", width) - Left(text, "center", width) \in {0, 1}
<1> DEFINE m == Margin(text, "center", width)
<1>1. m \in Nat
  BY MarginsType
<1>2. (m - m \div 2) - m \div 2 \in {0, 1}
  BY <1>1
<1> QED
  BY <1>2 DEF Left, Right
=============================================================================
