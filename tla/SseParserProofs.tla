--------------------------- MODULE SseParserProofs ---------------------------
(***************************************************************************)
(* For every body and every way to split it, the parser's events are those *)
(* of the whole.                                                           *)
(***************************************************************************)
EXTENDS SseParser, WellFoundedInduction, TLAPS

Text == Seq(Characters)
Length == Len(data_field)

\* How a parser looks that has read the characters of line, none of them an end,
\* when data is what the lines before have left.
MatchesName(line, n) == \A i \in 1..n : line[i] = data_field[i]
HasRead(p, line, data) ==
    \/ /\ p.state = "field" /\ p.matched = Len(line) /\ Len(line) < Length
       /\ MatchesName(line, Len(line))
       /\ p.data = data
    \/ /\ p.state = "value_start" /\ Len(line) = Length
       /\ MatchesName(line, Length)
       /\ p.data = Opened(data)
    \/ /\ p.state = "value" /\ Len(line) > Length
       /\ MatchesName(line, Length)
       /\ p.data = Opened(data) \o Skip(SubSeq(line, Length + 1, Len(line)), space)
    \/ /\ p.state = "ignored"
       /\ \E i \in 1..Len(line) : i <= Length /\ line[i] # data_field[i]
       /\ p.data = data

Parser == [state |-> state_, matched |-> matched_, data |-> data_]

TypeOK ==
    /\ data_ \in Text /\ rest \in Text /\ body \in Text
    /\ after_cr_ \in BOOLEAN

\* What has been parsed is the body but for the rest of its last piece.
Done == Len(body) - Len(rest)
RestLeft ==
    /\ Done >= 0
    /\ \A i \in 1..Len(rest) : rest[i] = body[Done + i]

\* A CR ends a line at once, and the LF after it is skipped, in this piece or the next.
CRLFSkipped ==
    LET afterCR == Done > 0 /\ body[Done] = cr
    IN /\ rest = <<>> => (after_cr_ <=> afterCR)
       /\ rest # <<>> => ~after_cr_ /\ ~(afterCR /\ rest[1] = lf)

LineSoFar ==
    LET parsed == ParsedTo(body)[Done]
    IN /\ events = parsed.events
       /\ HasRead(Parser, LineUpTo(body, Done), parsed.data)

IInv == TypeOK /\ RestLeft /\ CRLFSkipped /\ LineSoFar

-----------------------------------------------------------------------------
(* Induction, as the provers can use it: on a set and not on a predicate.  *)

LEMMA Least ==
    ASSUME NEW S \in SUBSET Nat, S # {}
    PROVE  \E n \in S : \A m \in S : n <= m
<1>1. PICK n \in S : \A m \in S : <<m, n>> \notin OpToRel(<, Nat)
    BY WFMin, NatLessThanWellFounded, Zenon
<1>2. \A m \in S : ~(m < n)
    BY <1>1 DEF OpToRel
<1>. QED
    BY <1>2

LEMMA Induction ==
    ASSUME NEW S, 0 \in S, \A n \in Nat : n \in S => n + 1 \in S
    PROVE  Nat \subseteq S
<1>. SUFFICES ASSUME Nat \ S # {} PROVE FALSE
    OBVIOUS
<1>1. PICK n \in Nat \ S : \A m \in Nat \ S : n <= m
    BY Least
<1>2. n - 1 \in Nat /\ n - 1 \notin Nat \ S
    BY <1>1
<1>. QED
    BY <1>2

LEMMA SameText ==
    ASSUME NEW s \in Text, NEW t \in Text, Len(s) = Len(t), \A i \in 1..Len(s) : s[i] = t[i]
    PROVE  s = t
    BY DEF Text

-----------------------------------------------------------------------------
(* The events of a whole body.                                             *)

Nothing == [data |-> <<>>, events |-> <<>>]
After(parsed, b, i) ==
    IF i = 0 THEN Nothing
    ELSE IF IsEnd(b, i) THEN AddLine(parsed[i - 1], LineUpTo(b, i - 1))
    ELSE parsed[i - 1]
Obeys(parsed, b, n) == parsed = [i \in 0..n |-> After(parsed, b, i)]

\* The recursive definition of ParsedTo defines something.
LEMMA Parses == ASSUME NEW b, NEW n \in Nat PROVE \E parsed : Obeys(parsed, b, n)
<1> DEFINE S == {k \in Nat : \E parsed : Obeys(parsed, b, k)}
<1>1. 0 \in S
    <2>1. Obeys([i \in 0..0 |-> Nothing], b, 0)
        BY DEF Obeys, After
    <2>. QED
        BY <2>1
<1>2. ASSUME NEW k \in Nat, k \in S PROVE k + 1 \in S
    <2>1. PICK parsed : Obeys(parsed, b, k)
        BY <1>2
    <2> DEFINE longer == [i \in 0..(k + 1) |-> After(parsed, b, i)]
    <2>2. ASSUME NEW i \in 0..(k + 1) PROVE longer[i] = After(longer, b, i)
        <3>1. CASE i = 0
            BY <3>1 DEF After
        <3>2. CASE i # 0
            <4>1. i - 1 \in 0..k /\ i - 1 \in 0..(k + 1)
                BY <3>2
            <4>2. parsed[i - 1] = After(parsed, b, i - 1)
                BY <2>1, <4>1 DEF Obeys
            <4>3. longer[i - 1] = parsed[i - 1]
                BY <4>1, <4>2
            <4>. QED
                BY <3>2, <4>3 DEF After
        <3>. QED
            BY <3>1, <3>2
    <2>3. longer = [i \in 0..(k + 1) |-> After(longer, b, i)]
        BY <2>2, Zenon
    <2>4. Obeys(longer, b, k + 1)
        BY <2>3 DEF Obeys
    <2>. QED
        BY <2>4
<1>. HIDE DEF S
<1>3. n \in S
    BY <1>1, <1>2, Induction
<1>. QED
    BY <1>3 DEF S

LEMMA ParsedToUnfolds ==
    ASSUME NEW b \in Text
    PROVE  /\ ParsedTo(b)[0] = Nothing
           /\ \A i \in 1..Len(b) :
                ParsedTo(b)[i] = IF IsEnd(b, i) THEN AddLine(ParsedTo(b)[i - 1], LineUpTo(b, i - 1))
                                 ELSE ParsedTo(b)[i - 1]
<1>1. Len(b) \in Nat
    BY DEF Text
<1>2. ParsedTo(b) = CHOOSE parsed : Obeys(parsed, b, Len(b))
    BY DEF ParsedTo, Obeys, After, Nothing
<1>3. Obeys(ParsedTo(b), b, Len(b))
    BY <1>1, <1>2, Parses
<1>4. \A i \in 0..Len(b) : ParsedTo(b)[i] = After(ParsedTo(b), b, i)
    BY <1>3, Zenon DEF Obeys
<1>. QED
    BY <1>1, <1>4 DEF After

\* The line that n belongs to, by where it starts.
StartsAt(b, n, s) ==
    /\ s \in 1..(n + 1)
    /\ s = 1 \/ b[s - 1] \in Ends
    /\ \A i \in s..n : b[i] \notin Ends

LEMMA LineStarts == ASSUME NEW b \in Text, NEW n \in 0..Len(b) PROVE \E s : StartsAt(b, n, s)
<1> DEFINE S == {k \in Nat : k <= Len(b) => \E s : StartsAt(b, k, s)}
<1>0. Len(b) \in Nat /\ n \in Nat
    BY DEF Text
<1>1. 0 \in S
    <2>1. StartsAt(b, 0, 1)
        BY DEF StartsAt
    <2>. QED
        BY <2>1
<1>2. ASSUME NEW k \in Nat, k \in S PROVE k + 1 \in S
    <2>. SUFFICES ASSUME k + 1 <= Len(b) PROVE \E s : StartsAt(b, k + 1, s)
        OBVIOUS
    <2>1. PICK s : StartsAt(b, k, s)
        BY <1>0, <1>2
    <2>2. CASE b[k + 1] \in Ends
        <3>1. StartsAt(b, k + 1, k + 2)
            BY <2>2 DEF StartsAt
        <3>. QED
            BY <3>1
    <2>3. CASE b[k + 1] \notin Ends
        <3>1. \A i \in s..(k + 1) : i \in s..k \/ i = k + 1
            BY <2>1 DEF StartsAt
        <3>2. StartsAt(b, k + 1, s)
            BY <2>1, <2>3, <3>1 DEF StartsAt
        <3>. QED
            BY <3>2
    <2>. QED
        BY <2>2, <2>3
<1>. HIDE DEF S
<1>3. n \in S
    BY <1>0, <1>1, <1>2, Induction
<1>. QED
    BY <1>0, <1>3 DEF S

LEMMA LineUpToIs ==
    ASSUME NEW b \in Text, NEW n \in 0..Len(b), NEW s, StartsAt(b, n, s)
    PROVE  LineUpTo(b, n) = SubSeq(b, s, n)
<1>0. Len(b) \in Nat
    BY DEF Text
<1>1. ASSUME NEW t, StartsAt(b, n, t) PROVE t = s
    BY <1>0, <1>1 DEF StartsAt
<1>2. LineUpTo(b, n) = LET start == CHOOSE t \in 1..(n + 1) :
                            (t = 1 \/ b[t - 1] \in Ends) /\ \A i \in t..n : b[i] \notin Ends
                       IN SubSeq(b, start, n)
    BY DEF LineUpTo
<1>3. s = CHOOSE t \in 1..(n + 1) : (t = 1 \/ b[t - 1] \in Ends) /\ \A i \in t..n : b[i] \notin Ends
    BY <1>1 DEF StartsAt
<1>. QED
    BY <1>2, <1>3

LEMMA LineTyped == ASSUME NEW b \in Text, NEW n \in 0..Len(b) PROVE LineUpTo(b, n) \in Text
<1>1. PICK s : StartsAt(b, n, s)
    BY LineStarts
<1>2. LineUpTo(b, n) = SubSeq(b, s, n)
    BY <1>1, LineUpToIs
<1>3. SubSeq(b, s, n) \in Text
    BY <1>1 DEF StartsAt, Text
<1>. QED
    BY <1>2, <1>3

\* What a line adds is text.
LEMMA AddLineTyped ==
    ASSUME NEW p \in [data : Text, events : Seq(Text)], NEW line \in Text
    PROVE  AddLine(p, line) \in [data : Text, events : Seq(Text)]
<1> DEFINE after == SubSeq(line, Length + 1, Len(line))
           value == Skip(after, space)
<1>1. value \in Text
    <2>1. after \in Text
        BY CharactersAssumption DEF Length, Text
    <2>2. CASE after = <<>>
        BY <2>1, <2>2 DEF Skip
    <2>3. CASE after # <<>>
        BY <2>1, <2>3 DEF Skip, Text
    <2>. QED
        BY <2>2, <2>3
<1>2. Opened(p.data) \in Text
    BY CharactersAssumption DEF Opened, Text
<1>3. Opened(p.data) \o value \in Text
    BY <1>1, <1>2 DEF Text
<1>4. <<>> \in Text /\ Append(p.events, p.data) \in Seq(Text)
    BY DEF Text
<1>5. AddLine(p, line) \in {[data |-> <<>>, events |-> Append(p.events, p.data)],
                            [p EXCEPT !.data = Opened(p.data) \o value], p}
    BY DEF AddLine, Length
<1>6. [data |-> <<>>, events |-> Append(p.events, p.data)] \in [data : Text, events : Seq(Text)]
    BY <1>4
<1>7. [p EXCEPT !.data = Opened(p.data) \o value] \in [data : Text, events : Seq(Text)]
    BY <1>3
<1>. QED
    BY <1>5, <1>6, <1>7

LEMMA ParsedTyped ==
    ASSUME NEW b \in Text, NEW n \in 0..Len(b)
    PROVE  ParsedTo(b)[n] \in [data : Text, events : Seq(Text)]
<1> DEFINE S == {k \in Nat : k <= Len(b) => ParsedTo(b)[k] \in [data : Text, events : Seq(Text)]}
<1>0. Len(b) \in Nat
    BY DEF Text
<1>1. 0 \in S
    <2>1. <<>> \in Text /\ <<>> \in Seq(Text)
        BY DEF Text
    <2>2. Nothing \in [data : Text, events : Seq(Text)]
        BY <2>1 DEF Nothing
    <2>. QED
        BY <2>2, ParsedToUnfolds
<1>2. ASSUME NEW k \in Nat, k \in S PROVE k + 1 \in S
    <2>. SUFFICES ASSUME k + 1 <= Len(b) PROVE ParsedTo(b)[k + 1] \in [data : Text, events : Seq(Text)]
        OBVIOUS
    <2>1. ParsedTo(b)[k] \in [data : Text, events : Seq(Text)]
        BY <1>0, <1>2
    <2>2. LineUpTo(b, k) \in Text
        BY <1>0, LineTyped
    <2>3. ParsedTo(b)[k + 1] = IF IsEnd(b, k + 1) THEN AddLine(ParsedTo(b)[k], LineUpTo(b, k)) ELSE ParsedTo(b)[k]
        BY <1>0, ParsedToUnfolds
    <2>. QED
        BY <2>1, <2>2, <2>3, AddLineTyped
<1>. HIDE DEF S
<1>3. n \in S
    BY <1>0, <1>1, <1>2, Induction
<1>. QED
    BY <1>0, <1>3 DEF S

\* What has been received already does not change its meaning with what follows.
LEMMA Extended ==
    ASSUME NEW b \in Text, NEW t \in Text
    PROVE  /\ b \o t \in Text /\ Len(b \o t) = Len(b) + Len(t)
           /\ \A i \in 1..Len(b) : (b \o t)[i] = b[i]
           /\ \A i \in 1..Len(t) : (b \o t)[Len(b) + i] = t[i]
    BY DEF Text

LEMMA LineExtended ==
    ASSUME NEW b \in Text, NEW t \in Text, NEW n \in 0..Len(b)
    PROVE  LineUpTo(b \o t, n) = LineUpTo(b, n)
<1> DEFINE c == b \o t
<1>0. Len(b) \in Nat /\ Len(t) \in Nat /\ c \in Text /\ Len(c) = Len(b) + Len(t)
      /\ \A i \in 1..Len(b) : c[i] = b[i]
    BY Extended DEF Text
<1>. HIDE DEF c
<1>1. PICK s : StartsAt(b, n, s)
    BY LineStarts
<1>2. StartsAt(c, n, s)
    BY <1>0, <1>1 DEF StartsAt
<1>3. LineUpTo(b, n) = SubSeq(b, s, n) /\ LineUpTo(c, n) = SubSeq(c, s, n)
    BY <1>0, <1>1, <1>2, LineUpToIs
<1>4. SubSeq(b, s, n) = SubSeq(c, s, n)
    <2>1. SubSeq(b, s, n) \in Text /\ SubSeq(c, s, n) \in Text
        BY <1>0, <1>1 DEF StartsAt, Text
    <2>2. Len(SubSeq(b, s, n)) = n - s + 1 /\ Len(SubSeq(c, s, n)) = n - s + 1
        BY <1>0, <1>1 DEF StartsAt, Text
    <2>3. \A i \in 1..(n - s + 1) : SubSeq(b, s, n)[i] = b[s + i - 1] /\ SubSeq(c, s, n)[i] = c[s + i - 1]
        BY <1>0, <1>1 DEF StartsAt, Text
    <2>4. \A i \in 1..(n - s + 1) : s + i - 1 \in 1..Len(b)
        BY <1>0, <1>1 DEF StartsAt
    <2>. QED
        BY <1>0, <2>1, <2>2, <2>3, <2>4, SameText
<1>. QED
    BY <1>3, <1>4 DEF c

LEMMA ParsedExtended ==
    ASSUME NEW b \in Text, NEW t \in Text, NEW n \in 0..Len(b)
    PROVE  ParsedTo(b \o t)[n] = ParsedTo(b)[n]
<1> DEFINE c == b \o t
           S == {k \in Nat : k <= Len(b) => ParsedTo(c)[k] = ParsedTo(b)[k]}
<1>0. Len(b) \in Nat /\ Len(t) \in Nat /\ c \in Text /\ Len(c) = Len(b) + Len(t)
      /\ (\A i \in 1..Len(b) : c[i] = b[i])
      /\ \A k \in 0..Len(b) : LineUpTo(c, k) = LineUpTo(b, k)
    BY Extended, LineExtended DEF Text
<1>. HIDE DEF c
<1>1. 0 \in S
    BY <1>0, ParsedToUnfolds
<1>2. ASSUME NEW k \in Nat, k \in S PROVE k + 1 \in S
    <2>. SUFFICES ASSUME k + 1 <= Len(b) PROVE ParsedTo(c)[k + 1] = ParsedTo(b)[k + 1]
        OBVIOUS
    <2>1. ParsedTo(c)[k] = ParsedTo(b)[k]
        BY <1>0, <1>2
    <2>2. IsEnd(c, k + 1) <=> IsEnd(b, k + 1)
        BY <1>0 DEF IsEnd
    <2>3. /\ ParsedTo(b)[k + 1] = IF IsEnd(b, k + 1) THEN AddLine(ParsedTo(b)[k], LineUpTo(b, k)) ELSE ParsedTo(b)[k]
          /\ ParsedTo(c)[k + 1] = IF IsEnd(c, k + 1) THEN AddLine(ParsedTo(c)[k], LineUpTo(c, k)) ELSE ParsedTo(c)[k]
        BY <1>0, ParsedToUnfolds
    <2>. QED
        BY <1>0, <2>1, <2>2, <2>3
<1>. HIDE DEF S
<1>3. n \in S
    BY <1>0, <1>1, <1>2, Induction
<1>. QED
    BY <1>0, <1>3 DEF S, c

\* Two parts of a text that lie next to each other.
LEMMA Adjacent ==
    ASSUME NEW b \in Text, NEW m \in 0..Len(b), NEW n \in m..Len(b), NEW s \in 1..(m + 1)
    PROVE  SubSeq(b, s, n) = SubSeq(b, s, m) \o SubSeq(b, m + 1, n)
<1> DEFINE l == SubSeq(b, s, m)
           r == SubSeq(b, m + 1, n)
           w == SubSeq(b, s, n)
<1>0. s \in Nat /\ m \in Nat /\ n \in Nat /\ Len(b) \in Nat /\ s >= 1 /\ s <= m + 1 /\ m <= n /\ n <= Len(b)
    BY DEF Text
<1>1. /\ l \in Text /\ Len(l) = m - s + 1 /\ \A i \in 1..(m - s + 1) : l[i] = b[s + i - 1]
      /\ r \in Text /\ Len(r) = n - m /\ \A i \in 1..(n - m) : r[i] = b[m + i]
      /\ w \in Text /\ Len(w) = n - s + 1 /\ \A i \in 1..(n - s + 1) : w[i] = b[s + i - 1]
    BY <1>0 DEF Text
<1>. HIDE DEF l, r, w
<1>2. /\ l \o r \in Text /\ Len(l \o r) = Len(l) + Len(r)
      /\ \A i \in 1..Len(l) : (l \o r)[i] = l[i]
      /\ \A i \in 1..Len(r) : (l \o r)[Len(l) + i] = r[i]
    BY <1>1, Extended
<1>3. Len(l \o r) = n - s + 1
    BY <1>0, <1>1, <1>2
<1>4. ASSUME NEW i \in 1..(n - s + 1) PROVE (l \o r)[i] = w[i]
    <2>1. CASE i <= m - s + 1
        BY <1>0, <1>1, <1>2, <2>1
    <2>2. CASE i > m - s + 1
        <3> DEFINE j == i - (m - s + 1)
        <3>1. j \in 1..(n - m) /\ i = Len(l) + j /\ s + i - 1 = m + j
            BY <1>0, <1>1, <2>2
        <3>. HIDE DEF j
        <3>2. (l \o r)[Len(l) + j] = r[j]
            BY <1>1, <1>2, <3>1
        <3>3. r[j] = b[m + j] /\ w[i] = b[s + i - 1]
            BY <1>1, <3>1
        <3>. QED
            BY <3>1, <3>2, <3>3
    <2>3. i <= m - s + 1 \/ i > m - s + 1
        BY <1>0
    <2>. QED
        BY <2>1, <2>2, <2>3, Zenon
<1>. QED
    BY <1>1, <1>2, <1>3, <1>4, SameText DEF l, r, w

\* Characters that end no line only lengthen the one they are in.
LEMMA NoLineEnds ==
    ASSUME NEW b \in Text, NEW m \in 0..Len(b), NEW n \in m..Len(b), \A i \in (m + 1)..n : b[i] \notin Ends
    PROVE  /\ ParsedTo(b)[n] = ParsedTo(b)[m]
           /\ LineUpTo(b, n) = LineUpTo(b, m) \o SubSeq(b, m + 1, n)
<1> DEFINE S == {k \in Nat : k <= n - m => ParsedTo(b)[m + k] = ParsedTo(b)[m]}
<1>0. Len(b) \in Nat /\ m \in Nat /\ n \in Nat /\ m <= n /\ n <= Len(b)
    BY DEF Text
<1>1. 0 \in S
    BY <1>0
<1>2. ASSUME NEW k \in Nat, k \in S PROVE k + 1 \in S
    <2>. SUFFICES ASSUME k + 1 <= n - m PROVE ParsedTo(b)[m + k + 1] = ParsedTo(b)[m]
        BY <1>0
    <2>1. ParsedTo(b)[m + k] = ParsedTo(b)[m]
        BY <1>0, <1>2
    <2>2. m + k + 1 \in (m + 1)..n /\ m + k + 1 \in 1..Len(b)
        BY <1>0
    <2>3. ~IsEnd(b, m + k + 1)
        BY <2>2 DEF IsEnd, Ends
    <2>4. ParsedTo(b)[m + k + 1] = ParsedTo(b)[(m + k + 1) - 1]
        BY <2>2, <2>3, ParsedToUnfolds
    <2>. QED
        BY <1>0, <2>1, <2>4
<1>. HIDE DEF S
<1>3. n - m \in S
    BY <1>0, <1>1, <1>2, Induction
<1>4. ParsedTo(b)[n] = ParsedTo(b)[m]
    BY <1>0, <1>3 DEF S
<1>5. PICK s : StartsAt(b, m, s)
    BY LineStarts
<1>6. StartsAt(b, n, s)
    BY <1>0, <1>5 DEF StartsAt
<1>7. LineUpTo(b, m) = SubSeq(b, s, m) /\ LineUpTo(b, n) = SubSeq(b, s, n)
    BY <1>0, <1>5, <1>6, LineUpToIs
<1>8. SubSeq(b, s, n) = SubSeq(b, s, m) \o SubSeq(b, m + 1, n)
    BY <1>0, <1>5, Adjacent DEF StartsAt
<1>. QED
    BY <1>4, <1>7, <1>8

-----------------------------------------------------------------------------
(* One line.                                                               *)

LEMMA OpenedTyped == ASSUME NEW data \in Text PROVE Opened(data) \in Text
    BY CharactersAssumption DEF Opened, Text

LEMMA SkipTyped == ASSUME NEW s \in Text, NEW c PROVE Skip(s, c) \in Text
<1>1. CASE s = <<>>
    BY <1>1 DEF Skip
<1>2. CASE s # <<>>
    <2>1. Tail(s) \in Text
        BY <1>2 DEF Text
    <2>. QED
        BY <2>1 DEF Skip
<1>. QED
    BY <1>1, <1>2

\* A part of the text that begins a longer one, and one that continues it.
LEMMA Cut ==
    ASSUME NEW s \in Text, NEW m \in 0..Len(s), NEW n \in m..Len(s)
    PROVE  /\ SubSeq(s, m + 1, n) \in Text
           /\ Len(SubSeq(s, m + 1, n)) = n - m
           /\ \A i \in 1..(n - m) : SubSeq(s, m + 1, n)[i] = s[m + i]
    BY DEF Text

\* The end of a longer text is the end of what was added.
LEMMA CutExtended ==
    ASSUME NEW s \in Text, NEW t \in Text, NEW m \in Len(s)..(Len(s) + Len(t))
    PROVE  SubSeq(s \o t, m + 1, Len(s \o t)) = SubSeq(t, m - Len(s) + 1, Len(t))
<1> DEFINE c == s \o t
<1>0. /\ Len(s) \in Nat /\ Len(t) \in Nat /\ c \in Text /\ Len(c) = Len(s) + Len(t)
      /\ \A i \in 1..Len(t) : c[Len(s) + i] = t[i]
    BY Extended DEF Text
<1>. HIDE DEF c
<1> DEFINE k == m - Len(s)
           l == SubSeq(c, m + 1, Len(c))
           r == SubSeq(t, k + 1, Len(t))
<1>1. m \in 0..Len(c) /\ Len(c) \in m..Len(c) /\ k \in 0..Len(t) /\ Len(t) \in k..Len(t)
    BY <1>0
<1>2. /\ l \in Text /\ Len(l) = Len(c) - m
      /\ \A i \in 1..(Len(c) - m) : l[i] = c[m + i]
    BY <1>0, <1>1, Cut
<1>3. /\ r \in Text /\ Len(r) = Len(t) - k
      /\ \A i \in 1..(Len(t) - k) : r[i] = t[k + i]
    BY <1>0, <1>1, Cut
<1>4. Len(l) = Len(r)
    BY <1>0, <1>2, <1>3
<1>5. ASSUME NEW i \in 1..Len(l) PROVE l[i] = r[i]
    <2>1. k + i \in 1..Len(t) /\ m + i = Len(s) + (k + i) /\ i \in 1..(Len(c) - m) /\ i \in 1..(Len(t) - k)
        BY <1>0, <1>1, <1>2
    <2>2. c[m + i] = t[k + i]
        BY <1>0, <2>1
    <2>. QED
        BY <1>2, <1>3, <2>1, <2>2
<1>6. l = r
    BY <1>2, <1>3, <1>4, <1>5, SameText
<1>. QED
    BY <1>6 DEF l, r, c, k

LEMMA SkipExtended ==
    ASSUME NEW s \in Text, NEW t \in Text, NEW c, s # <<>>
    PROVE  Skip(s \o t, c) = Skip(s, c) \o t
<1>0. Len(s) \in Nat \ {0} /\ Len(t) \in Nat
    BY DEF Text
<1>1. s \o t # <<>> /\ Head(s \o t) = Head(s)
    BY <1>0 DEF Text
<1>2. Tail(s \o t) = Tail(s) \o t
    <2>1. /\ s \o t \in Text /\ Len(s \o t) = Len(s) + Len(t)
          /\ \A i \in 1..Len(s) : (s \o t)[i] = s[i]
          /\ \A i \in 1..Len(t) : (s \o t)[Len(s) + i] = t[i]
        BY Extended
    <2>2. /\ Tail(s) \in Text /\ Len(Tail(s)) = Len(s) - 1
          /\ \A i \in 1..(Len(s) - 1) : Tail(s)[i] = s[i + 1]
        BY <1>0 DEF Text
    <2>3. /\ Tail(s \o t) \in Text /\ Len(Tail(s \o t)) = Len(s \o t) - 1
          /\ \A i \in 1..(Len(s \o t) - 1) : Tail(s \o t)[i] = (s \o t)[i + 1]
        BY <1>1, <2>1 DEF Text
    <2>4. /\ Tail(s) \o t \in Text /\ Len(Tail(s) \o t) = Len(Tail(s)) + Len(t)
          /\ \A i \in 1..Len(Tail(s)) : (Tail(s) \o t)[i] = Tail(s)[i]
          /\ \A i \in 1..Len(t) : (Tail(s) \o t)[Len(Tail(s)) + i] = t[i]
        BY <2>2, Extended
    <2>5. Len(Tail(s \o t)) = Len(Tail(s) \o t)
        BY <1>0, <2>1, <2>2, <2>3, <2>4
    <2>6. ASSUME NEW i \in 1..Len(Tail(s \o t)) PROVE Tail(s \o t)[i] = (Tail(s) \o t)[i]
        <3>1. Tail(s \o t)[i] = (s \o t)[i + 1]
            BY <1>0, <2>1, <2>3
        <3>2. CASE i <= Len(s) - 1
            BY <1>0, <2>1, <2>2, <2>4, <3>1, <3>2
        <3>3. CASE i > Len(s) - 1
            <4>1. i - (Len(s) - 1) \in 1..Len(t)
                BY <1>0, <2>1, <2>3, <3>3
            <4>2. (s \o t)[Len(s) + (i - (Len(s) - 1))] = t[i - (Len(s) - 1)]
                BY <2>1, <4>1
            <4>3. (Tail(s) \o t)[Len(Tail(s)) + (i - (Len(s) - 1))] = t[i - (Len(s) - 1)]
                BY <2>4, <4>1
            <4>4. Len(s) + (i - (Len(s) - 1)) = i + 1 /\ Len(Tail(s)) + (i - (Len(s) - 1)) = i
                BY <1>0, <2>2
            <4>. QED
                BY <3>1, <4>2, <4>3, <4>4
        <3>. QED
            BY <1>0, <3>2, <3>3
    <2>. QED
        BY <2>3, <2>4, <2>5, <2>6, SameText
<1>. QED
    BY <1>1, <1>2 DEF Skip

LEMMA Joined ==
    ASSUME NEW r \in Text, NEW s \in Text, NEW t \in Text
    PROVE  r \o (s \o t) = (r \o s) \o t
    BY DEF Text

LEMMA CutBefore ==
    ASSUME NEW s \in Text, NEW t \in Text, NEW m \in 0..Len(s)
    PROVE  SubSeq(s \o t, m + 1, Len(s \o t)) = SubSeq(s, m + 1, Len(s)) \o t
<1> DEFINE c == s \o t
           l == SubSeq(c, m + 1, Len(c))
           r == SubSeq(s, m + 1, Len(s))
<1>0. /\ Len(s) \in Nat /\ Len(t) \in Nat /\ c \in Text /\ Len(c) = Len(s) + Len(t)
      /\ \A i \in 1..Len(s) : c[i] = s[i]
      /\ \A i \in 1..Len(t) : c[Len(s) + i] = t[i]
    BY Extended DEF Text
<1>. HIDE DEF c
<1>1. /\ l \in Text /\ Len(l) = Len(c) - m
      /\ \A i \in 1..(Len(c) - m) : l[i] = c[m + i]
    BY <1>0, Cut
<1>2. /\ r \in Text /\ Len(r) = Len(s) - m
      /\ \A i \in 1..(Len(s) - m) : r[i] = s[m + i]
    BY <1>0, Cut
<1>. HIDE DEF l, r
<1>3. /\ r \o t \in Text /\ Len(r \o t) = Len(r) + Len(t)
      /\ \A i \in 1..Len(r) : (r \o t)[i] = r[i]
      /\ \A i \in 1..Len(t) : (r \o t)[Len(r) + i] = t[i]
    BY <1>2, Extended
<1>4. Len(l) = Len(r \o t)
    BY <1>0, <1>1, <1>2, <1>3
<1>5. ASSUME NEW i \in 1..Len(l) PROVE l[i] = (r \o t)[i]
    <2>1. l[i] = c[m + i]
        BY <1>1
    <2>2. CASE i <= Len(r)
        <3>1. m + i \in 1..Len(s) /\ i \in 1..Len(r)
            BY <1>0, <1>2, <2>2
        <3>. QED
            BY <1>0, <1>2, <1>3, <2>1, <3>1
    <2>3. CASE i > Len(r)
        <3> DEFINE j == i - Len(r)
        <3>1. j \in 1..Len(t) /\ i = Len(r) + j /\ m + i = Len(s) + j
            BY <1>0, <1>1, <1>2, <2>3
        <3>. HIDE DEF j
        <3>2. (r \o t)[Len(r) + j] = t[j] /\ c[Len(s) + j] = t[j]
            BY <1>0, <1>3, <3>1
        <3>. QED
            BY <2>1, <3>1, <3>2
    <2>4. i <= Len(r) \/ i > Len(r)
        BY <1>0, <1>2
    <2>. QED
        BY <2>2, <2>3, <2>4, Zenon
<1>6. l = r \o t
    BY <1>1, <1>3, <1>4, <1>5, SameText
<1>. QED
    BY <1>6 DEF l, r, c

LEMMA PrefixIs ==
    ASSUME NEW s \in Text, NEW t \in Text
    PROVE  IsPrefix(s, t) <=> Len(s) <= Len(t) /\ \A i \in 1..Len(s) : s[i] = t[i]
<1>0. Len(s) \in Nat /\ Len(t) \in Nat
    BY DEF Text
<1>1. CASE Len(s) <= Len(t)
    <2>1. /\ SubSeq(s, 0 + 1, Len(s)) \in Text /\ Len(SubSeq(s, 0 + 1, Len(s))) = Len(s) - 0
          /\ \A i \in 1..(Len(s) - 0) : SubSeq(s, 0 + 1, Len(s))[i] = s[0 + i]
        BY <1>0, Cut
    <2>2. /\ SubSeq(t, 0 + 1, Len(s)) \in Text /\ Len(SubSeq(t, 0 + 1, Len(s))) = Len(s) - 0
          /\ \A i \in 1..(Len(s) - 0) : SubSeq(t, 0 + 1, Len(s))[i] = t[0 + i]
        BY <1>0, <1>1, Cut
    <2> DEFINE l == SubSeq(s, 1, Len(s))
               r == SubSeq(t, 1, Len(s))
    <2>3. /\ l \in Text /\ Len(l) = Len(s) /\ \A i \in 1..Len(s) : l[i] = s[i]
          /\ r \in Text /\ Len(r) = Len(s) /\ \A i \in 1..Len(s) : r[i] = t[i]
        BY <1>0, <2>1, <2>2
    <2>4. IsPrefix(s, t) <=> l = r
        BY <1>1 DEF IsPrefix
    <2>. HIDE DEF l, r
    <2>5. l = r <=> \A i \in 1..Len(s) : s[i] = t[i]
        BY <2>3, SameText
    <2>. QED
        BY <1>1, <2>4, <2>5
<1>2. CASE ~(Len(s) <= Len(t))
    BY <1>2 DEF IsPrefix
<1>. QED
    BY <1>1, <1>2

\* Empty text, and the whole of a text.
LEMMA Whole == ASSUME NEW s \in Text PROVE /\ s = <<>> <=> Len(s) = 0
                                          /\ SubSeq(s, 1, Len(s)) = s
                                          /\ s \o <<>> = s /\ <<>> \in Text /\ Len(<<>>) = 0
<1>1. s = <<>> <=> Len(s) = 0
    BY DEF Text
<1>2. SubSeq(s, 1, Len(s)) = s
    BY Cut, SameText DEF Text
<1>. QED
    BY <1>1, <1>2 DEF Text

LEMMA ValueRead ==
    ASSUME NEW line \in Text, NEW data \in Text, NEW content \in Text, Len(line) = Length,
           MatchesName(line, Length)
    PROVE  HasRead(Value(Opened(data), content), line \o content, data)
<1>a. Len(line) \in Nat /\ Len(content) \in Nat
    BY DEF Text
<1>b. /\ line \o content \in Text /\ Len(line \o content) = Len(line) + Len(content)
      /\ \A i \in 1..Len(line) : (line \o content)[i] = line[i]
    BY Extended
<1>0. /\ Len(line) \in Nat /\ Len(content) \in Nat
      /\ line \o content \in Text /\ Len(line \o content) = Len(line) + Len(content)
      /\ \A i \in 1..Len(line) : (line \o content)[i] = line[i]
    BY <1>a, <1>b
<1>1. MatchesName(line \o content, Length)
    BY <1>0 DEF MatchesName
<1>2. CASE content = <<>>
    <2>1. Len(line \o content) = Length
        BY <1>0, <1>2, Whole
    <2>. QED
        BY <1>1, <1>2, <2>1 DEF HasRead, Value
<1>3. CASE content # <<>>
    <2>1. Len(line \o content) > Length
        BY <1>0, <1>3, Whole
    <2>2. SubSeq(line \o content, Len(line) + 1, Len(line \o content)) = SubSeq(content, Len(line) - Len(line) + 1, Len(content))
        BY <1>0, CutExtended
    <2>3. Len(line) - Len(line) + 1 = 1
        BY <1>0
    <2>4. SubSeq(line \o content, Length + 1, Len(line \o content)) = content
        BY <2>2, <2>3, Whole, Zenon
    <2>. QED
        BY <1>1, <1>3, <2>1, <2>4 DEF HasRead, Value
<1>. QED
    BY <1>2, <1>3

\* Whatever part of a line comes next, the parser is as if it had had all of it.
LEMMA Consumes ==
    ASSUME NEW state, NEW matched, NEW buffer \in Text, NEW line \in Text, NEW data \in Text,
           HasRead([state |-> state, matched |-> matched, data |-> buffer], line, data),
           NEW content \in Text
    PROVE  HasRead(consume_line_content([state |-> state, matched |-> matched, data |-> buffer], content),
                   line \o content, data)
<1> DEFINE p == [state |-> state, matched |-> matched, data |-> buffer]
           c == line \o content
           unmatched == SubSeq(data_field, matched + 1, Length)
<1>0. /\ Len(line) \in Nat /\ Len(content) \in Nat /\ Length \in Nat \ {0} /\ data_field \in Text
      /\ c \in Text /\ Len(c) = Len(line) + Len(content)
      /\ \A i \in 1..Len(line) : c[i] = line[i]
      /\ \A i \in 1..Len(content) : c[Len(line) + i] = content[i]
    BY CharactersAssumption, Extended DEF Text, Length
<1>1. CASE state = "ignored"
    <2>1. consume_line_content(p, content) = p
        BY <1>1 DEF consume_line_content
    <2>2. PICK i \in 1..Len(line) : i <= Length /\ line[i] # data_field[i]
        BY <1>1 DEF HasRead
    <2>3. i \in 1..Len(c) /\ c[i] # data_field[i]
        BY <1>0, <2>2
    <2>4. buffer = data
        BY <1>1 DEF HasRead
    <2>. QED
        BY <1>1, <2>1, <2>2, <2>3, <2>4 DEF HasRead
<1>2. CASE state = "value"
    <2>1. consume_line_content(p, content) = [state |-> "value", matched |-> matched, data |-> buffer \o content]
        BY <1>2 DEF consume_line_content
    <2> DEFINE after == SubSeq(line, Length + 1, Len(line))
    <2>2. Len(line) > Length /\ MatchesName(line, Length) /\ buffer = Opened(data) \o Skip(after, space)
        BY <1>2 DEF HasRead
    <2>a. Length \in 0..Len(line) /\ Len(line) \in Length..Len(line)
        BY <1>0, <2>2
    <2>b. after \in Text /\ Len(after) = Len(line) - Length
        BY <2>a, Cut
    <2>4. SubSeq(c, Length + 1, Len(c)) = after \o content
        BY <2>a, CutBefore
    <2>. HIDE DEF after
    <2>c. Len(after) # 0
        BY <1>0, <2>2, <2>b
    <2>3. after \in Text /\ after # <<>>
        BY <2>b, <2>c, Whole
    <2>5. Skip(after \o content, space) = Skip(after, space) \o content
        BY <2>3, SkipExtended
    <2>6. buffer \o content = Opened(data) \o Skip(SubSeq(c, Length + 1, Len(c)), space)
        <3>1. Opened(data) \in Text /\ Skip(after, space) \in Text
            BY <2>3, OpenedTyped, SkipTyped
        <3>2. (Opened(data) \o Skip(after, space)) \o content = Opened(data) \o (Skip(after, space) \o content)
            BY <3>1, Joined
        <3>. QED
            BY <2>2, <2>4, <2>5, <3>2, Zenon
    <2>7. Len(c) > Length /\ MatchesName(c, Length)
        BY <1>0, <2>2 DEF MatchesName
    <2>. QED
        BY <2>1, <2>6, <2>7 DEF HasRead
<1>3. CASE state = "value_start"
    <2>1. consume_line_content(p, content) = Value(Opened(data), content)
        BY <1>3 DEF consume_line_content, HasRead
    <2>2. Len(line) = Length /\ MatchesName(line, Length)
        BY <1>3 DEF HasRead
    <2>. QED
        BY <2>1, <2>2, ValueRead
<1>4. CASE state = "field"
    <2>1. matched = Len(line) /\ Len(line) < Length /\ MatchesName(line, Len(line)) /\ buffer = data
        BY <1>4 DEF HasRead
    <2>2. /\ unmatched \in Text /\ Len(unmatched) = Length - Len(line)
          /\ \A i \in 1..(Length - Len(line)) : unmatched[i] = data_field[Len(line) + i]
        BY <1>0, <2>1, Cut DEF Length
    <2>3. IsPrefix(content, unmatched) <=>
            Len(content) <= Len(unmatched) /\ \A i \in 1..Len(content) : content[i] = unmatched[i]
        BY <2>2, PrefixIs
    <2>4. IsPrefix(unmatched, content) <=>
            Len(unmatched) <= Len(content) /\ \A i \in 1..Len(unmatched) : unmatched[i] = content[i]
        BY <2>2, PrefixIs
    <2>b. Len(unmatched) \in Nat
        BY <1>0, <2>1, <2>2
    <2>. HIDE DEF unmatched
    <2>5. CASE IsStrictPrefix(content, unmatched)
        <3>a. Len(content) <= Len(unmatched) /\ (\A i \in 1..Len(content) : content[i] = unmatched[i]) /\ content # unmatched
            BY <2>3, <2>5 DEF IsStrictPrefix
        <3>b. Len(content) # Len(unmatched)
            BY <2>2, <3>a, SameText
        <3>2. Len(content) < Len(unmatched)
            BY <1>0, <2>b, <3>a, <3>b
        <3>1. consume_line_content(p, content) = [state |-> "field", matched |-> matched + Len(content), data |-> buffer]
            <4>1. unmatched = SubSeq(data_field, p.matched + 1, Len(data_field))
                BY DEF unmatched, Length
            <4>2. IsStrictPrefix(content, unmatched) /\ ~IsPrefix(unmatched, content)
                BY <1>0, <2>b, <2>4, <2>5, <3>2
            <4>3. p.state = "field"
                BY <1>4
            <4>. HIDE DEF p
            <4>4. consume_line_content(p, content) = [p EXCEPT !.matched = @ + Len(content)]
                BY <4>1, <4>2, <4>3 DEF consume_line_content
            <4>. QED
                BY <1>4, <4>4 DEF p
        <3>3. MatchesName(c, Len(c))
            <4>. SUFFICES ASSUME NEW i \in 1..Len(c) PROVE c[i] = data_field[i]
                BY DEF MatchesName
            <4>1. CASE i <= Len(line)
                BY <1>0, <2>1, <4>1 DEF MatchesName
            <4>2. CASE i > Len(line)
                <5> DEFINE j == i - Len(line)
                <5>1. j \in 1..Len(content) /\ j \in 1..(Length - Len(line)) /\ i = Len(line) + j
                    BY <1>0, <2>2, <3>2, <4>2
                <5>. HIDE DEF j
                <5>2. c[Len(line) + j] = content[j] /\ unmatched[j] = data_field[Len(line) + j]
                    BY <1>0, <2>2, <5>1
                <5>3. content[j] = unmatched[j]
                    BY <2>3, <2>5, <5>1 DEF IsStrictPrefix
                <5>. QED
                    BY <5>1, <5>2, <5>3
            <4>. QED
                BY <1>0, <4>1, <4>2
        <3>4. matched + Len(content) = Len(c) /\ Len(c) < Length
            BY <1>0, <2>1, <2>2, <3>2
        <3>. QED
            BY <2>1, <3>1, <3>3, <3>4 DEF HasRead
    <2>6. CASE ~IsStrictPrefix(content, unmatched) /\ IsPrefix(unmatched, content)
        <3> DEFINE k == Len(unmatched)
                   left == SubSeq(content, 1, k)
                   right == SubSeq(content, k + 1, Len(content))
        <3>1. consume_line_content(p, content) = Value(Opened(data), right)
            BY <1>4, <2>1, <2>6 DEF consume_line_content, unmatched, Length
        <3>2. k \in 0..Len(content) /\ k = Length - Len(line)
            BY <1>0, <2>1, <2>2, <2>4, <2>6
        <3>. HIDE DEF k
        <3>a. 0 \in 0..Len(content) /\ k \in 0..Len(content) /\ Len(content) \in k..Len(content) /\ k \in Nat
            BY <1>0, <3>2
        <3>b. 1 \in 1..(k + 1)
            BY <3>a
        <3>3. /\ left \in Text /\ Len(left) = k /\ \A i \in 1..k : left[i] = content[i]
              /\ right \in Text
            <4>1. /\ SubSeq(content, 0 + 1, k) \in Text /\ Len(SubSeq(content, 0 + 1, k)) = k - 0
                  /\ \A i \in 1..(k - 0) : SubSeq(content, 0 + 1, k)[i] = content[0 + i]
                BY <3>a, Cut
            <4>2. right \in Text
                BY <3>a, Cut
            <4>. QED
                BY <3>a, <4>1, <4>2
        <3>4. content = left \o right
            <4>1. SubSeq(content, 1, Len(content)) = left \o right
                BY <1>0, <3>a, <3>b, Adjacent
            <4>. QED
                BY <4>1, Whole
        <3>. HIDE DEF left, right
        <3>5. /\ line \o left \in Text /\ Len(line \o left) = Length
              /\ \A i \in 1..Len(line) : (line \o left)[i] = line[i]
              /\ \A i \in 1..Len(left) : (line \o left)[Len(line) + i] = left[i]
            BY <1>0, <3>2, <3>3, Extended
        <3>6. MatchesName(line \o left, Length)
            <4>. SUFFICES ASSUME NEW i \in 1..Length PROVE (line \o left)[i] = data_field[i]
                BY DEF MatchesName
            <4>1. CASE i <= Len(line)
                BY <1>0, <2>1, <3>5, <4>1 DEF MatchesName
            <4>2. CASE i > Len(line)
                <5> DEFINE j == i - Len(line)
                <5>1. j \in 1..k /\ j \in 1..(Length - Len(line)) /\ i = Len(line) + j
                    BY <1>0, <3>2, <4>2
                <5>. HIDE DEF j
                <5>2. (line \o left)[Len(line) + j] = left[j] /\ unmatched[j] = data_field[Len(line) + j]
                    BY <2>2, <3>3, <3>5, <5>1
                <5>3. left[j] = content[j] /\ content[j] = unmatched[j]
                    BY <2>4, <2>6, <3>3, <5>1 DEF k
                <5>. QED
                    BY <5>1, <5>2, <5>3
            <4>3. i <= Len(line) \/ i > Len(line)
                BY <1>0
            <4>. QED
                BY <4>1, <4>2, <4>3
        <3>7. HasRead(Value(Opened(data), right), (line \o left) \o right, data)
            BY <3>3, <3>5, <3>6, ValueRead
        <3>8. (line \o left) \o right = line \o content
            BY <3>3, <3>4, Joined
        <3>. QED
            BY <3>1, <3>7, <3>8
    <2>7. CASE ~IsStrictPrefix(content, unmatched) /\ ~IsPrefix(unmatched, content)
        <3>1. consume_line_content(p, content) = [state |-> "ignored", matched |-> matched, data |-> buffer]
            BY <1>4, <2>7 DEF consume_line_content, unmatched, Length
        <3>2. ~IsPrefix(content, unmatched)
            BY <2>3, <2>4, <2>7 DEF IsStrictPrefix
        <3>3. PICK j \in 1..Len(content) : j <= Len(unmatched) /\ content[j] # unmatched[j]
            <4>1. CASE Len(content) <= Len(unmatched)
                BY <1>0, <2>b, <2>3, <3>2, <4>1
            <4>2. CASE Len(unmatched) <= Len(content)
                BY <1>0, <2>b, <2>4, <2>7, <4>2
            <4>. QED
                BY <1>0, <2>b, <4>1, <4>2
        <3>4. c[Len(line) + j] = content[j] /\ unmatched[j] = data_field[Len(line) + j]
            BY <1>0, <2>2, <3>3
        <3>5. Len(line) + j \in 1..Len(c) /\ Len(line) + j <= Length
            BY <1>0, <2>1, <2>2, <3>3
        <3>. QED
            BY <2>1, <3>1, <3>3, <3>4, <3>5 DEF HasRead
    <2>. QED
        BY <2>5, <2>6, <2>7
<1>. QED
    BY <1>1, <1>2, <1>3, <1>4 DEF HasRead

LEMMA ReadTyped ==
    ASSUME NEW p, NEW line \in Text, NEW data \in Text, HasRead(p, line, data)
    PROVE  p.data \in Text
<1>1. Opened(data) \in Text
    BY OpenedTyped
<1>2. CASE p.state = "value"
    <2> DEFINE after == SubSeq(line, Length + 1, Len(line))
    <2>1. Len(line) > Length /\ p.data = Opened(data) \o Skip(after, space)
        BY <1>2 DEF HasRead
    <2>2. Length \in 0..Len(line) /\ Len(line) \in Length..Len(line)
        BY <2>1, CharactersAssumption DEF Text, Length
    <2>3. after \in Text
        BY <2>2, Cut
    <2>4. Skip(after, space) \in Text
        BY <2>3, SkipTyped
    <2>5. Opened(data) \o Skip(after, space) \in Text
        BY <1>1, <2>4, Extended
    <2>. QED
        BY <2>1, <2>5
<1>3. CASE p.state # "value"
    BY <1>1, <1>3 DEF HasRead
<1>. QED
    BY <1>2, <1>3

\* When a line ends, the parser does with what it has of it what the line means.
Dispatches(p) == p.state = "field" /\ p.matched = 0 /\ p.data # <<>>
LEMMA LineAdded ==
    ASSUME NEW p \in [data : Text, events : Seq(Text)], NEW line \in Text,
           NEW q, HasRead(q, line, p.data)
    PROVE  AddLine(p, line) = [data |-> IF Dispatches(q) THEN <<>> ELSE q.data,
                               events |-> IF Dispatches(q) THEN Append(p.events, q.data) ELSE p.events]
<1> DEFINE after == SubSeq(line, Length + 1, Len(line))
           value == Skip(after, space)
<1>0. /\ Len(line) \in Nat /\ Length \in Nat \ {0} /\ data_field \in Text
      /\ line = <<>> <=> Len(line) = 0
      /\ p.data \in Text
    BY CharactersAssumption DEF Text, Length
<1>1. IsPrefix(data_field, line) <=> Length <= Len(line) /\ \A i \in 1..Length : data_field[i] = line[i]
    BY <1>0, PrefixIs DEF Length
<1>2. p = [data |-> p.data, events |-> p.events]
    OBVIOUS
<1>3. IsPrefix(data_field, line) => AddLine(p, line) = [p EXCEPT !.data = Opened(p.data) \o value]
    BY <1>0, <1>1 DEF AddLine, Length
<1>4. ~IsPrefix(data_field, line) /\ ~(line = <<>> /\ p.data # <<>>) => AddLine(p, line) = p
    BY DEF AddLine
<1>. HIDE DEF value
<1>5. CASE q.state = "ignored"
    <2>1. PICK i \in 1..Len(line) : i <= Length /\ line[i] # data_field[i]
        BY <1>5 DEF HasRead
    <2>2. ~IsPrefix(data_field, line) /\ line # <<>>
        BY <1>0, <1>1, <2>1
    <2>3. q.data = p.data /\ ~Dispatches(q)
        BY <1>5 DEF HasRead, Dispatches
    <2>. QED
        BY <1>2, <1>4, <2>2, <2>3
<1>6. CASE q.state = "value"
    <2>1. Len(line) > Length /\ MatchesName(line, Length) /\ q.data = Opened(p.data) \o value
        BY <1>6 DEF HasRead, value
    <2>2. IsPrefix(data_field, line)
        BY <1>0, <1>1, <2>1 DEF MatchesName
    <2>3. ~Dispatches(q)
        BY <1>6 DEF Dispatches
    <2>. QED
        BY <1>2, <1>3, <2>1, <2>2, <2>3
<1>7. CASE q.state = "value_start"
    <2>1. Len(line) = Length /\ MatchesName(line, Length) /\ q.data = Opened(p.data)
        BY <1>7 DEF HasRead
    <2>2. IsPrefix(data_field, line)
        BY <1>0, <1>1, <2>1 DEF MatchesName
    <2>3. after \in Text /\ Len(after) = Len(line) - Length
        <3>1. Length \in 0..Len(line) /\ Len(line) \in Length..Len(line)
            BY <1>0, <2>1
        <3>. QED
            BY <3>1, Cut
    <2>. HIDE DEF after
    <2>4. value = <<>>
        <3>1. Len(after) = 0
            BY <1>0, <2>1, <2>3
        <3>. QED
            BY <2>3, <3>1, Whole DEF value, Skip
    <2>5. Opened(p.data) \o value = q.data
        BY <1>0, <2>1, <2>4, OpenedTyped, Whole
    <2>6. ~Dispatches(q)
        BY <1>7 DEF Dispatches
    <2>. QED
        BY <1>2, <1>3, <2>2, <2>5, <2>6
<1>8. CASE q.state = "field"
    <2>1. q.matched = Len(line) /\ Len(line) < Length /\ q.data = p.data
        BY <1>8 DEF HasRead
    <2>2. ~IsPrefix(data_field, line)
        BY <1>0, <1>1, <2>1
    <2>3. Dispatches(q) <=> line = <<>> /\ p.data # <<>>
        BY <1>0, <1>8, <2>1 DEF Dispatches
    <2>4. CASE Dispatches(q)
        <3>1. AddLine(p, line) = [data |-> <<>>, events |-> Append(p.events, p.data)]
            BY <2>2, <2>3, <2>4 DEF AddLine
        <3>. QED
            BY <2>1, <2>4, <3>1
    <2>5. CASE ~Dispatches(q)
        BY <1>2, <1>4, <2>1, <2>2, <2>3, <2>5
    <2>. QED
        BY <2>4, <2>5
<1>. QED
    BY <1>5, <1>6, <1>7, <1>8 DEF HasRead

\* find_line_end() stops at the first end, or at the end of the text.
LEMMA LineLengthIs ==
    ASSUME NEW s \in Text
    PROVE  /\ LineLength(s) \in 0..Len(s)
           /\ LineLength(s) = Len(s) \/ s[LineLength(s) + 1] \in Ends
           /\ \A i \in 1..LineLength(s) : s[i] \notin Ends
<1> DEFINE S == {n \in 0..Len(s) : n = Len(s) \/ s[n + 1] \in Ends}
<1>0. Len(s) \in Nat
    BY DEF Text
<1>1. S \in SUBSET Nat /\ Len(s) \in S
    BY <1>0
<1>2. PICK n \in S : \A m \in S : n <= m
    BY <1>1, Least
<1>3. ASSUME NEW i \in 1..n PROVE s[i] \notin Ends
    <2>1. i \in Nat /\ (i - 1) + 1 = i /\ i - 1 \in 0..Len(s) /\ i - 1 < n
        BY <1>0
    <2>2. i - 1 \notin S
        <3>. HIDE DEF S
        <3>1. i - 1 \in S => n <= i - 1
            BY <1>2
        <3>. QED
            BY <1>0, <2>1, <3>1 DEF S
    <2>. QED
        BY <2>1, <2>2
<1>4. \E m \in 0..Len(s) : (m = Len(s) \/ s[m + 1] \in Ends) /\ \A i \in 1..m : s[i] \notin Ends
    BY <1>2, <1>3
<1>. QED
    BY <1>4 DEF LineLength

\* The parser has read more of its line.
LEMMA ReadOn ==
    ASSUME NEW b \in Text, NEW m \in 0..Len(b), NEW n \in m..Len(b), \A i \in (m + 1)..n : b[i] \notin Ends,
           NEW state, NEW matched, NEW buffer \in Text,
           HasRead([state |-> state, matched |-> matched, data |-> buffer], LineUpTo(b, m), ParsedTo(b)[m].data)
    PROVE  LET p == consume_line_content([state |-> state, matched |-> matched, data |-> buffer], SubSeq(b, m + 1, n))
           IN /\ HasRead(p, LineUpTo(b, n), ParsedTo(b)[n].data)
              /\ p.data \in Text
              /\ ParsedTo(b)[n] = ParsedTo(b)[m]
<1> DEFINE content == SubSeq(b, m + 1, n)
           p == consume_line_content([state |-> state, matched |-> matched, data |-> buffer], content)
<1>0. Len(b) \in Nat /\ n \in 0..Len(b)
    BY DEF Text
<1>1. content \in Text
    BY Cut
<1>2. LineUpTo(b, m) \in Text /\ LineUpTo(b, n) \in Text
    BY <1>0, LineTyped
<1>3. ParsedTo(b)[m].data \in Text /\ ParsedTo(b)[n].data \in Text
    BY <1>0, ParsedTyped
<1>4. ParsedTo(b)[n] = ParsedTo(b)[m] /\ LineUpTo(b, n) = LineUpTo(b, m) \o content
    BY NoLineEnds
<1>. HIDE DEF content
<1>5. HasRead(p, LineUpTo(b, m) \o content, ParsedTo(b)[m].data)
    BY <1>1, <1>2, <1>3, Consumes
<1>6. HasRead(p, LineUpTo(b, n), ParsedTo(b)[n].data)
    BY <1>4, <1>5
<1>7. p.data \in Text
    BY <1>2, <1>3, <1>6, ReadTyped
<1>. QED
    BY <1>4, <1>6, <1>7 DEF content

\* At the start of a line nothing of it has been read.
LEMMA LineEmpty ==
    ASSUME NEW b \in Text, NEW n \in 0..Len(b), n = 0 \/ b[n] \in Ends
    PROVE  LineUpTo(b, n) = <<>>
<1>0. Len(b) \in Nat
    BY DEF Text
<1>1. StartsAt(b, n, n + 1)
    BY <1>0 DEF StartsAt
<1>2. LineUpTo(b, n) = SubSeq(b, n + 1, n)
    BY <1>1, LineUpToIs
<1>3. SubSeq(b, n + 1, n) \in Text /\ Len(SubSeq(b, n + 1, n)) = n - n
    BY <1>0, Cut
<1>. QED
    BY <1>0, <1>2, <1>3, Whole

LEMMA NoneRead ==
    ASSUME NEW data
    PROVE  HasRead([state |-> "field", matched |-> 0, data |-> data], <<>>, data)
    BY CharactersAssumption DEF HasRead, MatchesName, Length

\* An LF that completes a CRLF ends nothing.
LEMMA LFSkipped ==
    ASSUME NEW b \in Text, NEW n \in 1..Len(b), n + 1 <= Len(b), b[n] = cr, b[n + 1] = lf
    PROVE  /\ ParsedTo(b)[n + 1] = ParsedTo(b)[n]
           /\ LineUpTo(b, n + 1) = LineUpTo(b, n)
<1>0. Len(b) \in Nat /\ n \in Nat /\ n + 1 \in 1..Len(b) /\ (n + 1) - 1 = n /\ n + 1 > 1
    BY DEF Text
<1>1. ~IsEnd(b, n + 1)
    BY <1>0, CharactersAssumption DEF IsEnd
<1>2. ParsedTo(b)[n + 1] = ParsedTo(b)[n]
    BY <1>0, <1>1, ParsedToUnfolds
<1>3. LineUpTo(b, n) = <<>> /\ LineUpTo(b, n + 1) = <<>>
    BY <1>0, LineEmpty DEF Ends
<1>. QED
    BY <1>2, <1>3

LEMMA SkipIs ==
    ASSUME NEW s \in Text, NEW c
    PROVE  \/ /\ s # <<>> /\ s[1] = c
              /\ Skip(s, c) \in Text /\ Len(Skip(s, c)) = Len(s) - 1
              /\ \A i \in 1..(Len(s) - 1) : Skip(s, c)[i] = s[i + 1]
           \/ ~(s # <<>> /\ s[1] = c) /\ Skip(s, c) = s
<1>1. CASE s # <<>> /\ s[1] = c
    <2>1. Skip(s, c) = Tail(s)
        BY <1>1 DEF Skip, Text
    <2>2. Tail(s) \in Text /\ Len(Tail(s)) = Len(s) - 1 /\ \A i \in 1..(Len(s) - 1) : Tail(s)[i] = s[i + 1]
        BY <1>1 DEF Text
    <2>. QED
        BY <1>1, <2>1, <2>2
<1>2. CASE ~(s # <<>> /\ s[1] = c)
    BY <1>2 DEF Skip, Text
<1>. QED
    BY <1>1, <1>2

-----------------------------------------------------------------------------
(* The steps of the parser.                                                *)

LEMMA InitEstablishes == Init => IInv
<1>. SUFFICES ASSUME Init PROVE IInv
    OBVIOUS
<1>1. <<>> \in Text /\ Len(<<>>) = 0
    BY DEF Text
<1>a. body = <<>> /\ rest = <<>> /\ data_ = <<>> /\ after_cr_ = FALSE
    BY DEF Init
<1>b. Done = 0 /\ Len(rest) = 0 /\ Len(body) = 0
    BY <1>1, <1>a DEF Done
<1>2. TypeOK /\ RestLeft /\ Done = 0 /\ body \in Text /\ 0 \in 0..Len(body)
    <2>1. TypeOK
        BY <1>1, <1>a DEF TypeOK
    <2>2. RestLeft
        BY <1>b DEF RestLeft
    <2>. QED
        BY <1>1, <1>a, <1>b, <2>1, <2>2
<1>3. CRLFSkipped
    BY <1>2 DEF Init, CRLFSkipped
<1>4. ParsedTo(body)[0] = Nothing /\ LineUpTo(body, 0) = <<>>
    BY <1>2, ParsedToUnfolds, LineEmpty
<1>5. HasRead(Parser, <<>>, <<>>)
    BY NoneRead DEF Init, Parser
<1>6. LineSoFar
    BY <1>1, <1>2, <1>4, <1>5 DEF LineSoFar, Nothing, Init
<1>. QED
    BY <1>2, <1>3, <1>6 DEF IInv

LEMMA FeedStep == IInv /\ Feed => IInv'
<1>. SUFFICES ASSUME IInv, Feed PROVE IInv'
    OBVIOUS
<1>1. PICK piece \in Pieces : FeedPiece(piece) /\ body' = body \o piece
    BY DEF Feed
<1>2. /\ rest = <<>> /\ data_' = data_ /\ state_' = state_ /\ matched_' = matched_ /\ events' = events
      /\ rest' = IF after_cr_ THEN Skip(piece, lf) ELSE piece
      /\ after_cr_' = (after_cr_ /\ piece = <<>>)
    BY <1>1 DEF Feed, FeedPiece
<1> DEFINE d == Len(body)
<1>3. /\ d \in Nat /\ Len(piece) \in Nat /\ piece \in Text /\ body \in Text /\ data_ \in Text
      /\ rest \in Text /\ Len(rest) = 0
      /\ after_cr_ \in BOOLEAN /\ d \in 0..Len(body) /\ cr # lf
    BY <1>2, CharactersAssumption DEF IInv, TypeOK, Text
<1>4. /\ body' \in Text /\ Len(body') = d + Len(piece)
      /\ \A i \in 1..d : body'[i] = body[i]
      /\ \A i \in 1..Len(piece) : body'[d + i] = piece[i]
    BY <1>1, <1>3, Extended
<1>5. Done = d /\ (after_cr_ <=> d > 0 /\ body[d] = cr)
    BY <1>2, <1>3 DEF IInv, CRLFSkipped, Done
<1>6. ParsedTo(body')[d] = ParsedTo(body)[d] /\ LineUpTo(body', d) = LineUpTo(body, d)
    BY <1>1, <1>3, LineExtended, ParsedExtended
<1>7. LET parsed == ParsedTo(body')[d]
      IN events' = parsed.events /\ HasRead(Parser', LineUpTo(body', d), parsed.data)
    BY <1>2, <1>5, <1>6 DEF IInv, LineSoFar, Parser
<1>. HIDE DEF d
<1>8. CASE after_cr_ /\ piece # <<>> /\ piece[1] = lf
    <2>1. /\ rest' \in Text /\ Len(rest') = Len(piece) - 1
          /\ \A i \in 1..(Len(piece) - 1) : rest'[i] = piece[i + 1]
        BY <1>2, <1>3, <1>8, SkipIs
    <2>2. Len(piece) > 0
        BY <1>3, <1>8, Whole
    <2>3. Done' = d + 1 /\ Len(rest') \in Nat
        BY <1>3, <1>4, <2>1, <2>2 DEF Done
    <2>4. ~after_cr_' /\ body'[d + 1] = lf /\ d \in 1..Len(body') /\ d + 1 <= Len(body') /\ body'[d] = cr
        <3>1. ~after_cr_'
            BY <1>2, <1>8
        <3>2. 1 \in 1..Len(piece)
            BY <1>3, <2>2
        <3>3. body'[d + 1] = lf
            BY <1>4, <1>8, <3>2
        <3>4. d > 0 /\ body[d] = cr
            BY <1>5, <1>8 DEF d
        <3>5. d \in 1..d /\ d \in 1..Len(body') /\ d + 1 <= Len(body')
            BY <1>3, <1>4, <2>2, <3>4
        <3>. QED
            BY <1>4, <3>1, <3>3, <3>4, <3>5
    <2>5. ParsedTo(body')[d + 1] = ParsedTo(body')[d] /\ LineUpTo(body', d + 1) = LineUpTo(body', d)
        BY <1>4, <2>4, LFSkipped
    <2>6. TypeOK'
        BY <1>2, <1>3, <1>4, <2>1, <2>4 DEF TypeOK
    <2>7. RestLeft'
        <3>1. ASSUME NEW i \in 1..Len(rest') PROVE rest'[i] = body'[Done' + i]
            <4>1. i + 1 \in 1..Len(piece) /\ i \in 1..(Len(piece) - 1) /\ Done' + i = d + (i + 1)
                BY <1>3, <2>1, <2>3
            <4>. QED
                BY <1>4, <2>1, <4>1
        <3>. QED
            BY <1>3, <2>3, <3>1 DEF RestLeft
    <2>8. CRLFSkipped'
        BY <1>3, <2>3, <2>4 DEF CRLFSkipped
    <2>9. LineSoFar'
        BY <1>7, <2>3, <2>5 DEF LineSoFar
    <2>. QED
        BY <2>6, <2>7, <2>8, <2>9 DEF IInv
<1>9. CASE ~(after_cr_ /\ piece # <<>> /\ piece[1] = lf)
    <2>1. rest' = piece
        BY <1>2, <1>3, <1>9, SkipIs
    <2>2. Done' = d
        BY <1>3, <1>4, <2>1 DEF Done
    <2>3. TypeOK'
        BY <1>2, <1>3, <1>4, <2>1 DEF TypeOK
    <2>4. RestLeft'
        BY <1>3, <1>4, <2>1, <2>2 DEF RestLeft
    <2>5. d > 0 => body'[d] = body[d]
        BY <1>3, <1>4 DEF d
    <2>6. CRLFSkipped'
        BY <1>2, <1>3, <1>5, <1>9, <2>1, <2>2, <2>5 DEF CRLFSkipped
    <2>7. LineSoFar'
        BY <1>7, <2>2 DEF LineSoFar
    <2>. QED
        BY <2>3, <2>4, <2>6, <2>7 DEF IInv
<1>. QED
    BY <1>8, <1>9

LEMMA FeedContentStep == IInv /\ FeedContent => IInv'
<1>. SUFFICES ASSUME IInv, FeedContent PROVE IInv'
    OBVIOUS
<1> DEFINE d == Done
           p == consume_line_content(Parser, rest)
<1>0. /\ rest # <<>> /\ LineLength(rest) = Len(rest)
      /\ state_' = p.state /\ matched_' = p.matched /\ data_' = p.data
      /\ rest' = <<>> /\ after_cr_' = after_cr_ /\ body' = body /\ events' = events
    BY DEF FeedContent, Parser
<1>1. /\ body \in Text /\ rest \in Text /\ Len(rest) \in Nat \ {0} /\ Len(body) \in Nat
      /\ d = Len(body) - Len(rest) /\ d \in 0..Len(body) /\ data_ \in Text
    <2>1. body \in Text /\ rest \in Text /\ data_ \in Text /\ d >= 0 /\ d = Len(body) - Len(rest)
        BY DEF IInv, TypeOK, RestLeft, Done
    <2>2. Len(rest) # 0 /\ Len(rest) \in Nat /\ Len(body) \in Nat
        BY <1>0, <2>1, Whole DEF Text
    <2>. QED
        BY <2>1, <2>2
<1>2. \A i \in 1..Len(rest) : rest[i] = body[d + i] /\ rest[i] \notin Ends
    BY <1>0, <1>1, LineLengthIs DEF IInv, RestLeft
<1>3. LET parsed == ParsedTo(body)[d]
      IN events = parsed.events /\ HasRead(Parser, LineUpTo(body, d), parsed.data)
    BY DEF IInv, LineSoFar
<1>4. ~after_cr_
    BY <1>0 DEF IInv, CRLFSkipped
<1>. HIDE DEF d
<1>5. \A i \in (d + 1)..Len(body) : body[i] \notin Ends
    <2>. SUFFICES ASSUME NEW i \in (d + 1)..Len(body) PROVE body[i] \notin Ends
        OBVIOUS
    <2>1. i - d \in 1..Len(rest) /\ d + (i - d) = i
        BY <1>1
    <2>. QED
        BY <1>2, <2>1
<1>6. Len(body) \in d..Len(body)
    BY <1>1
<1>7. rest = SubSeq(body, d + 1, Len(body))
    <2>1. /\ SubSeq(body, d + 1, Len(body)) \in Text
          /\ Len(SubSeq(body, d + 1, Len(body))) = Len(body) - d
          /\ \A i \in 1..(Len(body) - d) : SubSeq(body, d + 1, Len(body))[i] = body[d + i]
        BY <1>1, <1>6, Cut
    <2>2. Len(body) - d = Len(rest)
        BY <1>1
    <2>. QED
        BY <1>1, <1>2, <2>1, <2>2, SameText
<1>8. /\ HasRead(p, LineUpTo(body, Len(body)), ParsedTo(body)[Len(body)].data)
      /\ p.data \in Text
      /\ ParsedTo(body)[Len(body)] = ParsedTo(body)[d]
    BY <1>1, <1>3, <1>5, <1>7, <1>6, ReadOn DEF Parser
<1>. HIDE DEF p
<1>9. Done' = Len(body') /\ rest' \in Text /\ Len(rest') = 0
    BY <1>0, <1>1 DEF Done, Text
<1>10. TypeOK' /\ RestLeft'
    BY <1>0, <1>1, <1>8, <1>9 DEF IInv, TypeOK, RestLeft
<1>11. CRLFSkipped'
    <2>1. body[Len(body)] # cr
        BY <1>1, <1>5, <1>6 DEF Ends
    <2>. QED
        BY <1>0, <1>4, <1>9, <2>1 DEF CRLFSkipped
<1>12. HasRead(Parser', LineUpTo(body', Done'), ParsedTo(body')[Done'].data)
    <2>1. Parser'.state = p.state /\ Parser'.matched = p.matched /\ Parser'.data = p.data
        BY <1>0 DEF Parser
    <2>2. HasRead(Parser', LineUpTo(body, Len(body)), ParsedTo(body)[Len(body)].data)
        BY <1>8, <2>1 DEF HasRead
    <2>. QED
        BY <1>0, <1>9, <2>2
<1>13. LineSoFar'
    BY <1>0, <1>3, <1>8, <1>9, <1>12 DEF LineSoFar
<1>. QED
    BY <1>10, <1>11, <1>13 DEF IInv

\* The part of FeedLine before the character that ends the line.
LEMMA LineRead ==
    ASSUME IInv, LineLength(rest) < Len(rest)
    PROVE  LET n == LineLength(rest)
               e == Done + n
               p == consume_line_content(Parser, SubSeq(rest, 1, n))
           IN /\ n \in Nat /\ e \in Nat /\ e + 1 <= Len(body) /\ body[e + 1] = rest[n + 1]
              /\ IsEnd(body, e + 1) /\ body[e + 1] \in Ends
              /\ HasRead(p, LineUpTo(body, e), ParsedTo(body)[e].data)
              /\ p.data \in Text
              /\ ParsedTo(body)[e] = ParsedTo(body)[Done]
<1> DEFINE d == Done
           n == LineLength(rest)
           e == d + n
           p == consume_line_content(Parser, SubSeq(rest, 1, n))
<1>1. /\ body \in Text /\ rest \in Text /\ Len(rest) \in Nat /\ Len(body) \in Nat
      /\ d = Len(body) - Len(rest) /\ d \in 0..Len(body) /\ data_ \in Text
      /\ \A i \in 1..Len(rest) : rest[i] = body[d + i]
    <2>1. body \in Text /\ rest \in Text /\ data_ \in Text /\ d >= 0 /\ d = Len(body) - Len(rest)
          /\ \A i \in 1..Len(rest) : rest[i] = body[d + i]
        BY DEF IInv, TypeOK, RestLeft, Done
    <2>2. Len(rest) \in Nat /\ Len(body) \in Nat
        BY <2>1 DEF Text
    <2>. QED
        BY <2>1, <2>2
<1>2. n \in 0..Len(rest) /\ n < Len(rest) /\ rest[n + 1] \in Ends /\ \A i \in 1..n : rest[i] \notin Ends
    BY <1>1, LineLengthIs
<1>3. LET parsed == ParsedTo(body)[d] IN HasRead(Parser, LineUpTo(body, d), parsed.data)
    BY DEF IInv, LineSoFar
<1>4. rest # <<>>
    BY <1>1, <1>2, Whole
<1>5. ~(d > 0 /\ body[d] = cr /\ rest[1] = lf)
    BY <1>4 DEF IInv, CRLFSkipped
<1>. HIDE DEF d, n
<1>6. /\ n \in Nat /\ e \in Nat /\ e + 1 <= Len(body) /\ e \in d..Len(body) /\ e + 1 = d + (n + 1) /\ e \in 0..Len(body)
      /\ n + 1 \in 1..Len(rest) /\ d \in Nat
    BY <1>1, <1>2
<1>7. body[e + 1] = rest[n + 1] /\ body[e + 1] \in Ends
    BY <1>1, <1>2, <1>6
<1>. HIDE DEF e
<1>8. IsEnd(body, e + 1)
    <2>1. CASE n = 0
        <3>1. e = d /\ rest[n + 1] = rest[1]
            BY <1>6, <2>1 DEF e
        <3>2. (e + 1) - 1 = e /\ (e + 1 > 1 <=> d > 0)
            BY <1>6, <3>1
        <3>. QED
            BY <1>5, <1>7, <3>1, <3>2 DEF IsEnd, Ends
    <2>2. CASE n # 0
        <3>1. n \in 1..n /\ n \in 1..Len(rest)
            BY <1>2, <1>6, <2>2
        <3>2. body[e] \notin Ends
            BY <1>1, <1>2, <3>1 DEF e
        <3>3. (e + 1) - 1 = e
            BY <1>6
        <3>. QED
            BY <1>7, <3>2, <3>3 DEF IsEnd, Ends
    <2>. QED
        BY <2>1, <2>2
<1>9. \A i \in (d + 1)..e : body[i] \notin Ends
    <2>. SUFFICES ASSUME NEW i \in (d + 1)..e PROVE body[i] \notin Ends
        OBVIOUS
    <2>1. i - d \in 1..n /\ i - d \in 1..Len(rest) /\ d + (i - d) = i
        BY <1>1, <1>2, <1>6 DEF e
    <2>. QED
        BY <1>1, <1>2, <2>1
<1>10. SubSeq(rest, 1, n) = SubSeq(body, d + 1, e)
    <2>1. /\ SubSeq(body, d + 1, e) \in Text
          /\ Len(SubSeq(body, d + 1, e)) = e - d
          /\ \A i \in 1..(e - d) : SubSeq(body, d + 1, e)[i] = body[d + i]
        BY <1>1, <1>6, Cut
    <2>2. 0 \in 0..Len(rest) /\ n \in 0..Len(rest)
        BY <1>1, <1>2
    <2>3. /\ SubSeq(rest, 0 + 1, n) \in Text
          /\ Len(SubSeq(rest, 0 + 1, n)) = n - 0
          /\ \A i \in 1..(n - 0) : SubSeq(rest, 0 + 1, n)[i] = rest[0 + i]
        BY <1>1, <2>2, Cut
    <2>4. e - d = n /\ \A i \in 1..n : i \in 1..Len(rest)
        BY <1>1, <1>2, <1>6 DEF e
    <2>5. SubSeq(rest, 1, n) \in Text /\ Len(SubSeq(rest, 1, n)) = n /\ \A i \in 1..n : SubSeq(rest, 1, n)[i] = rest[i]
        BY <1>6, <2>3
    <2>6. \A i \in 1..n : SubSeq(rest, 1, n)[i] = SubSeq(body, d + 1, e)[i]
        BY <1>1, <2>1, <2>4, <2>5
    <2>7. SubSeq(body, d + 1, e) \in Text /\ Len(SubSeq(body, d + 1, e)) = n
        BY <2>1, <2>4
    <2>. HIDE DEF e
    <2>. QED
        BY <2>5, <2>6, <2>7, SameText
<1>11. /\ HasRead(p, LineUpTo(body, e), ParsedTo(body)[e].data)
       /\ p.data \in Text
       /\ ParsedTo(body)[e] = ParsedTo(body)[d]
    BY <1>1, <1>3, <1>6, <1>9, <1>10, ReadOn DEF Parser
<1>. QED
    BY <1>6, <1>7, <1>8, <1>11 DEF d, n, e

LEMMA FeedLineStep == IInv /\ FeedLine => IInv'
<1>. SUFFICES ASSUME IInv, FeedLine PROVE IInv'
    OBVIOUS
<1> DEFINE n == LineLength(rest)
           e == Done + n
           p == consume_line_content(Parser, SubSeq(rest, 1, n))
           next == SubSeq(rest, n + 2, Len(rest))
<1>1. /\ n < Len(rest)
      /\ rest' = IF rest[n + 1] = cr THEN Skip(next, lf) ELSE next
      /\ after_cr_' = (rest[n + 1] = cr /\ next = <<>>)
      /\ events' = IF Dispatches(p) THEN Append(events, p.data) ELSE events
      /\ data_' = IF Dispatches(p) THEN <<>> ELSE p.data
      /\ state_' = "field" /\ matched_' = 0 /\ body' = body
    BY DEF FeedLine, Parser, Dispatches
<1>2. /\ n \in Nat /\ e \in Nat /\ e + 1 <= Len(body) /\ body[e + 1] = rest[n + 1]
      /\ IsEnd(body, e + 1) /\ body[e + 1] \in Ends
      /\ HasRead(p, LineUpTo(body, e), ParsedTo(body)[e].data)
      /\ p.data \in Text
      /\ ParsedTo(body)[e] = ParsedTo(body)[Done]
    BY <1>1, LineRead
<1>3. /\ body \in Text /\ rest \in Text /\ Len(rest) \in Nat /\ Len(body) \in Nat
      /\ Done = Len(body) - Len(rest) /\ Done \in Nat
      /\ \A i \in 1..Len(rest) : rest[i] = body[Done + i]
    <2>1. body \in Text /\ rest \in Text /\ Done >= 0 /\ Done = Len(body) - Len(rest)
          /\ \A i \in 1..Len(rest) : rest[i] = body[Done + i]
        BY DEF IInv, TypeOK, RestLeft, Done
    <2>2. Len(rest) \in Nat /\ Len(body) \in Nat
        BY <2>1 DEF Text
    <2>. QED
        BY <2>1, <2>2
<1>4. events = ParsedTo(body)[Done].events
    BY DEF IInv, LineSoFar
<1>. HIDE DEF n, p
<1>5. /\ next \in Text /\ Len(next) = Len(rest) - (n + 1)
      /\ \A i \in 1..Len(next) : next[i] = body[e + 1 + i]
    <2>1. n + 1 \in 0..Len(rest) /\ Len(rest) \in (n + 1)..Len(rest) /\ (n + 1) + 1 = n + 2
        BY <1>1, <1>2, <1>3
    <2>2. /\ SubSeq(rest, (n + 1) + 1, Len(rest)) \in Text
          /\ Len(SubSeq(rest, (n + 1) + 1, Len(rest))) = Len(rest) - (n + 1)
          /\ \A i \in 1..(Len(rest) - (n + 1)) : SubSeq(rest, (n + 1) + 1, Len(rest))[i] = rest[(n + 1) + i]
        BY <1>3, <2>1, Cut
    <2>. HIDE DEF next
    <2>3. next = SubSeq(rest, (n + 1) + 1, Len(rest))
        BY <2>1 DEF next
    <2>4. ASSUME NEW i \in 1..(Len(rest) - (n + 1)) PROVE next[i] = body[e + 1 + i]
        <3>1. (n + 1) + i \in 1..Len(rest) /\ Done + ((n + 1) + i) = e + 1 + i
            BY <1>1, <1>2, <1>3
        <3>2. next[i] = rest[(n + 1) + i]
            BY <2>2, <2>3
        <3>. QED
            BY <1>3, <3>1, <3>2
    <2>. QED
        BY <2>2, <2>3, <2>4
<1>. HIDE DEF next
<1>6. e + 1 + Len(next) = Len(body) /\ Len(next) \in Nat /\ e + 1 \in 1..Len(body) /\ e \in 0..Len(body) /\ (e + 1) - 1 = e
    BY <1>1, <1>2, <1>3, <1>5
<1>. HIDE DEF e
<1>7. /\ ParsedTo(body)[e + 1] = [data |-> data_', events |-> events']
      /\ data_' \in Text
    <2>1. ParsedTo(body)[e + 1] = AddLine(ParsedTo(body)[e], LineUpTo(body, e))
        BY <1>2, <1>3, <1>6, ParsedToUnfolds
    <2>2. LineUpTo(body, e) \in Text /\ ParsedTo(body)[e] \in [data : Text, events : Seq(Text)]
        BY <1>3, <1>6, LineTyped, ParsedTyped
    <2>3. AddLine(ParsedTo(body)[e], LineUpTo(body, e))
            = [data |-> IF Dispatches(p) THEN <<>> ELSE p.data,
               events |-> IF Dispatches(p) THEN Append(ParsedTo(body)[e].events, p.data) ELSE ParsedTo(body)[e].events]
        BY <1>2, <2>2, LineAdded
    <2>4. ParsedTo(body)[e].events = events
        BY <1>2, <1>4
    <2>5. data_' \in Text
        BY <1>1, <1>2, <1>3, Whole
    <2>. QED
        BY <1>1, <2>1, <2>3, <2>4, <2>5
<1>8. LineUpTo(body, e + 1) = <<>>
    <2>1. e + 1 \in 0..Len(body)
        BY <1>6
    <2>. QED
        BY <1>2, <1>3, <2>1, LineEmpty
<1>9. HasRead(Parser', <<>>, data_')
    <2>1. Parser' = [state |-> "field", matched |-> 0, data |-> data_']
        BY <1>1 DEF Parser
    <2>. QED
        BY <2>1, NoneRead
<1>10. ASSUME rest' = next, after_cr_' = FALSE \/ (after_cr_' = TRUE /\ next = <<>> /\ body[e + 1] = cr),
              next = <<>> => (after_cr_' <=> body[e + 1] = cr),
              ~(next # <<>> /\ body[e + 1] = cr /\ next[1] = lf)
       PROVE  IInv'
    <2>a. Done' = Len(body) - Len(next)
        BY <1>1, <1>10 DEF Done
    <2>1. Done' = e + 1
        BY <1>2, <1>6, <2>a
    <2>2. TypeOK'
        BY <1>1, <1>3, <1>5, <1>7, <1>10 DEF TypeOK
    <2>3. RestLeft'
        BY <1>1, <1>2, <1>5, <1>10, <2>1 DEF RestLeft
    <2>4. CRLFSkipped'
        BY <1>1, <1>2, <1>10, <2>1 DEF CRLFSkipped
    <2>5. LineSoFar'
        <3>1. ParsedTo(body')[Done'] = ParsedTo(body)[e + 1] /\ LineUpTo(body', Done') = <<>>
            BY <1>1, <1>8, <2>1
        <3>2. ParsedTo(body')[Done'].data = data_' /\ ParsedTo(body')[Done'].events = events'
            BY <1>7, <3>1
        <3>. QED
            BY <1>7, <1>9, <3>1, <3>2 DEF LineSoFar
    <2>. QED
        BY <2>2, <2>3, <2>4, <2>5 DEF IInv
<1>11. CASE body[e + 1] = cr /\ next # <<>> /\ next[1] = lf
    <2>1. /\ rest' \in Text /\ Len(rest') = Len(next) - 1
          /\ \A i \in 1..(Len(next) - 1) : rest'[i] = next[i + 1]
        BY <1>1, <1>2, <1>5, <1>11, SkipIs
    <2>2. Len(next) > 0 /\ 1 \in 1..Len(next)
        BY <1>5, <1>6, <1>11, Whole
    <2>a. Done' = Len(body) - (Len(next) - 1) /\ Len(rest') = Len(next) - 1
        BY <1>1, <2>1 DEF Done
    <2>3. Done' = (e + 1) + 1 /\ Len(rest') \in Nat /\ (e + 1) + 1 <= Len(body) /\ (e + 1) + 1 > 0
        BY <1>2, <1>6, <2>a, <2>2
    <2>4. ~after_cr_' /\ after_cr_' = FALSE /\ body[(e + 1) + 1] = lf
        BY <1>1, <1>5, <1>11, <2>2
    <2>5. ParsedTo(body)[(e + 1) + 1] = ParsedTo(body)[e + 1] /\ LineUpTo(body, (e + 1) + 1) = <<>>
        BY <1>3, <1>6, <1>8, <1>11, <2>3, <2>4, LFSkipped
    <2>6. TypeOK'
        BY <1>1, <1>3, <1>7, <2>1, <2>4 DEF TypeOK
    <2>7. RestLeft'
        <3>1. ASSUME NEW i \in 1..Len(rest') PROVE rest'[i] = body'[Done' + i]
            <4>1. i + 1 \in 1..Len(next) /\ i \in 1..(Len(next) - 1) /\ Done' + i = e + 1 + (i + 1)
                BY <1>2, <1>6, <2>1, <2>3
            <4>. QED
                BY <1>1, <1>5, <2>1, <4>1
        <3>. QED
            BY <2>3, <3>1 DEF RestLeft
    <2>8. CRLFSkipped'
        <3>1. body'[Done'] # cr
            BY <1>1, <2>3, <2>4, CharactersAssumption
        <3>. QED
            BY <2>4, <3>1 DEF CRLFSkipped
    <2>9. LineSoFar'
        <3>1. ParsedTo(body')[Done'] = ParsedTo(body)[e + 1] /\ LineUpTo(body', Done') = <<>>
            BY <1>1, <2>3, <2>5
        <3>2. ParsedTo(body')[Done'].data = data_' /\ ParsedTo(body')[Done'].events = events'
            BY <1>7, <3>1
        <3>. QED
            BY <1>7, <1>9, <3>1, <3>2 DEF LineSoFar
    <2>. QED
        BY <2>6, <2>7, <2>8, <2>9 DEF IInv
<1>12. CASE ~(body[e + 1] = cr /\ next # <<>> /\ next[1] = lf)
    <2>1. rest' = next
        BY <1>1, <1>2, <1>5, <1>12, SkipIs
    <2>2. after_cr_' = (body[e + 1] = cr /\ next = <<>>)
        BY <1>1, <1>2
    <2>. QED
        BY <1>10, <1>12, <2>1, <2>2
<1>. QED
    BY <1>11, <1>12

LEMMA ResetStep == Reset => IInv'
<1>. SUFFICES ASSUME Reset PROVE IInv'
    OBVIOUS
<1>1. Init'
    BY DEF Reset, Init
<1>2. Init' => IInv'
    BY InitEstablishes, PTL
<1>. QED
    BY <1>1, <1>2

\* However its body is split, the parser has what the characters that it has read come
\* to: the events and the data of the lines that have ended, and, of the line it is in,
\* whether that can still be "data:" and the value so far.
THEOREM Invariance == Spec => []IInv
<1>1. IInv /\ UNCHANGED vars => IInv'
    BY DEF vars, IInv, TypeOK, RestLeft, CRLFSkipped, LineSoFar, Done, Parser
<1>2. IInv /\ [Next]_vars => IInv'
    BY <1>1, FeedStep, FeedContentStep, FeedLineStep, ResetStep DEF Next
<1>. QED
    BY <1>2, InitEstablishes, PTL DEF Spec

\* The events of a body, whenever all that has come of it is parsed, are those of the
\* body as a whole: where the reads split it makes no difference, not even within a
\* CRLF, within "data:" or before the space that is dropped.
THEOREM SplitMakesNoDifference == Spec => []EventsMatch
<1>1. IInv => EventsMatch
    <2>. SUFFICES ASSUME IInv, rest = <<>> PROVE events = ParsedTo(body)[Len(body)].events
        BY DEF EventsMatch
    <2>1. Len(rest) = 0 /\ Len(body) \in Nat
        BY DEF IInv, TypeOK, Text
    <2>2. Done = Len(body)
        BY <2>1 DEF Done
    <2>. QED
        BY <2>2 DEF IInv, LineSoFar
<1>. QED
    BY <1>1, Invariance, PTL
=============================================================================
