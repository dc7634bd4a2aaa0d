---------------------------- MODULE ParserProofs ----------------------------
(***************************************************************************)
(* The two walks of parse over a message agree and find the tokens of the  *)
(* message, for every alphabet, every set of command names and messages of *)
(* any length.                                                             *)
(***************************************************************************)
EXTENDS Parser, NaturalFacts, SequenceTheorems, TLAPS

(* Facts about the constants. *)
LEMMA ConstantFacts ==
    /\ NUL \notin Chars /\ Blank \notin Letters /\ Blank \notin Quotes
    /\ Letters \cap Quotes = {} /\ Blank \in Chars /\ Quotes \subseteq Chars
    /\ MaxLength \in Nat /\ NULL \notin Messages
BY ParserAssumption DEF Chars

LEMMA MessageIsSeq ==
    ASSUME NEW m
    PROVE  m \in Messages <=> m \in Seq(Chars) /\ Len(m) <= MaxLength
<1>1. ASSUME m \in Messages PROVE m \in Seq(Chars) /\ Len(m) <= MaxLength
  <2>1. PICK n \in 0 .. MaxLength : m \in [1 .. n -> Chars]
    BY <1>1 DEF Messages
  <2>2. n \in Nat /\ n <= MaxLength
    BY ConstantFacts
  <2>3. m \in Seq(Chars) /\ Len(m) = n
    BY <2>1, <2>2
  <2> QED  BY <2>2, <2>3
<1>2. ASSUME m \in Seq(Chars), Len(m) <= MaxLength PROVE m \in Messages
  <2>1. Len(m) \in 0 .. MaxLength /\ m \in [1 .. Len(m) -> Chars]
    BY <1>2, ConstantFacts
  <2> QED  BY <2>1 DEF Messages
<1> QED  BY <1>1, <1>2

-----------------------------------------------------------------------------
(***************************************************************************)
(* The reading of a message, one character after the other.                *)
(***************************************************************************)
State == [mode : {"between", "plain", "quoted"}, open : Seq(Chars), tokens : Seq(Seq(Chars))]

(* Read, in each mode. *)
LEMMA ReadCases ==
    ASSUME NEW s \in State, NEW c \in Chars
    PROVE  /\ s.mode = "between" /\ c = Blank => Read(s, c) = s
           /\ s.mode = "between" /\ c \in Quotes => Read(s, c) = Inside("quoted", <<>>, s.tokens)
           /\ s.mode = "between" /\ c \in Letters => Read(s, c) = Inside("plain", <<c>>, s.tokens)
           /\ s.mode = "plain" /\ c = Blank => Read(s, c) = Between(Append(s.tokens, s.open))
           /\ s.mode = "quoted" /\ c \in Quotes => Read(s, c) = Between(Append(s.tokens, s.open))
           /\ s.mode = "plain" /\ c # Blank
                  => Read(s, c) = Inside("plain", Append(s.open, c), s.tokens)
           /\ s.mode = "quoted" /\ c \notin Quotes
                  => Read(s, c) = Inside("quoted", Append(s.open, c), s.tokens)
           /\ c = Blank \/ c \in Quotes \/ c \in Letters
<1>1. c = Blank \/ c \in Quotes \/ c \in Letters
  BY DEF Chars
<1>2. "between" # "plain" /\ "between" # "quoted" /\ "plain" # "quoted"
  OBVIOUS
<1> QED  BY <1>1, <1>2, ConstantFacts DEF Read

LEMMA BetweenIs ==
    ASSUME NEW T \in Seq(Seq(Chars))
    PROVE  /\ Between(T) \in State /\ Closed(Between(T)) = T
           /\ Between(T).mode = "between" /\ Between(T).tokens = T
BY DEF Between, Closed, State

LEMMA InsideIs ==
    ASSUME NEW m \in {"plain", "quoted"}, NEW o \in Seq(Chars), NEW T \in Seq(Seq(Chars))
    PROVE  /\ Inside(m, o, T) \in State /\ Closed(Inside(m, o, T)) = Append(T, o)
           /\ Inside(m, o, T).mode = m /\ Inside(m, o, T).open = o
           /\ Inside(m, o, T).tokens = T
BY DEF Inside, Closed, State

(* A character adds a token or none, and every state is one. *)
LEMMA ReadAdds ==
    ASSUME NEW s \in State, NEW c \in Chars
    PROVE  /\ Read(s, c) \in State
           /\ Closed(s) \in Seq(Seq(Chars)) /\ Len(Closed(s)) \in Nat
           /\ Len(Closed(Read(s, c))) \in Len(Closed(s)) .. Len(Closed(s)) + 1
<1>1. /\ s.mode \in {"between", "plain", "quoted"} /\ s.open \in Seq(Chars)
      /\ s.tokens \in Seq(Seq(Chars))
  BY DEF State
<1>2. /\ <<>> \in Seq(Chars) /\ <<c>> \in Seq(Chars) /\ Append(s.open, c) \in Seq(Chars)
      /\ \A t \in Seq(Chars) : /\ Append(s.tokens, t) \in Seq(Seq(Chars))
                               /\ Len(Append(s.tokens, t)) = Len(s.tokens) + 1
      /\ Len(s.tokens) \in Nat
  BY <1>1
<1>3. Closed(s) \in Seq(Seq(Chars)) /\ Len(Closed(s)) \in Nat
  BY <1>1, <1>2 DEF Closed
<1>4. CASE s.mode = "between"
  <2>1. Closed(s) = s.tokens
    BY <1>4 DEF Closed
  <2>2. CASE Read(s, c) = s
    BY <1>3, <2>2
  <2>3. CASE Read(s, c) = Inside("quoted", <<>>, s.tokens)
    <3>1. Read(s, c) \in State /\ Closed(Read(s, c)) = Append(s.tokens, <<>>)
      <4> DEFINE o == <<>>
                 T == s.tokens
                 m == "quoted"
      <4>1. /\ m \in {"plain", "quoted"} /\ o \in Seq(Chars) /\ T \in Seq(Seq(Chars))
            /\ Read(s, c) = Inside(m, o, T)
        BY <1>1, <1>2, <2>3
      <4> HIDE DEF o, T, m
      <4>2. Read(s, c) \in State /\ Closed(Read(s, c)) = Append(T, o)
        BY <4>1, InsideIs
      <4> QED  BY <4>2 DEF o, T
    <3>2. Len(Closed(Read(s, c))) = Len(s.tokens) + 1
      BY <1>1, <1>2, <3>1
    <3>3. Len(Closed(s)) = Len(s.tokens) \/ Len(Closed(s)) = Len(s.tokens) + 1
      BY <1>1, <1>2, <2>1
    <3> HIDE DEF State
    <3> QED  BY <1>2, <1>3, <3>1, <3>2, <3>3
  <2>4. CASE Read(s, c) = Inside("plain", <<c>>, s.tokens)
    <3>1. Read(s, c) \in State /\ Closed(Read(s, c)) = Append(s.tokens, <<c>>)
      <4> DEFINE o == <<c>>
                 T == s.tokens
                 m == "plain"
      <4>1. /\ m \in {"plain", "quoted"} /\ o \in Seq(Chars) /\ T \in Seq(Seq(Chars))
            /\ Read(s, c) = Inside(m, o, T)
        BY <1>1, <1>2, <2>4
      <4> HIDE DEF o, T, m
      <4>2. Read(s, c) \in State /\ Closed(Read(s, c)) = Append(T, o)
        BY <4>1, InsideIs
      <4> QED  BY <4>2 DEF o, T
    <3>2. Len(Closed(Read(s, c))) = Len(s.tokens) + 1
      BY <1>1, <1>2, <3>1
    <3>3. Len(Closed(s)) = Len(s.tokens) \/ Len(Closed(s)) = Len(s.tokens) + 1
      BY <1>1, <1>2, <2>1
    <3> HIDE DEF State
    <3> QED  BY <1>2, <1>3, <3>1, <3>2, <3>3
  <2> QED  BY <1>4, <2>2, <2>3, <2>4, ReadCases
<1>5. CASE s.mode # "between"
  <2>1. Closed(s) = Append(s.tokens, s.open)
    BY <1>5 DEF Closed
  <2>2. CASE Read(s, c) = Between(Append(s.tokens, s.open))
    <3>1. Read(s, c) \in State /\ Closed(Read(s, c)) = Append(s.tokens, s.open)
      BY <1>1, <1>2, <2>2, BetweenIs
    <3>2. Len(Closed(Read(s, c))) = Len(s.tokens) + 1
      BY <1>1, <1>2, <3>1
    <3>3. Len(Closed(s)) = Len(s.tokens) \/ Len(Closed(s)) = Len(s.tokens) + 1
      BY <1>1, <1>2, <2>1
    <3> HIDE DEF State
    <3> QED  BY <1>2, <1>3, <3>1, <3>2, <3>3
  <2>3. CASE Read(s, c) = Inside(s.mode, Append(s.open, c), s.tokens)
    <3>1. Read(s, c) \in State /\ Closed(Read(s, c)) = Append(s.tokens, Append(s.open, c))
      <4> DEFINE o == Append(s.open, c)
                 T == s.tokens
                 m == s.mode
      <4>1. /\ m \in {"plain", "quoted"} /\ o \in Seq(Chars) /\ T \in Seq(Seq(Chars))
            /\ Read(s, c) = Inside(m, o, T)
        BY <1>1, <1>2, <1>5, <2>3
      <4> HIDE DEF o, T, m
      <4>2. Read(s, c) \in State /\ Closed(Read(s, c)) = Append(T, o)
        BY <4>1, InsideIs
      <4> QED  BY <4>2 DEF o, T
    <3>2. Len(Closed(Read(s, c))) = Len(s.tokens) + 1
      BY <1>1, <1>2, <3>1
    <3>3. Len(Closed(s)) = Len(s.tokens) \/ Len(Closed(s)) = Len(s.tokens) + 1
      BY <1>1, <1>2, <2>1
    <3> HIDE DEF State
    <3> QED  BY <1>2, <1>3, <3>1, <3>2, <3>3
  <2> QED  BY <1>1, <1>5, <2>2, <2>3, ReadCases
<1> QED  BY <1>3, <1>4, <1>5

(* w is the state after each number of characters of the message m. *)
Follows(w, m) ==
    /\ w[0] = Between(<<>>)
    /\ \A n \in 1 .. Len(m) : w[n] = Read(w[n - 1], m[n])

(* The recursion of Reading has a solution. *)
LEMMA ReadingFollows ==
    ASSUME NEW m \in Messages
    PROVE  Follows(Reading(m), m)
<1> DEFINE Extends(f, k) ==
               f = [n \in 0 .. k |-> IF n = 0 THEN Between(<<>>) ELSE Read(f[n - 1], m[n])]
           K == {k \in Nat : \E f : Extends(f, k)}
<1>1. Len(m) \in Nat
  BY MessageIsSeq
<1>2. 0 \in K
  <2> DEFINE g == [n \in 0 .. 0 |-> Between(<<>>)]
  <2>1. Extends(g, 0)
    OBVIOUS
  <2> QED  BY <2>1
<1>3. ASSUME NEW k \in Nat, k \in K PROVE k + 1 \in K
  <2>1. PICK f : Extends(f, k)
    BY <1>3
  <2> DEFINE g == [n \in 0 .. k + 1 |->
                      IF n = 0 THEN Between(<<>>) ELSE Read(f[n - 1], m[n])]
  <2>2. \A n \in 0 .. k : g[n] = f[n]
    BY <2>1
  <2>3. \A n \in 0 .. k + 1 : n # 0 => g[n - 1] = f[n - 1]
    <3> HIDE DEF g
    <3> QED  BY <2>2
  <2>4. Extends(g, k + 1)
    BY <2>3
  <2>5. \E h : Extends(h, k + 1)
    <3> HIDE DEF g
    <3> QED  BY <2>4
  <2> QED  BY <2>5
<1>4. Nat \subseteq K
  <2> HIDE DEF K
  <2> QED  BY <1>2, <1>3, SetInduction
<1>5. PICK f : Extends(f, Len(m))
  BY <1>1, <1>4
<1>6. Extends(Reading(m), Len(m))
  BY <1>5 DEF Reading
<1> DEFINE w == Reading(m)
<1>7. w = [n \in 0 .. Len(m) |-> IF n = 0 THEN Between(<<>>) ELSE Read(w[n - 1], m[n])]
  BY <1>6
<1> HIDE DEF w
<1>8. w[0] = Between(<<>>) /\ \A n \in 1 .. Len(m) : w[n] = Read(w[n - 1], m[n])
  BY <1>1, <1>7
<1> QED  BY <1>8 DEF Follows, w

(* Every state of the reading is one, and the tokens only become more. *)
LEMMA ReadingStates ==
    ASSUME NEW m \in Messages, NEW w, Follows(w, m)
    PROVE  \A n \in 0 .. Len(m) :
               /\ w[n] \in State /\ Closed(w[n]) \in Seq(Seq(Chars))
               /\ Len(Closed(w[n])) \in 0 .. n
<1>1. Len(m) \in Nat /\ m \in Seq(Chars) /\ \A n \in 1 .. Len(m) : m[n] \in Chars
  BY MessageIsSeq
<1> DEFINE Fine(n) == /\ w[n] \in State /\ Closed(w[n]) \in Seq(Seq(Chars))
                      /\ Len(Closed(w[n])) \in 0 .. n
           K == {n \in Nat : n <= Len(m) => Fine(n)}
<1>2. 0 \in K
  <2>1. <<>> \in Seq(Seq(Chars)) /\ Len(<<>>) = 0
    OBVIOUS
  <2>2. w[0] = Between(<<>>)
    BY DEF Follows
  <2>3. w[0] \in State /\ Closed(w[0]) = <<>>
    BY <2>1, <2>2, BetweenIs
  <2>4. Len(Closed(w[0])) \in 0 .. 0
    BY <2>1, <2>3
  <2>5. Fine(0)
    BY <2>1, <2>3, <2>4
  <2> HIDE DEF Fine
  <2> QED  BY <2>5
<1>3. ASSUME NEW n \in Nat, n \in K PROVE n + 1 \in K
  <2> SUFFICES ASSUME n + 1 <= Len(m) PROVE Fine(n + 1)
    OBVIOUS
  <2>1. Fine(n) /\ n + 1 \in 1 .. Len(m) /\ (n + 1) - 1 = n
    BY <1>1, <1>3
  <2>2. w[n + 1] = Read(w[n], m[n + 1]) /\ m[n + 1] \in Chars
    BY <1>1, <2>1 DEF Follows
  <2>3. w[n + 1] \in State /\ Len(Closed(w[n + 1])) \in Len(Closed(w[n])) .. Len(Closed(w[n])) + 1
    BY <2>1, <2>2, ReadAdds
  <2>4. Closed(w[n + 1]) \in Seq(Seq(Chars))
    <3> DEFINE c == m[n + 1]
    <3> HIDE DEF c
    <3> QED  BY <2>2, <2>3, ReadAdds
  <2> QED  BY <2>1, <2>3, <2>4
<1>4. Nat \subseteq K
  <2> HIDE DEF K
  <2> QED  BY <1>2, <1>3, SetInduction
<1> QED  BY <1>1, <1>4

LEMMA ReadingGrows ==
    ASSUME NEW m \in Messages, NEW w, Follows(w, m),
           NEW p \in 0 .. Len(m), NEW q \in p .. Len(m)
    PROVE  Len(Closed(w[p])) <= Len(Closed(w[q]))
<1>1. Len(m) \in Nat /\ m \in Seq(Chars) /\ \A n \in 1 .. Len(m) : m[n] \in Chars
  BY MessageIsSeq
<1>2. \A n \in 0 .. Len(m) : w[n] \in State /\ Len(Closed(w[n])) \in Nat
  BY <1>1, ReadingStates
<1> DEFINE K == {n \in Nat : p + n <= Len(m) => Len(Closed(w[p])) <= Len(Closed(w[p + n]))}
<1>3. 0 \in K
  BY <1>2
<1>4. ASSUME NEW n \in Nat, n \in K PROVE n + 1 \in K
  <2> SUFFICES ASSUME p + (n + 1) <= Len(m)
               PROVE  Len(Closed(w[p])) <= Len(Closed(w[p + (n + 1)]))
    OBVIOUS
  <2> DEFINE r == p + n
  <2>1. /\ r \in 0 .. Len(m) /\ r + 1 \in 1 .. Len(m) /\ (r + 1) - 1 = r
        /\ p + (n + 1) = r + 1 /\ Len(Closed(w[p])) <= Len(Closed(w[r]))
    BY <1>1, <1>4
  <2> HIDE DEF r
  <2>2. w[r + 1] = Read(w[r], m[r + 1]) /\ m[r + 1] \in Chars /\ w[r] \in State
    BY <1>1, <1>2, <2>1 DEF Follows
  <2>3. Len(Closed(w[r + 1])) \in Len(Closed(w[r])) .. Len(Closed(w[r])) + 1
    BY <2>2, ReadAdds
  <2>4. /\ Len(Closed(w[p])) \in Nat /\ Len(Closed(w[r])) \in Nat
        /\ Len(Closed(w[r + 1])) \in Nat
    BY <1>1, <1>2, <2>1
  <2> QED  BY <2>1, <2>3, <2>4
<1>5. Nat \subseteq K
  <2> HIDE DEF K
  <2> QED  BY <1>3, <1>4, SetInduction
<1>6. q - p \in Nat /\ p + (q - p) = q
  BY <1>1
<1> QED  BY <1>1, <1>5, <1>6

-----------------------------------------------------------------------------
(***************************************************************************)
(* What the loops of the parser find.                                      *)
(***************************************************************************)
LEMMA StopIs ==
    ASSUME string \in Messages, NEW p \in 0 .. Len(string), NEW S
    PROVE  /\ StopAt(p, S) \in p .. Len(string)
           /\ StopAt(p, S) = Len(string) \/ CharAt(StopAt(p, S)) \in S
           /\ \A r \in p .. (StopAt(p, S) - 1) : CharAt(r) \notin S
<1>1. Len(string) \in Nat
  BY MessageIsSeq
<1> DEFINE n == Len(string)
           Ends(q) == q = n \/ CharAt(q) \in S
           Q == {q \in p .. n : Ends(q)}
<1>2. PICK q \in Q : \A r \in Q : q <= r
  <2>1. Q \subseteq Nat /\ n \in Q
    BY <1>1
  <2> HIDE DEF Q
  <2> QED  BY <2>1, LeastNatural
<1>3. q \in p .. n /\ Ends(q)
  OBVIOUS
<1>4. \A r \in p .. (q - 1) : CharAt(r) \notin S
  <2> SUFFICES ASSUME NEW r \in p .. (q - 1), CharAt(r) \in S PROVE FALSE
    OBVIOUS
  <2>1. r \in Q
    BY <1>1, <1>3
  <2> QED  BY <1>2, <1>3, <2>1
<1>5. \E r \in p .. n : /\ r = n \/ CharAt(r) \in S
                        /\ \A k \in p .. (r - 1) : CharAt(k) \notin S
  BY <1>3, <1>4
<1> QED  BY <1>5 DEF StopAt

LEMMA SubSeqIs ==
    ASSUME NEW m \in Seq(Chars), NEW f \in 0 .. Len(m), NEW a \in f .. Len(m)
    PROVE  /\ SubSeq(m, f + 1, a) \in Seq(Chars)
           /\ Len(SubSeq(m, f + 1, a)) = a - f
           /\ a = f => SubSeq(m, f + 1, a) = <<>>
           /\ a = f + 1 => SubSeq(m, f + 1, a) = <<m[a]>>
           /\ a < Len(m) => SubSeq(m, f + 1, a + 1) = Append(SubSeq(m, f + 1, a), m[a + 1])
<1>1. /\ Len(m) \in Nat /\ f \in Nat /\ a \in Nat /\ f <= a /\ a <= Len(m)
      /\ \A i \in 1 .. Len(m) : m[i] \in Chars
  OBVIOUS
<1>2. SubSeq(m, f + 1, a) \in Seq(Chars) /\ Len(SubSeq(m, f + 1, a)) = a - f
  <2>1. f + 1 \in Int /\ a \in Int /\ \A i \in f + 1 .. a : m[i] \in Chars
    BY <1>1
  <2>2. /\ SubSeq(m, f + 1, a) \in Seq(Chars)
        /\ Len(SubSeq(m, f + 1, a)) = IF f + 1 <= a THEN a - (f + 1) + 1 ELSE 0
    BY <2>1, SubSeqProperties
  <2> QED  BY <1>1, <2>2
<1>3. a = f => SubSeq(m, f + 1, a) = <<>>
  BY <1>1, <1>2, EmptySeq
<1>4. a < Len(m) => SubSeq(m, f + 1, a + 1) = Append(SubSeq(m, f + 1, a), m[a + 1])
  <2> SUFFICES ASSUME a < Len(m)
               PROVE  SubSeq(m, f + 1, a + 1) = Append(SubSeq(m, f + 1, a), m[a + 1])
    OBVIOUS
  <2> DEFINE g == f + 1
             b == a + 1
  <2>1. g \in 1 .. Len(m) /\ b \in g .. Len(m) /\ b - 1 = a
    BY <1>1
  <2>2. SubSeq(m, g, b) = SubSeq(m, g, b - 1) \o <<m[b]>>
    <3> HIDE DEF g, b
    <3> QED  BY <2>1, SubSeqRecursiveSecond
  <2>3. m[b] \in Chars
    BY <1>1, <2>1
  <2>4. Append(SubSeq(m, f + 1, a), m[b]) = SubSeq(m, f + 1, a) \o <<m[b]>>
    BY <1>2, <2>3, AppendIsConcat
  <2> QED  BY <2>1, <2>2, <2>4
<1>5. a = f + 1 => SubSeq(m, f + 1, a) = <<m[a]>>
  <2> SUFFICES ASSUME a = f + 1 PROVE SubSeq(m, f + 1, a) = <<m[a]>>
    OBVIOUS
  <2>1. a \in 1 .. Len(m) /\ a \in a .. Len(m) /\ a - 1 < a /\ a - 1 \in Int /\ a \in Int
    BY <1>1
  <2>2. SubSeq(m, a, a) = SubSeq(m, a, a - 1) \o <<m[a]>>
    BY <2>1, SubSeqRecursiveSecond
  <2>3. SubSeq(m, a, a - 1) = <<>>
    BY <2>1, SubSeqEmpty
  <2>4. <<m[a]>> \in Seq(Chars)
    BY <1>1, <2>1
  <2>5. <<>> \o <<m[a]>> = <<m[a]>>
    BY <2>4, ConcatEmptySeq
  <2> QED  BY <2>2, <2>3, <2>5
<1> QED  BY <1>2, <1>3, <1>4, <1>5

(* A character that goes on with a token in the given mode. *)
GoesOn(mode, c) == IF mode = "plain" THEN c # Blank ELSE c \notin Quotes

(* Inside a token the reading collects the characters. *)
LEMMA Run ==
    ASSUME string \in Messages, NEW w, Follows(w, string),
           NEW mode \in {"plain", "quoted"}, NEW T \in Seq(Seq(Chars)),
           NEW f \in 0 .. Len(string), NEW a \in f .. Len(string), NEW b \in a .. Len(string),
           w[a] = Inside(mode, SubSeq(string, f + 1, a), T),
           \A r \in a .. (b - 1) : GoesOn(mode, string[r + 1])
    PROVE  w[b] = Inside(mode, SubSeq(string, f + 1, b), T)
<1>1. /\ Len(string) \in Nat /\ string \in Seq(Chars)
      /\ \A n \in 1 .. Len(string) : string[n] \in Chars
  BY MessageIsSeq
<1> DEFINE Fine(r) == w[r] = Inside(mode, SubSeq(string, f + 1, r), T)
           K == {n \in Nat : a + n <= b => Fine(a + n)}
<1>2. 0 \in K
  <2>1. a + 0 = a
    BY <1>1
  <2> QED  BY <2>1
<1>3. ASSUME NEW n \in Nat, n \in K PROVE n + 1 \in K
  <2> SUFFICES ASSUME a + (n + 1) <= b PROVE Fine(a + (n + 1))
    OBVIOUS
  <2> DEFINE r == a + n
  <2>1. /\ r \in f .. Len(string) /\ r < Len(string) /\ r + 1 \in 1 .. Len(string)
        /\ (r + 1) - 1 = r /\ a + (n + 1) = r + 1 /\ r \in a .. (b - 1) /\ Fine(r)
    BY <1>1, <1>3
  <2> HIDE DEF r
  <2>2. /\ w[r + 1] = Read(w[r], string[r + 1]) /\ string[r + 1] \in Chars
        /\ GoesOn(mode, string[r + 1])
    BY <1>1, <2>1 DEF Follows
  <2> DEFINE o == SubSeq(string, f + 1, r)
             c == string[r + 1]
  <2>3. o \in Seq(Chars) /\ SubSeq(string, f + 1, r + 1) = Append(o, c)
    BY <1>1, <2>1, SubSeqIs
  <2> HIDE DEF o
  <2>4. /\ w[r] = Inside(mode, o, T) /\ w[r] \in State
        /\ w[r].mode = mode /\ w[r].open = o /\ w[r].tokens = T
    <3>1. w[r] = Inside(mode, o, T)
      BY <2>1 DEF o
    <3> QED  BY <2>3, <3>1, InsideIs
  <2>5. Read(w[r], c) = Inside(mode, Append(o, c), T)
    <3> HIDE DEF c
    <3>1. c \in Chars /\ GoesOn(mode, c)
      BY <2>2 DEF c
    <3>2. CASE mode = "plain"
      BY <2>4, <3>1, <3>2, ReadCases DEF GoesOn
    <3>3. CASE mode = "quoted"
      BY <2>4, <3>1, <3>3, ReadCases DEF GoesOn
    <3> QED  BY <3>2, <3>3
  <2> QED  BY <2>1, <2>2, <2>3, <2>5
<1>4. Nat \subseteq K
  <2> HIDE DEF K
  <2> QED  BY <1>2, <1>3, SetInduction
<1>5. \A n \in Nat : a + n <= b => Fine(a + n)
  BY <1>4
<1>6. PICK d \in Nat : a + d = b
  <2>1. b - a \in Nat /\ a + (b - a) = b
    BY <1>1
  <2> QED  BY <2>1
<1> HIDE DEF Fine
<1>7. Fine(b)
  <2>1. a + d <= b
    BY <1>1, <1>6
  <2>2. Fine(a + d)
    BY <1>5, <2>1
  <2> QED  BY <1>6, <2>2
<1> QED  BY <1>7 DEF Fine

(***************************************************************************)
(* Between two tokens.  There the parser is after every token it returns:  *)
(* a name may still be open, but then a blank follows.                     *)
(***************************************************************************)
Boundary(w, p) ==
    /\ p \in 0 .. Len(string)
    /\ \/ w[p].mode = "between"
       \/ p = Len(string)
       \/ w[p].mode = "plain" /\ string[p + 1] = Blank

(* A walk of get_next_token from p either takes the next token of the        *)
(* message, or there is none.                                                *)
Advances(w, p, t) ==
    \/ /\ t.token = NULL /\ t.pos = Len(string)
       /\ Closed(w[Len(string)]) = Closed(w[p])
    \/ /\ t.token \in Messages /\ t.token \in Seq(Chars) /\ Boundary(w, t.pos)
       /\ Closed(w[t.pos]) = Append(Closed(w[p]), t.token)

LEMMA BlankEnds ==
    ASSUME NEW s \in State, s.mode \in {"between", "plain"}
    PROVE  Read(s, Blank).mode = "between" /\ Read(s, Blank).tokens = Closed(s)
<1>1. s.open \in Seq(Chars) /\ s.tokens \in Seq(Seq(Chars))
  BY DEF State
<1>2. CASE s.mode = "between"
  BY <1>2, ReadCases, ConstantFacts DEF Closed
<1>3. CASE s.mode = "plain"
  <2> DEFINE T == Append(s.tokens, s.open)
  <2>1. T \in Seq(Seq(Chars)) /\ Closed(s) = T
    BY <1>1, <1>3 DEF Closed
  <2>2. Read(s, Blank) = Between(T)
    BY <1>3, ReadCases, ConstantFacts
  <2> HIDE DEF T
  <2> QED  BY <2>1, <2>2, BetweenIs
<1> QED  BY <1>2, <1>3

(* Blanks end an open name and change nothing else. *)
LEMMA Blanks ==
    ASSUME string \in Messages, NEW w, Follows(w, string),
           NEW p, Boundary(w, p), NEW q \in p .. Len(string), p < q,
           \A r \in p .. (q - 1) : string[r + 1] = Blank
    PROVE  w[q].mode = "between" /\ w[q].tokens = Closed(w[p])
<1>1. Len(string) \in Nat /\ p \in 0 .. Len(string) /\ p + 1 \in 1 .. Len(string)
  BY MessageIsSeq DEF Boundary
<1>2. \A n \in 0 .. Len(string) : w[n] \in State
  BY ReadingStates
<1> DEFINE Fine(r) == w[r].mode = "between" /\ w[r].tokens = Closed(w[p])
           K == {n \in Nat : p + (n + 1) <= q => Fine(p + (n + 1))}
<1>3. 0 \in K
  <2>1. w[p].mode \in {"between", "plain"}
    BY <1>1 DEF Boundary
  <2>2. w[p + 1] = Read(w[p], Blank) /\ w[p] \in State
    <3>1. string[p + 1] = Blank /\ (p + 1) - 1 = p
      BY <1>1
    <3> QED  BY <1>1, <1>2, <3>1 DEF Follows
  <2>3. Fine(p + 1) /\ p + (0 + 1) = p + 1
    BY <1>1, <2>1, <2>2, BlankEnds
  <2> HIDE DEF Fine
  <2> QED  BY <2>3
<1>4. ASSUME NEW n \in Nat, n \in K PROVE n + 1 \in K
  <2> SUFFICES ASSUME p + ((n + 1) + 1) <= q PROVE Fine(p + ((n + 1) + 1))
    OBVIOUS
  <2> DEFINE r == p + (n + 1)
  <2>1. /\ r \in p .. (q - 1) /\ r \in 0 .. Len(string) /\ r + 1 \in 1 .. Len(string)
        /\ (r + 1) - 1 = r /\ p + ((n + 1) + 1) = r + 1 /\ Fine(r)
    BY <1>1, <1>4
  <2> HIDE DEF r
  <2>2. w[r + 1] = Read(w[r], Blank) /\ w[r] \in State
    <3>1. string[r + 1] = Blank
      BY <2>1
    <3> QED  BY <1>2, <2>1, <3>1 DEF Follows
  <2>3. w[r + 1].mode = "between" /\ w[r + 1].tokens = Closed(w[r])
    BY <2>1, <2>2, BlankEnds
  <2>4. Closed(w[r]) = Closed(w[p])
    BY <2>1 DEF Closed
  <2> QED  BY <2>1, <2>3, <2>4
<1>5. Nat \subseteq K
  <2> HIDE DEF K
  <2> QED  BY <1>3, <1>4, SetInduction
<1>6. \A n \in Nat : p + (n + 1) <= q => Fine(p + (n + 1))
  BY <1>5
<1>7. PICK d \in Nat : p + (d + 1) = q
  <2>1. q - p - 1 \in Nat /\ p + ((q - p - 1) + 1) = q
    BY <1>1
  <2> QED  BY <2>1
<1> HIDE DEF Fine
<1>8. Fine(q)
  <2>1. p + (d + 1) <= q
    BY <1>1, <1>7
  <2>2. Fine(p + (d + 1))
    BY <1>6, <2>1
  <2> QED  BY <1>7, <2>2
<1> QED  BY <1>8 DEF Fine

LEMMA CharIs ==
    ASSUME string \in Messages, NEW p \in 0 .. Len(string)
    PROVE  /\ p < Len(string) => CharAt(p) = string[p + 1] /\ CharAt(p) \in Chars
           /\ p = Len(string) => CharAt(p) = NUL
<1>1. Len(string) \in Nat /\ \A n \in 1 .. Len(string) : string[n] \in Chars
  BY MessageIsSeq
<1>2. p < Len(string) => p + 1 \in 1 .. Len(string)
  BY <1>1
<1> QED  BY <1>1, <1>2 DEF CharAt

(* A part of a message is a message. *)
LEMMA PartIsMessage ==
    ASSUME string \in Messages, NEW f \in 0 .. Len(string), NEW b \in f .. Len(string)
    PROVE  SubSeq(string, f + 1, b) \in Messages /\ SubSeq(string, f + 1, b) \in Seq(Chars)
<1>1. Len(string) \in Nat /\ string \in Seq(Chars) /\ Len(string) <= MaxLength
  BY MessageIsSeq
<1>2. SubSeq(string, f + 1, b) \in Seq(Chars) /\ Len(SubSeq(string, f + 1, b)) = b - f
  BY <1>1, SubSeqIs
<1>3. b - f <= MaxLength
  BY <1>1, ConstantFacts
<1> QED  BY <1>2, <1>3, MessageIsSeq

(* A name: up to a blank or to the end. *)
LEMMA NameIsToken ==
    ASSUME string \in Messages, NEW w, Follows(w, string),
           NEW q \in 0 .. Len(string), q < Len(string), w[q].mode = "between",
           CharAt(q) \in Letters
    PROVE  /\ parse_id(q).token \in Messages /\ parse_id(q).token \in Seq(Chars)
           /\ Boundary(w, parse_id(q).pos)
           /\ Closed(w[parse_id(q).pos]) = Append(w[q].tokens, parse_id(q).token)
<1>1. /\ Len(string) \in Nat /\ string \in Seq(Chars) /\ q + 1 \in 1 .. Len(string)
      /\ (q + 1) - 1 = q
  BY MessageIsSeq
<1>2. w[q] \in State /\ w[q].tokens \in Seq(Seq(Chars))
  BY ReadingStates DEF State
<1>3. string[q + 1] \in Letters /\ string[q + 1] \in Chars /\ CharAt(q) # Blank
  BY CharIs, ConstantFacts
<1> DEFINE r == StopAt(q, {Blank})
           o == SubSeq(string, q + 1, r)
           T == w[q].tokens
<1>4. /\ r \in q .. Len(string)
      /\ r = Len(string) \/ CharAt(r) \in {Blank}
      /\ \A k \in q .. (r - 1) : CharAt(k) \notin {Blank}
  BY StopIs
<1>5. parse_id(q) = [token |-> o, pos |-> r]
  BY DEF parse_id, Found
<1> HIDE DEF r
<1>6. r \in (q + 1) .. Len(string) /\ r \in 0 .. Len(string) /\ q + 1 \in q .. Len(string)
  BY <1>1, <1>3, <1>4
<1>7. w[q + 1] = Inside("plain", SubSeq(string, q + 1, q + 1), T)
  <2>1. SubSeq(string, q + 1, q + 1) = <<string[q + 1]>>
    BY <1>1, <1>6, SubSeqIs
  <2>2. w[q + 1] = Read(w[q], string[q + 1])
    BY <1>1 DEF Follows
  <2>3. Read(w[q], string[q + 1]) = Inside("plain", <<string[q + 1]>>, T)
    BY <1>2, <1>3, ReadCases
  <2> QED  BY <2>1, <2>2, <2>3
<1>8. \A k \in (q + 1) .. (r - 1) : GoesOn("plain", string[k + 1])
  <2> SUFFICES ASSUME NEW k \in (q + 1) .. (r - 1) PROVE string[k + 1] # Blank
    BY DEF GoesOn
  <2>1. k \in q .. (r - 1) /\ k \in 0 .. Len(string) /\ k < Len(string)
    BY <1>1, <1>6
  <2> QED  BY <1>4, <2>1, CharIs
<1>9. w[r] = Inside("plain", o, T)
  <2> DEFINE a == q + 1
  <2>1. a \in q .. Len(string) /\ r \in a .. Len(string) /\ "plain" \in {"plain", "quoted"}
    BY <1>6
  <2>2. w[a] = Inside("plain", SubSeq(string, q + 1, a), T)
    BY <1>7
  <2>3. \A k \in a .. (r - 1) : GoesOn("plain", string[k + 1])
    BY <1>8
  <2> HIDE DEF a, T
  <2>4. T \in Seq(Seq(Chars))
    BY <1>2 DEF T
  <2> QED  BY <2>1, <2>2, <2>3, <2>4, Run
<1>10. o \in Messages /\ o \in Seq(Chars)
  BY <1>4, PartIsMessage
<1>11. Closed(w[r]) = Append(T, o) /\ w[r].mode = "plain"
  <2> HIDE DEF o, T
  <2>1. T \in Seq(Seq(Chars)) /\ "plain" \in {"plain", "quoted"}
    BY <1>2 DEF T
  <2> QED  BY <1>9, <1>10, <2>1, InsideIs
<1>12. Boundary(w, r)
  <2>1. r < Len(string) => string[r + 1] = Blank
    BY <1>1, <1>4, <1>6, CharIs
  <2> QED  BY <1>1, <1>6, <1>11, <2>1 DEF Boundary
<1> HIDE DEF o, T
<1>13. parse_id(q).token = o /\ parse_id(q).pos = r
  BY <1>5
<1> QED  BY <1>10, <1>11, <1>12, <1>13 DEF T

(* A token in quotes: to the next quote or to the end. *)
LEMMA QuotedIsToken ==
    ASSUME string \in Messages, NEW w, Follows(w, string),
           NEW q \in 0 .. Len(string), q < Len(string), w[q].mode = "between",
           CharAt(q) \in Quotes
    PROVE  /\ parse_string(q).token \in Messages /\ parse_string(q).token \in Seq(Chars)
           /\ Boundary(w, parse_string(q).pos)
           /\ Closed(w[parse_string(q).pos]) = Append(w[q].tokens, parse_string(q).token)
<1>1. /\ Len(string) \in Nat /\ string \in Seq(Chars) /\ q + 1 \in 1 .. Len(string)
      /\ (q + 1) - 1 = q /\ q + 1 \in 0 .. Len(string)
  BY MessageIsSeq
<1>2. w[q] \in State /\ w[q].tokens \in Seq(Seq(Chars))
  BY ReadingStates DEF State
<1>3. string[q + 1] \in Quotes /\ string[q + 1] \in Chars
  BY CharIs, ConstantFacts
<1> DEFINE a == q + 1
           r == StopAt(a, Quotes)
           o == SubSeq(string, a + 1, r)
           T == w[q].tokens
<1>4. /\ r \in a .. Len(string)
      /\ r = Len(string) \/ CharAt(r) \in Quotes
      /\ \A k \in a .. (r - 1) : CharAt(k) \notin Quotes
  BY <1>1, StopIs
<1>5. parse_string(q) = [token |-> o, pos |-> parser_advance(r)]
  BY DEF parse_string, Found, parser_advance
<1>6. /\ a \in 0 .. Len(string) /\ r \in 0 .. Len(string) /\ a \in Nat
      /\ a \in a .. Len(string)
  BY <1>1, <1>4
<1>7. w[a] = Inside("quoted", SubSeq(string, a + 1, a), T)
  <2>1. SubSeq(string, a + 1, a) = <<>>
    <3> HIDE DEF a
    <3> QED  BY <1>1, <1>6, SubSeqIs
  <2>2. w[a] = Read(w[q], string[q + 1])
    BY <1>1 DEF Follows
  <2>3. Read(w[q], string[q + 1]) = Inside("quoted", <<>>, T)
    BY <1>2, <1>3, ReadCases
  <2> QED  BY <2>1, <2>2, <2>3
<1> HIDE DEF a, r
<1>8. \A k \in a .. (r - 1) : GoesOn("quoted", string[k + 1])
  <2> SUFFICES ASSUME NEW k \in a .. (r - 1) PROVE string[k + 1] \notin Quotes
    BY DEF GoesOn
  <2>1. k \in 0 .. Len(string) /\ k < Len(string)
    BY <1>1, <1>6
  <2> QED  BY <1>4, <2>1, CharIs
<1>9. w[r] = Inside("quoted", o, T)
  <2> HIDE DEF T
  <2>1. T \in Seq(Seq(Chars)) /\ "quoted" \in {"plain", "quoted"}
    BY <1>2 DEF T
  <2> QED  BY <1>4, <1>6, <1>7, <1>8, <2>1, Run
<1>10. o \in Messages /\ o \in Seq(Chars)
  BY <1>4, <1>6, PartIsMessage
<1> HIDE DEF o
<1>11. Closed(w[r]) = Append(T, o) /\ w[r].mode = "quoted" /\ w[r].open = o /\ w[r].tokens = T
  <2> HIDE DEF T
  <2>1. T \in Seq(Seq(Chars)) /\ "quoted" \in {"plain", "quoted"}
    BY <1>2 DEF T
  <2> QED  BY <1>9, <1>10, <2>1, InsideIs
<1>12. Boundary(w, parser_advance(r)) /\ Closed(w[parser_advance(r)]) = Append(T, o)
  <2>1. CASE r = Len(string)
    <3>1. parser_advance(r) = r
      BY <1>1, <2>1 DEF parser_advance
    <3> QED  BY <1>6, <1>11, <2>1, <3>1 DEF Boundary
  <2>2. CASE r # Len(string)
    <3>1. /\ r < Len(string) /\ parser_advance(r) = r + 1 /\ r + 1 \in 1 .. Len(string)
          /\ (r + 1) - 1 = r /\ r + 1 \in 0 .. Len(string)
      BY <1>1, <1>6, <2>2 DEF parser_advance
    <3>2. string[r + 1] \in Quotes /\ string[r + 1] \in Chars
      BY <1>4, <1>6, <2>2, <3>1, CharIs
    <3>3. w[r + 1] = Read(w[r], string[r + 1]) /\ w[r] \in State
      BY <1>6, <3>1, ReadingStates DEF Follows
    <3> DEFINE U == Append(T, o)
    <3>4. w[r + 1] = Between(U)
      BY <1>11, <3>2, <3>3, ReadCases
    <3>5. U \in Seq(Seq(Chars))
      BY <1>2, <1>10
    <3> HIDE DEF U
    <3>6. Closed(w[r + 1]) = U /\ w[r + 1].mode = "between"
      BY <3>4, <3>5, BetweenIs
    <3> QED  BY <3>1, <3>6 DEF Boundary, U
  <2> QED  BY <2>1, <2>2
<1>13. parse_string(q).token = o /\ parse_string(q).pos = parser_advance(r)
  BY <1>5
<1> QED  BY <1>10, <1>12, <1>13 DEF T

(* The parser takes the tokens of the message, one after the other. *)
LEMMA NextToken ==
    ASSUME string \in Messages, NEW w, Follows(w, string), NEW p, Boundary(w, p)
    PROVE  Advances(w, p, get_next_token(p))
<1>1. Len(string) \in Nat /\ p \in 0 .. Len(string)
  BY MessageIsSeq DEF Boundary
<1> DEFINE q == StopAt(p, Chars \ {Blank})
           n == Len(string)
<1>2. /\ q \in p .. n
      /\ q = n \/ CharAt(q) \in Chars \ {Blank}
      /\ \A r \in p .. (q - 1) : CharAt(r) \notin Chars \ {Blank}
  BY <1>1, StopIs
<1>3. get_next_token(p) = IF CharAt(q) = NUL THEN [token |-> NULL, pos |-> q]
                          ELSE IF CharAt(q) \in Quotes THEN parse_string(q)
                          ELSE parse_id(q)
  BY DEF get_next_token
<1> HIDE DEF q
<1>4. q \in 0 .. n /\ \A r \in p .. (q - 1) : string[r + 1] = Blank
  <2> SUFFICES ASSUME NEW r \in p .. (q - 1) PROVE string[r + 1] = Blank
    BY <1>1, <1>2
  <2>1. r \in 0 .. n /\ r < n
    BY <1>1, <1>2
  <2> QED  BY <1>2, <2>1, CharIs
<1>5. p < q => w[q].mode = "between" /\ w[q].tokens = Closed(w[p])
  BY <1>2, <1>4, Blanks
<1>6. CASE q = n
  <2>1. get_next_token(p) = [token |-> NULL, pos |-> n]
    BY <1>3, <1>4, <1>6, CharIs
  <2>2. Closed(w[n]) = Closed(w[p])
    <3>1. CASE p = q
      BY <1>6, <3>1
    <3>2. CASE p < q
      BY <1>5, <1>6, <3>2 DEF Closed
    <3> QED  BY <1>1, <1>2, <3>1, <3>2
  <2> QED  BY <2>1, <2>2 DEF Advances
<1>7. CASE q # n
  <2>1. q < n /\ CharAt(q) = string[q + 1] /\ CharAt(q) \in Chars /\ CharAt(q) # Blank
        /\ CharAt(q) # NUL
    <3>1. q < n
      BY <1>1, <1>4, <1>7
    <3> QED  BY <1>2, <1>4, <1>7, <3>1, CharIs, ConstantFacts
  <2>2. w[q].mode = "between" /\ w[q].tokens = Closed(w[p])
    <3>1. CASE p = q
      BY <1>7, <2>1, <3>1 DEF Boundary, Closed
    <3>2. CASE p < q
      BY <1>5, <3>2
    <3> QED  BY <1>1, <1>2, <3>1, <3>2
  <2>3. CASE CharAt(q) \in Quotes
    <3>1. get_next_token(p) = parse_string(q)
      BY <1>3, <2>1, <2>3
    <3> QED  BY <1>4, <2>1, <2>2, <2>3, <3>1, QuotedIsToken DEF Advances
  <2>4. CASE CharAt(q) \notin Quotes
    <3>1. get_next_token(p) = parse_id(q) /\ CharAt(q) \in Letters
      BY <1>3, <2>1, <2>4 DEF Chars
    <3> QED  BY <1>4, <2>1, <2>2, <3>1, NameIsToken DEF Advances
  <2> QED  BY <2>3, <2>4
<1> QED  BY <1>6, <1>7

-----------------------------------------------------------------------------
(***************************************************************************)
(* The inductive invariant.  Both walks stop at boundaries of the reading  *)
(* of the message: the count is the number of the tokens before the one,   *)
(* and the arguments are the tokens but the first before the other.        *)
(***************************************************************************)
Started == pos = 0 /\ dup = 0 /\ argc = 0 /\ token = NULL /\ argv = <<>>

Counting(w) ==
    /\ argc = Len(Closed(w[dup])) /\ argv = <<>>
    /\ \/ token = NULL /\ Closed(w[Len(string)]) = <<>>
       \/ token # NULL /\ Closed(w[pos]) = <<token>>

(* The arguments and the type of the command are those of the tokens. *)
Copied(tokens) ==
    /\ tokens # <<>> /\ argv = Tail(tokens)
    /\ type = IF tokens[1] \in CommandNames THEN tokens[1] ELSE "unknown"

Parsed(tokens) ==
    /\ Len(argv) = argc /\ get_next_token(pos).token = NULL
    /\ argc \in 0 .. Len(string)
    /\ IF tokens = <<>> THEN type = "noop" ELSE Copied(tokens)

Walked(w) ==
    /\ Boundary(w, pos) /\ Boundary(w, dup)
    /\ pc \in {"idle", "command"} => Started
    /\ pc = "count" => Counting(w)
    /\ pc = "arguments" => /\ token # NULL /\ Copied(Closed(w[pos]))
                           /\ argc = Len(Closed(w[Len(string)])) - 1
    /\ pc = "return" => Parsed(Closed(w[Len(string)]))

IInv ==
    /\ string \in Messages /\ argv \in Seq(Messages)
    /\ pc \in {"idle", "command", "count", "arguments", "return"}
    /\ Walked(Reading(string))

-----------------------------------------------------------------------------
(***************************************************************************)
(* The steps.  w is the reading of the message.                            *)
(***************************************************************************)
Walking(w) ==
    string \in Messages /\ argv \in Seq(Messages) /\ Follows(w, string) /\ Walked(w)

LEMMA StartIsBoundary ==
    ASSUME NEW m \in Messages, NEW w, Follows(w, m)
    PROVE  w[0].mode = "between" /\ Closed(w[0]) = <<>>
<1>1. <<>> \in Seq(Seq(Chars))
  OBVIOUS
<1> QED  BY <1>1, BetweenIs DEF Follows

(* What a walk has behind it. *)
LEMMA TokensBefore ==
    ASSUME NEW w, Walking(w), NEW p \in 0 .. Len(string)
    PROVE  /\ Closed(w[p]) \in Seq(Seq(Chars))
           /\ Len(Closed(w[p])) \in 0 .. Len(string) /\ Len(string) \in Nat
           /\ Len(Closed(w[p])) = 0 <=> Closed(w[p]) = <<>>
           /\ Len(Closed(w[p])) <= Len(Closed(w[Len(string)]))
<1>1. string \in Messages /\ Follows(w, string) /\ Len(string) \in Nat
  BY MessageIsSeq DEF Walking
<1>2. Closed(w[p]) \in Seq(Seq(Chars)) /\ Len(Closed(w[p])) \in 0 .. p
  BY <1>1, ReadingStates
<1>3. Len(string) \in p .. Len(string)
  BY <1>1
<1>4. Len(Closed(w[p])) <= Len(Closed(w[Len(string)]))
  BY <1>1, <1>3, ReadingGrows
<1>5. Len(Closed(w[p])) = 0 <=> Closed(w[p]) = <<>>
  BY <1>2, EmptySeq
<1>6. Len(Closed(w[p])) \in 0 .. Len(string)
  BY <1>1, <1>2
<1> QED  BY <1>1, <1>2, <1>4, <1>5, <1>6

LEMMA AdvancesTo ==
    ASSUME NEW w, Walking(w), NEW p, Boundary(w, p), NEW t, t = get_next_token(p)
    PROVE  /\ Boundary(w, t.pos) /\ p \in 0 .. Len(string)
           /\ t.token = NULL => Closed(w[Len(string)]) = Closed(w[p])
           /\ t.token # NULL => /\ t.token \in Messages /\ t.token \in Seq(Chars)
                                /\ Closed(w[t.pos]) = Append(Closed(w[p]), t.token)
<1>1. Advances(w, p, t) /\ p \in 0 .. Len(string)
  BY NextToken DEF Walking, Boundary
<1>2. Len(string) \in 0 .. Len(string)
  BY MessageIsSeq DEF Walking
<1>3. NULL \notin Messages
  BY ConstantFacts
<1> QED  BY <1>1, <1>2, <1>3 DEF Advances, Boundary

LEMMA CommandStep ==
    ASSUME NEW w, Walking(w), ParseCommand
    PROVE  Walked(w)' /\ argv' \in Seq(Messages) /\ string' = string
<1>1. /\ pc = "command" /\ pc' = "count" /\ string' = string /\ argv' = argv
      /\ dup' = dup /\ argc' = argc /\ Started /\ argv \in Seq(Messages)
      /\ Boundary(w, pos) /\ Boundary(w, dup) /\ string \in Messages
  BY DEF ParseCommand, Walking, Walked
<1> DEFINE t == get_next_token(pos)
<1>2. token' = t.token /\ pos' = t.pos
  BY DEF ParseCommand
<1>3. PICK u : u = t
  OBVIOUS
<1> HIDE DEF t
<1>4. /\ Boundary(w, u.pos)
      /\ u.token = NULL => Closed(w[Len(string)]) = Closed(w[pos])
      /\ u.token # NULL => Closed(w[u.pos]) = Append(Closed(w[pos]), u.token)
  BY <1>1, <1>3, AdvancesTo DEF t
<1>5. Closed(w[0]) = <<>> /\ Closed(w[pos]) = <<>>
  BY <1>1, StartIsBoundary DEF Walking, Started
<1>6. Boundary(w, pos)' /\ Boundary(w, dup)'
  BY <1>1, <1>2, <1>3, <1>4 DEF Boundary
<1>7. Append(<<>>, u.token) = <<u.token>>
  OBVIOUS
<1>8. Counting(w)'
  BY <1>1, <1>2, <1>3, <1>4, <1>5, <1>7 DEF Counting, Started
<1> QED  BY <1>1, <1>6, <1>8 DEF Walked

LEMMA CountStep ==
    ASSUME NEW w, Walking(w), CountToken
    PROVE  Walked(w)' /\ argv' \in Seq(Messages) /\ string' = string
<1>1. /\ pc = "count" /\ pc' = "count" /\ string' = string /\ argv' = argv
      /\ pos' = pos /\ token' = token /\ argc' = argc + 1
      /\ Counting(w) /\ argv \in Seq(Messages)
      /\ Boundary(w, pos) /\ Boundary(w, dup) /\ string \in Messages
  BY DEF CountToken, Walking, Walked
<1> DEFINE t == get_next_token(dup)
<1>2. t.token # NULL /\ dup' = t.pos
  BY DEF CountToken
<1>3. PICK u : u = t
  OBVIOUS
<1> HIDE DEF t
<1>4. /\ Boundary(w, u.pos) /\ dup \in 0 .. Len(string) /\ u.token \in Seq(Chars)
      /\ Closed(w[u.pos]) = Append(Closed(w[dup]), u.token)
  BY <1>1, <1>2, <1>3, AdvancesTo DEF t
<1>5. Closed(w[dup]) \in Seq(Seq(Chars))
  BY <1>4, TokensBefore
<1>6. Len(Closed(w[u.pos])) = Len(Closed(w[dup])) + 1
  BY <1>4, <1>5, AppendProperties
<1>7. Boundary(w, pos)' /\ Boundary(w, dup)'
  BY <1>1, <1>2, <1>3, <1>4 DEF Boundary
<1>8. Counting(w)'
  BY <1>1, <1>2, <1>3, <1>6 DEF Counting
<1> QED  BY <1>1, <1>7, <1>8 DEF Walked

LEMMA SameToken ==
    ASSUME string' = string, pos' = pos
    PROVE  get_next_token(pos)' = get_next_token(pos)
<1>1. \A p : CharAt(p)' = CharAt(p) /\ parser_advance(p)' = parser_advance(p)
  BY DEF CharAt, parser_advance
<1>2. \A p, S : StopAt(p, S)' = StopAt(p, S)
  BY <1>1 DEF StopAt
<1>3. \A i, j, k : Found(i, j, k)' = Found(i, j, k)
  BY DEF Found
<1>4. \A p : parse_string(p)' = parse_string(p) /\ parse_id(p)' = parse_id(p)
  BY <1>1, <1>2, <1>3 DEF parse_string, parse_id
<1> QED  BY <1>1, <1>2, <1>4 DEF get_next_token

LEMMA TypeStep ==
    ASSUME NEW w, Walking(w), ChooseType
    PROVE  Walked(w)' /\ argv' \in Seq(Messages) /\ string' = string
<1>1. /\ pc = "count" /\ string' = string /\ argv' = argv /\ dup' = dup
      /\ pos' = pos /\ token' = token /\ Counting(w) /\ argv \in Seq(Messages)
      /\ Boundary(w, pos) /\ Boundary(w, dup) /\ string \in Messages
      /\ get_next_token(dup).token = NULL
  BY DEF ChooseType, Walking, Walked
<1> DEFINE n == Len(string)
<1>2. n \in 0 .. n /\ n \in Nat /\ pos \in 0 .. n /\ dup \in 0 .. n
  BY <1>1, MessageIsSeq DEF Boundary
<1>3. Closed(w[n]) = Closed(w[dup])
  BY <1>1, AdvancesTo
<1>4. /\ argc = Len(Closed(w[n])) /\ argv = <<>> /\ Len(argv) = 0
      /\ argc \in 0 .. n /\ (argc = 0 <=> Closed(w[n]) = <<>>)
  BY <1>1, <1>2, <1>3, TokensBefore DEF Counting
<1>5. Boundary(w, pos)' /\ Boundary(w, dup)'
  BY <1>1 DEF Boundary
<1>6. CASE argc - 1 >= 0
  <2>1. /\ argc' = argc - 1 /\ pc' = "arguments"
        /\ type' = IF token \in CommandNames THEN token ELSE "unknown"
    BY <1>6 DEF ChooseType
  <2>2. token # NULL /\ Closed(w[pos]) = <<token>>
    BY <1>1, <1>2, <1>4, <1>6 DEF Counting
  <2>3. <<token>> # <<>> /\ Tail(<<token>>) = <<>> /\ <<token>>[1] = token
    OBVIOUS
  <2>4. Copied(Closed(w[pos]))'
    BY <1>1, <1>4, <2>1, <2>2, <2>3 DEF Copied
  <2> QED  BY <1>1, <1>4, <1>5, <2>1, <2>2, <2>4 DEF Walked
<1>7. CASE ~ (argc - 1 >= 0)
  <2>1. argc' = 0 /\ pc' = "return" /\ type' = "noop"
    BY <1>7 DEF ChooseType
  <2>2. Closed(w[n]) = <<>>
    BY <1>2, <1>4, <1>7
  <2>3. get_next_token(pos).token = NULL
    <3> SUFFICES ASSUME get_next_token(pos).token # NULL PROVE FALSE
      OBVIOUS
    <3>1. PICK u : u = get_next_token(pos)
      OBVIOUS
    <3>2. /\ u.pos \in 0 .. n /\ u.token \in Seq(Chars)
          /\ Closed(w[u.pos]) = Append(Closed(w[pos]), u.token)
      BY <1>1, <3>1, AdvancesTo DEF Boundary
    <3>3. Closed(w[pos]) \in Seq(Seq(Chars)) /\ Len(Closed(w[pos])) \in 0 .. n
      BY <1>2, TokensBefore
    <3>4. Len(Closed(w[u.pos])) = Len(Closed(w[pos])) + 1
      BY <3>2, <3>3, AppendProperties
    <3>5. Len(Closed(w[u.pos])) <= Len(Closed(w[n])) /\ Len(Closed(w[n])) = 0
      BY <1>2, <2>2, <3>2, TokensBefore
    <3> QED  BY <1>2, <3>3, <3>4, <3>5
  <2>4. get_next_token(pos)'.token = NULL
    BY <1>1, <2>3, SameToken
  <2>5. Parsed(Closed(w[n]))'
    BY <1>1, <1>2, <1>4, <2>1, <2>2, <2>4 DEF Parsed
  <2> QED  BY <1>1, <1>4, <1>5, <2>1, <2>5 DEF Walked
<1> QED  BY <1>6, <1>7

(* The first token stays the first, and the new one is the last argument. *)
LEMMA CopiedGrows ==
    ASSUME NEW T \in Seq(Seq(Chars)), NEW o \in Seq(Chars), Copied(T),
           argv' = Append(argv, o), type' = type
    PROVE  Copied(Append(T, o))'
<1>1. T # <<>> /\ argv = Tail(T) /\ Len(T) \in Nat
  BY DEF Copied
<1>2. Tail(Append(T, o)) = Append(Tail(T), o)
  BY <1>1, HeadTailAppend
<1>3. 1 \in 1 .. Len(T)
  BY <1>1, EmptySeq
<1>4. Append(T, o) # <<>> /\ Append(T, o)[1] = T[1]
  <2> DEFINE S == Seq(Chars)
  <2>1. T \in Seq(S) /\ o \in S
    OBVIOUS
  <2> HIDE DEF S
  <2> QED  BY <1>3, <2>1, AppendProperties
<1>5. argv' = Tail(Append(T, o))
  BY <1>1, <1>2
<1> QED  BY <1>4, <1>5 DEF Copied

LEMMA ArgumentStep ==
    ASSUME NEW w, Walking(w), ParseArgument
    PROVE  Walked(w)' /\ argv' \in Seq(Messages) /\ string' = string
<1>1. /\ pc = "arguments" /\ pc' = "arguments" /\ string' = string /\ dup' = dup
      /\ argc' = argc /\ type' = type /\ Len(argv) < argc
      /\ Copied(Closed(w[pos])) /\ argc = Len(Closed(w[Len(string)])) - 1
      /\ argv \in Seq(Messages)
      /\ Boundary(w, pos) /\ Boundary(w, dup) /\ string \in Messages
  BY DEF ParseArgument, Walking, Walked
<1> DEFINE t == get_next_token(pos)
           n == Len(string)
<1>2. token' = t.token /\ pos' = t.pos /\ argv' = Append(argv, t.token)
  BY DEF ParseArgument
<1>3. PICK u : u = t
  OBVIOUS
<1> HIDE DEF t
<1>4. /\ Boundary(w, u.pos) /\ pos \in 0 .. n
      /\ u.token = NULL => Closed(w[n]) = Closed(w[pos])
      /\ u.token # NULL => /\ u.token \in Messages /\ u.token \in Seq(Chars)
                           /\ Closed(w[u.pos]) = Append(Closed(w[pos]), u.token)
  BY <1>1, <1>3, AdvancesTo DEF t
<1> DEFINE T == Closed(w[pos])
<1>5. T \in Seq(Seq(Chars)) /\ T # <<>> /\ argv = Tail(T)
  BY <1>1, <1>4, TokensBefore DEF Copied
<1>6. Len(argv) = Len(T) - 1
  <2> HIDE DEF T
  <2> QED  BY <1>5, HeadTailProperties
<1>7. u.token # NULL
  BY <1>1, <1>4, <1>6
<1>8. Copied(Closed(w[u.pos]))'
  <2>1. PICK V, o : V = T /\ o = u.token
    OBVIOUS
  <2> HIDE DEF T
  <2>2. V \in Seq(Seq(Chars)) /\ o \in Seq(Chars) /\ Copied(V)
    BY <1>1, <1>4, <1>5, <1>7, <2>1 DEF T
  <2>3. argv' = Append(argv, o) /\ type' = type
    BY <1>1, <1>2, <1>3, <2>1
  <2>4. Copied(Append(V, o))'
    BY <2>2, <2>3, CopiedGrows
  <2>5. Closed(w[u.pos]) = Append(V, o)
    BY <1>4, <1>7, <2>1 DEF T
  <2>6. PICK X : X = Append(V, o)
    OBVIOUS
  <2>7. Copied(X)'
    BY <2>4, <2>6
  <2> QED  BY <2>5, <2>6, <2>7
<1>9. pos' = u.pos /\ token' = u.token
  BY <1>2, <1>3
<1>10. Copied(Closed(w[pos]))'
  BY <1>8, <1>9
<1>11. Boundary(w, pos)' /\ Boundary(w, dup)'
  BY <1>1, <1>4, <1>9 DEF Boundary
<1>12. argv' \in Seq(Messages)
  BY <1>1, <1>2, <1>3, <1>4, <1>7
<1> QED  BY <1>1, <1>7, <1>9, <1>10, <1>11, <1>12 DEF Walked

LEMMA DoneStep ==
    ASSUME NEW w, Walking(w), CommandDone
    PROVE  Walked(w)' /\ argv' \in Seq(Messages) /\ string' = string
<1>1. /\ pc = "arguments" /\ pc' = "return" /\ string' = string /\ dup' = dup
      /\ argc' = argc /\ type' = type /\ Len(argv) = argc /\ argv' = argv
      /\ pos' = pos
      /\ Copied(Closed(w[pos])) /\ argc = Len(Closed(w[Len(string)])) - 1
      /\ argv \in Seq(Messages)
      /\ Boundary(w, pos) /\ Boundary(w, dup) /\ string \in Messages
  BY DEF CommandDone, Walking, Walked
<1> DEFINE n == Len(string)
           T == Closed(w[pos])
<1>2. PICK u : u = get_next_token(pos)
  OBVIOUS
<1>3. /\ u.pos \in 0 .. n /\ pos \in 0 .. n
      /\ u.token = NULL => Closed(w[n]) = T
      /\ u.token # NULL => u.token \in Seq(Chars) /\ Closed(w[u.pos]) = Append(T, u.token)
  <2>1. /\ Boundary(w, u.pos) /\ pos \in 0 .. n
        /\ u.token = NULL => Closed(w[n]) = T
        /\ u.token # NULL => /\ u.token \in Seq(Chars)
                             /\ Closed(w[u.pos]) = Append(T, u.token)
    BY <1>1, <1>2, AdvancesTo
  <2> QED  BY <2>1 DEF Boundary
<1>4. /\ T \in Seq(Seq(Chars)) /\ T # <<>> /\ argv = Tail(T) /\ Len(T) \in 0 .. n
      /\ n \in Nat
  BY <1>1, <1>3, TokensBefore DEF Copied
<1>5. Len(argv) = Len(T) - 1
  <2> HIDE DEF T
  <2> QED  BY <1>4, HeadTailProperties
<1>6. u.token = NULL
  <2> SUFFICES ASSUME u.token # NULL PROVE FALSE
    OBVIOUS
  <2> HIDE DEF T
  <2>1. Len(Append(T, u.token)) = Len(T) + 1
    BY <1>3, <1>4, AppendProperties
  <2>2. Len(Closed(w[u.pos])) <= Len(Closed(w[n]))
    BY <1>3, TokensBefore
  <2>3. Len(Closed(w[u.pos])) = Len(T) + 1
    BY <1>3, <2>1
  <2>4. Len(Closed(w[n])) = Len(T) /\ Len(T) \in Nat
    <3>1. n \in 0 .. n
      BY <1>4
    <3>2. Len(Closed(w[n])) \in 0 .. n
      BY <3>1, TokensBefore
    <3> QED  BY <1>1, <1>4, <1>5, <3>2
  <2> QED  BY <2>2, <2>3, <2>4
<1>7. Closed(w[n]) = T /\ argc \in 0 .. n
  <2>1. Len(T) # 0
    BY <1>3, <1>4, TokensBefore
  <2> HIDE DEF T
  <2> QED  BY <1>1, <1>3, <1>4, <1>5, <1>6, <2>1
<1>8. get_next_token(pos)'.token = NULL
  BY <1>1, <1>2, <1>6, SameToken
<1>9. Copied(T)'
  BY <1>1 DEF Copied
<1>10. Parsed(Closed(w[n]))'
  <2>1. Copied(Closed(w[n]))'
    BY <1>1, <1>7, <1>9
  <2> QED  BY <1>1, <1>7, <1>8, <2>1 DEF Parsed, Copied
<1>11. Boundary(w, pos)' /\ Boundary(w, dup)'
  BY <1>1 DEF Boundary
<1> QED  BY <1>1, <1>10, <1>11 DEF Walked

(* A message is taken where nothing is walked over yet. *)
AtStart ==
    string \in Messages /\ argv \in Seq(Messages) /\ Started /\ pc \in {"idle", "command"}

LEMMA StartHolds == AtStart => IInv
<1> SUFFICES ASSUME AtStart PROVE IInv
  OBVIOUS
<1> USE DEF AtStart
<1> DEFINE w == Reading(string)
<1>1. w[0].mode = "between"
  BY ReadingFollows, StartIsBoundary
<1> HIDE DEF w
<1>2. 0 \in 0 .. Len(string)
  BY MessageIsSeq
<1>3. Boundary(w, pos) /\ Boundary(w, dup)
  BY <1>1, <1>2 DEF Boundary, Started
<1>4. Walked(w)
  BY <1>3 DEF Walked
<1> QED  BY <1>4 DEF IInv, w

LEMMA InitStart == Init => IInv
<1> SUFFICES ASSUME Init PROVE IInv
  OBVIOUS
<1>1. <<>> \in Seq(Chars) /\ Len(<<>>) = 0 /\ <<>> \in Seq(Messages)
  OBVIOUS
<1>2. <<>> \in Messages
  <2>1. Len(<<>>) <= MaxLength
    BY <1>1, ConstantFacts
  <2>2. PICK m : m = <<>>
    OBVIOUS
  <2>3. m \in Seq(Chars) /\ Len(m) <= MaxLength
    BY <1>1, <2>1, <2>2
  <2> QED  BY <2>2, <2>3, MessageIsSeq
<1> QED  BY <1>1, <1>2, StartHolds DEF Init, Started, AtStart

LEMMA StepKeeps ==
    ASSUME IInv, [Next]_vars
    PROVE  IInv'
<1>1. PICK w : w = Reading(string)
  OBVIOUS
<1>2. Walking(w)
  BY <1>1, ReadingFollows DEF IInv, Walking
<1>3. ASSUME Walked(w)', argv' \in Seq(Messages), string' = string,
             pc' \in {"idle", "command", "count", "arguments", "return"}
      PROVE  IInv'
  <2>1. Reading(string)' = w
    BY <1>1, <1>3 DEF Reading
  <2>2. Walked(Reading(string))'
    <3>1. PICK v : v = Reading(string)'
      OBVIOUS
    <3> QED  BY <1>3, <2>1, <3>1
  <2> QED  BY <1>3, <2>2 DEF IInv
<1>4. CASE ParseCommand
  BY <1>2, <1>3, <1>4, CommandStep DEF ParseCommand
<1>5. CASE CountToken
  BY <1>2, <1>3, <1>5, CountStep DEF CountToken, IInv
<1>6. CASE ChooseType
  <2>1. pc' \in {"arguments", "return"}
    BY <1>6 DEF ChooseType
  <2> QED  BY <1>2, <1>3, <1>6, <2>1, TypeStep
<1>7. CASE ParseArgument
  BY <1>2, <1>3, <1>7, ArgumentStep DEF ParseArgument, IInv
<1>8. CASE CommandDone
  BY <1>2, <1>3, <1>8, DoneStep DEF CommandDone
<1>9. CASE Return
  <2>1. Init'
    BY <1>9 DEF Return, Init
  <2> QED  BY <2>1, InitStart, PTL
<1>10. ASSUME NEW m \in Messages, Parse(m) PROVE IInv'
  <2>1. AtStart'
    BY <1>2, <1>10 DEF Parse, Walking, Walked, Started, AtStart
  <2> QED  BY <2>1, StartHolds, PTL
<1>11. CASE UNCHANGED vars
  <2>1. string' = string /\ argv' = argv /\ pc' = pc /\ pos' = pos /\ dup' = dup
        /\ argc' = argc /\ token' = token /\ type' = type
    BY <1>11 DEF vars
  <2>2. get_next_token(pos)' = get_next_token(pos)
    BY <2>1, SameToken
  <2>3. Walked(w)'
    <3>1. Boundary(w, pos)' /\ Boundary(w, dup)'
      BY <1>2, <2>1 DEF Walking, Walked, Boundary
    <3>2. Started <=> Started'
      BY <2>1 DEF Started
    <3>3. Counting(w) <=> Counting(w)'
      BY <2>1 DEF Counting
    <3>4. \A T : Copied(T) <=> Copied(T)'
      BY <2>1 DEF Copied
    <3>5. \A T : Parsed(T) <=> Parsed(T)'
      BY <2>1, <2>2, <3>4 DEF Parsed
    <3> QED  BY <1>2, <2>1, <3>1, <3>2, <3>3, <3>4, <3>5 DEF Walking, Walked
  <2> QED  BY <1>2, <1>3, <2>1, <2>3 DEF IInv, Walking
<1> QED
  BY <1>4, <1>5, <1>6, <1>7, <1>8, <1>9, <1>10, <1>11 DEF Next, Steps

-----------------------------------------------------------------------------
(* The invariant says what the runs check. *)
LEMMA InvariantImplies == IInv => TypeOK /\ WalksAgree /\ TokensAreRight
<1> SUFFICES ASSUME IInv PROVE TypeOK /\ WalksAgree /\ TokensAreRight
  OBVIOUS
<1>1. PICK w : w = Reading(string)
  OBVIOUS
<1>2. Walking(w)
  BY <1>1, ReadingFollows DEF IInv, Walking
<1> DEFINE n == Len(string)
<1>3. /\ string \in Messages /\ argv \in Seq(Messages) /\ Len(argv) \in Nat
      /\ pos \in 0 .. n /\ dup \in 0 .. n /\ n \in 0 .. n /\ n \in Nat
  BY <1>2, MessageIsSeq DEF Walking, Walked, Boundary
<1>4. argc \in 0 .. n /\ Len(argv) <= argc
  <2>1. CASE pc \in {"idle", "command"}
    BY <1>2, <1>3, <2>1 DEF Walking, Walked, Started
  <2>2. CASE pc = "count"
    <3>1. argc = Len(Closed(w[dup])) /\ argv = <<>>
      BY <1>2, <2>2 DEF Walking, Walked, Counting
    <3> QED  BY <1>2, <1>3, <3>1, TokensBefore
  <2>3. CASE pc = "arguments"
    <3>1. /\ argc = Len(Closed(w[n])) - 1 /\ Closed(w[pos]) # <<>>
          /\ argv = Tail(Closed(w[pos]))
      BY <1>2, <2>3 DEF Walking, Walked, Copied
    <3>2. PICK T : T = Closed(w[pos])
      OBVIOUS
    <3>3. T \in Seq(Seq(Chars)) /\ Len(T) \in 0 .. n /\ Len(T) # 0
          /\ Len(T) <= Len(Closed(w[n])) /\ Len(Closed(w[n])) \in 0 .. n
      BY <1>2, <1>3, <3>1, <3>2, TokensBefore
    <3>4. Len(Tail(T)) = Len(T) - 1
      BY <3>1, <3>2, <3>3, HeadTailProperties
    <3> QED  BY <1>3, <3>1, <3>2, <3>3, <3>4
  <2>4. CASE pc = "return"
    BY <1>2, <1>3, <2>4 DEF Walking, Walked, Parsed
  <2> QED  BY <2>1, <2>2, <2>3, <2>4 DEF IInv
<1>5. TypeOK
  <2>1. string \in Seq(Chars) /\ Len(string) <= MaxLength
    BY <1>3, MessageIsSeq
  <2>2. pc = "return" => Len(argv) = argc
    BY <1>2 DEF Walking, Walked, Parsed
  <2> QED  BY <1>3, <1>4, <2>1, <2>2 DEF TypeOK, IInv
<1>6. WalksAgree
  <2>1. \A i \in DOMAIN argv : argv[i] # NULL
    BY <1>3, ConstantFacts
  <2> QED  BY <1>2, <2>1 DEF WalksAgree, Walking, Walked, Parsed
<1>7. TokensAreRight
  <2> SUFFICES ASSUME pc = "return" PROVE TokensAreRight
    BY DEF TokensAreRight
  <2>1. TokensOf(string) = Closed(w[n])
    BY <1>1 DEF TokensOf
  <2>2. Parsed(TokensOf(string))
    BY <1>2, <2>1 DEF Walking, Walked
  <2> QED  BY <2>2 DEF Parsed, Copied, TokensAreRight
<1> QED  BY <1>5, <1>6, <1>7

LEMMA InvariantImpliesNext == IInv' => TypeOK'
<1>1. IInv => TypeOK
  BY InvariantImplies
<1> QED  BY <1>1, PTL

LEMMA Invariance == Spec => []IInv
<1>1. IInv /\ [Next]_vars => IInv'
  BY StepKeeps
<1> QED  BY <1>1, InitStart, PTL DEF Spec

(* Neither parser of parse ever leaves the message, there are never more     *)
(* arguments than were counted, and a command is complete when it is         *)
(* returned.                                                                 *)
THEOREM TypeCorrectness == Spec => []TypeOK
BY Invariance, InvariantImplies, PTL

(* parse never takes strlen or strcpy of a token that is not there, and      *)
(* nothing of the message is left when the last counted argument is taken.   *)
THEOREM CountMatchesWalk == Spec => []WalksAgree
BY Invariance, InvariantImplies, PTL

(* The command of parse is the first token of the message, and its           *)
(* arguments are the others, whole and in order.                             *)
THEOREM ParserFindsTheTokens == Spec => []TokensAreRight
BY Invariance, InvariantImplies, PTL

-----------------------------------------------------------------------------
(***************************************************************************)
(* How many steps parse has left at most.                                  *)
(***************************************************************************)
Left ==
    CASE pc = "idle"      -> 0
      [] pc = "return"    -> 1
      [] pc = "arguments" -> 2 + argc - Len(argv)
      [] pc = "count"     -> 4 + 2 * Len(string) - dup
      [] pc = "command"   -> 5 + 2 * Len(string)

(* A walk that takes a token does not stay where it is, also if the token is *)
(* empty.                                                                    *)
LEMMA TokensTakeCharacters ==
    ASSUME string \in Messages, NEW p \in 0 .. Len(string),
           get_next_token(p).token # NULL
    PROVE  get_next_token(p).pos \in (p + 1) .. Len(string)
<1> DEFINE n == Len(string)
           q == StopAt(p, Chars \ {Blank})
           r == StopAt(parser_advance(q), Quotes)
           e == StopAt(q, {Blank})
<1>1. n \in Nat
  BY MessageIsSeq
<1>2. q \in p .. n /\ (q = n \/ CharAt(q) \in Chars \ {Blank})
  BY StopIs
<1>3. get_next_token(p) = IF CharAt(q) = NUL THEN [token |-> NULL, pos |-> q]
                          ELSE IF CharAt(q) \in Quotes THEN parse_string(q)
                          ELSE parse_id(q)
  BY DEF get_next_token
<1>4. parse_string(q).pos = parser_advance(r) /\ parse_id(q).pos = e
  BY DEF parse_string, parse_id, Found
<1> HIDE DEF n, q, r, e
<1>5. CharAt(q) # NUL /\ q \in 0 .. n
  BY <1>1, <1>2, <1>3
<1>6. q < n /\ CharAt(q) # Blank
  <2>1. q # n
    BY <1>5, CharIs DEF n
  <2> QED  BY <1>1, <1>2, <2>1
<1>7. parser_advance(q) = q + 1 /\ q + 1 \in 0 .. n
  BY <1>1, <1>5, <1>6 DEF parser_advance, n
<1>8. r \in (q + 1) .. n
  BY <1>7, StopIs DEF r, n
<1>9. parser_advance(r) \in (q + 1) .. n
  BY <1>1, <1>5, <1>8 DEF parser_advance, n
<1>10. e \in (q + 1) .. n
  <2>1. e \in q .. n /\ (e = n \/ CharAt(e) = Blank)
    BY <1>5, StopIs DEF e, n
  <2>2. e # q
    BY <1>6, <2>1
  <2> QED  BY <1>1, <1>5, <2>1, <2>2
<1>11. get_next_token(p).pos \in (q + 1) .. n
  BY <1>3, <1>4, <1>5, <1>9, <1>10
<1> QED  BY <1>1, <1>2, <1>11 DEF n

LEMMA StepsDescend ==
    ASSUME IInv, IInv', Steps
    PROVE  Left \in Nat /\ Left' \in Nat /\ Left' < Left
<1>1. TypeOK /\ TypeOK' /\ string \in Messages
  BY InvariantImplies, InvariantImpliesNext DEF IInv
<1>2. /\ Len(string) \in Nat /\ dup \in 0 .. Len(string)
      /\ argc \in 0 .. Len(string) /\ Len(argv) \in Nat /\ Len(argv) <= argc
  BY <1>1, MessageIsSeq DEF TypeOK, IInv
<1>3. CASE ParseCommand
  BY <1>2, <1>3 DEF ParseCommand, Left
<1>4. CASE CountToken
  <2>1. dup' \in (dup + 1) .. Len(string)
    BY <1>1, <1>2, <1>4, TokensTakeCharacters DEF CountToken
  <2> QED  BY <1>2, <1>4, <2>1 DEF CountToken, Left
<1>5. CASE ChooseType
  BY <1>2, <1>5 DEF ChooseType, Left
<1>6. CASE ParseArgument
  <2>1. Len(argv') = Len(argv) + 1
    BY <1>6 DEF ParseArgument, IInv
  <2> QED  BY <1>2, <1>6, <2>1 DEF ParseArgument, Left
<1>7. CASE CommandDone
  BY <1>2, <1>7 DEF CommandDone, Left
<1>8. CASE Return
  BY <1>8 DEF Return, Left
<1> QED  BY <1>3, <1>4, <1>5, <1>6, <1>7, <1>8 DEF Steps

(* parse loops for ever on no message: what a step leaves to do is less than *)
(* before, whatever the message, and a message of n characters takes         *)
(* 2 * n + 5 steps at most.                                                  *)
THEOREM ParseIsBounded ==
    Spec => /\ [](Left \in 0 .. 2 * Len(string) + 5)
            /\ [][Steps => Left' < Left]_vars
<1> DEFINE I == Left \in 0 .. 2 * Len(string) + 5
           D == Steps => Left' < Left
<1>1. IInv => I
  BY InvariantImplies, MessageIsSeq DEF IInv, TypeOK, Left
<1>2. IInv /\ [Next]_vars => [D]_vars
  <2>1. IInv /\ Next => IInv'
    BY StepKeeps
  <2> QED  BY <2>1, StepsDescend
<1> QED  BY <1>1, <1>2, Invariance, PTL DEF Spec
=============================================================================
