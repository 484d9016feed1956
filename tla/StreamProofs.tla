---------------------------- MODULE StreamProofs ----------------------------
(***************************************************************************)
(* Folds over what comes in one after the other: the lines of a text and   *)
(* the calls of a run; and the types of all parts.                         *)
(***************************************************************************)
EXTENDS ChannelProofs, StorageProofs

(* A sequence without its last element.                                      *)
Before(s) == SubSeq(s, 1, Len(s) - 1)

LEMMA BeforeTypes ==
  ASSUME NEW A, NEW s \in Seq(A), s # <<>>
  PROVE  /\ Before(s) \in Seq(A) /\ Len(Before(s)) = Len(s) - 1 /\ Len(s) \in Nat \ {0}
         /\ s[Len(s)] \in A /\ s = Append(Before(s), s[Len(s)])
<1>1. Len(s) \in Nat \ {0} /\ \A i \in 1 .. Len(s) : s[i] \in A
  BY EmptySeq, ElementOfSeq
<1>2. Before(s) \in Seq(A) /\ Len(Before(s)) = Len(s) - 1
      /\ \A i \in 1 .. Len(s) - 1 : Before(s)[i] = s[i]
  <2>1. \A i \in 1 .. Len(s) - 1 : s[i] \in A
    BY <1>1
  <2> DEFINE n == Len(s) - 1
  <2>2. n \in Nat /\ n - 1 + 1 = n
    BY <1>1
  <2> HIDE DEF n
  <2>3. SubSeq(s, 1, n) \in Seq(A) /\ Len(SubSeq(s, 1, n)) = n
        /\ \A i \in 1 .. n : SubSeq(s, 1, n)[i] = s[i]
    BY <2>1, <2>2, SubSeqProperties DEF n
  <2>4. QED
    BY <2>3 DEF Before, n
<1>3. s[Len(s)] \in A
  BY <1>1
<1> DEFINE t == Append(Before(s), s[Len(s)])
<1>4. t \in Seq(A) /\ Len(t) = Len(s) /\ \A i \in 1 .. Len(s) : s[i] = t[i]
  BY <1>1, <1>2, <1>3, AppendProperties
<1>5. s = t
  <2> HIDE DEF t
  <2>1. QED
    BY <1>4, SeqEqual
<1>6. QED
  BY <1>1, <1>2, <1>3, <1>5

LEMMA BeforeOfAppend ==
  ASSUME NEW A, NEW s \in Seq(A), NEW a \in A
  PROVE  /\ Before(Append(s, a)) = s /\ Append(s, a)[Len(Append(s, a))] = a
         /\ Append(s, a) \in Seq(A) /\ Append(s, a) # <<>>
<1>1. /\ Append(s, a) \in Seq(A) /\ Append(s, a) # <<>>
      /\ Append(s, a)[Len(Append(s, a))] = a
  BY AppendProperties
<1>2. Before(Append(s, a)) \in Seq(A)
      /\ Append(s, a) = Append(Before(Append(s, a)), Append(s, a)[Len(Append(s, a))])
  BY <1>1, BeforeTypes
<1>3. Before(Append(s, a)) = s
  BY <1>1, <1>2, AppendInjective
<1>4. QED
  BY <1>1, <1>3

(* A recursion over the last element of a sequence is a function, whatever   *)
(* its step is.                                                              *)
Follows(A, start, step, f) ==
  f = [s \in Seq(A) |-> IF s = <<>> THEN start ELSE step[<<f[Before(s)], s[Len(s)]>>]]

LEMMA FoldsAreThere ==
  ASSUME NEW A, NEW V, NEW start \in V, NEW step \in [V \X A -> V]
  PROVE  \E f \in [Seq(A) -> V] : Follows(A, start, step, f)
<1> DEFINE Value(f, s) == IF s = <<>> THEN start ELSE step[<<f[Before(s)], s[Len(s)]>>]
           Good(f, n)  == f \in [Seq(A) -> V] /\ \A s \in Seq(A) : Len(s) <= n => f[s] = Value(f, s)
           Depths == {n \in Nat : \E f : Good(f, n)}
           Same   == {n \in Nat : \A s \in Seq(A), k, m \in Nat, f, g \in [Seq(A) -> V] :
                        Len(s) <= n /\ Len(s) <= k /\ Len(s) <= m /\ Good(f, k) /\ Good(g, m)
                          => f[s] = g[s]}
<1>1. ASSUME NEW f \in [Seq(A) -> V], NEW s \in Seq(A) PROVE Value(f, s) \in V
  <2>1. CASE s = <<>>
    BY <2>1
  <2>2. CASE s # <<>>
    <3>1. f[Before(s)] \in V /\ s[Len(s)] \in A
      BY <2>2, BeforeTypes
    <3>2. QED
      BY <2>2, <3>1
  <2>3. QED
    BY <2>1, <2>2
<1>2. ASSUME NEW s \in Seq(A), Len(s) <= 0 PROVE s = <<>>
  BY <1>2, EmptySeq
<1>3. 0 \in Depths
  <2> DEFINE f == [s \in Seq(A) |-> start]
  <2>1. f \in [Seq(A) -> V] /\ \A s \in Seq(A) : Len(s) <= 0 => f[s] = Value(f, s)
    BY <1>2
  <2> HIDE DEF f, Value
  <2>2. QED
    BY <2>1
<1>4. ASSUME NEW n \in Depths PROVE n + 1 \in Depths
  <2>1. PICK g : Good(g, n)
    BY <1>4
  <2> DEFINE h == [s \in Seq(A) |-> Value(g, s)]
  <2>2. h \in [Seq(A) -> V]
    <3> HIDE DEF Value
    <3>1. QED
      BY <1>1, <2>1
  <2>3. ASSUME NEW s \in Seq(A), Len(s) <= n + 1 PROVE h[s] = Value(h, s)
    <3>1. CASE s = <<>>
      BY <3>1
    <3>2. CASE s # <<>>
      <4>1. Before(s) \in Seq(A) /\ Len(Before(s)) <= n
        BY <2>3, <3>2, BeforeTypes
      <4>2. g[Before(s)] = Value(g, Before(s))
        <5> HIDE DEF Value
        <5>1. QED
          BY <2>1, <4>1
      <4>3. h[Before(s)] = g[Before(s)]
        <5> HIDE DEF Value
        <5>1. QED
          BY <4>1, <4>2
      <4> HIDE DEF h
      <4>4. Value(h, s) = Value(g, s)
        BY <3>2, <4>3
      <4> HIDE DEF Value
      <4>5. QED
        BY <4>4 DEF h
    <3>3. QED
      BY <3>1, <3>2
  <2> HIDE DEF h, Value
  <2>4. Good(h, n + 1)
    BY <2>2, <2>3
  <2> HIDE DEF Good
  <2>5. QED
    BY <2>4
<1>5. 0 \in Same
  <2>1. ASSUME NEW s \in Seq(A), NEW k \in Nat, NEW m \in Nat, Len(s) <= 0,
               NEW f, NEW g, Good(f, k), Good(g, m)
        PROVE  f[s] = g[s]
    <3>1. s = <<>> /\ Len(s) <= k /\ Len(s) <= m
      BY <1>2, <2>1, EmptySeq
    <3>2. f[s] = Value(f, s) /\ g[s] = Value(g, s)
      <4> HIDE DEF Value
      <4>1. QED
        BY <2>1, <3>1
    <3>3. QED
      BY <3>1, <3>2
  <2> HIDE DEF Good
  <2>2. QED
    BY <2>1
<1>6. ASSUME NEW n \in Same PROVE n + 1 \in Same
  <2>1. ASSUME NEW s \in Seq(A), NEW k \in Nat, NEW m \in Nat,
               Len(s) <= n + 1, Len(s) <= k, Len(s) <= m,
               NEW f \in [Seq(A) -> V], NEW g \in [Seq(A) -> V], Good(f, k), Good(g, m)
        PROVE  f[s] = g[s]
    <3>1. f[s] = Value(f, s) /\ g[s] = Value(g, s)
      <4> HIDE DEF Value
      <4>1. QED
        BY <2>1
    <3>2. CASE s = <<>>
      BY <3>1, <3>2
    <3>3. CASE s # <<>>
      <4>1. Before(s) \in Seq(A) /\ Len(Before(s)) <= n /\ Len(Before(s)) <= k /\ Len(Before(s)) <= m
        BY <2>1, <3>3, BeforeTypes
      <4>2. f[Before(s)] = g[Before(s)]
        <5> HIDE DEF Good
        <5>1. QED
          BY <1>6, <2>1, <4>1
      <4>3. QED
        BY <3>1, <3>3, <4>2
    <3>4. QED
      BY <3>2, <3>3
  <2> HIDE DEF Good
  <2>2. QED
    BY <2>1
<1>7. Depths = Nat /\ Same = Nat
  <2> HIDE DEF Good, Value
  <2>1. Depths \in SUBSET Nat /\ Same \in SUBSET Nat
    OBVIOUS
  <2> HIDE DEF Depths, Same
  <2>2. QED
    BY <1>3, <1>4, <1>5, <1>6, <2>1, SetOfAllNumbers
<1> DEFINE Upto(n) == CHOOSE f : Good(f, n)
           F == [s \in Seq(A) |-> Upto(Len(s))[s]]
<1>8. ASSUME NEW n \in Nat PROVE Good(Upto(n), n)
  <2> HIDE DEF Good
  <2>1. \E f : Good(f, n)
    BY <1>7
  <2>2. QED
    BY <2>1
<1>9. F \in [Seq(A) -> V]
  <2> SUFFICES ASSUME NEW s \in Seq(A) PROVE Upto(Len(s))[s] \in V
    OBVIOUS
  <2>1. Len(s) \in Nat
    BY LenProperties
  <2>2. Upto(Len(s)) \in [Seq(A) -> V]
    <3> HIDE DEF Upto, Value
    <3>1. QED
      BY <1>8, <2>1
  <2> HIDE DEF Upto
  <2>3. QED
    BY <2>2
<1>10. ASSUME NEW s \in Seq(A) PROVE F[s] = Value(F, s)
  <2> DEFINE f == Upto(Len(s))
  <2>1. Len(s) \in Nat
    BY LenProperties
  <2>2. Good(f, Len(s))
    <3> HIDE DEF Good, Upto
    <3>1. QED
      BY <1>8, <2>1
  <2>3. F[s] = f[s]
    <3> HIDE DEF Upto
    <3>1. QED
      OBVIOUS
  <2> HIDE DEF f, F
  <2>4. f[s] = Value(f, s)
    <3> HIDE DEF Value
    <3>1. QED
      BY <2>1, <2>2
  <2>5. CASE s = <<>>
    BY <2>3, <2>4, <2>5
  <2>6. CASE s # <<>>
    <3> DEFINE b == Before(s)
    <3>1. b \in Seq(A) /\ Len(b) \in Nat /\ Len(b) <= Len(s)
      BY <2>6, BeforeTypes, LenProperties
    <3>2. Good(Upto(Len(b)), Len(b))
      <4> HIDE DEF Good, Upto
      <4>1. QED
        BY <1>8, <3>1
    <3>3. F[b] = Upto(Len(b))[b]
      <4> HIDE DEF Upto, b
      <4>1. QED
        BY <3>1 DEF F
    <3>4. f \in [Seq(A) -> V] /\ Upto(Len(b)) \in [Seq(A) -> V]
      <4> HIDE DEF Upto, Value, b
      <4>1. QED
        BY <2>2, <3>2
    <3>5. f[b] = Upto(Len(b))[b]
      <4>1. Len(b) \in Same
        <5> HIDE DEF Same, b
        <5>1. QED
          BY <1>7, <3>1
      <4> HIDE DEF Good, Upto, b
      <4>2. ASSUME NEW g \in [Seq(A) -> V], Good(g, Len(b)) PROVE f[b] = g[b]
        <5>1. Len(b) <= Len(b) /\ f \in [Seq(A) -> V]
          BY <3>1, <3>4
        <5>2. QED
          BY <2>1, <2>2, <3>1, <4>1, <4>2, <5>1
      <4>3. QED
        BY <3>2, <3>4, <4>2
    <3>6. QED
      <4> HIDE DEF Upto
      <4>1. QED
        BY <2>3, <2>4, <2>6, <3>3, <3>5
  <2>7. QED
    BY <2>5, <2>6
<1>11. Follows(A, start, step, F)
  <2>1. F = [s \in Seq(A) |-> F[s]]
    <3> HIDE DEF Upto
    <3>1. QED
      OBVIOUS
  <2> HIDE DEF F, Value
  <2>2. F = [s \in Seq(A) |-> Value(F, s)]
    BY <1>10, <2>1
  <2>3. QED
    BY <2>2 DEF Follows, Value
<1>12. QED
  <2> HIDE DEF F
  <2>1. QED
    BY <1>9, <1>11

(* Induction over sequences, of a set.                                       *)
LEMMA SetOfAllSequences ==
  ASSUME NEW A, NEW T \in SUBSET Seq(A), <<>> \in T,
         \A s \in T, a \in A : Append(s, a) \in T
  PROVE  T = Seq(A)
<1> DEFINE Sizes == {n \in Nat : \A s \in Seq(A) : Len(s) = n => s \in T}
<1>1. 0 \in Sizes
  BY EmptySeq
<1>2. ASSUME NEW n \in Sizes PROVE n + 1 \in Sizes
  <2>1. ASSUME NEW s \in Seq(A), Len(s) = n + 1 PROVE s \in T
    <3>1. s # <<>>
      BY <2>1, EmptySeq
    <3>2. /\ Before(s) \in Seq(A) /\ Len(Before(s)) = Len(s) - 1
          /\ s[Len(s)] \in A /\ s = Append(Before(s), s[Len(s)])
      BY <3>1, BeforeTypes
    <3>3. Before(s) \in T
      BY <1>2, <2>1, <3>2
    <3>4. QED
      BY <3>2, <3>3
  <2>2. QED
    BY <2>1
<1>3. Sizes = Nat
  <2>1. Sizes \in SUBSET Nat
    OBVIOUS
  <2> HIDE DEF Sizes
  <2>2. QED
    BY <1>1, <1>2, <2>1, SetOfAllNumbers
<1>4. ASSUME NEW s \in Seq(A) PROVE s \in T
  <2>1. Len(s) \in Sizes
    BY <1>3, LenProperties
  <2>2. QED
    BY <2>1
<1>5. QED
  BY <1>4
-----------------------------------------------------------------------------
(* A behaviour of the parts is one of the readers.                           *)
LEMMA ReadersPart == Spec => Readers!Spec
<1>1. Init => Readers!Init
  BY DEF Init
<1>2. [Next]_vars => [Readers!Next]_(Readers!vars)
  BY DEF Next, vars, readerVars, Readers!vars
<1>3. QED
  BY <1>1, <1>2, PTL DEF Spec, Readers!Spec

Byte   == Readers!Bytes \cup {Readers!Garbled}
Cut    == [lines : Seq(Readers!Line), rest : Readers!Line]
Nought == [lines |-> <<>>, rest |-> <<>>]

(* One byte more.                                                            *)
Another(cut, byte) ==
  IF byte = "end" THEN [lines |-> cut.lines \o Readers!Emitted(cut.rest), rest |-> <<>>]
  ELSE [lines |-> cut.lines, rest |-> Append(cut.rest, byte)]

LEMMA AnotherTypes ==
  ASSUME NEW cut \in Cut, NEW byte \in Byte
  PROVE  /\ Another(cut, byte) \in Cut
         /\ Readers!Emitted(cut.rest) \in Seq(Readers!Line)
<1>1. cut.lines \in Seq(Readers!Line) /\ cut.rest \in Readers!Line
  BY DEF Cut
<1>2. <<>> \in Readers!Line /\ <<>> \in Seq(Readers!Line)
  BY EmptySeq DEF Readers!Line
<1>3. Readers!Emitted(cut.rest) \in Seq(Readers!Line)
  BY <1>1, <1>2 DEF Readers!Emitted
<1>4. cut.lines \o Readers!Emitted(cut.rest) \in Seq(Readers!Line)
  BY <1>1, <1>3, ConcatProperties
<1>5. Append(cut.rest, byte) \in Readers!Line
  BY <1>1, AppendProperties DEF Readers!Line, Byte
<1>6. QED
  BY <1>1, <1>2, <1>3, <1>4, <1>5 DEF Another, Cut

LEMMA LinesSteps ==
  /\ Readers!LinesOf \in [Readers!Line -> Cut]
  /\ Readers!LinesOf[<<>>] = Nought
  /\ \A s \in Readers!Line, byte \in Byte :
       Readers!LinesOf[Append(s, byte)] = Another(Readers!LinesOf[s], byte)
<1> DEFINE step == [p \in Cut \X Byte |-> Another(p[1], p[2])]
           Eq(f) == f = [s \in Readers!Line |->
                           IF s = <<>> THEN Nought ELSE Another(f[Before(s)], s[Len(s)])]
<1>1. step \in [Cut \X Byte -> Cut]
  BY AnotherTypes
<1>2. Nought \in Cut
  BY EmptySeq DEF Nought, Cut, Readers!Line
<1>3. Readers!Line = Seq(Byte)
  BY DEF Readers!Line, Byte
<1>4. ASSUME NEW f \in [Seq(Byte) -> Cut], Follows(Byte, Nought, step, f) PROVE Eq(f)
  <2>1. ASSUME NEW s \in Seq(Byte), s # <<>>
        PROVE  step[<<f[Before(s)], s[Len(s)]>>] = Another(f[Before(s)], s[Len(s)])
    BY <2>1, BeforeTypes
  <2> HIDE DEF step
  <2>2. QED
    BY <1>3, <1>4, <2>1 DEF Follows
<1>5. \E f : Eq(f)
  <2>1. PICK f \in [Seq(Byte) -> Cut] : Follows(Byte, Nought, step, f)
    <3> HIDE DEF step
    <3>1. QED
      BY <1>1, <1>2, FoldsAreThere
  <2> HIDE DEF Eq, step
  <2>2. QED
    BY <1>4, <2>1
<1>6. Readers!LinesOf = CHOOSE f : Eq(f)
  BY DEF Readers!LinesOf, Another, Nought, Before, Readers!Front, Readers!Last
<1> DEFINE F == Readers!LinesOf
<1>7. Eq(F)
  <2> HIDE DEF Eq
  <2>1. QED
    BY <1>5, <1>6
<1>8. F[<<>>] = Nought
  <2> HIDE DEF F
  <2>1. QED
    BY <1>3, <1>7, EmptySeq
<1>9. ASSUME NEW s \in Readers!Line, NEW byte \in Byte
      PROVE  F[Append(s, byte)] = Another(F[s], byte)
  <2> HIDE DEF F
  <2>1. QED
    BY <1>3, <1>7, BeforeOfAppend
<1> DEFINE T == {s \in Seq(Byte) : F[s] \in Cut}
<1>10. T = Seq(Byte)
  <2> HIDE DEF F
  <2>1. T \in SUBSET Seq(Byte) /\ <<>> \in T
    BY <1>2, <1>8, EmptySeq
  <2>2. ASSUME NEW s \in T, NEW a \in Byte PROVE Append(s, a) \in T
    <3>1. s \in Seq(Byte) /\ F[s] \in Cut
      OBVIOUS
    <3>2. F[Append(s, a)] \in Cut
      BY <1>3, <1>9, <3>1, AnotherTypes
    <3>3. QED
      BY <3>1, <3>2, AppendProperties
  <2> HIDE DEF T
  <2>3. QED
    BY <2>1, <2>2, SetOfAllSequences
<1>11. F \in [Readers!Line -> Cut]
  <2> HIDE DEF F
  <2>1. QED
    BY <1>3, <1>7, <1>10
<1>12. QED
  BY <1>8, <1>9, <1>11

(* One line more.                                                            *)
Joined(s, l) == s \o (IF Readers!Parses(l) THEN <<l>> ELSE <<>>)

LEMMA JoinedTypes ==
  ASSUME NEW s \in Seq(Readers!Line), NEW l \in Readers!Line
  PROVE  Joined(s, l) \in Seq(Readers!Line)
<1>1. (IF Readers!Parses(l) THEN <<l>> ELSE <<>>) \in Seq(Readers!Line)
  BY EmptySeq
<1>2. QED
  BY <1>1, ConcatProperties DEF Joined

LEMMA ParsedSteps ==
  /\ Readers!Parsed \in [Seq(Readers!Line) -> Seq(Readers!Line)]
  /\ Readers!Parsed[<<>>] = <<>>
  /\ \A s \in Seq(Readers!Line), l \in Readers!Line :
       Readers!Parsed[Append(s, l)] = Joined(Readers!Parsed[s], l)
<1> DEFINE V == Seq(Readers!Line)
           step == [p \in V \X Readers!Line |-> Joined(p[1], p[2])]
           Eq(f) == f = [s \in V |-> IF s = <<>> THEN <<>> ELSE Joined(f[Before(s)], s[Len(s)])]
<1>1. step \in [V \X Readers!Line -> V]
  BY JoinedTypes
<1>2. <<>> \in V
  BY EmptySeq
<1>4. ASSUME NEW f \in [V -> V], Follows(Readers!Line, <<>>, step, f) PROVE Eq(f)
  <2>1. ASSUME NEW s \in V, s # <<>>
        PROVE  step[<<f[Before(s)], s[Len(s)]>>] = Joined(f[Before(s)], s[Len(s)])
    BY <2>1, BeforeTypes
  <2> HIDE DEF step
  <2>2. QED
    BY <1>4, <2>1 DEF Follows
<1>5. \E f : Eq(f)
  <2>1. PICK f \in [V -> V] : Follows(Readers!Line, <<>>, step, f)
    <3> HIDE DEF step
    <3>1. QED
      BY <1>1, <1>2, FoldsAreThere
  <2> HIDE DEF Eq, step
  <2>2. QED
    BY <1>4, <2>1
<1>6. Readers!Parsed = CHOOSE f : Eq(f)
  BY DEF Readers!Parsed, Joined, Before, Readers!Front, Readers!Last
<1> DEFINE F == Readers!Parsed
<1>7. Eq(F)
  <2> HIDE DEF Eq
  <2>1. QED
    BY <1>5, <1>6
<1>8. F[<<>>] = <<>>
  <2> HIDE DEF F
  <2>1. QED
    BY <1>7, EmptySeq
<1>9. ASSUME NEW s \in V, NEW l \in Readers!Line PROVE F[Append(s, l)] = Joined(F[s], l)
  <2> HIDE DEF F
  <2>1. QED
    BY <1>7, BeforeOfAppend
<1> DEFINE T == {s \in V : F[s] \in V}
<1>10. T = V
  <2> HIDE DEF F
  <2>1. T \in SUBSET V /\ <<>> \in T
    BY <1>2, <1>8
  <2>2. ASSUME NEW s \in T, NEW l \in Readers!Line PROVE Append(s, l) \in T
    <3>1. s \in V /\ F[s] \in V
      OBVIOUS
    <3>2. F[Append(s, l)] \in V
      BY <1>9, <3>1, JoinedTypes
    <3>3. QED
      BY <3>1, <3>2, AppendProperties
  <2> HIDE DEF T
  <2>3. QED
    BY <2>1, <2>2, SetOfAllSequences
<1>11. F \in [V -> V]
  <2> HIDE DEF F
  <2>1. QED
    BY <1>7, <1>10
<1>12. QED
  BY <1>8, <1>9, <1>11
-----------------------------------------------------------------------------
(* A line begun holds no end of one, and what holds none is a line begun.    *)
Endless(s) == \A i \in DOMAIN s : s[i] # "end"

LEMMA RestIsEndless == \A s \in Readers!Line : Endless(Readers!LinesOf[s].rest)
<1> DEFINE T == {s \in Seq(Byte) : Endless(Readers!LinesOf[s].rest)}
<1>1. <<>> \in T
  BY LinesSteps, EmptySeq DEF Nought, Endless
<1>2. ASSUME NEW s \in T, NEW byte \in Byte PROVE Append(s, byte) \in T
  <2>1. s \in Readers!Line /\ Append(s, byte) \in Seq(Byte)
    BY AppendProperties DEF Readers!Line, Byte
  <2> DEFINE cut == Readers!LinesOf[s]
  <2>2. cut \in Cut /\ Readers!LinesOf[Append(s, byte)] = Another(cut, byte) /\ Endless(cut.rest)
    BY <2>1, LinesSteps
  <2> HIDE DEF cut
  <2>3. CASE byte = "end"
    <3>1. Another(cut, byte).rest = <<>>
      BY <2>3 DEF Another
    <3>2. QED
      BY <2>1, <2>2, <3>1 DEF Endless
  <2>4. CASE byte # "end"
    <3>1. Another(cut, byte).rest = Append(cut.rest, byte)
      BY <2>4 DEF Another
    <3>2. cut.rest \in Seq(Byte)
      BY <2>2 DEF Cut, Readers!Line, Byte
    <3>3. Endless(Append(cut.rest, byte))
      BY <2>2, <2>4, <3>2, AppendProperties, LenProperties DEF Endless
    <3>4. QED
      BY <2>1, <2>2, <3>1, <3>3
  <2>5. QED
    BY <2>3, <2>4
<1>3. T = Seq(Byte)
  <2>1. T \in SUBSET Seq(Byte)
    OBVIOUS
  <2> HIDE DEF T
  <2>2. QED
    BY <1>1, <1>2, <2>1, SetOfAllSequences
<1>4. QED
  BY <1>3 DEF Readers!Line, Byte

LEMMA EndlessIsRest ==
  \A s \in Readers!Line : Endless(s) => Readers!LinesOf[s] = [lines |-> <<>>, rest |-> s]
<1> DEFINE Whole(s) == Endless(s) => Readers!LinesOf[s] = [lines |-> <<>>, rest |-> s]
           T == {s \in Seq(Byte) : Whole(s)}
<1>1. <<>> \in T
  BY LinesSteps, EmptySeq DEF Nought
<1>2. ASSUME NEW s \in T, NEW byte \in Byte PROVE Append(s, byte) \in T
  <2>1. s \in Readers!Line /\ Append(s, byte) \in Seq(Byte)
    BY AppendProperties DEF Readers!Line, Byte
  <2>2. ASSUME Endless(Append(s, byte)) PROVE Endless(s) /\ byte # "end"
    BY <2>2, AppendProperties, LenProperties DEF Endless
  <2>3. Readers!LinesOf[Append(s, byte)] = Another(Readers!LinesOf[s], byte)
    BY <2>1, LinesSteps
  <2>4. ASSUME Endless(Append(s, byte))
        PROVE  Readers!LinesOf[Append(s, byte)] = [lines |-> <<>>, rest |-> Append(s, byte)]
    <3>1. Readers!LinesOf[s] = [lines |-> <<>>, rest |-> s]
      BY <2>2, <2>4
    <3>2. QED
      BY <2>2, <2>3, <2>4, <3>1 DEF Another
  <2> HIDE DEF Whole
  <2>5. QED
    BY <2>1, <2>4 DEF Whole
<1>3. T = Seq(Byte)
  <2> HIDE DEF Whole
  <2>1. T \in SUBSET Seq(Byte)
    OBVIOUS
  <2> HIDE DEF T
  <2>2. QED
    BY <1>1, <1>2, <2>1, SetOfAllSequences
<1>4. QED
  BY <1>3 DEF Readers!Line, Byte

LEMMA AppendBehind ==
  ASSUME NEW A, NEW s \in Seq(A), NEW u \in Seq(A), NEW a \in A
  PROVE  s \o Append(u, a) = Append(s \o u, a) /\ s \o u \in Seq(A)
<1>1. s \o u \in Seq(A) /\ <<a>> \in Seq(A)
  BY ConcatProperties
<1>2. Append(u, a) = u \o <<a>> /\ Append(s \o u, a) = (s \o u) \o <<a>>
  BY <1>1, AppendIsConcat
<1>3. (s \o u) \o <<a>> = s \o (u \o <<a>>)
  BY <1>1, ConcatAssociative
<1>4. QED
  BY <1>1, <1>2, <1>3

LEMMA LinesInOrder ==
  \A s, t, u \in Seq(Readers!Line) : (s \o t) \o u = s \o (t \o u)
BY ConcatAssociative

(* A text that goes on: its lines are those it had, and those of the rest    *)
(* with what came, so that nothing depends on where it was cut.              *)
LEMMA CutAnywhere ==
  ASSUME NEW s \in Readers!Line, NEW t \in Readers!Line
  PROVE  LET old == Readers!LinesOf[s]
             new == Readers!LinesOf[old.rest \o t]
         IN  Readers!LinesOf[s \o t] = [lines |-> old.lines \o new.lines, rest |-> new.rest]
<1> DEFINE old == Readers!LinesOf[s]
           New(u) == Readers!LinesOf[old.rest \o u]
           Fits(u) == Readers!LinesOf[s \o u] = [lines |-> old.lines \o New(u).lines, rest |-> New(u).rest]
           T == {u \in Seq(Byte) : Fits(u)}
<1>1. old \in Cut /\ old.rest \in Seq(Byte) /\ old.lines \in Seq(Readers!Line) /\ s \in Seq(Byte)
  BY LinesSteps DEF Cut, Readers!Line, Byte
<1>2. <<>> \in T
  <2>1. s \o <<>> = s /\ old.rest \o <<>> = old.rest
    BY <1>1, ConcatEmptySeq
  <2>2. Endless(old.rest)
    BY RestIsEndless
  <2>3. New(<<>>) = [lines |-> <<>>, rest |-> old.rest]
    BY <1>1, <2>1, <2>2, EndlessIsRest DEF Readers!Line, Byte
  <2>4. old.lines \o <<>> = old.lines
    BY <1>1, ConcatEmptySeq
  <2>5. old = [lines |-> old.lines, rest |-> old.rest]
    <3> HIDE DEF old
    <3>1. QED
      BY <1>1 DEF Cut
  <2>6. Readers!LinesOf[s \o <<>>] = old
    <3> HIDE DEF New
    <3>1. QED
      BY <2>1
  <2> HIDE DEF New, old
  <2>7. Readers!LinesOf[s \o <<>>] = [lines |-> old.lines \o New(<<>>).lines, rest |-> New(<<>>).rest]
    <3>1. New(<<>>).lines = <<>> /\ New(<<>>).rest = old.rest
      BY <2>3
    <3>2. QED
      BY <2>4, <2>5, <2>6, <3>1
  <2>8. QED
    BY <2>7, EmptySeq
<1>3. ASSUME NEW u \in T, NEW byte \in Byte PROVE Append(u, byte) \in T
  <2>1. u \in Seq(Byte) /\ Append(u, byte) \in Seq(Byte)
    BY AppendProperties
  <2> HIDE DEF old
  <2>2. /\ s \o Append(u, byte) = Append(s \o u, byte) /\ s \o u \in Readers!Line
        /\ old.rest \o Append(u, byte) = Append(old.rest \o u, byte)
        /\ old.rest \o u \in Readers!Line
    <3>1. s \o Append(u, byte) = Append(s \o u, byte) /\ s \o u \in Seq(Byte)
      BY <1>1, <2>1, AppendBehind
    <3>2. old.rest \o Append(u, byte) = Append(old.rest \o u, byte) /\ old.rest \o u \in Seq(Byte)
      BY <1>1, <2>1, AppendBehind
    <3>3. QED
      BY <3>1, <3>2 DEF Readers!Line, Byte
  <2>3. /\ Readers!LinesOf[s \o Append(u, byte)] = Another(Readers!LinesOf[s \o u], byte)
        /\ New(Append(u, byte)) = Another(New(u), byte)
        /\ New(u) \in Cut
    BY <2>2, LinesSteps
  <2> HIDE DEF New
  <2>4. Readers!LinesOf[s \o u] = [lines |-> old.lines \o New(u).lines, rest |-> New(u).rest]
    OBVIOUS
  <2>5. New(u).lines \in Seq(Readers!Line) /\ Readers!Emitted(New(u).rest) \in Seq(Readers!Line)
    BY <2>3, AnotherTypes DEF Cut
  <2>6. CASE byte = "end"
    <3>1. (old.lines \o New(u).lines) \o Readers!Emitted(New(u).rest)
            = old.lines \o (New(u).lines \o Readers!Emitted(New(u).rest))
      BY <1>1, <2>5, LinesInOrder
    <3>2. New(Append(u, byte)) = [lines |-> New(u).lines \o Readers!Emitted(New(u).rest), rest |-> <<>>]
      BY <2>3, <2>6 DEF Another
    <3>3. Readers!LinesOf[s \o Append(u, byte)]
            = [lines |-> (old.lines \o New(u).lines) \o Readers!Emitted(New(u).rest), rest |-> <<>>]
      BY <2>3, <2>4, <2>6 DEF Another
    <3>4. Fits(Append(u, byte))
      BY <3>1, <3>2, <3>3
    <3>5. QED
      BY <2>1, <3>4
  <2>7. CASE byte # "end"
    <3>1. New(Append(u, byte)) = [lines |-> New(u).lines, rest |-> Append(New(u).rest, byte)]
      BY <2>3, <2>7 DEF Another
    <3>2. Readers!LinesOf[s \o Append(u, byte)]
            = [lines |-> old.lines \o New(u).lines, rest |-> Append(New(u).rest, byte)]
      BY <2>3, <2>4, <2>7 DEF Another
    <3>3. Fits(Append(u, byte))
      BY <3>1, <3>2
    <3>4. QED
      BY <2>1, <3>3
  <2>8. QED
    BY <2>6, <2>7
<1>4. T = Seq(Byte)
  <2>1. T \in SUBSET Seq(Byte)
    OBVIOUS
  <2> HIDE DEF T
  <2>2. QED
    BY <1>2, <1>3, <2>1, SetOfAllSequences
<1>5. t \in T
  BY <1>4 DEF Readers!Line, Byte
<1>6. QED
  BY <1>5

(* The JSON among lines and more lines.                                      *)
LEMMA ParsedTogether ==
  ASSUME NEW s \in Seq(Readers!Line), NEW t \in Seq(Readers!Line)
  PROVE  Readers!Parsed[s \o t] = Readers!Parsed[s] \o Readers!Parsed[t]
<1> DEFINE P == Readers!Parsed
           T == {u \in Seq(Readers!Line) : P[s \o u] = P[s] \o P[u]}
<1>1. <<>> \in T
  <2>1. s \o <<>> = s /\ P[<<>>] = <<>> /\ P[s] \o <<>> = P[s]
    BY ParsedSteps, ConcatEmptySeq
  <2>2. QED
    BY <2>1, EmptySeq
<1>2. ASSUME NEW u \in T, NEW l \in Readers!Line PROVE Append(u, l) \in T
  <2>1. u \in Seq(Readers!Line) /\ Append(u, l) \in Seq(Readers!Line) /\ P[s \o u] = P[s] \o P[u]
    BY AppendProperties
  <2>2. s \o Append(u, l) = Append(s \o u, l) /\ s \o u \in Seq(Readers!Line)
    BY <2>1, AppendBehind
  <2>3. P[s \o Append(u, l)] = Joined(P[s \o u], l) /\ P[Append(u, l)] = Joined(P[u], l)
        /\ P[s] \in Seq(Readers!Line) /\ P[u] \in Seq(Readers!Line)
    BY <2>1, <2>2, ParsedSteps
  <2>4. Joined(P[s] \o P[u], l) = P[s] \o Joined(P[u], l)
    <3> DEFINE more == IF Readers!Parses(l) THEN <<l>> ELSE <<>>
    <3>1. more \in Seq(Readers!Line)
      BY EmptySeq
    <3> HIDE DEF more, P
    <3>2. (P[s] \o P[u]) \o more = P[s] \o (P[u] \o more)
      BY <2>3, <3>1, LinesInOrder
    <3>3. QED
      BY <3>2 DEF Joined, more
  <2> HIDE DEF P
  <2>5. QED
    BY <2>1, <2>3, <2>4
<1>3. T = Seq(Readers!Line)
  <2>1. T \in SUBSET Seq(Readers!Line)
    OBVIOUS
  <2> HIDE DEF T
  <2>2. QED
    BY <1>1, <1>2, <2>1, SetOfAllSequences
<1>4. QED
  BY <1>3
-----------------------------------------------------------------------------
(* What a decoder spoils of a text: nothing but halves of characters.        *)
Halves == {"head", "tail", Readers!Garbled}

Alike(s, t) ==
  DOMAIN s = DOMAIN t /\ \A i \in DOMAIN s : s[i] = t[i] \/ (s[i] \in Halves /\ t[i] \in Halves)

LinesAlike(s, t) == DOMAIN s = DOMAIN t /\ \A i \in DOMAIN s : Alike(s[i], t[i])

LEMMA SameLength ==
  ASSUME NEW m \in Nat, NEW n \in Nat, 1 .. m = 1 .. n PROVE m = n
<1>1. m # 0 => m \in 1 .. n
  OBVIOUS
<1>2. n # 0 => n \in 1 .. m
  OBVIOUS
<1>3. QED
  BY <1>1, <1>2

LEMMA AlikeAppended ==
  ASSUME NEW s \in Seq(Byte), NEW t \in Seq(Byte), NEW a \in Byte, NEW c \in Byte,
         Alike(s, t), a = c \/ (a \in Halves /\ c \in Halves)
  PROVE  Alike(Append(s, a), Append(t, c))
<1>1. /\ DOMAIN s = 1 .. Len(s) /\ DOMAIN t = 1 .. Len(t) /\ Len(s) \in Nat /\ Len(t) \in Nat
  BY LenProperties
<1>2. Len(s) = Len(t)
  BY <1>1, SameLength DEF Alike
<1> DEFINE x == Append(s, a)
           y == Append(t, c)
<1>3. /\ DOMAIN x = 1 .. Len(s) + 1 /\ DOMAIN y = 1 .. Len(s) + 1
      /\ \A i \in 1 .. Len(s) : x[i] = s[i] /\ y[i] = t[i]
      /\ x[Len(s) + 1] = a /\ y[Len(s) + 1] = c
  BY <1>1, <1>2
<1> HIDE DEF x, y
<1>4. Alike(x, y)
  BY <1>1, <1>3 DEF Alike
<1>5. QED
  BY <1>4 DEF x, y

LEMMA AlikeTogether ==
  ASSUME NEW s \in Seq(Byte), NEW t \in Seq(Byte), NEW u \in Seq(Byte), NEW v \in Seq(Byte),
         Alike(s, t), Alike(u, v)
  PROVE  Alike(s \o u, t \o v)
<1>1. /\ DOMAIN s = 1 .. Len(s) /\ DOMAIN t = 1 .. Len(t) /\ Len(s) \in Nat /\ Len(t) \in Nat
      /\ DOMAIN u = 1 .. Len(u) /\ DOMAIN v = 1 .. Len(v) /\ Len(u) \in Nat /\ Len(v) \in Nat
  BY LenProperties
<1>2. Len(s) = Len(t) /\ Len(u) = Len(v)
  BY <1>1, SameLength DEF Alike
<1> DEFINE x == s \o u
           y == t \o v
<1>3. /\ DOMAIN x = 1 .. Len(s) + Len(u) /\ DOMAIN y = 1 .. Len(s) + Len(u)
      /\ \A i \in 1 .. Len(s) + Len(u) :
           /\ x[i] = IF i <= Len(s) THEN s[i] ELSE u[i - Len(s)]
           /\ y[i] = IF i <= Len(s) THEN t[i] ELSE v[i - Len(s)]
  BY <1>1, <1>2
<1> HIDE DEF x, y
<1>4. ASSUME NEW i \in 1 .. Len(s) + Len(u)
      PROVE  x[i] = y[i] \/ (x[i] \in Halves /\ y[i] \in Halves)
  <2>1. CASE i <= Len(s)
    BY <1>1, <1>3, <1>4, <2>1 DEF Alike
  <2>2. CASE i > Len(s)
    <3>1. i - Len(s) \in DOMAIN u
      BY <1>1, <1>4, <2>2
    <3>2. x[i] = u[i - Len(s)] /\ y[i] = v[i - Len(s)]
      BY <1>1, <1>3, <1>4, <2>2
    <3>3. QED
      BY <3>1, <3>2 DEF Alike
  <2>3. QED
    BY <1>1, <1>4, <2>1, <2>2
<1>5. QED
  BY <1>3, <1>4 DEF Alike, x, y

LEMMA LinesTogether ==
  ASSUME NEW s \in Seq(Readers!Line), NEW t \in Seq(Readers!Line),
         NEW u \in Seq(Readers!Line), NEW v \in Seq(Readers!Line), LinesAlike(s, t), LinesAlike(u, v)
  PROVE  LinesAlike(s \o u, t \o v)
<1>1. /\ DOMAIN s = 1 .. Len(s) /\ DOMAIN t = 1 .. Len(t) /\ Len(s) \in Nat /\ Len(t) \in Nat
      /\ DOMAIN u = 1 .. Len(u) /\ DOMAIN v = 1 .. Len(v) /\ Len(u) \in Nat /\ Len(v) \in Nat
  BY LenProperties
<1>2. Len(s) = Len(t) /\ Len(u) = Len(v)
  BY <1>1, SameLength DEF LinesAlike
<1> DEFINE x == s \o u
           y == t \o v
<1>3. /\ DOMAIN x = 1 .. Len(s) + Len(u) /\ DOMAIN y = 1 .. Len(s) + Len(u)
      /\ \A i \in 1 .. Len(s) + Len(u) :
           /\ x[i] = IF i <= Len(s) THEN s[i] ELSE u[i - Len(s)]
           /\ y[i] = IF i <= Len(s) THEN t[i] ELSE v[i - Len(s)]
  BY <1>1, <1>2
<1> HIDE DEF x, y
<1>4. ASSUME NEW i \in 1 .. Len(s) + Len(u) PROVE Alike(x[i], y[i])
  <2>1. CASE i <= Len(s)
    <3>1. i \in DOMAIN s /\ x[i] = s[i] /\ y[i] = t[i]
      BY <1>1, <1>3, <1>4, <2>1
    <3>2. QED
      BY <3>1 DEF LinesAlike
  <2>2. CASE i > Len(s)
    <3>1. i - Len(s) \in DOMAIN u
      BY <1>1, <1>4, <2>2
    <3>2. x[i] = u[i - Len(s)] /\ y[i] = v[i - Len(s)]
      BY <1>1, <1>3, <1>4, <2>2
    <3>3. QED
      BY <3>1, <3>2 DEF LinesAlike
  <2>3. QED
    BY <1>1, <1>4, <2>1, <2>2
<1>5. QED
  BY <1>3, <1>4 DEF LinesAlike, x, y

(* An end is no half, and neither is a byte that spoils a line for JSON.     *)
LEMMA HalvesAre == "end" \notin Halves /\ "bad" \notin Halves
BY DEF Halves, Readers!Garbled

LEMMA EmittedAlike ==
  ASSUME NEW s \in Readers!Line, NEW t \in Readers!Line, Alike(s, t)
  PROVE  LinesAlike(Readers!Emitted(s), Readers!Emitted(t))
<1>1. DOMAIN s = 1 .. Len(s) /\ DOMAIN t = 1 .. Len(t) /\ Len(s) \in Nat /\ Len(t) \in Nat
  BY LenProperties DEF Readers!Line
<1>2. Len(s) = Len(t)
  BY <1>1, SameLength DEF Alike
<1>3. s = <<>> <=> t = <<>>
  BY <1>2, EmptySeq DEF Readers!Line
<1>4. CASE s = <<>>
  BY <1>3, <1>4 DEF LinesAlike, Readers!Emitted
<1>5. CASE s # <<>>
  <2>1. Readers!Emitted(s) = <<s>> /\ Readers!Emitted(t) = <<t>>
    BY <1>3, <1>5 DEF Readers!Emitted
  <2>2. DOMAIN <<s>> = {1} /\ DOMAIN <<t>> = {1} /\ <<s>>[1] = s /\ <<t>>[1] = t
    OBVIOUS
  <2>3. QED
    BY <2>1, <2>2 DEF LinesAlike
<1>6. QED
  BY <1>4, <1>5

(* Texts alike have lines alike, and a rest alike.                           *)
CutsAlike(c, d) == LinesAlike(c.lines, d.lines) /\ Alike(c.rest, d.rest)

LEMMA CutAlike ==
  ASSUME NEW s \in Readers!Line, NEW t \in Readers!Line, Alike(s, t)
  PROVE  CutsAlike(Readers!LinesOf[s], Readers!LinesOf[t])
<1> DEFINE L == Readers!LinesOf
           T == {u \in Seq(Byte) : \A v \in Seq(Byte) : Alike(v, u) => CutsAlike(L[v], L[u])}
<1>1. <<>> \in T
  <2>1. ASSUME NEW v \in Seq(Byte), Alike(v, <<>>) PROVE CutsAlike(L[v], L[<<>>])
    <3>1. v = <<>>
      <4>1. DOMAIN v = 1 .. Len(v) /\ Len(v) \in Nat /\ DOMAIN v = {}
        BY <2>1, LenProperties DEF Alike
      <4>2. Len(v) = 0
        BY <4>1
      <4>3. QED
        BY <4>2, EmptySeq
    <3>2. L[<<>>] = Nought
      BY LinesSteps
    <3> HIDE DEF L
    <3>3. CutsAlike(Nought, Nought)
      BY DEF CutsAlike, Nought, LinesAlike, Alike
    <3>4. QED
      BY <3>1, <3>2, <3>3
  <2> HIDE DEF L
  <2>2. QED
    BY <2>1, EmptySeq
<1>2. ASSUME NEW u \in T, NEW c \in Byte PROVE Append(u, c) \in T
  <2>1. u \in Seq(Byte) /\ Append(u, c) \in Seq(Byte)
    BY AppendProperties
  <2>2. ASSUME NEW v \in Seq(Byte), Alike(v, Append(u, c)) PROVE CutsAlike(L[v], L[Append(u, c)])
    <3>1. /\ DOMAIN Append(u, c) = 1 .. Len(u) + 1 /\ Len(u) \in Nat
          /\ \A i \in 1 .. Len(u) : Append(u, c)[i] = u[i]
          /\ Append(u, c)[Len(u) + 1] = c
      BY <2>1
    <3>2. DOMAIN v = 1 .. Len(v) /\ Len(v) \in Nat
      BY LenProperties
    <3>3. Len(v) = Len(u) + 1 /\ v # <<>>
      BY <2>2, <3>1, <3>2, EmptySeq DEF Alike
    <3> DEFINE b == Before(v)
               a == v[Len(v)]
    <3>4. b \in Seq(Byte) /\ Len(b) = Len(v) - 1 /\ a \in Byte /\ v = Append(b, a)
      BY <3>3, BeforeTypes
    <3> HIDE DEF a, b
    <3>5. a = c \/ (a \in Halves /\ c \in Halves)
      <4>1. v[Len(u) + 1] = c \/ (v[Len(u) + 1] \in Halves /\ c \in Halves)
        BY <2>2, <3>1 DEF Alike
      <4>2. QED
        BY <3>3, <4>1 DEF a
    <3>6. Alike(b, u)
      <4>1. DOMAIN b = 1 .. Len(u) /\ DOMAIN u = 1 .. Len(u)
        BY <2>1, <3>1, <3>3, <3>4, LenProperties
      <4>2. \A i \in 1 .. Len(u) : v[i] = b[i]
        BY <3>3, <3>4, AppendProperties
      <4>3. \A i \in 1 .. Len(u) : v[i] = u[i] \/ (v[i] \in Halves /\ u[i] \in Halves)
        BY <2>2, <3>1 DEF Alike
      <4>4. QED
        BY <4>1, <4>2, <4>3 DEF Alike
    <3>7. /\ L[v] = Another(L[b], a) /\ L[Append(u, c)] = Another(L[u], c)
          /\ L[b] \in Cut /\ L[u] \in Cut
      BY <2>1, <3>4, LinesSteps DEF Readers!Line, Byte
    <3>8. CutsAlike(L[b], L[u])
      BY <3>4, <3>6
    <3> HIDE DEF L
    <3>9. /\ L[b].lines \in Seq(Readers!Line) /\ L[b].rest \in Readers!Line
          /\ L[u].lines \in Seq(Readers!Line) /\ L[u].rest \in Readers!Line
      BY <3>7 DEF Cut
    <3>10. CASE c = "end"
      <4>1. a = "end"
        BY <3>5, <3>10, HalvesAre
      <4>2. LinesAlike(Readers!Emitted(L[b].rest), Readers!Emitted(L[u].rest))
        BY <3>8, <3>9, EmittedAlike DEF CutsAlike
      <4>3. Readers!Emitted(L[b].rest) \in Seq(Readers!Line) /\ Readers!Emitted(L[u].rest) \in Seq(Readers!Line)
        BY <3>4, <3>7, AnotherTypes
      <4>4. LinesAlike(L[b].lines \o Readers!Emitted(L[b].rest), L[u].lines \o Readers!Emitted(L[u].rest))
        BY <3>8, <3>9, <4>2, <4>3, LinesTogether DEF CutsAlike
      <4>5. /\ Another(L[b], a) = [lines |-> L[b].lines \o Readers!Emitted(L[b].rest), rest |-> <<>>]
            /\ Another(L[u], c) = [lines |-> L[u].lines \o Readers!Emitted(L[u].rest), rest |-> <<>>]
        BY <3>10, <4>1 DEF Another
      <4>6. Alike(<<>>, <<>>)
        BY DEF Alike
      <4>7. QED
        BY <3>7, <4>4, <4>5, <4>6 DEF CutsAlike
    <3>11. CASE c # "end"
      <4>1. a # "end"
        BY <3>5, <3>11, HalvesAre
      <4>2. Alike(Append(L[b].rest, a), Append(L[u].rest, c))
        BY <3>4, <3>5, <3>8, <3>9, AlikeAppended DEF CutsAlike, Readers!Line, Byte
      <4>3. /\ Another(L[b], a) = [lines |-> L[b].lines, rest |-> Append(L[b].rest, a)]
            /\ Another(L[u], c) = [lines |-> L[u].lines, rest |-> Append(L[u].rest, c)]
        BY <3>11, <4>1 DEF Another
      <4>4. QED
        BY <3>7, <3>8, <4>2, <4>3 DEF CutsAlike
    <3>12. QED
      BY <3>10, <3>11
  <2> HIDE DEF L
  <2>3. QED
    BY <2>1, <2>2
<1>3. T = Seq(Byte)
  <2>1. T \in SUBSET Seq(Byte)
    OBVIOUS
  <2> HIDE DEF T
  <2>2. QED
    BY <1>1, <1>2, <2>1, SetOfAllSequences
<1>4. t \in T /\ s \in Seq(Byte)
  BY <1>3 DEF Readers!Line, Byte
<1> HIDE DEF L
<1>5. CutsAlike(L[s], L[t])
  BY <1>4
<1>6. QED
  BY <1>5 DEF L

LEMMA ParsesAlike ==
  ASSUME NEW s, NEW t, Alike(s, t) PROVE Readers!Parses(s) <=> Readers!Parses(t)
BY HalvesAre DEF Alike, Readers!Parses

LEMMA JoinedAlike ==
  ASSUME NEW s \in Seq(Readers!Line), NEW t \in Seq(Readers!Line), LinesAlike(s, t),
         NEW l \in Readers!Line, NEW m \in Readers!Line, Alike(l, m)
  PROVE  LinesAlike(Joined(s, l), Joined(t, m))
<1>1. CASE Readers!Parses(l)
  <2>1. Readers!Parses(m)
    BY <1>1, ParsesAlike
  <2>2. <<l>> \in Seq(Readers!Line) /\ <<m>> \in Seq(Readers!Line) /\ LinesAlike(<<l>>, <<m>>)
    BY DEF LinesAlike
  <2>3. LinesAlike(s \o <<l>>, t \o <<m>>)
    BY <2>2, LinesTogether
  <2>4. QED
    BY <1>1, <2>1, <2>3 DEF Joined
<1>2. CASE ~Readers!Parses(l)
  <2>1. ~Readers!Parses(m)
    BY <1>2, ParsesAlike
  <2>2. s \o <<>> = s /\ t \o <<>> = t
    BY ConcatEmptySeq
  <2>3. QED
    BY <1>2, <2>1, <2>2 DEF Joined
<1>3. QED
  BY <1>1, <1>2

LEMMA ParsedAlike ==
  ASSUME NEW s \in Seq(Readers!Line), NEW t \in Seq(Readers!Line), LinesAlike(s, t)
  PROVE  LinesAlike(Readers!Parsed[s], Readers!Parsed[t])
<1> DEFINE P == Readers!Parsed
           V == Seq(Readers!Line)
           T == {u \in V : \A v \in V : LinesAlike(v, u) => LinesAlike(P[v], P[u])}
<1>1. <<>> \in T
  <2>1. ASSUME NEW v \in V, LinesAlike(v, <<>>) PROVE LinesAlike(P[v], P[<<>>])
    <3>1. v = <<>>
      <4>1. DOMAIN v = 1 .. Len(v) /\ Len(v) \in Nat /\ DOMAIN v = {}
        BY <2>1, LenProperties DEF LinesAlike
      <4>2. Len(v) = 0
        BY <4>1
      <4>3. QED
        BY <4>2, EmptySeq
    <3>2. P[<<>>] = <<>>
      BY ParsedSteps
    <3> HIDE DEF P
    <3>3. QED
      BY <2>1, <3>1, <3>2
  <2> HIDE DEF P
  <2>2. QED
    BY <2>1, EmptySeq
<1>2. ASSUME NEW u \in T, NEW m \in Readers!Line PROVE Append(u, m) \in T
  <2>1. u \in V /\ Append(u, m) \in V
    BY AppendProperties
  <2>2. ASSUME NEW v \in V, LinesAlike(v, Append(u, m)) PROVE LinesAlike(P[v], P[Append(u, m)])
    <3>1. /\ DOMAIN Append(u, m) = 1 .. Len(u) + 1 /\ Len(u) \in Nat
          /\ \A i \in 1 .. Len(u) : Append(u, m)[i] = u[i]
          /\ Append(u, m)[Len(u) + 1] = m
      BY <2>1
    <3>2. DOMAIN v = 1 .. Len(v) /\ Len(v) \in Nat
      BY LenProperties
    <3>3. Len(v) = Len(u) + 1 /\ v # <<>>
      <4>1. 1 .. Len(v) = 1 .. Len(u) + 1
        BY <2>2, <3>1, <3>2 DEF LinesAlike
      <4>2. Len(u) + 1 \in Nat
        BY <3>1
      <4>3. Len(v) = Len(u) + 1
        BY <3>2, <4>1, <4>2, SameLength
      <4>4. QED
        BY <3>1, <4>3, EmptySeq
    <3> DEFINE b == Before(v)
               l == v[Len(v)]
    <3>4. b \in V /\ Len(b) = Len(v) - 1 /\ l \in Readers!Line /\ v = Append(b, l)
      BY <3>3, BeforeTypes
    <3>5. Alike(l, m)
      <4>1. Alike(v[Len(u) + 1], m)
        BY <2>2, <3>1, <3>2, <3>3 DEF LinesAlike
      <4>2. QED
        BY <3>3, <4>1
    <3> HIDE DEF l, b
    <3>6. LinesAlike(b, u)
      <4>1. DOMAIN b = 1 .. Len(u) /\ DOMAIN u = 1 .. Len(u)
        BY <2>1, <3>1, <3>3, <3>4, LenProperties
      <4>2. \A i \in 1 .. Len(u) : v[i] = b[i]
        BY <3>3, <3>4, AppendProperties
      <4>3. \A i \in 1 .. Len(u) : i \in 1 .. Len(v)
        BY <3>3, <3>1
      <4>4. \A i \in 1 .. Len(u) : Alike(v[i], u[i])
        BY <2>2, <3>1, <3>2, <4>3 DEF LinesAlike
      <4>5. QED
        BY <4>1, <4>2, <4>4 DEF LinesAlike
    <3>7. P[v] = Joined(P[b], l) /\ P[Append(u, m)] = Joined(P[u], m) /\ P[b] \in V /\ P[u] \in V
      BY <2>1, <3>4, ParsedSteps
    <3> HIDE DEF P
    <3>8. LinesAlike(P[b], P[u])
      BY <3>4, <3>6
    <3>9. QED
      BY <3>4, <3>5, <3>7, <3>8, JoinedAlike
  <2> HIDE DEF P
  <2>3. QED
    BY <2>1, <2>2
<1>3. T = V
  <2>1. T \in SUBSET V
    OBVIOUS
  <2> HIDE DEF T
  <2>2. QED
    BY <1>1, <1>2, <2>1, SetOfAllSequences
<1>4. t \in T
  BY <1>3
<1> HIDE DEF P
<1>5. LinesAlike(P[s], P[t])
  BY <1>4
<1>6. QED
  BY <1>5 DEF P

(* A piece decoded by itself is spoilt in halves of characters only.         *)
LEMMA AloneIsAlike ==
  ASSUME NEW piece \in Seq(Byte)
  PROVE  Readers!Alone(piece) \in Seq(Byte) /\ Alike(Readers!Alone(piece), piece)
<1>1. DOMAIN piece = 1 .. Len(piece) /\ Len(piece) \in Nat /\ \A i \in 1 .. Len(piece) : piece[i] \in Byte
  BY LenProperties
<1> DEFINE x == Readers!Alone(piece)
<1>2. /\ x = [i \in 1 .. Len(piece) |-> x[i]]
      /\ \A i \in 1 .. Len(piece) :
           x[i] = piece[i] \/ (x[i] = Readers!Garbled /\ piece[i] \in {"head", "tail"})
  BY <1>1 DEF Readers!Alone
<1> HIDE DEF x
<1>3. Readers!Garbled \in Byte
  BY DEF Byte
<1>4. \A i \in 1 .. Len(piece) : x[i] \in Byte
  BY <1>1, <1>2, <1>3
<1>5. x \in [1 .. Len(piece) -> Byte]
  BY <1>2, <1>4
<1>6. x \in Seq(Byte)
  BY <1>1, <1>5
<1>7. DOMAIN x = DOMAIN piece
  BY <1>1, <1>2
<1>8. Alike(x, piece)
  BY <1>1, <1>2, <1>7 DEF Alike, Halves
<1>9. QED
  BY <1>6, <1>8 DEF x
-----------------------------------------------------------------------------
(* The lines of what was read, and the rest.                                 *)
Was == Readers!LinesOf[SubSeq(text, 1, offset)]

(* What was read is held back or handed on; at the end of its pipe the       *)
(* reader of pi holds back nothing.                                          *)
PipeInv ==
  \/ partial = Was.rest /\ handed = Was.lines
  \/ /\ over /\ offset = Len(text) /\ partial = <<>>
     /\ handed = Was.lines \o Readers!Emitted(Was.rest)

FileInv  == partial = Was.rest /\ handed = Readers!Parsed[Was.lines] /\ line = Len(Was.lines)
MeterInv == dropped \/ (Alike(partial, Was.rest) /\ LinesAlike(handed, Readers!Parsed[Was.lines]))

ReadersInv ==
  /\ Readers!TypeOK
  /\ kind = "jsonl" => PipeInv
  /\ kind = "file" => FileInv
  /\ kind = "meter" => MeterInv

LEMMA TextTypes ==
  ASSUME Readers!TypeOK
  PROVE  /\ text \in Seq(Readers!Bytes) /\ text \in Seq(Byte) /\ Len(text) \in Nat /\ offset \in 0 .. Len(text)
         /\ \A i, j \in Nat : i > 0 /\ j <= Len(text) => SubSeq(text, i, j) \in Seq(Byte)
         /\ Was \in Cut
<1>1. text \in Seq(Readers!Bytes) /\ offset \in 0 .. Len(text)
  BY DEF Readers!TypeOK
<1>2. text \in Seq(Byte)
  BY <1>1, SeqMonotonic DEF Byte
<1>3. Len(text) \in Nat /\ \A i \in 1 .. Len(text) : text[i] \in Byte
  BY <1>2, LenProperties, ElementOfSeq
<1>4. \A i, j \in Nat : i > 0 /\ j <= Len(text) => SubSeq(text, i, j) \in Seq(Byte)
  BY <1>3, SubSeqProperties
<1>5. SubSeq(text, 1, offset) \in Seq(Byte)
  BY <1>1, <1>3, <1>4
<1>6. Was \in Cut
  BY <1>5, LinesSteps DEF Was, Readers!Line, Byte
<1>7. QED
  BY <1>1, <1>2, <1>3, <1>4, <1>6

LEMMA ReadersInit == Readers!Init => ReadersInv
<1> SUFFICES ASSUME Readers!Init PROVE ReadersInv
  OBVIOUS
<1>1. /\ text = <<>> /\ over = FALSE /\ offset = 0 /\ partial = <<>> /\ kind \in Readers!Kinds
      /\ line = 0 /\ handed = <<>> /\ dropped = FALSE
  BY DEF Readers!Init
<1>2. Was = Nought
  <2>1. SubSeq(<<>>, 1, 0) = <<>>
    BY SubSeqEmpty
  <2>2. QED
    BY <1>1, <2>1, LinesSteps DEF Was
<1>3. Readers!Parsed[<<>>] = <<>>
  BY ParsedSteps
<1>4. Readers!TypeOK
  <2>1. Len(text) = 0 /\ text \in Seq(Readers!Bytes) /\ partial \in Readers!Line /\ handed \in Seq(Readers!Line)
    BY <1>1, EmptySeq DEF Readers!Line
  <2>2. offset \in 0 .. Len(text) /\ line \in Nat
    <3>1. 0 \in 0 .. 0 /\ 0 \in Nat
      OBVIOUS
    <3>2. QED
      BY <1>1, <2>1, <3>1
  <2>3. kind \in Readers!Kinds /\ over \in BOOLEAN /\ dropped \in BOOLEAN
    BY <1>1
  <2>4. QED
    BY <2>1, <2>2, <2>3 DEF Readers!TypeOK
<1>5. Was.lines = <<>> /\ Was.rest = <<>>
  BY <1>2 DEF Nought
<1>6. Alike(<<>>, <<>>) /\ LinesAlike(<<>>, <<>>)
  BY DEF Alike, LinesAlike
<1>7. QED
  BY <1>1, <1>3, <1>4, <1>5, <1>6, EmptySeq DEF ReadersInv, PipeInv, FileInv, MeterInv

(* What was read together with a piece more of the text.                     *)
LEMMA WasThen ==
  ASSUME Readers!TypeOK, NEW upTo \in offset .. Len(text)
  PROVE  LET piece == SubSeq(text, offset + 1, upTo)
             more  == Readers!LinesOf[Was.rest \o piece]
         IN  /\ piece \in Seq(Byte) /\ more \in Cut
             /\ Readers!LinesOf[SubSeq(text, 1, upTo)]
                  = [lines |-> Was.lines \o more.lines, rest |-> more.rest]
             /\ Readers!Parsed[Was.lines \o more.lines]
                  = Readers!Parsed[Was.lines] \o Readers!Parsed[more.lines]
<1> DEFINE piece == SubSeq(text, offset + 1, upTo)
           start == SubSeq(text, 1, offset)
           more  == Readers!LinesOf[Was.rest \o piece]
<1>1. text \in Seq(Byte) /\ Len(text) \in Nat /\ offset \in 0 .. Len(text) /\ Was \in Cut
  BY TextTypes
<1>2. upTo \in Nat /\ upTo <= Len(text) /\ offset + 1 \in Nat /\ offset + 1 > 0
  BY <1>1
<1>3. piece \in Seq(Byte) /\ start \in Seq(Byte)
  BY <1>1, <1>2, TextTypes
<1>4. start \o piece = SubSeq(text, 1, upTo)
  <2>1. offset \in 1 - 1 .. Len(text) /\ 1 \in 1 .. Len(text) + 1 /\ upTo \in offset .. Len(text)
    BY <1>1, <1>2
  <2>2. QED
    BY <1>1, <2>1, ConcatAdjacentSubSeq
<1>5. Was.rest \in Seq(Byte) /\ Was.lines \in Seq(Readers!Line)
  BY <1>1 DEF Cut, Readers!Line, Byte
<1>6. Was.rest \o piece \in Readers!Line
  BY <1>3, <1>5, ConcatProperties DEF Readers!Line, Byte
<1>7. more \in Cut
  BY <1>6, LinesSteps
<1>8. Readers!LinesOf[start \o piece] = [lines |-> Was.lines \o more.lines, rest |-> more.rest]
  BY <1>3, CutAnywhere DEF Was, Readers!Line, Byte
<1>9. more.lines \in Seq(Readers!Line)
  BY <1>7 DEF Cut
<1> HIDE DEF more, piece, start
<1>10. Readers!Parsed[Was.lines \o more.lines] = Readers!Parsed[Was.lines] \o Readers!Parsed[more.lines]
  BY <1>5, <1>9, ParsedTogether
<1>11. piece \in Seq(Byte) /\ more \in Cut
       /\ Readers!LinesOf[SubSeq(text, 1, upTo)] = [lines |-> Was.lines \o more.lines, rest |-> more.rest]
  BY <1>3, <1>4, <1>7, <1>8
<1>12. QED
  BY <1>10, <1>11 DEF more, piece

(* A line handed on, or more of them.                                        *)
LEMMA HandedTypes ==
  ASSUME NEW cut \in Cut
  PROVE  /\ cut.lines \in Seq(Readers!Line) /\ cut.rest \in Readers!Line
         /\ Readers!Parsed[cut.lines] \in Seq(Readers!Line)
         /\ Len(cut.lines) \in Nat
BY ParsedSteps, LenProperties DEF Cut

LEMMA ReadersRead == ReadersInv /\ Readers!Read => ReadersInv'
<1> SUFFICES ASSUME ReadersInv, Readers!Read PROVE ReadersInv'
  OBVIOUS
<1>1. Readers!TypeOK
  BY DEF ReadersInv
<1>2. PICK upTo \in IF kind = "file" THEN {Len(text)} ELSE offset + 1 .. Len(text) :
        LET new == Readers!LinesOf[partial \o Readers!Decoded(SubSeq(text, offset + 1, upTo))]
            long == kind = "meter" /\ Len(new.rest) > MaxPartial
        IN  /\ offset' = upTo
            /\ partial' = IF long THEN <<>> ELSE new.rest
            /\ dropped' = (dropped \/ long)
            /\ line' = line + Len(new.lines)
            /\ handed' = handed \o
                 (IF kind = "jsonl" THEN new.lines ELSE Readers!Parsed[new.lines])
  BY DEF Readers!Read
<1> DEFINE piece == SubSeq(text, offset + 1, upTo)
           more  == Readers!LinesOf[Was.rest \o piece]
           new   == Readers!LinesOf[partial \o Readers!Decoded(piece)]
           long  == kind = "meter" /\ Len(new.rest) > MaxPartial
<1>3. offset' = upTo /\ text' = text /\ kind' = kind /\ over' = over /\ offset < Len(text)
  BY <1>2 DEF Readers!Read
<1>4. offset \in 0 .. Len(text) /\ Len(text) \in Nat /\ upTo \in offset .. Len(text) /\ upTo > offset
  BY <1>1, <1>2, <1>3, TextTypes
<1>5. /\ piece \in Seq(Byte) /\ more \in Cut
      /\ Was' = [lines |-> Was.lines \o more.lines, rest |-> more.rest]
      /\ Readers!Parsed[Was.lines \o more.lines] = Readers!Parsed[Was.lines] \o Readers!Parsed[more.lines]
  <2>1. Was' = Readers!LinesOf[SubSeq(text, 1, upTo)]
    BY <1>3 DEF Was
  <2>2. QED
    BY <1>1, <1>4, <2>1, WasThen
<1>6. Was'.lines = Was.lines \o more.lines /\ Was'.rest = more.rest
  BY <1>5
<1>7. Readers!Decoded(piece) \in Seq(Byte)
      /\ Readers!Decoded(piece) = IF kind = "meter" THEN Readers!Alone(piece) ELSE piece
  BY <1>5, AloneIsAlike DEF Readers!Decoded
<1>8. partial \in Readers!Line /\ handed \in Seq(Readers!Line) /\ line \in Nat /\ dropped \in BOOLEAN
      /\ kind \in Readers!Kinds /\ over \in BOOLEAN /\ text \in Seq(Readers!Bytes)
  BY <1>1 DEF Readers!TypeOK
<1>9. partial \o Readers!Decoded(piece) \in Readers!Line
  BY <1>7, <1>8, ConcatProperties DEF Readers!Line, Byte
<1>10. new \in Cut
  BY <1>9, LinesSteps
<1>11. /\ partial' = IF long THEN <<>> ELSE new.rest
       /\ dropped' = (dropped \/ long) /\ line' = line + Len(new.lines)
       /\ handed' = handed \o (IF kind = "jsonl" THEN new.lines ELSE Readers!Parsed[new.lines])
  BY <1>2
<1> HIDE DEF new, more, piece
<1>12. /\ new.lines \in Seq(Readers!Line) /\ new.rest \in Readers!Line
       /\ Readers!Parsed[new.lines] \in Seq(Readers!Line) /\ Len(new.lines) \in Nat
       /\ more.lines \in Seq(Readers!Line) /\ more.rest \in Readers!Line
       /\ Readers!Parsed[more.lines] \in Seq(Readers!Line) /\ Len(more.lines) \in Nat
       /\ Was.lines \in Seq(Readers!Line) /\ Was.rest \in Readers!Line
       /\ Readers!Parsed[Was.lines] \in Seq(Readers!Line) /\ Len(Was.lines) \in Nat
  BY <1>1, <1>5, <1>10, HandedTypes, TextTypes
<1>13. Readers!TypeOK'
  <2>1. partial' \in Readers!Line
    BY <1>11, <1>12, EmptySeq DEF Readers!Line
  <2>2. handed' \in Seq(Readers!Line)
    <3>1. (IF kind = "jsonl" THEN new.lines ELSE Readers!Parsed[new.lines]) \in Seq(Readers!Line)
      BY <1>12
    <3>2. QED
      BY <1>8, <1>11, <3>1, ConcatProperties
  <2>3. line' \in Nat /\ dropped' \in BOOLEAN /\ offset' \in 0 .. Len(text')
    BY <1>3, <1>4, <1>8, <1>11, <1>12
  <2>4. QED
    BY <1>3, <1>8, <2>1, <2>2, <2>3 DEF Readers!TypeOK
<1>14. ASSUME kind # "meter", partial = Was.rest PROVE new = more /\ partial' = Was'.rest
  <2>1. Readers!Decoded(piece) = piece
    BY <1>7, <1>14
  <2>2. new = more
    BY <1>14, <2>1 DEF new, more
  <2>3. QED
    BY <1>6, <1>11, <1>14, <2>2
<1>15. kind' = "jsonl" => PipeInv'
  <2> SUFFICES ASSUME kind = "jsonl" PROVE PipeInv'
    BY <1>3
  <2>1. partial = Was.rest /\ handed = Was.lines
    <3>1. offset # Len(text)
      BY <1>3, <1>4
    <3>2. PipeInv
      BY DEF ReadersInv
    <3>3. QED
      BY <3>1, <3>2 DEF PipeInv
  <2>2. new = more /\ partial' = Was'.rest
    BY <1>14, <2>1
  <2>3. handed' = handed \o new.lines
    BY <1>11
  <2>4. handed' = Was'.lines
    BY <1>6, <2>1, <2>2, <2>3
  <2>5. QED
    BY <2>2, <2>4 DEF PipeInv
<1>16. kind' = "file" => FileInv'
  <2> SUFFICES ASSUME kind = "file" PROVE FileInv'
    BY <1>3
  <2>1. partial = Was.rest /\ handed = Readers!Parsed[Was.lines] /\ line = Len(Was.lines)
    BY DEF ReadersInv, FileInv
  <2>2. new = more /\ partial' = Was'.rest
    BY <1>14, <2>1
  <2>3. handed' = handed \o Readers!Parsed[new.lines] /\ line' = line + Len(new.lines)
    BY <1>11
  <2>4. handed' = Readers!Parsed[Was'.lines]
    BY <1>5, <1>6, <2>1, <2>2, <2>3
  <2>5. line' = Len(Was'.lines)
    BY <1>6, <1>12, <2>1, <2>2, <2>3, ConcatProperties
  <2>6. QED
    BY <2>2, <2>4, <2>5 DEF FileInv
<1>17. kind' = "meter" => MeterInv'
  <2> SUFFICES ASSUME kind = "meter", ~dropped, ~long PROVE MeterInv'
    BY <1>3, <1>11 DEF MeterInv
  <2>1. Alike(partial, Was.rest) /\ LinesAlike(handed, Readers!Parsed[Was.lines])
    BY DEF ReadersInv, MeterInv
  <2>2. Readers!Decoded(piece) \in Seq(Byte) /\ Alike(Readers!Decoded(piece), piece)
    BY <1>5, <1>7, AloneIsAlike
  <2>3. Alike(partial \o Readers!Decoded(piece), Was.rest \o piece)
    BY <1>5, <1>8, <1>12, <2>1, <2>2, AlikeTogether DEF Readers!Line, Byte
  <2>4. Was.rest \o piece \in Readers!Line
    BY <1>5, <1>12, ConcatProperties DEF Readers!Line, Byte
  <2>5. CutsAlike(new, more)
    BY <1>9, <2>3, <2>4, CutAlike DEF new, more
  <2>6. LinesAlike(Readers!Parsed[new.lines], Readers!Parsed[more.lines])
    BY <1>12, <2>5, ParsedAlike DEF CutsAlike
  <2>7. LinesAlike(handed \o Readers!Parsed[new.lines], Readers!Parsed[Was.lines] \o Readers!Parsed[more.lines])
    BY <1>8, <1>12, <2>1, <2>6, LinesTogether
  <2>8. handed' = handed \o Readers!Parsed[new.lines] /\ partial' = new.rest
    BY <1>11
  <2>9. LinesAlike(handed', Readers!Parsed[Was'.lines])
    BY <1>5, <1>6, <2>7, <2>8
  <2>10. Alike(partial', Was'.rest)
    BY <1>6, <2>5, <2>8 DEF CutsAlike
  <2>11. QED
    BY <2>9, <2>10 DEF MeterInv
<1>18. QED
  BY <1>13, <1>15, <1>16, <1>17 DEF ReadersInv

LEMMA ReadersWrite == ReadersInv /\ Readers!Write => ReadersInv'
<1> SUFFICES ASSUME ReadersInv, Readers!Write PROVE ReadersInv'
  OBVIOUS
<1>1. Readers!TypeOK
  BY DEF ReadersInv
<1>2. PICK byte \in Readers!Bytes : text' = Append(text, byte)
  BY DEF Readers!Write
<1>3. /\ kind' = kind /\ over' = over /\ offset' = offset /\ partial' = partial /\ line' = line
      /\ handed' = handed /\ dropped' = dropped /\ ~over
  BY DEF Readers!Write
<1>4. /\ text' \in Seq(Readers!Bytes) /\ Len(text') = Len(text) + 1
      /\ \A i \in 1 .. Len(text) : text'[i] = text[i]
  BY <1>1, <1>2, AppendProperties, TextTypes
<1>5. SubSeq(text', 1, offset) = SubSeq(text, 1, offset)
  <2>1. offset \in 0 .. Len(text) /\ Len(text) \in Nat /\ text \in Seq(Readers!Bytes)
    BY <1>1, TextTypes
  <2> DEFINE x == SubSeq(text', 1, offset)
             y == SubSeq(text, 1, offset)
  <2>2. /\ x \in Seq(Readers!Bytes) /\ y \in Seq(Readers!Bytes) /\ Len(x) = offset /\ Len(y) = offset
        /\ \A i \in 1 .. offset : x[i] = y[i]
    BY <1>4, <2>1
  <2> HIDE DEF x, y
  <2>3. x = y
    BY <2>2, SeqEqual
  <2>4. QED
    BY <2>3 DEF x, y
<1>6. Was' = Was
  BY <1>3, <1>5 DEF Was
<1>7. Readers!TypeOK'
  <2>1. offset \in 0 .. Len(text')
    BY <1>1, <1>4, TextTypes
  <2>2. QED
    BY <1>1, <1>3, <1>4, <2>1 DEF Readers!TypeOK
<1>8. (kind = "jsonl" => PipeInv') /\ (kind = "file" => FileInv') /\ (kind = "meter" => MeterInv')
  BY <1>3, <1>6 DEF ReadersInv, PipeInv, FileInv, MeterInv
<1>9. QED
  BY <1>3, <1>7, <1>8 DEF ReadersInv

LEMMA ReadersFlush == ReadersInv /\ Readers!Flush => ReadersInv'
<1> SUFFICES ASSUME ReadersInv, Readers!Flush PROVE ReadersInv'
  OBVIOUS
<1>1. Readers!TypeOK
  BY DEF ReadersInv
<1>2. /\ kind = "jsonl" /\ over /\ offset = Len(text) /\ partial # <<>>
      /\ handed' = Append(handed, partial) /\ partial' = <<>>
      /\ kind' = kind /\ text' = text /\ over' = over /\ offset' = offset /\ line' = line
      /\ dropped' = dropped
  BY DEF Readers!Flush
<1>3. partial = Was.rest /\ handed = Was.lines
  BY <1>2 DEF ReadersInv, PipeInv
<1>4. handed \in Seq(Readers!Line) /\ partial \in Readers!Line
  BY <1>1 DEF Readers!TypeOK
<1>5. Append(handed, partial) = Was.lines \o Readers!Emitted(Was.rest)
  <2>1. Readers!Emitted(Was.rest) = << partial >>
    BY <1>2, <1>3 DEF Readers!Emitted
  <2>2. Append(handed, partial) = handed \o << partial >>
    BY <1>4, AppendIsConcat
  <2>3. QED
    BY <1>3, <2>1, <2>2
<1>6. Was' = Was
  BY <1>2 DEF Was
<1>7. PipeInv'
  BY <1>2, <1>5, <1>6 DEF PipeInv
<1>8. Readers!TypeOK'
  <2>1. Append(handed, partial) \in Seq(Readers!Line) /\ <<>> \in Readers!Line
    BY <1>4, AppendProperties, EmptySeq DEF Readers!Line
  <2>2. QED
    BY <1>1, <1>2, <2>1 DEF Readers!TypeOK
<1>9. QED
  BY <1>2, <1>7, <1>8 DEF ReadersInv

(* What is behind the first of two sequences is the second.                  *)
LEMMA BehindIs ==
  ASSUME NEW s \in Seq(Readers!Line), NEW t \in Seq(Readers!Line)
  PROVE  SubSeq(s \o t, Len(s) + 1, Len(s \o t)) = t
<1>1. Len(s) \in Nat /\ Len(t) \in Nat /\ Len(s \o t) = Len(s) + Len(t)
      /\ \A i \in 1 .. Len(s) + Len(t) : (s \o t)[i] = IF i <= Len(s) THEN s[i] ELSE t[i - Len(s)]
  BY ConcatProperties, LenProperties
<1> DEFINE m == Len(s) + 1
           n == Len(s) + Len(t)
           x == SubSeq(s \o t, m, n)
<1>2. m \in Int /\ n \in Int /\ n - m + 1 = Len(t) /\ \A i \in m .. n : i \in 1 .. n
  BY <1>1
<1>3. s \o t \in Seq(Readers!Line) /\ \A i \in m .. n : (s \o t)[i] \in Readers!Line
  BY <1>1, <1>2, ConcatProperties, ElementOfSeq
<1>4. x \in Seq(Readers!Line) /\ Len(x) = (IF m <= n THEN n - m + 1 ELSE 0)
      /\ \A i \in 1 .. n - m + 1 : x[i] = (s \o t)[m + i - 1]
  <2> DEFINE both == s \o t
  <2>1. both \in Seq(Readers!Line) /\ (\A i \in m .. n : both[i] \in Readers!Line)
    BY <1>3
  <2> HIDE DEF m, n, both
  <2>2. /\ SubSeq(both, m, n) \in Seq(Readers!Line)
        /\ Len(SubSeq(both, m, n)) = (IF m <= n THEN n - m + 1 ELSE 0)
        /\ \A i \in 1 .. n - m + 1 : SubSeq(both, m, n)[i] = both[m + i - 1]
    BY <1>2, <2>1, SubSeqProperties
  <2>3. QED
    BY <2>2 DEF both
<1>5. Len(x) = Len(t)
  BY <1>1, <1>2, <1>4
<1>6. ASSUME NEW i \in 1 .. Len(t) PROVE x[i] = t[i]
  <2>1. m + i - 1 = Len(s) + i /\ Len(s) + i \in 1 .. n /\ ~(Len(s) + i <= Len(s))
        /\ Len(s) + i - Len(s) = i
    BY <1>1
  <2>2. x[i] = (s \o t)[Len(s) + i]
    <3> HIDE DEF x
    <3>1. QED
      BY <1>2, <1>4, <2>1
  <2>3. QED
    BY <1>1, <2>1, <2>2
<1>7. x = t
  <2> HIDE DEF x
  <2>1. QED
    BY <1>4, <1>5, <1>6, SeqEqual
<1>8. QED
  BY <1>1, <1>7

LEMMA ReadersSlice == ReadersInv /\ Readers!NextSlice => ReadersInv'
<1> SUFFICES ASSUME ReadersInv, Readers!NextSlice PROVE ReadersInv'
  OBVIOUS
<1>1. Readers!TypeOK
  BY DEF ReadersInv
<1> DEFINE all  == Readers!LinesOf[text].lines
           rest == SubSeq(all, line + 1, Len(all))
           more == Readers!LinesOf[Was.rest \o SubSeq(text, offset + 1, Len(text))]
<1>2. /\ kind = "file" /\ handed' = handed \o Readers!Parsed[rest]
      /\ line' = Len(all) /\ partial' = Readers!LinesOf[text].rest /\ offset' = Len(text)
      /\ kind' = kind /\ text' = text /\ over' = over /\ dropped' = dropped
  BY DEF Readers!NextSlice, Readers!Cursor
<1>3. partial = Was.rest /\ handed = Readers!Parsed[Was.lines] /\ line = Len(Was.lines)
  BY <1>2 DEF ReadersInv, FileInv
<1>4. text \in Seq(Readers!Bytes) /\ text \in Seq(Byte) /\ Len(text) \in Nat /\ offset \in 0 .. Len(text)
      /\ Was \in Cut
  BY <1>1, TextTypes
<1>5. SubSeq(text, 1, Len(text)) = text
  BY <1>4, SubSeqFull
<1>6. Len(text) \in offset .. Len(text)
  BY <1>4
<1>7. /\ more \in Cut
      /\ Readers!LinesOf[text] = [lines |-> Was.lines \o more.lines, rest |-> more.rest]
      /\ Readers!Parsed[Was.lines \o more.lines] = Readers!Parsed[Was.lines] \o Readers!Parsed[more.lines]
  <2> HIDE DEF more
  <2>1. /\ more \in Cut
        /\ Readers!LinesOf[SubSeq(text, 1, Len(text))]
              = [lines |-> Was.lines \o more.lines, rest |-> more.rest]
        /\ Readers!Parsed[Was.lines \o more.lines] = Readers!Parsed[Was.lines] \o Readers!Parsed[more.lines]
    BY <1>1, <1>6, WasThen DEF more
  <2>2. QED
    BY <1>5, <2>1
<1> HIDE DEF more
<1>8. all = Was.lines \o more.lines
  <2>1. [lines |-> Was.lines \o more.lines, rest |-> more.rest].lines = Was.lines \o more.lines
    OBVIOUS
  <2>2. QED
    BY <1>7, <2>1
<1>9. /\ Was.lines \in Seq(Readers!Line) /\ more.lines \in Seq(Readers!Line)
      /\ Len(Was.lines) \in Nat /\ Len(more.lines) \in Nat /\ more.rest \in Readers!Line
      /\ Readers!Parsed[more.lines] \in Seq(Readers!Line)
  BY <1>4, <1>7, HandedTypes
<1>10. rest = more.lines
  BY <1>3, <1>8, <1>9, BehindIs
<1> HIDE DEF rest
<1>11. handed' = Readers!Parsed[all]
  BY <1>2, <1>3, <1>7, <1>8, <1>10
<1>12. Was' = Readers!LinesOf[text]
  BY <1>2, <1>5 DEF Was
<1>13. FileInv'
  BY <1>2, <1>11, <1>12 DEF FileInv
<1>14. Readers!TypeOK'
  <2>1. all \in Seq(Readers!Line) /\ Len(all) \in Nat
    BY <1>8, <1>9, ConcatProperties, LenProperties
  <2>2. handed' \in Seq(Readers!Line)
    BY <1>11, <2>1, ParsedSteps
  <2>3. partial' \in Readers!Line
    BY <1>2, <1>7, <1>9
  <2>4. line' \in Nat /\ offset' \in 0 .. Len(text')
    BY <1>2, <1>4, <2>1
  <2>5. QED
    BY <1>1, <1>2, <2>2, <2>3, <2>4 DEF Readers!TypeOK
<1>15. QED
  BY <1>2, <1>13, <1>14 DEF ReadersInv

LEMMA ReadersInvariant == Spec => []ReadersInv
<1>1. ReadersInv /\ [Readers!Next]_(Readers!vars) => ReadersInv'
  <2> SUFFICES ASSUME ReadersInv, [Readers!Next]_(Readers!vars) PROVE ReadersInv'
    OBVIOUS
  <2>1. CASE Readers!Close
    <3>1. /\ kind' = kind /\ text' = text /\ offset' = offset /\ partial' = partial /\ line' = line
          /\ handed' = handed /\ dropped' = dropped /\ ~over /\ over' = TRUE
      BY <2>1 DEF Readers!Close
    <3>2. Was' = Was
      BY <3>1 DEF Was
    <3>3. QED
      BY <3>1, <3>2 DEF ReadersInv, PipeInv, FileInv, MeterInv, Readers!TypeOK
  <2>2. CASE UNCHANGED Readers!vars
    BY <2>2 DEF Readers!vars, ReadersInv, PipeInv, FileInv, MeterInv, Readers!TypeOK, Was
  <2>3. QED
    BY <2>1, <2>2, ReadersRead, ReadersWrite, ReadersFlush, ReadersSlice DEF Readers!Next
<1>2. QED
  BY <1>1, ReadersInit, ReadersPart, PTL DEF Readers!Spec

(* What the decoder spoils looks spoilt, and nothing else.                   *)
LEMMA UnspoiltAlike ==
  ASSUME NEW s, NEW t, Alike(s, t) PROVE Readers!Unspoilt(s) = Readers!Unspoilt(t)
<1>1. DOMAIN s = DOMAIN t
  BY DEF Alike
<1>2. ASSUME NEW i \in DOMAIN s
      PROVE  (IF s[i] \in {"head", "tail"} THEN Readers!Garbled ELSE s[i])
               = (IF t[i] \in {"head", "tail"} THEN Readers!Garbled ELSE t[i])
  <2>1. s[i] = t[i] \/ (s[i] \in Halves /\ t[i] \in Halves)
    BY DEF Alike
  <2>2. QED
    BY <2>1 DEF Halves
<1>3. QED
  BY <1>1, <1>2 DEF Readers!Unspoilt

(* Every line is handed on once and in order, whatever pieces a text comes   *)
(* in and in however many slices it is read, for texts of any length.        *)
THEOREM LinesHandedOnce == Spec => []LinesOnce
<1>1. ReadersInv => LinesOnce
  <2> SUFFICES ASSUME ReadersInv PROVE Readers!LinesOnce
    BY DEF LinesOnce
  <2>1. Readers!TypeOK
    BY DEF ReadersInv
  <2>2. Was \in Cut /\ text \in Seq(Byte)
    BY <2>1, TextTypes
  <2>3. Readers!Expected = IF kind = "jsonl" THEN Was.lines ELSE Readers!Parsed[Was.lines]
    BY DEF Readers!Expected, Was
  <2>4. CASE kind = "meter"
    <3>1. ASSUME ~dropped
          PROVE  /\ Len(handed) = Len(Readers!Expected)
                 /\ \A i \in DOMAIN handed :
                      Readers!Unspoilt(handed[i]) = Readers!Unspoilt(Readers!Expected[i])
      <4>1. LinesAlike(handed, Readers!Expected)
        BY <2>3, <2>4, <3>1 DEF ReadersInv, MeterInv
      <4>2. handed \in Seq(Readers!Line) /\ Readers!Expected \in Seq(Readers!Line)
        BY <2>1, <2>2, <2>3, <2>4, HandedTypes DEF Readers!TypeOK
      <4>3. Len(handed) = Len(Readers!Expected)
        BY <4>1, <4>2, LenProperties, SameLength DEF LinesAlike
      <4>4. QED
        BY <4>1, <4>3, UnspoiltAlike DEF LinesAlike
    <3>2. QED
      BY <2>4, <3>1 DEF Readers!LinesOnce
  <2>5. CASE kind = "jsonl"
    <3>1. CASE over /\ offset = Len(text) /\ partial = <<>>
      <4>1. SubSeq(text, 1, Len(text)) = text
        BY <2>2, SubSeqFull
      <4>2. Was = Readers!LinesOf[text]
        BY <3>1, <4>1 DEF Was
      <4>3. handed = Was.lines \o Readers!Emitted(Was.rest)
        <5>1. CASE partial = Was.rest /\ handed = Was.lines
          <6>1. Readers!Emitted(Was.rest) = <<>>
            BY <3>1, <5>1 DEF Readers!Emitted
          <6>2. Was.lines \o <<>> = Was.lines
            BY <2>2, HandedTypes, ConcatEmptySeq
          <6>3. QED
            BY <5>1, <6>1, <6>2
        <5>2. QED
          BY <2>5, <5>1 DEF ReadersInv, PipeInv
      <4>4. QED
        BY <2>5, <3>1, <4>2, <4>3 DEF Readers!LinesOnce
    <3>2. CASE ~(over /\ offset = Len(text) /\ partial = <<>>)
      <4>1. handed = Readers!Expected
        BY <2>3, <2>5, <3>2 DEF ReadersInv, PipeInv
      <4>2. QED
        BY <2>5, <3>2, <4>1 DEF Readers!LinesOnce
    <3>3. QED
      BY <3>1, <3>2
  <2>6. CASE kind = "file"
    <3>1. handed = Readers!Expected
      BY <2>3, <2>6 DEF ReadersInv, FileInv
    <3>2. QED
      BY <2>6, <3>1 DEF Readers!LinesOnce
  <2>7. QED
    BY <2>1, <2>4, <2>5, <2>6 DEF Readers!TypeOK, Readers!Kinds
<1>2. QED
  BY <1>1, ReadersInvariant, PTL
-----------------------------------------------------------------------------
LEMMA WorkPart == Spec => Work!Spec
<1>1. Init => Work!Init
  BY DEF Init
<1>2. [Next]_vars => [Work!Next]_(Work!vars)
  BY DEF Next, vars, workVars, Work!vars
<1>3. QED
  BY <1>1, <1>2, PTL DEF Spec, Work!Spec

LEMMA WorkCounting ==
  \A S : Work!Cardinality(S) = Cardinality(S) /\ (Work!IsFiniteSet(S) <=> IsFiniteSet(S))
BY DEF Work!Cardinality, Cardinality, Work!IsFiniteSet, IsFiniteSet

LEMMA WorkNames ==
  /\ Work!NoWork \notin Work!Summaries
  /\ \A c \in Work!Call : Work!NoWork # c
BY DEF Work!NoWork, Work!Summaries, Work!Call

LEMMA SummaryTypes ==
  ASSUME NEW w \in Work!AgentWorkState, IsFiniteSet(w.readPaths)
  PROVE  Work!Summary(w) \in Work!Summaries
<1>1. Cardinality(w.readPaths) \in Nat
  BY FS_CardinalityType
<1>2. /\ w.linesRead \in Nat /\ w.linesWritten \in Nat /\ w.rereads \in Nat /\ w.errors \in Nat
      /\ w.toolCalls \in Nat /\ w.firstEdit \in {Work!Null} \cup Nat /\ w.repeatCallRun \in Nat
  BY DEF Work!AgentWorkState
<1>3. QED
  BY <1>1, <1>2, WorkCounting DEF Work!Summary, Work!Summaries

LEMMA MergedIs ==
  ASSUME NEW s \in Work!Summaries, NEW t \in Work!Summaries
  PROVE  /\ Work!Merged(s, t).toolCalls = s.toolCalls + t.toolCalls
         /\ Work!Merged(s, t).linesRead = s.linesRead + t.linesRead
         /\ Work!Merged(s, t).linesWritten = s.linesWritten + t.linesWritten
         /\ Work!Merged(s, t).filesRead = s.filesRead + t.filesRead
         /\ Work!Merged(s, t).rereads = s.rereads + t.rereads
         /\ Work!Merged(s, t).errors = s.errors + t.errors
         /\ Work!Merged(s, t).firstEdit = Work!EarlierOf(s.firstEdit, t.firstEdit)
         /\ Work!Merged(s, t).repeatCallRun = Work!MaxOf(s.repeatCallRun, t.repeatCallRun)
         /\ Work!Merged(s, t) \in Work!Summaries
<1>1. DOMAIN s = {"linesRead", "linesWritten", "filesRead", "rereads", "errors", "toolCalls", "firstEdit", "repeatCallRun"}
  BY DEF Work!Summaries
<1>2. QED
  BY <1>1 DEF Work!Summaries, Work!Merged, Work!EarlierOf, Work!MaxOf, Work!Null
-----------------------------------------------------------------------------
(* A span that no other of a set begins before.                              *)
LEMMA FirstIs ==
  ASSUME NEW s \in SUBSET Work!Spans, s # {}
  PROVE  /\ Work!FirstOf(s) \in s /\ \A j \in s : Work!FirstOf(s)[1] <= j[1]
         /\ Work!FirstOf(s)[1] \in 0 .. WorkTime /\ Work!FirstOf(s)[2] \in 0 .. WorkTime
<1> DEFINE D == {i[1] : i \in s}
<1>1. WorkTime \in Nat
  BY PartsAssumption DEF WorkConstants
<1>2. \A i \in s : i[1] \in 0 .. WorkTime /\ i[2] \in 0 .. WorkTime
  BY DEF Work!Spans
<1>3. D \subseteq Nat /\ D # {}
  BY <1>1, <1>2
<1>4. PICK n \in D : \A m \in D : ~(<<m, n>> \in OpToRel(<, Nat))
  <2> HIDE DEF D
  <2>1. QED
    BY <1>3, WFMin, NatLessThanWellFounded
<1>5. \A m \in D : n <= m
  <2> SUFFICES ASSUME NEW m \in D, ~(n <= m) PROVE FALSE
    OBVIOUS
  <2>1. m \in Nat /\ n \in Nat /\ m < n
    BY <1>3
  <2>2. <<m, n>> \in OpToRel(<, Nat)
    BY <2>1 DEF OpToRel
  <2>3. QED
    BY <1>4, <2>2
<1>6. PICK i \in s : i[1] = n
  OBVIOUS
<1>7. \A j \in s : i[1] <= j[1]
  BY <1>5, <1>6
<1>8. Work!FirstOf(s) \in s /\ \A j \in s : Work!FirstOf(s)[1] <= j[1]
  BY <1>7 DEF Work!FirstOf
<1>9. QED
  BY <1>2, <1>8

(* The moments from a cursor on that some span holds.                        *)
Covered(s, c) == {t \in 0 .. WorkTime - 1 : c <= t /\ \E i \in s : i[1] <= t /\ t < i[2]}

Cursors == {Work!Null} \cup 0 .. WorkTime

LEMMA CoveredIsFinite ==
  ASSUME NEW s, NEW c
  PROVE  IsFiniteSet(Covered(s, c)) /\ Cardinality(Covered(s, c)) \in Nat
<1>1. WorkTime - 1 \in Int /\ 0 \in Int
  BY PartsAssumption DEF WorkConstants
<1>2. IsFiniteSet(0 .. WorkTime - 1)
  BY <1>1, FS_Interval
<1>3. Covered(s, c) \in SUBSET (0 .. WorkTime - 1)
  BY DEF Covered
<1>4. QED
  BY <1>2, <1>3, FS_Subset, FS_CardinalityType

(* The first span holds what is between the cursor and its end.              *)
LEMMA FirstCovers ==
  ASSUME NEW s \in SUBSET Work!Spans, s # {}, NEW c \in Cursors,
         NEW i, i = Work!FirstOf(s), NEW from, from = Work!MaxOf(i[1], c)
  PROVE  Cardinality(Covered(s, c)) =
           IF i[2] > from THEN i[2] - from + Cardinality(Covered(s \ {i}, i[2]))
           ELSE Cardinality(Covered(s \ {i}, c))
<1>1. i \in s /\ i[1] \in 0 .. WorkTime /\ i[2] \in 0 .. WorkTime /\ \A j \in s : i[1] <= j[1]
  BY FirstIs
<1>2. WorkTime \in Nat /\ c \in Int /\ from \in Int /\ c <= from /\ i[1] <= from /\ (from = c \/ from = i[1])
  <2>1. WorkTime \in Nat
    BY PartsAssumption DEF WorkConstants
  <2>2. QED
    BY <1>1, <2>1 DEF Cursors, Work!Null, Work!MaxOf
<1>3. \A j \in s : j[1] \in 0 .. WorkTime /\ j[2] \in 0 .. WorkTime
  BY DEF Work!Spans
<1>4. CASE i[2] > from
  <2> DEFINE head == from .. i[2] - 1
             tail == Covered(s \ {i}, i[2])
  <2>1. head \in SUBSET (0 .. WorkTime - 1)
    BY <1>1, <1>2, <1>4
  <2>2. \A t \in 0 .. WorkTime - 1 : t \in Covered(s, c) <=> t \in head \/ t \in tail
    <3> SUFFICES ASSUME NEW t \in 0 .. WorkTime - 1
                 PROVE  t \in Covered(s, c) <=> t \in head \/ t \in tail
      OBVIOUS
    <3>1. CASE t < i[2]
      <4>1. t \notin tail
        BY <1>1, <1>2, <3>1 DEF Covered
      <4>2. t \in head => t \in Covered(s, c)
        BY <1>1, <1>2, <1>4, <3>1 DEF Covered
      <4>3. t \in Covered(s, c) => t \in head
        BY <1>1, <1>2, <1>3, <3>1 DEF Covered
      <4>4. QED
        BY <4>1, <4>2, <4>3
    <3>2. CASE ~(t < i[2])
      <4>1. t \notin head
        BY <1>1, <1>2, <3>2
      <4>2. c <= t /\ i[2] <= t
        BY <1>1, <1>2, <1>4, <3>2
      <4>3. QED
        BY <1>1, <3>2, <4>1, <4>2 DEF Covered
    <3>3. QED
      BY <3>1, <3>2
  <2>3. Covered(s, c) = head \cup tail
    <3>1. Covered(s, c) \subseteq 0 .. WorkTime - 1 /\ tail \subseteq 0 .. WorkTime - 1
      BY DEF Covered
    <3> HIDE DEF head, tail
    <3>2. QED
      BY <2>1, <2>2, <3>1
  <2>4. head \cap tail = {}
    BY <1>1, <1>2 DEF Covered
  <2>5. IsFiniteSet(head) /\ Cardinality(head) = i[2] - from
    <3>1. i[2] - 1 \in Int /\ ~(from > i[2] - 1) /\ i[2] - 1 - from + 1 = i[2] - from
      BY <1>1, <1>2, <1>4
    <3>2. QED
      BY <1>2, <3>1, FS_Interval
  <2>6. IsFiniteSet(tail) /\ Cardinality(tail) \in Nat
    BY CoveredIsFinite
  <2> HIDE DEF head, tail
  <2>7. Cardinality(head \cup tail) = Cardinality(head) + Cardinality(tail)
    <3>1. Cardinality(head \cup tail) = Cardinality(head) + Cardinality(tail) - Cardinality(head \cap tail)
      BY <2>5, <2>6, FS_Union
    <3>2. Cardinality(head \cap tail) = 0
      BY <2>4, FS_EmptySet
    <3>3. Cardinality(head) \in Nat
      BY <2>5, FS_CardinalityType
    <3>4. QED
      BY <2>6, <3>1, <3>2, <3>3
  <2>8. QED
    BY <1>4, <2>3, <2>5, <2>7 DEF tail
<1>5. CASE ~(i[2] > from)
  <2>1. \A t \in 0 .. WorkTime - 1 : c <= t => ~(i[1] <= t /\ t < i[2])
    BY <1>1, <1>2, <1>5
  <2>2. Covered(s, c) = Covered(s \ {i}, c)
    BY <2>1 DEF Covered
  <2>3. QED
    BY <1>5, <2>2
<1>6. QED
  BY <1>4, <1>5

(* mergeIntervals returns the length of the union of the spans, in whatever  *)
(* order those that begin together are taken.                                *)
LEMMA TimeIsOfTheUnion ==
  ASSUME NEW s \in SUBSET Work!Spans, NEW c \in Cursors
  PROVE  Work!TimeOf[<<s, c>>] = Cardinality(Covered(s, c))
<1> DEFINE D == (SUBSET Work!Spans) \X ({Work!Null} \cup 0 .. WorkTime)
           Value(f, x) == IF x[1] = {} THEN 0
                          ELSE LET i    == Work!FirstOf(x[1])
                                   from == Work!MaxOf(i[1], x[2])
                               IN  IF i[2] > from THEN i[2] - from + f[<<x[1] \ {i}, i[2]>>]
                                   ELSE f[<<x[1] \ {i}, x[2]>>]
           Eq(f) == f = [x \in D |-> Value(f, x)]
           G == [x \in D |-> Cardinality(Covered(x[1], x[2]))]
<1>1. \A x \in D : x[1] \in SUBSET Work!Spans /\ x[2] \in Cursors /\ x = <<x[1], x[2]>>
  BY DEF Cursors
<1>2. ASSUME NEW x \in D, x[1] # {}, NEW y, y \in {Work!FirstOf(x[1])[2], x[2]}
      PROVE  <<x[1] \ {Work!FirstOf(x[1])}, y>> \in D
  <2>1. y \in Cursors
    BY <1>1, <1>2, FirstIs DEF Cursors
  <2>2. QED
    BY <1>1, <2>1 DEF Cursors
<1>3. ASSUME NEW x \in D PROVE G[x] = Value(G, x)
  <2>1. CASE x[1] = {}
    <3>1. Covered({}, x[2]) = {}
      BY DEF Covered
    <3>2. QED
      BY <2>1, <3>1, FS_EmptySet
  <2>2. CASE x[1] # {}
    <3> DEFINE i == Work!FirstOf(x[1])
               from == Work!MaxOf(i[1], x[2])
    <3>1. G[<<x[1] \ {i}, i[2]>>] = Cardinality(Covered(x[1] \ {i}, i[2]))
      <4>1. <<x[1] \ {i}, i[2]>> \in D
        BY <1>2, <2>2
      <4> HIDE DEF i
      <4>2. QED
        BY <4>1
    <3>2. G[<<x[1] \ {i}, x[2]>>] = Cardinality(Covered(x[1] \ {i}, x[2]))
      <4>1. <<x[1] \ {i}, x[2]>> \in D
        BY <1>2, <2>2
      <4> HIDE DEF i
      <4>2. QED
        BY <4>1
    <3>3. Cardinality(Covered(x[1], x[2])) =
            IF i[2] > from THEN i[2] - from + Cardinality(Covered(x[1] \ {i}, i[2]))
            ELSE Cardinality(Covered(x[1] \ {i}, x[2]))
      BY <1>1, <2>2, FirstCovers
    <3>4. G[x] = Cardinality(Covered(x[1], x[2]))
      OBVIOUS
    <3>5. Value(G, x) = IF i[2] > from THEN i[2] - from + G[<<x[1] \ {i}, i[2]>>]
                        ELSE G[<<x[1] \ {i}, x[2]>>]
      <4> HIDE DEF G
      <4>1. QED
        BY <2>2
    <3> HIDE DEF G, i, from, Value
    <3>6. QED
      BY <3>1, <3>2, <3>3, <3>4, <3>5
  <2>3. QED
    BY <2>1, <2>2
<1>4. \E f : Eq(f)
  <2>1. Eq(G)
    <3>1. G = [x \in D |-> G[x]]
      OBVIOUS
    <3> HIDE DEF G, Value, D
    <3>2. [x \in D |-> G[x]] = [x \in D |-> Value(G, x)]
      BY <1>3
    <3>3. QED
      BY <3>1, <3>2
  <2> HIDE DEF Eq, G
  <2>2. QED
    BY <2>1
<1>5. Work!TimeOf = CHOOSE f : Eq(f)
  BY DEF Work!TimeOf
<1> DEFINE F == Work!TimeOf
<1>6. Eq(F)
  <2> HIDE DEF Eq
  <2>1. QED
    BY <1>4, <1>5
<1>7. \A x \in D : F[x] = Value(F, x)
  <2> HIDE DEF F, Value, D
  <2>1. QED
    BY <1>6
<1>8. \A x \in D : IsFiniteSet(x[1]) /\ Cardinality(x[1]) \in Nat
  <2>1. WorkTime \in Int /\ 0 \in Int
    BY PartsAssumption DEF WorkConstants
  <2>2. IsFiniteSet(Work!Spans)
    BY <2>1, FS_Interval, FS_Product DEF Work!Spans
  <2>3. QED
    BY <1>1, <2>2, FS_Subset, FS_CardinalityType
<1> DEFINE T == {n \in Nat : \A x \in D : Cardinality(x[1]) <= n => F[x] = G[x]}
<1>9. 0 \in T
  <2> SUFFICES ASSUME NEW x \in D, Cardinality(x[1]) <= 0 PROVE F[x] = G[x]
    OBVIOUS
  <2>1. x[1] = {}
    BY <1>8, FS_EmptySet
  <2>2. Value(F, x) = 0 /\ Value(G, x) = 0
    <3> HIDE DEF F, G
    <3>1. QED
      BY <2>1
  <2> HIDE DEF F, G, Value, D
  <2>3. QED
    BY <1>3, <1>7, <2>2
<1>10. ASSUME NEW n \in T PROVE n + 1 \in T
  <2> SUFFICES ASSUME NEW x \in D, Cardinality(x[1]) <= n + 1, x[1] # {} PROVE F[x] = G[x]
    <3>1. \A x \in D : x[1] = {} => F[x] = G[x]
      <4> SUFFICES ASSUME NEW x \in D, x[1] = {} PROVE F[x] = G[x]
        OBVIOUS
      <4>1. Value(F, x) = 0 /\ Value(G, x) = 0
        <5> HIDE DEF F, G
        <5>1. QED
          OBVIOUS
      <4> HIDE DEF F, G, Value, D
      <4>2. QED
        BY <1>3, <1>7, <4>1
    <3> HIDE DEF F, G, D
    <3>2. QED
      BY <3>1
  <2> DEFINE i == Work!FirstOf(x[1])
  <2>1. i \in x[1]
    BY <1>1, FirstIs
  <2>2. Cardinality(x[1] \ {i}) <= n
    <3> HIDE DEF i, D
    <3>1. Cardinality(x[1] \ {i}) = Cardinality(x[1]) - 1
      BY <1>8, <2>1, FS_RemoveElement
    <3>2. QED
      BY <1>8, <3>1
  <2>3. ASSUME NEW y, y \in {i[2], x[2]} PROVE F[<<x[1] \ {i}, y>>] = G[<<x[1] \ {i}, y>>]
    <3>1. <<x[1] \ {i}, y>> \in D
      BY <1>2, <2>3
    <3> DEFINE z == <<x[1] \ {i}, y>>
    <3>2. Cardinality(z[1]) <= n
      BY <2>2
    <3>3. z \in D
      BY <3>1
    <3> HIDE DEF F, G, D, z
    <3>4. F[z] = G[z]
      BY <3>2, <3>3
    <3>5. QED
      BY <3>4 DEF z
  <2>4. Value(F, x) = Value(G, x)
    <3>1. F[<<x[1] \ {i}, i[2]>>] = G[<<x[1] \ {i}, i[2]>>]
          /\ F[<<x[1] \ {i}, x[2]>>] = G[<<x[1] \ {i}, x[2]>>]
      BY <2>3
    <3> HIDE DEF F, G
    <3>2. QED
      BY <3>1
  <2> HIDE DEF F, G, Value, D
  <2>5. QED
    BY <1>3, <1>7, <2>4
<1>11. T = Nat
  <2>1. T \in SUBSET Nat
    OBVIOUS
  <2> HIDE DEF T
  <2>2. QED
    BY <1>9, <1>10, <2>1, SetOfAllNumbers
<1> DEFINE z == <<s, c>>
<1>12. z \in D /\ G[z] = Cardinality(Covered(s, c))
  <2>1. z \in D
    BY DEF Cursors
  <2>2. QED
    BY <2>1
<1>13. Cardinality(z[1]) \in Nat
  <2> HIDE DEF z, D
  <2>1. QED
    BY <1>8, <1>12
<1>14. F[z] = G[z]
  <2>1. Cardinality(z[1]) \in T
    BY <1>11, <1>13
  <2> HIDE DEF F, G, D, z
  <2>2. Cardinality(z[1]) <= Cardinality(z[1])
    BY <1>13
  <2>3. QED
    BY <1>12, <2>1, <2>2
<1>15. QED
  BY <1>12, <1>14

LEMMA OverlapsDoNotCount == Work!TypeOK => Work!OverlapsCountOnce
<1> SUFFICES ASSUME Work!TypeOK PROVE Work!OverlapsCountOnce
  OBVIOUS
<1>1. intervals \in SUBSET Work!Spans /\ Work!Null \in Cursors
  BY DEF Work!TypeOK, Cursors
<1>2. Covered(intervals, Work!Null) = Work!Held
  BY DEF Covered, Work!Held, Work!Null
<1>3. QED
  BY <1>1, <1>2, WorkCounting, TimeIsOfTheUnion DEF Work!OverlapsCountOnce, Work!ToolTime
-----------------------------------------------------------------------------
(* What is reported of the passes t before and of the work w of this one.    *)
Report(t, w) == IF t = Work!NoWork THEN Work!Summary(w) ELSE Work!Merged(t, Work!Summary(w))

Past(t) == IF t = Work!NoWork THEN Work!Summary(Work!NothingDone) ELSE t

LEMMA NothingIsNothing ==
  /\ Work!NothingDone \in Work!AgentWorkState /\ Work!NothingDone.readPaths = {}
  /\ Work!NothingDone.linesRead = 0 /\ Work!NothingDone.linesWritten = 0 /\ Work!NothingDone.rereads = 0
  /\ Work!NothingDone.toolCalls = 0 /\ Work!NothingDone.firstEdit = Work!Null
  /\ Work!NothingDone.repeatCallRun = 0 /\ Work!NothingDone.currentCallRun = 0
  /\ Work!Summary(Work!NothingDone) \in Work!Summaries
  /\ Work!Summary(Work!NothingDone).filesRead = 0
<1>1. /\ Work!NothingDone \in Work!AgentWorkState /\ Work!NothingDone.readPaths = {}
      /\ Work!NothingDone.linesRead = 0 /\ Work!NothingDone.linesWritten = 0 /\ Work!NothingDone.rereads = 0
      /\ Work!NothingDone.toolCalls = 0 /\ Work!NothingDone.firstEdit = Work!Null
      /\ Work!NothingDone.repeatCallRun = 0 /\ Work!NothingDone.currentCallRun = 0
  BY DEF Work!NothingDone, Work!AgentWorkState
<1>2. Work!Summary(Work!NothingDone) \in Work!Summaries
  BY <1>1, FS_EmptySet, SummaryTypes
<1>3. Work!Summary(Work!NothingDone).filesRead = 0
  BY <1>1, FS_EmptySet, WorkCounting DEF Work!Summary
<1>4. QED
  BY <1>1, <1>2, <1>3

LEMMA ReportIs ==
  ASSUME NEW t \in {Work!NoWork} \cup Work!Summaries,
         NEW w \in Work!AgentWorkState, IsFiniteSet(w.readPaths)
  PROVE  /\ Past(t) \in Work!Summaries /\ Report(t, w) \in Work!Summaries
         /\ Report(t, w).toolCalls = Past(t).toolCalls + w.toolCalls
         /\ Report(t, w).linesRead = Past(t).linesRead + w.linesRead
         /\ Report(t, w).linesWritten = Past(t).linesWritten + w.linesWritten
         /\ Report(t, w).filesRead = Past(t).filesRead + Cardinality(w.readPaths)
         /\ Report(t, w).rereads = Past(t).rereads + w.rereads
         /\ Report(t, w).firstEdit = Work!EarlierOf(Past(t).firstEdit, w.firstEdit)
         /\ Report(t, w).repeatCallRun = Work!MaxOf(Past(t).repeatCallRun, w.repeatCallRun)
<1> DEFINE s == Work!Summary(w)
<1>1. s \in Work!Summaries
  BY SummaryTypes
<1>2. /\ s.toolCalls = w.toolCalls /\ s.linesRead = w.linesRead /\ s.linesWritten = w.linesWritten
      /\ s.filesRead = Cardinality(w.readPaths) /\ s.rereads = w.rereads /\ s.firstEdit = w.firstEdit
      /\ s.repeatCallRun = w.repeatCallRun
  BY WorkCounting DEF Work!Summary
<1>3. CASE t = Work!NoWork
  <2> DEFINE z == Work!Summary(Work!NothingDone)
  <2>1. /\ z \in Work!Summaries /\ z.toolCalls = 0 /\ z.linesRead = 0 /\ z.linesWritten = 0
        /\ z.filesRead = 0 /\ z.rereads = 0 /\ z.firstEdit = Work!Null /\ z.repeatCallRun = 0
    BY NothingIsNothing DEF Work!Summary
  <2>2. Past(t) = z /\ Report(t, w) = s
    BY <1>3 DEF Past, Report
  <2>3. /\ s.toolCalls \in Nat /\ s.linesRead \in Nat /\ s.linesWritten \in Nat /\ s.filesRead \in Nat
        /\ s.rereads \in Nat /\ s.repeatCallRun \in Nat
    BY <1>1 DEF Work!Summaries
  <2> HIDE DEF s, z
  <2>4. QED
    BY <1>1, <1>2, <2>1, <2>2, <2>3 DEF Work!EarlierOf, Work!MaxOf
<1>4. CASE t # Work!NoWork
  <2>1. Past(t) = t /\ t \in Work!Summaries /\ Report(t, w) = Work!Merged(t, s)
    BY <1>4 DEF Past, Report
  <2> HIDE DEF s
  <2>2. QED
    BY <1>1, <1>2, <2>1, MergedIs
<1>5. QED
  BY <1>3, <1>4
-----------------------------------------------------------------------------
(* The calls from i to j are the same, and of one pass.                      *)
IsLoop(c, i, j) ==
  /\ i \in 1 .. Len(c) /\ j \in 1 .. Len(c) /\ i <= j
  /\ \A k \in i .. j : c[k].call = c[i].call /\ c[k].pass = c[i].pass

(* r is the length of a longest loop.                                        *)
Longest(c, r) ==
  /\ r \in Nat
  /\ \A i, j \in Nat : IsLoop(c, i, j) => j - i + 1 <= r
  /\ r = 0 \/ \E i, j \in Nat : IsLoop(c, i, j) /\ r = j - i + 1

(* The last n calls are those of pass p, and the last m of them are the same *)
(* as the last one, and no more of them.                                     *)
InPass(c, p, n, m, last) ==
  /\ n <= Len(c) /\ m <= n /\ (n > 0 => m > 0)
  /\ \A k \in 1 .. Len(c) : c[k].pass <= p /\ (c[k].pass = p <=> Len(c) - n < k)
  /\ \A k \in 1 .. Len(c) : Len(c) - m < k => c[k].call = last
  /\ m < n => c[Len(c) - m].call # last

CallRecords == [call : Work!Call, at : 0 .. WorkTime, pass : 1 .. Passes]

LEMMA LongestIsMax ==
  ASSUME calls \in Seq(CallRecords), NEW r, Longest(calls, r)
  PROVE  r = Work!Max(Work!Loops \cup {0})
<1>1. Len(calls) \in Nat /\ DOMAIN calls = 1 .. Len(calls)
  BY LenProperties
<1>2. \A i, j \in Nat : IsLoop(calls, i, j) <=>
        i \in DOMAIN calls /\ j \in DOMAIN calls /\ i <= j /\ Work!Calls(i, j) = i .. j
  BY <1>1 DEF IsLoop, Work!Calls
<1>3. ASSUME NEW x \in Work!Loops
      PROVE  \E i, j \in Nat : IsLoop(calls, i, j) /\ x = j - i + 1
  <2>1. PICK q \in (DOMAIN calls) \X (DOMAIN calls) :
          q[1] <= q[2] /\ Work!Calls(q[1], q[2]) = q[1] .. q[2] /\ x = q[2] - q[1] + 1
    BY DEF Work!Loops
  <2>2. q[1] \in Nat /\ q[2] \in Nat /\ q[1] \in DOMAIN calls /\ q[2] \in DOMAIN calls
    BY <1>1
  <2>3. IsLoop(calls, q[1], q[2])
    BY <1>2, <2>1, <2>2
  <2>4. QED
    BY <2>1, <2>2, <2>3
<1>4. ASSUME NEW i \in Nat, NEW j \in Nat, IsLoop(calls, i, j)
      PROVE  j - i + 1 \in Work!Loops
  <2> DEFINE q == <<i, j>>
  <2>1. q \in (DOMAIN calls) \X (DOMAIN calls) /\ q[1] <= q[2] /\ Work!Calls(q[1], q[2]) = q[1] .. q[2]
    BY <1>2, <1>4
  <2>2. q[2] - q[1] + 1 \in Work!Loops
    <3> HIDE DEF q
    <3>1. QED
      BY <2>1 DEF Work!Loops
  <2>3. QED
    BY <2>2
<1>5. r \in Work!Loops \cup {0} /\ \A y \in Work!Loops \cup {0} : r >= y /\ y \in Int
  <2>1. r \in Nat /\ (r = 0 \/ \E i, j \in Nat : IsLoop(calls, i, j) /\ r = j - i + 1)
        /\ \A i, j \in Nat : IsLoop(calls, i, j) => j - i + 1 <= r
    BY DEF Longest
  <2>2. r \in Work!Loops \cup {0}
    BY <1>4, <2>1
  <2>3. ASSUME NEW y \in Work!Loops PROVE r >= y /\ y \in Int
    <3>1. PICK i \in Nat, j \in Nat : IsLoop(calls, i, j) /\ y = j - i + 1
      BY <1>3
    <3>2. QED
      BY <2>1, <3>1
  <2>4. QED
    BY <2>1, <2>2, <2>3
<1> DEFINE S == Work!Loops \cup {0}
<1>6. r \in S /\ \A y \in S : r >= y /\ y \in Int
  BY <1>5
<1> HIDE DEF S
<1>7. \A x \in S : (\A y \in S : x >= y) => x = r
  BY <1>6
<1>8. Work!Max(S) = r
  BY <1>6, <1>7 DEF Work!Max
<1>9. QED
  BY <1>8 DEF S

LEMMA InPassGrows ==
  ASSUME NEW S, NEW c \in Seq(S), NEW x \in S, NEW p \in Nat, x.pass = p,
         NEW n \in Nat, NEW m \in Nat, NEW last, InPass(c, p, n, m, last),
         NEW turn, turn = IF x.call = last THEN m + 1 ELSE 1
  PROVE  InPass(Append(c, x), p, n + 1, turn, x.call)
<1> DEFINE d == Append(c, x)
<1>1. Len(c) \in Nat /\ Len(d) = Len(c) + 1 /\ d[Len(c) + 1] = x /\ \A k \in 1 .. Len(c) : d[k] = c[k]
  BY AppendProperties, LenProperties
<1>2. /\ n <= Len(c) /\ m <= n /\ (n > 0 => m > 0)
      /\ \A k \in 1 .. Len(c) : c[k].pass <= p /\ (c[k].pass = p <=> Len(c) - n < k)
      /\ \A k \in 1 .. Len(c) : Len(c) - m < k => c[k].call = last
      /\ m < n => c[Len(c) - m].call # last
  BY DEF InPass
<1> HIDE DEF d
<1>3. \A k \in 1 .. Len(d) : k \in 1 .. Len(c) \/ k = Len(c) + 1
  BY <1>1
<1>4. ASSUME NEW k \in 1 .. Len(d)
      PROVE  d[k].pass <= p /\ (d[k].pass = p <=> Len(d) - (n + 1) < k)
  <2>1. CASE k \in 1 .. Len(c)
    BY <1>1, <1>2, <2>1
  <2>2. CASE k = Len(c) + 1
    BY <1>1, <1>2, <2>2
  <2>3. QED
    BY <1>3, <2>1, <2>2
<1>5. CASE x.call = last
  <2>1. turn = m + 1
    BY <1>5
  <2>2. ASSUME NEW k \in 1 .. Len(d), Len(d) - turn < k PROVE d[k].call = last
    <3>1. CASE k \in 1 .. Len(c)
      BY <1>1, <1>2, <2>1, <2>2, <3>1
    <3>2. CASE k = Len(c) + 1
      BY <1>1, <1>5, <3>2
    <3>3. QED
      BY <1>3, <3>1, <3>2
  <2>3. turn < n + 1 => d[Len(d) - turn].call # last
    <3> SUFFICES ASSUME turn < n + 1 PROVE d[Len(d) - turn].call # last
      OBVIOUS
    <3>1. Len(d) - turn = Len(c) - m /\ m < n /\ Len(c) - m \in 1 .. Len(c)
      BY <1>1, <1>2, <2>1
    <3>2. QED
      BY <1>1, <1>2, <3>1
  <2>4. n + 1 <= Len(d) /\ turn <= n + 1 /\ turn > 0
    BY <1>1, <1>2, <2>1
  <2>5. QED
    BY <1>4, <1>5, <2>2, <2>3, <2>4 DEF InPass, d
<1>6. CASE x.call # last
  <2>1. turn = 1
    BY <1>6
  <2>2. ASSUME NEW k \in 1 .. Len(d), Len(d) - turn < k PROVE d[k].call = x.call
    BY <1>1, <1>3, <2>1, <2>2
  <2>3. turn < n + 1 => d[Len(d) - turn].call # x.call
    <3> SUFFICES ASSUME turn < n + 1 PROVE d[Len(d) - turn].call # x.call
      OBVIOUS
    <3>1. n > 0 /\ m > 0 /\ Len(d) - turn = Len(c) /\ Len(c) \in 1 .. Len(c) /\ Len(c) - m < Len(c)
      BY <1>1, <1>2, <2>1
    <3>2. c[Len(c)].call = last
      BY <1>2, <3>1
    <3>3. QED
      BY <1>1, <1>6, <3>1, <3>2
  <2>4. n + 1 <= Len(d) /\ turn <= n + 1 /\ turn > 0
    BY <1>1, <1>2, <2>1
  <2>5. QED
    BY <1>4, <2>2, <2>3, <2>4 DEF InPass, d
<1>7. QED
  BY <1>5, <1>6

LEMMA LongestGrows ==
  ASSUME NEW S, NEW c \in Seq(S), NEW x \in S, NEW p \in Nat, x.pass = p,
         NEW n \in Nat, NEW m \in Nat, NEW last, InPass(c, p, n, m, last),
         NEW turn, turn = (IF x.call = last THEN m + 1 ELSE 1),
         NEW r, Longest(c, r)
  PROVE  Longest(Append(c, x), Work!MaxOf(r, turn))
<1> DEFINE d == Append(c, x)
<1>1. Len(c) \in Nat /\ Len(d) = Len(c) + 1 /\ d[Len(c) + 1] = x /\ \A k \in 1 .. Len(c) : d[k] = c[k]
  BY AppendProperties, LenProperties
<1>2. /\ n <= Len(c) /\ m <= n /\ (n > 0 => m > 0)
      /\ \A k \in 1 .. Len(c) : c[k].pass <= p /\ (c[k].pass = p <=> Len(c) - n < k)
      /\ \A k \in 1 .. Len(c) : Len(c) - m < k => c[k].call = last
      /\ m < n => c[Len(c) - m].call # last
  BY DEF InPass
<1>3. InPass(d, p, n + 1, turn, x.call)
  BY InPassGrows
<1> HIDE DEF d
<1>4. /\ n + 1 <= Len(d) /\ turn <= n + 1 /\ turn > 0 /\ turn \in Nat
      /\ \A k \in 1 .. Len(d) : d[k].pass = p <=> Len(d) - (n + 1) < k
      /\ \A k \in 1 .. Len(d) : Len(d) - turn < k => d[k].call = x.call
      /\ turn < n + 1 => d[Len(d) - turn].call # x.call
  BY <1>2, <1>3 DEF InPass
<1>5. \A i, j \in Nat : j <= Len(c) => (IsLoop(d, i, j) <=> IsLoop(c, i, j))
  <2> SUFFICES ASSUME NEW i \in Nat, NEW j \in Nat, j <= Len(c)
               PROVE  IsLoop(d, i, j) <=> IsLoop(c, i, j)
    OBVIOUS
  <2>1. CASE ~(i \in 1 .. Len(c) /\ i <= j)
    BY <1>1, <2>1 DEF IsLoop
  <2>2. CASE i \in 1 .. Len(c) /\ i <= j
    <3>1. \A k \in i .. j : d[k] = c[k]
      BY <1>1, <2>2
    <3>2. d[i] = c[i]
      BY <1>1, <2>2
    <3>3. QED
      BY <1>1, <2>2, <3>1, <3>2 DEF IsLoop
  <2>3. QED
    BY <2>1, <2>2
<1>6. ASSUME NEW i \in Nat, IsLoop(d, i, Len(d)) PROVE Len(d) - i + 1 <= turn
  <2> SUFFICES ASSUME ~(Len(d) - i + 1 <= turn) PROVE FALSE
    OBVIOUS
  <2>1. /\ i \in 1 .. Len(d)
        /\ \A k \in i .. Len(d) : d[k].call = d[i].call /\ d[k].pass = d[i].pass
    BY <1>6 DEF IsLoop
  <2>2. Len(d) \in i .. Len(d) /\ i \in i .. Len(d) /\ Len(d) - turn \in i .. Len(d)
    BY <1>1, <1>4, <2>1
  <2>3. d[i].pass = p /\ d[i].call = x.call
    BY <1>1, <2>1, <2>2
  <2>4. Len(d) - (n + 1) < i
    BY <1>4, <2>1, <2>3
  <2>5. turn < n + 1
    BY <1>1, <1>4, <2>1, <2>4
  <2>6. QED
    BY <1>4, <2>1, <2>2, <2>3, <2>5
<1>7. IsLoop(d, Len(d) - turn + 1, Len(d)) /\ Len(d) - turn + 1 \in Nat /\ Len(d) \in Nat
      /\ Len(d) - (Len(d) - turn + 1) + 1 = turn
  <2> DEFINE i == Len(d) - turn + 1
  <2>1. i \in 1 .. Len(d) /\ Len(d) \in 1 .. Len(d) /\ i <= Len(d)
        /\ Len(d) - i + 1 = turn /\ Len(d) - (n + 1) < i /\ Len(d) - turn < i
    <3>1. Len(d) \in Nat /\ n + 1 <= Len(d) /\ turn <= n + 1 /\ turn > 0 /\ turn \in Nat
      BY <1>1, <1>4
    <3>2. QED
      BY <3>1
  <2>2. \A k \in i .. Len(d) : k \in 1 .. Len(d) /\ Len(d) - (n + 1) < k /\ Len(d) - turn < k
    BY <1>1, <1>4
  <2> HIDE DEF i
  <2>3. \A k \in i .. Len(d) : d[k].call = x.call /\ d[k].pass = p
    BY <1>4, <2>2
  <2>4. d[i].call = x.call /\ d[i].pass = p
    BY <1>4, <2>1
  <2>5. IsLoop(d, i, Len(d))
    BY <2>1, <2>3, <2>4 DEF IsLoop
  <2>6. i \in Nat /\ Len(d) \in Nat
    BY <2>1
  <2>7. QED
    BY <2>1, <2>5, <2>6 DEF i
<1>8. /\ r \in Nat /\ \A i, j \in Nat : IsLoop(c, i, j) => j - i + 1 <= r
      /\ r = 0 \/ \E i, j \in Nat : IsLoop(c, i, j) /\ r = j - i + 1
  BY DEF Longest
<1> DEFINE q == Work!MaxOf(r, turn)
<1>9. q \in Nat /\ r <= q /\ turn <= q /\ (q = r \/ q = turn) /\ q > 0
  BY <1>4, <1>8 DEF Work!MaxOf
<1>10. ASSUME NEW i \in Nat, NEW j \in Nat, IsLoop(d, i, j) PROVE j - i + 1 <= q
  <2>1. j \in 1 .. Len(d)
    BY <1>10 DEF IsLoop
  <2>2. CASE j <= Len(c)
    BY <1>5, <1>8, <1>9, <1>10, <2>2
  <2>3. CASE j = Len(d)
    <3>1. Len(d) - i + 1 <= turn
      BY <1>6, <1>10, <2>3
    <3>2. QED
      BY <1>1, <1>4, <1>9, <2>3, <3>1
  <2>4. j <= Len(c) \/ j = Len(d)
    BY <1>1, <2>1
  <2>5. QED
    BY <2>2, <2>3, <2>4
<1>11. \E i, j \in Nat : IsLoop(d, i, j) /\ q = j - i + 1
  <2>1. CASE q = turn
    BY <1>7, <2>1
  <2>2. CASE q = r
    <3>1. PICK i \in Nat, j \in Nat : IsLoop(c, i, j) /\ r = j - i + 1
      BY <1>8, <1>9, <2>2
    <3>2. j <= Len(c)
      BY <3>1 DEF IsLoop
    <3>3. QED
      BY <1>5, <2>2, <3>1, <3>2
  <2>3. QED
    BY <1>9, <2>1, <2>2
<1>12. QED
  <2> HIDE DEF q
  <2>1. Longest(d, q)
    BY <1>9, <1>10, <1>11 DEF Longest
  <2>2. QED
    BY <2>1 DEF d, q
-----------------------------------------------------------------------------
(* Every call is in the report; the fields of the work are about the calls   *)
(* of this pass, which are the last.                                         *)
Clock    == began # Work!Null => began <= now
Counts   == /\ Work!Reported.toolCalls = Len(calls)
            /\ Work!Reported.linesWritten = Cardinality(Work!Edits)
            /\ (Work!Reported.firstEdit = Work!Null) <=> (Work!Edits = {})
Reads    == /\ work.linesRead = Cardinality(work.readPaths) + work.rereads
            /\ Past(total).linesRead = Past(total).filesRead + Past(total).rereads
ThisPass == InPass(calls, passes, work.toolCalls, work.currentCallRun, work.lastCall)

WorkInv ==
  /\ Work!TypeOK /\ Clock /\ Counts /\ Reads /\ ThisPass
  /\ Longest(calls, Work!Reported.repeatCallRun)

LEMMA WorkTypes ==
  ASSUME Work!TypeOK
  PROVE  /\ work \in Work!AgentWorkState /\ IsFiniteSet(work.readPaths)
         /\ total \in {Work!NoWork} \cup Work!Summaries /\ Work!Reported = Report(total, work)
         /\ now \in 0 .. WorkTime /\ WorkTime \in Nat /\ began \in {Work!Null} \cup 0 .. WorkTime
         /\ passes \in 1 .. Passes /\ Passes \in Nat /\ calls \in Seq(CallRecords)
         /\ Len(calls) \in Nat /\ DOMAIN calls = 1 .. Len(calls)
<1>1. calls \in Seq(CallRecords)
  BY DEF Work!TypeOK, CallRecords
<1>2. WorkTime \in Nat /\ Passes \in Nat
  BY PartsAssumption DEF WorkConstants
<1>3. began \in {Work!Null} \cup 0 .. WorkTime
  BY DEF Work!TypeOK
<1>4. QED
  BY <1>1, <1>2, <1>3, WorkCounting, LenProperties DEF Work!TypeOK, Work!Reported, Report

LEMMA ReportedAdds ==
  ASSUME Work!TypeOK, Reads
  PROVE  Work!Reported.linesRead = Work!Reported.filesRead + Work!Reported.rereads
<1>1. /\ Work!Reported.linesRead = Past(total).linesRead + work.linesRead
      /\ Work!Reported.filesRead = Past(total).filesRead + Cardinality(work.readPaths)
      /\ Work!Reported.rereads = Past(total).rereads + work.rereads
      /\ Past(total) \in Work!Summaries
  BY WorkTypes, ReportIs
<1>2. Past(total).filesRead \in Nat /\ Past(total).rereads \in Nat
  BY <1>1 DEF Work!Summaries
<1>3. Cardinality(work.readPaths) \in Nat /\ work.rereads \in Nat
  BY WorkTypes, FS_CardinalityType DEF Work!AgentWorkState
<1>4. QED
  BY <1>1, <1>2, <1>3 DEF Reads

(* The invariant is what the property says of the calls.                     *)
LEMMA WorkInvIsEnough == WorkInv => Work!WorkAddsUp
<1> SUFFICES ASSUME WorkInv PROVE Work!WorkAddsUp
  OBVIOUS
<1>1. Work!TypeOK /\ Reads /\ Counts /\ Longest(calls, Work!Reported.repeatCallRun)
  BY DEF WorkInv
<1>2. Work!Reported.linesRead = Work!Reported.filesRead + Work!Reported.rereads
  BY <1>1, ReportedAdds
<1>3. Work!Reported.repeatCallRun = Work!Max(Work!Loops \cup {0})
  BY <1>1, WorkTypes, LongestIsMax
<1>4. Work!CallsAddUp
  BY <1>1, <1>2, <1>3, WorkCounting DEF Counts, Work!CallsAddUp
<1>5. QED
  BY <1>1, <1>4, OverlapsDoNotCount DEF Work!WorkAddsUp

LEMMA WorkInit == Work!Init => WorkInv
<1> SUFFICES ASSUME Work!Init PROVE WorkInv
  OBVIOUS
<1>1. /\ now = 0 /\ began = Work!Null /\ open = {} /\ work = Work!NothingDone /\ intervals = {}
      /\ total = Work!NoWork /\ passes = 1 /\ calls = <<>> /\ jobBegan = Work!Null
  BY DEF Work!Init
<1>2. calls \in Seq(CallRecords) /\ Len(calls) = 0
  BY <1>1, EmptySeq
<1>3. Work!TypeOK
  <2>1. now \in 0 .. WorkTime /\ passes \in 1 .. Passes
    BY <1>1, PartsAssumption DEF WorkConstants
  <2>2. work \in Work!AgentWorkState /\ Work!IsFiniteSet(work.readPaths)
    BY <1>1, NothingIsNothing, WorkCounting, FS_EmptySet
  <2>3. intervals \subseteq Work!Spans /\ open \subseteq DOMAIN calls
    BY <1>1
  <2>4. calls \in Seq([call : Work!Call, at : 0 .. WorkTime, pass : 1 .. Passes])
    BY <1>2 DEF CallRecords
  <2>5. {began, jobBegan} \subseteq {Work!Null} \cup 0 .. WorkTime
    BY <1>1
  <2>6. QED
    BY <1>1, <2>1, <2>2, <2>3, <2>4, <2>5 DEF Work!TypeOK
<1>4. Work!Reported = Work!Summary(Work!NothingDone)
  BY <1>1 DEF Work!Reported
<1>5. Work!Edits = {}
  BY <1>1 DEF Work!Edits
<1>6. Counts
  BY <1>2, <1>4, <1>5, NothingIsNothing, FS_EmptySet DEF Counts, Work!Summary
<1>7. Reads
  <2>1. Past(total) = Work!Summary(Work!NothingDone)
    BY <1>1 DEF Past
  <2>2. QED
    BY <1>1, <2>1, NothingIsNothing, FS_EmptySet DEF Reads, Work!Summary
<1>8. ThisPass
  BY <1>1, <1>2, NothingIsNothing DEF ThisPass, InPass
<1>9. Longest(calls, Work!Reported.repeatCallRun)
  <2>1. Work!Reported.repeatCallRun = 0
    BY <1>4, NothingIsNothing DEF Work!Summary
  <2>2. \A i, j : ~IsLoop(calls, i, j)
    BY <1>2 DEF IsLoop
  <2>3. QED
    BY <2>1, <2>2 DEF Longest
<1>10. QED
  BY <1>1, <1>3, <1>6, <1>7, <1>8, <1>9 DEF WorkInv, Clock

(* Steps that change neither the report nor the calls.                       *)
LEMMA WorkOtherwise ==
  ASSUME WorkInv, Work!TypeOK', Clock', UNCHANGED <<work, total, calls, passes>>
  PROVE  WorkInv'
<1>1. Work!Reported' = Work!Reported /\ Work!Edits' = Work!Edits
  BY DEF Work!Reported, Work!Edits
<1>2. Counts' /\ Reads' /\ ThisPass'
  BY <1>1 DEF WorkInv, Counts, Reads, ThisPass
<1>3. Longest(calls, Work!Reported.repeatCallRun)'
  BY <1>1 DEF WorkInv
<1>4. QED
  BY <1>2, <1>3 DEF WorkInv

LEMMA WorkFirstEvent == WorkInv /\ Work!FirstEvent => WorkInv'
<1> SUFFICES ASSUME WorkInv, Work!FirstEvent PROVE WorkInv'
  OBVIOUS
<1>1. Work!TypeOK
  BY DEF WorkInv
<1>2. /\ began' = now /\ jobBegan' = (IF jobBegan = Work!Null THEN now ELSE jobBegan)
      /\ UNCHANGED <<now, open, work, intervals, total, passes, calls>>
  BY DEF Work!FirstEvent
<1>3. {began', jobBegan'} \subseteq {Work!Null} \cup 0 .. WorkTime
  BY <1>1, <1>2 DEF Work!TypeOK
<1>4. Work!TypeOK'
  BY <1>1, <1>2, <1>3 DEF Work!TypeOK
<1>5. Clock'
  BY <1>1, <1>2, WorkTypes DEF Clock
<1>6. QED
  BY <1>2, <1>4, <1>5, WorkOtherwise

LEMMA WorkTick == WorkInv /\ Work!Tick => WorkInv'
<1> SUFFICES ASSUME WorkInv, Work!Tick PROVE WorkInv'
  OBVIOUS
<1>1. Work!TypeOK /\ Clock
  BY DEF WorkInv
<1>2. /\ now < WorkTime /\ now' = now + 1
      /\ UNCHANGED <<began, open, work, intervals, total, passes, calls, jobBegan>>
  BY DEF Work!Tick
<1>3. now' \in 0 .. WorkTime
  BY <1>1, <1>2, WorkTypes
<1>4. Work!TypeOK'
  BY <1>1, <1>2, <1>3 DEF Work!TypeOK
<1>5. Clock'
  BY <1>1, <1>2, WorkTypes DEF Clock, Work!Null
<1>6. QED
  BY <1>2, <1>4, <1>5, WorkOtherwise

(* A call that begins is counted, and seen as a repetition.                  *)
LEMMA StartedIs ==
  ASSUME NEW w \in Work!AgentWorkState, NEW c \in Work!Call, NEW at, now - at \in Nat
  PROVE  LET v == Work!Started(w, c, at)
             turn == IF c = w.lastCall THEN w.currentCallRun + 1 ELSE 1
         IN  /\ v \in Work!AgentWorkState /\ v.readPaths = w.readPaths /\ v.linesRead = w.linesRead
             /\ v.rereads = w.rereads /\ v.toolCalls = w.toolCalls + 1
             /\ v.linesWritten = w.linesWritten + (IF c.kind = "edit" THEN 1 ELSE 0)
             /\ v.firstEdit = (IF c.kind = "edit" /\ w.firstEdit = Work!Null THEN now - at ELSE w.firstEdit)
             /\ v.lastCall = c /\ v.currentCallRun = turn
             /\ v.repeatCallRun = Work!MaxOf(w.repeatCallRun, turn)
<1> DEFINE turn == IF c = w.lastCall THEN w.currentCallRun + 1 ELSE 1
           u == [w EXCEPT !.currentCallRun = turn, !.lastCall = c,
                          !.repeatCallRun = Work!MaxOf(w.repeatCallRun, turn)]
           x == [u EXCEPT !.toolCalls = u.toolCalls + 1]
           y == [x EXCEPT !.linesWritten = x.linesWritten + 1,
                          !.firstEdit = IF x.firstEdit = Work!Null THEN now - at ELSE x.firstEdit]
<1>1. turn \in Nat /\ Work!MaxOf(w.repeatCallRun, turn) \in Nat
  BY DEF Work!AgentWorkState, Work!MaxOf
<1>2. /\ u \in Work!AgentWorkState /\ u.readPaths = w.readPaths /\ u.linesRead = w.linesRead
      /\ u.rereads = w.rereads /\ u.toolCalls = w.toolCalls /\ u.linesWritten = w.linesWritten
      /\ u.firstEdit = w.firstEdit /\ u.lastCall = c /\ u.currentCallRun = turn
      /\ u.repeatCallRun = Work!MaxOf(w.repeatCallRun, turn)
  <2> DEFINE most == Work!MaxOf(w.repeatCallRun, turn)
  <2>1. most \in Nat
    BY <1>1
  <2> HIDE DEF turn, most
  <2>2. [w EXCEPT !.currentCallRun = turn, !.lastCall = c, !.repeatCallRun = most] \in Work!AgentWorkState
    BY <1>1, <2>1 DEF Work!AgentWorkState
  <2>3. QED
    BY <2>2 DEF Work!AgentWorkState, most
<1>3. /\ x \in Work!AgentWorkState /\ x.readPaths = u.readPaths /\ x.linesRead = u.linesRead
      /\ x.rereads = u.rereads /\ x.toolCalls = u.toolCalls + 1 /\ x.linesWritten = u.linesWritten
      /\ x.firstEdit = u.firstEdit /\ x.lastCall = u.lastCall /\ x.currentCallRun = u.currentCallRun
      /\ x.repeatCallRun = u.repeatCallRun
  <2> HIDE DEF u
  <2>1. QED
    BY <1>2 DEF Work!AgentWorkState
<1>4. /\ y \in Work!AgentWorkState /\ y.readPaths = x.readPaths /\ y.linesRead = x.linesRead
      /\ y.rereads = x.rereads /\ y.toolCalls = x.toolCalls /\ y.linesWritten = x.linesWritten + 1
      /\ y.firstEdit = (IF x.firstEdit = Work!Null THEN now - at ELSE x.firstEdit)
      /\ y.lastCall = x.lastCall /\ y.currentCallRun = x.currentCallRun
      /\ y.repeatCallRun = x.repeatCallRun
  <2> DEFINE first == IF x.firstEdit = Work!Null THEN now - at ELSE x.firstEdit
             more  == x.linesWritten + 1
             z     == [x EXCEPT !.linesWritten = more, !.firstEdit = first]
  <2>1. x \in Work!AgentWorkState
    BY <1>3
  <2>2. first \in {Work!Null} \cup Nat /\ more \in Nat
    <3> HIDE DEF x
    <3>1. QED
      BY <2>1 DEF Work!AgentWorkState
  <2>3. y = z
    <3> HIDE DEF x
    <3>1. QED
      OBVIOUS
  <2> HIDE DEF x, first, more, y
  <2>4. /\ z \in Work!AgentWorkState /\ z.readPaths = x.readPaths /\ z.linesRead = x.linesRead
        /\ z.rereads = x.rereads /\ z.toolCalls = x.toolCalls /\ z.linesWritten = more
        /\ z.firstEdit = first /\ z.lastCall = x.lastCall /\ z.currentCallRun = x.currentCallRun
        /\ z.repeatCallRun = x.repeatCallRun
    BY <2>1, <2>2 DEF Work!AgentWorkState
  <2> HIDE DEF z
  <2>5. QED
    BY <2>3, <2>4 DEF first, more
<1>5. Work!Started(w, c, at) = IF c.kind = "edit" THEN y ELSE x
  BY DEF Work!Started, Work!Repeats
<1> HIDE DEF u, x, y
<1>6. CASE c.kind = "edit"
  BY <1>2, <1>3, <1>4, <1>5, <1>6
<1>7. CASE c.kind # "edit"
  <2>1. w.linesWritten \in Nat
    BY DEF Work!AgentWorkState
  <2>2. QED
    BY <1>2, <1>3, <1>5, <1>7, <2>1
<1>8. QED
  BY <1>6, <1>7

LEMMA WorkToolStart == WorkInv /\ Work!ToolStart => WorkInv'
<1> SUFFICES ASSUME WorkInv, Work!ToolStart PROVE WorkInv'
  OBVIOUS
<1>1. Work!TypeOK /\ Clock /\ Counts /\ Reads /\ ThisPass /\ Longest(calls, Work!Reported.repeatCallRun)
  BY DEF WorkInv
<1>2. PICK c \in Work!Call :
        /\ began # Work!Null /\ work' = Work!Started(work, c, began)
        /\ open' = open \cup {Len(calls) + 1}
        /\ calls' = Append(calls, [call |-> c, at |-> now, pass |-> passes])
        /\ UNCHANGED <<now, began, intervals, total, passes, jobBegan>>
  BY DEF Work!ToolStart
<1> DEFINE x == [call |-> c, at |-> now, pass |-> passes]
           turn == IF c = work.lastCall THEN work.currentCallRun + 1 ELSE 1
<1>3. x \in CallRecords /\ x.call = c /\ x.pass = passes
  BY <1>1, WorkTypes DEF CallRecords
<1>4. calls' \in Seq(CallRecords) /\ Len(calls') = Len(calls) + 1 /\ DOMAIN calls' = 1 .. Len(calls')
      /\ calls'[Len(calls) + 1] = x /\ \A k \in 1 .. Len(calls) : calls'[k] = calls[k]
  <2> HIDE DEF x
  <2>1. calls' = Append(calls, x)
    BY <1>2 DEF x
  <2>2. QED
    BY <1>1, <1>3, <2>1, WorkTypes, AppendProperties, LenProperties
<1> HIDE DEF x
<1>5. now - began \in Nat
  BY <1>1, <1>2, WorkTypes DEF Clock, Work!Null
<1>6. /\ work' \in Work!AgentWorkState /\ work'.readPaths = work.readPaths /\ work'.linesRead = work.linesRead
      /\ work'.rereads = work.rereads /\ work'.toolCalls = work.toolCalls + 1
      /\ work'.linesWritten = work.linesWritten + (IF c.kind = "edit" THEN 1 ELSE 0)
      /\ work'.firstEdit = (IF c.kind = "edit" /\ work.firstEdit = Work!Null THEN now - began ELSE work.firstEdit)
      /\ work'.lastCall = c /\ work'.currentCallRun = turn
      /\ work'.repeatCallRun = Work!MaxOf(work.repeatCallRun, turn)
  BY <1>1, <1>2, <1>5, WorkTypes, StartedIs
<1> HIDE DEF turn
<1>7. Work!TypeOK'
  <2>1. calls' \in Seq([call : Work!Call, at : 0 .. WorkTime, pass : 1 .. Passes])
    BY <1>4 DEF CallRecords
  <2>2. open' \subseteq DOMAIN calls'
    <3>1. open \subseteq 1 .. Len(calls)
      BY <1>1, WorkTypes DEF Work!TypeOK
    <3>2. Len(calls) \in Nat
      BY <1>1, WorkTypes
    <3>3. 1 .. Len(calls) \subseteq 1 .. Len(calls) + 1 /\ Len(calls) + 1 \in 1 .. Len(calls) + 1
      BY <3>2
    <3>4. DOMAIN calls' = 1 .. Len(calls) + 1
      BY <1>4
    <3>5. QED
      BY <1>2, <3>1, <3>3, <3>4
  <2>3. Work!IsFiniteSet(work'.readPaths)
    BY <1>1, <1>6, WorkTypes, WorkCounting
  <2>4. {began', jobBegan'} \subseteq {Work!Null} \cup 0 .. WorkTime
    BY <1>1, <1>2 DEF Work!TypeOK
  <2>5. QED
    BY <1>1, <1>2, <1>6, <2>1, <2>2, <2>3, <2>4 DEF Work!TypeOK
<1>8. Work!Reported = Report(total, work) /\ Work!Reported' = Report(total, work')
  BY <1>1, <1>2, WorkTypes DEF Work!Reported, Report
<1> DEFINE old == Report(total, work)
           new == Report(total, work')
           past == Past(total)
<1>9. /\ past \in Work!Summaries
      /\ old.toolCalls = past.toolCalls + work.toolCalls
      /\ old.linesWritten = past.linesWritten + work.linesWritten
      /\ old.firstEdit = Work!EarlierOf(past.firstEdit, work.firstEdit)
      /\ old.repeatCallRun = Work!MaxOf(past.repeatCallRun, work.repeatCallRun)
  BY <1>1, WorkTypes, ReportIs
<1>10. /\ new.toolCalls = past.toolCalls + work'.toolCalls
       /\ new.linesWritten = past.linesWritten + work'.linesWritten
       /\ new.firstEdit = Work!EarlierOf(past.firstEdit, work'.firstEdit)
       /\ new.repeatCallRun = Work!MaxOf(past.repeatCallRun, work'.repeatCallRun)
  <2>1. total \in {Work!NoWork} \cup Work!Summaries /\ IsFiniteSet(work'.readPaths)
    BY <1>1, <1>6, WorkTypes
  <2>2. QED
    BY <1>6, <2>1, ReportIs
<1>11. /\ past.toolCalls \in Nat /\ past.linesWritten \in Nat /\ past.firstEdit \in {Work!Null} \cup Nat
       /\ past.repeatCallRun \in Nat
  BY <1>9 DEF Work!Summaries
<1>12. /\ work.toolCalls \in Nat /\ work.linesWritten \in Nat /\ work.firstEdit \in {Work!Null} \cup Nat
       /\ work.repeatCallRun \in Nat /\ work.currentCallRun \in Nat
  BY <1>1, WorkTypes DEF Work!AgentWorkState
<1> HIDE DEF old, new, past
<1>13. Work!Edits \subseteq 1 .. Len(calls)
       /\ Work!Edits' = Work!Edits \cup (IF c.kind = "edit" THEN {Len(calls) + 1} ELSE {})
  <2>1. DOMAIN calls = 1 .. Len(calls) /\ Len(calls) \in Nat
    BY <1>1, WorkTypes
  <2>2. \A k \in 1 .. Len(calls') : k \in 1 .. Len(calls) \/ k = Len(calls) + 1
    BY <1>4, <2>1
  <2>3. 1 .. Len(calls) \subseteq 1 .. Len(calls') /\ Len(calls) + 1 \in 1 .. Len(calls')
    BY <1>4, <2>1
  <2>4. Work!Edits \subseteq 1 .. Len(calls)
    BY <2>1 DEF Work!Edits
  <2>5. ASSUME NEW k PROVE k \in Work!Edits' <=> k \in Work!Edits \/ (c.kind = "edit" /\ k = Len(calls) + 1)
    <3>1. CASE k \in 1 .. Len(calls)
      BY <1>4, <2>1, <2>3, <3>1 DEF Work!Edits
    <3>2. CASE k = Len(calls) + 1
      <4>1. k \notin Work!Edits
        BY <2>1, <2>4, <3>2
      <4>2. QED
        BY <1>3, <1>4, <2>3, <3>2, <4>1 DEF Work!Edits
    <3>3. CASE ~(k \in 1 .. Len(calls)) /\ k # Len(calls) + 1
      BY <1>4, <2>1, <2>2, <3>3 DEF Work!Edits
    <3>4. QED
      BY <3>1, <3>2, <3>3
  <2>6. QED
    BY <2>4, <2>5
<1>14. Cardinality(Work!Edits') = Cardinality(Work!Edits) + (IF c.kind = "edit" THEN 1 ELSE 0)
  <2>1. Len(calls) \in Nat
    BY <1>1, WorkTypes
  <2>2. IsFiniteSet(Work!Edits)
    <3>1. IsFiniteSet(1 .. Len(calls))
      BY <2>1, FS_Interval
    <3>2. QED
      BY <1>13, <3>1, FS_Subset
  <2>3. Len(calls) + 1 \notin Work!Edits /\ Cardinality(Work!Edits) \in Nat
    BY <1>13, <2>1, <2>2, FS_CardinalityType
  <2>4. CASE c.kind = "edit"
    BY <1>13, <2>2, <2>3, <2>4, FS_AddElement
  <2>5. CASE c.kind # "edit"
    BY <1>13, <2>3, <2>5
  <2>6. QED
    BY <2>4, <2>5
<1>15. Counts'
  <2>1. old.toolCalls = Len(calls) /\ old.linesWritten = Cardinality(Work!Edits)
        /\ ((old.firstEdit = Work!Null) <=> (Work!Edits = {}))
    BY <1>1, <1>8 DEF Counts, old
  <2>2. new.toolCalls = Len(calls')
    <3>1. past.toolCalls + work.toolCalls = Len(calls)
      BY <1>9, <2>1
    <3>2. new.toolCalls = past.toolCalls + (work.toolCalls + 1)
      BY <1>6, <1>10
    <3>3. QED
      BY <1>4, <1>11, <1>12, <3>1, <3>2
  <2>3. new.linesWritten = Cardinality(Work!Edits')
    BY <1>6, <1>9, <1>10, <1>11, <1>12, <1>14, <2>1
  <2>4. (new.firstEdit = Work!Null) <=> (Work!Edits' = {})
    <3>1. (old.firstEdit = Work!Null) <=> (past.firstEdit = Work!Null /\ work.firstEdit = Work!Null)
      BY <1>9 DEF Work!EarlierOf
    <3>2. (new.firstEdit = Work!Null) <=> (past.firstEdit = Work!Null /\ work'.firstEdit = Work!Null)
      BY <1>10 DEF Work!EarlierOf
    <3>3. now - began # Work!Null
      BY <1>5 DEF Work!Null
    <3>4. CASE c.kind = "edit"
      BY <1>6, <1>13, <3>2, <3>3, <3>4
    <3>5. CASE c.kind # "edit"
      BY <1>6, <1>13, <2>1, <3>1, <3>2, <3>5
    <3>6. QED
      BY <3>4, <3>5
  <2>5. QED
    BY <1>8, <2>2, <2>3, <2>4 DEF Counts, new
<1>16. Reads'
  BY <1>1, <1>2, <1>6 DEF Reads
<1>17. passes \in Nat /\ calls \in Seq(CallRecords) /\ calls' = Append(calls, x)
       /\ InPass(calls, passes, work.toolCalls, work.currentCallRun, work.lastCall)
       /\ turn = IF x.call = work.lastCall THEN work.currentCallRun + 1 ELSE 1
  BY <1>1, <1>2, <1>3, WorkTypes DEF ThisPass, x, turn
<1>18. InPass(Append(calls, x), passes, work.toolCalls + 1, turn, x.call)
  BY <1>3, <1>12, <1>17, InPassGrows
<1>19. ThisPass'
  BY <1>2, <1>3, <1>6, <1>17, <1>18 DEF ThisPass
<1>20. Longest(calls, Work!Reported.repeatCallRun)'
  <2>1. Longest(Append(calls, x), Work!MaxOf(old.repeatCallRun, turn))
    <3>1. Longest(calls, old.repeatCallRun)
      BY <1>1, <1>8 DEF old
    <3>2. QED
      BY <1>3, <1>12, <1>17, <3>1, LongestGrows
  <2>2. new.repeatCallRun = Work!MaxOf(old.repeatCallRun, turn)
    <3>1. turn \in Nat
      BY <1>12 DEF turn
    <3>2. QED
      BY <1>6, <1>9, <1>10, <1>11, <1>12, <3>1 DEF Work!MaxOf
  <2>3. Longest(calls', new.repeatCallRun)
    BY <1>17, <2>1, <2>2
  <2>4. Work!Reported'.repeatCallRun = new.repeatCallRun
    BY <1>8 DEF new
  <2>5. QED
    BY <2>3, <2>4
<1>21. QED
  BY <1>1, <1>2, <1>7, <1>15, <1>16, <1>19, <1>20 DEF WorkInv, Clock

(* A call that ends is one read more, or one error.                          *)
LEMMA EndedIs ==
  ASSUME NEW w \in Work!AgentWorkState, IsFiniteSet(w.readPaths), NEW c \in Work!Call,
         NEW v \in {Work!EndedWell(w, c), Work!Failed(w)},
         w.linesRead = Cardinality(w.readPaths) + w.rereads
  PROVE  /\ v \in Work!AgentWorkState /\ IsFiniteSet(v.readPaths)
         /\ v.linesRead = Cardinality(v.readPaths) + v.rereads
         /\ v.toolCalls = w.toolCalls /\ v.linesWritten = w.linesWritten /\ v.firstEdit = w.firstEdit
         /\ v.repeatCallRun = w.repeatCallRun /\ v.currentCallRun = w.currentCallRun
         /\ v.lastCall = w.lastCall
<1>1. w.rereads \in Nat /\ w.linesRead \in Nat /\ w.errors \in Nat /\ w.readPaths \in SUBSET Files
      /\ c.file \in Files
  BY DEF Work!AgentWorkState, Work!Call
<1>2. Cardinality(w.readPaths) \in Nat
  BY FS_CardinalityType
<1>3. CASE v = Work!Failed(w)
  BY <1>1, <1>3 DEF Work!Failed, Work!AgentWorkState
<1>4. CASE v = w
  BY <1>4
<1>5. CASE v = Work!EndedWell(w, c) /\ c.kind = "read"
  <2> DEFINE lines1 == w.linesRead + 1
             again == IF c.file \in w.readPaths THEN w.rereads + 1 ELSE w.rereads
             paths1 == w.readPaths \cup {c.file}
             z == [w EXCEPT !.linesRead = lines1, !.rereads = again, !.readPaths = paths1]
  <2>1. v = z
    BY <1>5 DEF Work!EndedWell
  <2>2. lines1 \in Nat /\ again \in Nat /\ paths1 \in SUBSET Files
    BY <1>1
  <2>3. IsFiniteSet(paths1) /\ lines1 = Cardinality(paths1) + again
    <3>1. IsFiniteSet(paths1) /\ Cardinality(paths1) =
            IF c.file \in w.readPaths THEN Cardinality(w.readPaths) ELSE Cardinality(w.readPaths) + 1
      BY FS_AddElement
    <3>2. QED
      BY <1>1, <1>2, <3>1
  <2> HIDE DEF lines1, again, paths1
  <2>4. /\ z \in Work!AgentWorkState /\ z.readPaths = paths1 /\ z.linesRead = lines1 /\ z.rereads = again
        /\ z.toolCalls = w.toolCalls /\ z.linesWritten = w.linesWritten /\ z.firstEdit = w.firstEdit
        /\ z.repeatCallRun = w.repeatCallRun /\ z.currentCallRun = w.currentCallRun
        /\ z.lastCall = w.lastCall
    BY <2>2 DEF Work!AgentWorkState
  <2> HIDE DEF z
  <2>5. QED
    BY <2>1, <2>3, <2>4
<1>6. QED
  BY <1>3, <1>4, <1>5 DEF Work!EndedWell

LEMMA WorkToolEnd == WorkInv /\ Work!ToolEnd => WorkInv'
<1> SUFFICES ASSUME WorkInv, Work!ToolEnd PROVE WorkInv'
  OBVIOUS
<1>1. Work!TypeOK /\ Clock /\ Counts /\ Reads /\ ThisPass /\ Longest(calls, Work!Reported.repeatCallRun)
  BY DEF WorkInv
<1>2. PICK k \in open :
        /\ open' = open \ {k} /\ intervals' = intervals \cup {<<calls[k].at, now>>}
        /\ work' \in {Work!EndedWell(work, calls[k].call), Work!Failed(work)}
        /\ UNCHANGED <<now, began, total, passes, calls, jobBegan>>
  BY DEF Work!ToolEnd
<1>3. calls[k] \in CallRecords
  <2>1. k \in 1 .. Len(calls)
    BY <1>1, WorkTypes DEF Work!TypeOK
  <2>2. QED
    BY <1>1, <2>1, WorkTypes, ElementOfSeq
<1>4. calls[k].call \in Work!Call /\ calls[k].at \in 0 .. WorkTime
  BY <1>3 DEF CallRecords
<1>5. work.linesRead = Cardinality(work.readPaths) + work.rereads
  BY <1>1 DEF Reads
<1>6. /\ work' \in Work!AgentWorkState /\ IsFiniteSet(work'.readPaths)
      /\ work'.linesRead = Cardinality(work'.readPaths) + work'.rereads
      /\ work'.toolCalls = work.toolCalls /\ work'.linesWritten = work.linesWritten
      /\ work'.firstEdit = work.firstEdit /\ work'.repeatCallRun = work.repeatCallRun
      /\ work'.currentCallRun = work.currentCallRun /\ work'.lastCall = work.lastCall
  BY <1>1, <1>2, <1>4, <1>5, WorkTypes, EndedIs
<1>7. Work!TypeOK'
  <2>1. <<calls[k].at, now>> \in Work!Spans
    BY <1>1, <1>4, WorkTypes DEF Work!Spans
  <2>2. intervals' \subseteq Work!Spans
    BY <1>1, <1>2, <2>1 DEF Work!TypeOK
  <2>3. open' \subseteq DOMAIN calls'
    BY <1>1, <1>2 DEF Work!TypeOK
  <2>4. Work!IsFiniteSet(work'.readPaths)
    BY <1>6, WorkCounting
  <2>5. QED
    BY <1>1, <1>2, <1>6, <2>2, <2>3, <2>4 DEF Work!TypeOK
<1>8. Work!Reported = Report(total, work) /\ Work!Reported' = Report(total, work')
  BY <1>1, <1>2, WorkTypes DEF Work!Reported, Report
<1>9. /\ Report(total, work).toolCalls = Past(total).toolCalls + work.toolCalls
      /\ Report(total, work).linesWritten = Past(total).linesWritten + work.linesWritten
      /\ Report(total, work).firstEdit = Work!EarlierOf(Past(total).firstEdit, work.firstEdit)
      /\ Report(total, work).repeatCallRun = Work!MaxOf(Past(total).repeatCallRun, work.repeatCallRun)
  BY <1>1, WorkTypes, ReportIs
<1>10. /\ Report(total, work').toolCalls = Past(total).toolCalls + work'.toolCalls
       /\ Report(total, work').linesWritten = Past(total).linesWritten + work'.linesWritten
       /\ Report(total, work').firstEdit = Work!EarlierOf(Past(total).firstEdit, work'.firstEdit)
       /\ Report(total, work').repeatCallRun = Work!MaxOf(Past(total).repeatCallRun, work'.repeatCallRun)
  <2>1. total \in {Work!NoWork} \cup Work!Summaries
    BY <1>1, WorkTypes
  <2>2. QED
    BY <1>6, <2>1, ReportIs
<1>11. /\ Work!Reported'.toolCalls = Work!Reported.toolCalls
       /\ Work!Reported'.linesWritten = Work!Reported.linesWritten
       /\ Work!Reported'.firstEdit = Work!Reported.firstEdit
       /\ Work!Reported'.repeatCallRun = Work!Reported.repeatCallRun
  BY <1>6, <1>8, <1>9, <1>10
<1>12. Work!Edits' = Work!Edits
  BY <1>2 DEF Work!Edits
<1>13. Counts'
  BY <1>1, <1>2, <1>11, <1>12 DEF Counts
<1>14. Reads'
  BY <1>1, <1>2, <1>6 DEF Reads
<1>15. ThisPass'
  BY <1>1, <1>2, <1>6 DEF ThisPass
<1>16. Longest(calls, Work!Reported.repeatCallRun)'
  BY <1>1, <1>2, <1>11
<1>17. QED
  BY <1>1, <1>2, <1>7, <1>13, <1>14, <1>15, <1>16 DEF WorkInv, Clock

(* What was reported of all passes is the past of the next one.              *)
LEMMA WorkNextPass == WorkInv /\ Work!NextPass => WorkInv'
<1> SUFFICES ASSUME WorkInv, Work!NextPass PROVE WorkInv'
  OBVIOUS
<1>1. Work!TypeOK /\ Clock /\ Counts /\ Reads /\ ThisPass /\ Longest(calls, Work!Reported.repeatCallRun)
  BY DEF WorkInv
<1>2. /\ passes < Passes /\ passes' = passes + 1 /\ total' = Work!Reported
      /\ work' = Work!NothingDone /\ began' = Work!Null /\ open' = {} /\ intervals' = {}
      /\ UNCHANGED <<now, calls, jobBegan>>
  BY DEF Work!NextPass
<1>3. Work!Reported \in Work!Summaries
  BY <1>1, WorkTypes, ReportIs
<1>4. total' # Work!NoWork /\ total' \in Work!Summaries /\ Past(total') = Work!Reported
  BY <1>2, <1>3, WorkNames DEF Past
<1>5. work' \in Work!AgentWorkState /\ IsFiniteSet(work'.readPaths) /\ Cardinality(work'.readPaths) = 0
  BY <1>2, NothingIsNothing, FS_EmptySet
<1>6. Work!TypeOK'
  <2>1. passes' \in 1 .. Passes
    BY <1>1, <1>2, WorkTypes
  <2>2. {began', jobBegan'} \subseteq {Work!Null} \cup 0 .. WorkTime
    BY <1>1, <1>2 DEF Work!TypeOK
  <2>3. Work!IsFiniteSet(work'.readPaths)
    BY <1>5, WorkCounting
  <2>4. open' \subseteq DOMAIN calls' /\ intervals' \subseteq Work!Spans
    BY <1>2
  <2>5. QED
    BY <1>1, <1>2, <1>4, <1>5, <2>1, <2>2, <2>3, <2>4 DEF Work!TypeOK
<1>7. Work!Reported' = Report(total', work')
  BY DEF Work!Reported, Report
<1> DEFINE r == Work!Reported
<1>8. /\ r.toolCalls \in Nat /\ r.linesWritten \in Nat /\ r.repeatCallRun \in Nat
      /\ r.firstEdit \in {Work!Null} \cup Nat
  BY <1>3 DEF Work!Summaries
<1>9. /\ Report(total', work').toolCalls = r.toolCalls + 0
      /\ Report(total', work').linesWritten = r.linesWritten + 0
      /\ Report(total', work').firstEdit = Work!EarlierOf(r.firstEdit, Work!Null)
      /\ Report(total', work').repeatCallRun = Work!MaxOf(r.repeatCallRun, 0)
  BY <1>2, <1>4, <1>5, NothingIsNothing, ReportIs
<1> HIDE DEF r
<1>10. /\ Work!Reported'.toolCalls = r.toolCalls /\ Work!Reported'.linesWritten = r.linesWritten
       /\ Work!Reported'.firstEdit = r.firstEdit /\ Work!Reported'.repeatCallRun = r.repeatCallRun
  BY <1>7, <1>8, <1>9 DEF Work!EarlierOf, Work!MaxOf
<1>11. Work!Edits' = Work!Edits
  BY <1>2 DEF Work!Edits
<1>12. Counts'
  BY <1>1, <1>2, <1>10, <1>11 DEF Counts, r
<1>13. Reads'
  <2>1. r.linesRead = r.filesRead + r.rereads
    BY <1>1, ReportedAdds DEF r
  <2>2. work'.linesRead = 0 /\ work'.rereads = 0
    BY <1>2, NothingIsNothing
  <2>3. QED
    BY <1>4, <1>5, <2>1, <2>2 DEF Reads, r
<1>14. ThisPass'
  <2>1. passes \in Nat /\ Len(calls) \in Nat /\ calls \in Seq(CallRecords)
        /\ work.toolCalls \in Nat
    BY <1>1, WorkTypes DEF Work!AgentWorkState
  <2>2. \A k \in 1 .. Len(calls) : calls[k].pass <= passes
    BY <1>1 DEF ThisPass, InPass
  <2>3. \A k \in 1 .. Len(calls) : calls[k].pass \in Nat
    <3>1. \A k \in 1 .. Len(calls) : calls[k] \in CallRecords
      BY <2>1, ElementOfSeq
    <3>2. QED
      BY <3>1 DEF CallRecords
  <2>4. \A k \in 1 .. Len(calls) : calls[k].pass <= passes + 1 /\ calls[k].pass # passes + 1
    BY <2>1, <2>2, <2>3
  <2>5. work'.toolCalls = 0 /\ work'.currentCallRun = 0
    BY <1>2, NothingIsNothing
  <2>6. \A k \in 1 .. Len(calls) : ~(Len(calls) - 0 < k)
    BY <2>1
  <2>7. InPass(calls, passes + 1, 0, 0, work'.lastCall)
    BY <2>1, <2>4, <2>6 DEF InPass
  <2>8. QED
    BY <1>2, <2>5, <2>7 DEF ThisPass
<1>15. Longest(calls, Work!Reported.repeatCallRun)'
  BY <1>1, <1>2, <1>10 DEF r
<1>16. QED
  BY <1>2, <1>6, <1>12, <1>13, <1>14, <1>15 DEF WorkInv, Clock

LEMMA WorkInvariant == Work!Spec => []WorkInv
<1>1. WorkInv /\ [Work!Next]_(Work!vars) => WorkInv'
  <2> SUFFICES ASSUME WorkInv, [Work!Next]_(Work!vars) PROVE WorkInv'
    OBVIOUS
  <2>1. CASE UNCHANGED Work!vars
    <3>1. UNCHANGED <<work, total, calls, passes>>
      BY <2>1 DEF Work!vars
    <3>2. Work!TypeOK' /\ Clock'
      BY <2>1 DEF WorkInv, Work!vars, Work!TypeOK, Clock
    <3>3. QED
      BY <3>1, <3>2, WorkOtherwise
  <2>2. QED
    BY <2>1, WorkFirstEvent, WorkToolStart, WorkToolEnd, WorkNextPass, WorkTick DEF Work!Next
<1>2. QED
  BY <1>1, WorkInit, PTL DEF Work!Spec

(* The report of a run is the sum of what was done in all of its passes:      *)
(* every call is in it, its loop is the longest of any pass, and tools that  *)
(* ran at once are counted once, for any number of passes and calls.         *)
THEOREM ReportAddsUp == Spec => []WorkAddsUp
<1>1. WorkInv => WorkAddsUp
  BY WorkInvIsEnough DEF WorkAddsUp
<1>2. QED
  BY <1>1, WorkPart, WorkInvariant, PTL
-----------------------------------------------------------------------------
(* No record is of the future, and what was decided has its type.            *)
UseInv ==
  /\ clock \in Continued!Times /\ used \subseteq Ids
  /\ \A j \in Continued!Jobs : records[j].at <= clock
  /\ decided \in [Continued!Jobs -> {Continued!Nothing} \cup Continued!Decision]

(* The last use of a session that a job is known for was at some time.       *)
LEMMA LastUseIs ==
  ASSUME SessionInv, UseInv, NEW s \in Continued!Known
  PROVE  Continued!LastUse(s) \in 0 .. clock
<1> DEFINE S == {records[j].at : j \in Continued!JobsOf(s)}
<1>1. \A j \in Continued!Jobs : records[j].at \in Nat
  BY DEF SessionInv, SessionTypes
<1>2. S \in SUBSET Nat /\ \A x \in S : x <= clock
  BY <1>1 DEF UseInv, Continued!JobsOf
<1>3. S # {}
  BY DEF Continued!Known
<1>4. clock \in Nat
  BY DEF SessionInv, SessionTypes
<1> HIDE DEF S
<1>5. Recorder!Max(S) \in S
  BY <1>2, <1>3, <1>4, GreatestNumber
<1>6. Continued!Max(S) = Recorder!Max(S)
  BY DEF Continued!Max, Recorder!Max
<1>7. Continued!LastUse(s) = Continued!Max(S)
  BY DEF Continued!LastUse, S
<1>8. Continued!LastUse(s) \in S
  BY <1>5, <1>6, <1>7
<1>9. \A x \in S : x \in 0 .. clock
  BY <1>2, <1>4
<1>10. QED
  BY <1>8, <1>9

LEMMA DecisionTypes ==
  ASSUME SessionInv, UseInv, NEW j \in Continued!Jobs, NEW s \in Ids, NEW staleOk \in BOOLEAN,
         NEW command \in {"delegate", "continue"}, Continued!Decides(j, command, s, staleOk)
  PROVE  decided' \in [Continued!Jobs -> {Continued!Nothing} \cup Continued!Decision]
<1> DEFINE idle == IF s \in Continued!Known THEN clock - Continued!LastUse(s) ELSE 0
           alone == \A k \in Continued!Jobs : runs[k] # s
           d == [command |-> command, session |-> s, staleOk |-> staleOk, idle |-> idle,
                 alone |-> alone]
<1>1. decided' = [decided EXCEPT ![j] = d]
  BY DEF Continued!Decides
<1>2. idle \in Continued!Times
  <2>1. clock \in 0 .. SessionTime /\ SessionTime \in Nat
    BY PartsAssumption DEF UseInv, Continued!Times, SessionConstants
  <2>2. CASE s \in Continued!Known
    <3>1. Continued!LastUse(s) \in 0 .. clock
      BY <2>2, LastUseIs
    <3>2. idle = clock - Continued!LastUse(s)
      BY <2>2
    <3>3. QED
      BY <2>1, <3>1, <3>2 DEF Continued!Times
  <2>3. CASE s \notin Continued!Known
    BY <2>1, <2>3 DEF Continued!Times
  <2>4. QED
    BY <2>2, <2>3
<1>3. alone \in BOOLEAN
  OBVIOUS
<1> HIDE DEF idle, alone
<1>4. d \in Continued!Decision
  BY <1>2, <1>3 DEF Continued!Decision
<1> HIDE DEF d
<1>5. QED
  BY <1>1, <1>4 DEF UseInv

(* A job is recorded as of now, and of the sessions pi makes one more.       *)
LEMMA RecordedNow ==
  ASSUME SessionInv, UseInv, NEW j \in Continued!Jobs,
         NEW r, r.at = clock, records' = [records EXCEPT ![j] = r]
  PROVE  \A k \in Continued!Jobs : records'[k].at <= clock
<1>1. records'[j] = r /\ \A k \in Continued!Jobs \ {j} : records'[k] = records[k]
  BY DEF SessionInv, SessionTypes
<1>2. clock <= clock
  BY DEF SessionInv, SessionTypes
<1>3. QED
  BY <1>1, <1>2 DEF UseInv

LEMMA StatusNow ==
  ASSUME SessionInv, UseInv, NEW j \in Continued!Jobs, NEW state,
         records' = Continued!Record(j, state)
  PROVE  \A k \in Continued!Jobs : records'[k].at <= clock
<1> DEFINE r == [records[j] EXCEPT !.status = state, !.at = clock]
<1>1. records[j] \in [status : Continued!Statuses, session : Ids \cup {Continued!None}, at : Nat]
  BY DEF SessionInv, SessionTypes
<1>2. r.at = clock
  BY <1>1
<1>3. records' = [records EXCEPT ![j] = r]
  BY DEF Continued!Record
<1> HIDE DEF r
<1>4. QED
  BY <1>2, <1>3, RecordedNow

LEMMA RunIsNow ==
  ASSUME SessionInv, UseInv, NEW j \in Continued!Jobs, NEW s \in Ids, Continued!RunOn(j, s)
  PROVE  used' \subseteq Ids /\ \A k \in Continued!Jobs : records'[k].at <= clock
<1>1. used' \subseteq Ids
  BY DEF Continued!RunOn, UseInv
<1>2. records' = Continued!Record(j, "running")
  BY DEF Continued!RunOn
<1>3. QED
  BY <1>1, <1>2, StatusNow

LEMMA ProceedsIsNow ==
  ASSUME SessionInv, UseInv, NEW j \in Continued!Jobs, NEW s \in Ids, NEW command, NEW reference,
         NEW staleOk, NEW background \in BOOLEAN,
         Continued!Proceeds(j, command, reference, s, staleOk, background)
  PROVE  used' \subseteq Ids /\ \A k \in Continued!Jobs : records'[k].at <= clock
<1>1. CASE background
  <2>1. records' = Continued!Record(j, "pending") /\ used' = used
    BY <1>1 DEF Continued!Proceeds, Continued!Detach
  <2>2. QED
    BY <2>1, StatusNow DEF UseInv
<1>2. CASE ~background
  BY <1>2, RunIsNow DEF Continued!Proceeds
<1>3. QED
  BY <1>1, <1>2

LEMMA UseStep == SessionInv /\ UseInv /\ [Continued!Next]_(Continued!vars) => UseInv'
<1> SUFFICES ASSUME SessionInv, UseInv, [Continued!Next]_(Continued!vars) PROVE UseInv'
  OBVIOUS
<1>1. ASSUME NEW j \in Continued!Jobs, Continued!DelegateFresh(j) PROVE UseInv'
  <2>1. PICK s \in Ids : Continued!RunOn(j, s)
    BY <1>1 DEF Continued!DelegateFresh, Continued!NewSession
  <2>2. UNCHANGED <<clock, decided>>
    BY <1>1 DEF Continued!DelegateFresh
  <2>3. QED
    BY <2>1, <2>2, RunIsNow DEF UseInv
<1>2. ASSUME NEW j \in Continued!Jobs, Continued!DelegateSession(j) \/ Continued!Continue(j)
      PROVE  UseInv'
  <2>1. PICK reference \in Ids \cup {Continued!Last}, staleOk \in BOOLEAN, background \in BOOLEAN,
             command \in {"delegate", "continue"} :
          \E s \in Continued!Found(reference) \cup Continued!Resolved(reference) :
            /\ Continued!Proceeds(j, command, reference, s, staleOk, background)
            /\ Continued!Decides(j, command, s, staleOk)
    BY <1>2 DEF Continued!DelegateSession, Continued!Continue
  <2>2. PICK s \in Continued!Found(reference) \cup Continued!Resolved(reference) :
          /\ Continued!Proceeds(j, command, reference, s, staleOk, background)
          /\ Continued!Decides(j, command, s, staleOk)
    BY <2>1
  <2>3. s \in Ids
    BY WhatIsFound
  <2>4. clock' = clock
    BY <1>2 DEF Continued!DelegateSession, Continued!Continue
  <2>5. decided' \in [Continued!Jobs -> {Continued!Nothing} \cup Continued!Decision]
    BY <2>2, <2>3, DecisionTypes
  <2>6. used' \subseteq Ids /\ \A k \in Continued!Jobs : records'[k].at <= clock
    BY <2>2, <2>3, ProceedsIsNow
  <2>7. QED
    BY <2>4, <2>5, <2>6 DEF UseInv
<1>3. ASSUME NEW j \in Continued!Jobs, Continued!ChildStarts(j) PROVE UseInv'
  <2> DEFINE r == Continued!Reference(child[j])
  <2>1. PICK s \in Continued!Found(r) \cup Continued!Resolved(r) :
          Continued!RunOn(j, s) \/ UNCHANGED <<records, used>>
    BY <1>3 DEF Continued!ChildStarts
  <2>2. s \in Ids
    BY WhatIsFound
  <2>3. UNCHANGED <<clock, decided>>
    BY <1>3 DEF Continued!ChildStarts
  <2>4. QED
    BY <2>1, <2>2, <2>3, RunIsNow DEF UseInv
<1>4. ASSUME NEW j \in Continued!Jobs, Continued!RunEnds(j) \/ Continued!RunFails(j) PROVE UseInv'
  <2>1. UNCHANGED <<clock, used, decided>>
    BY <1>4 DEF Continued!RunEnds, Continued!RunFails
  <2>2. CASE Continued!RunEnds(j)
    <3> DEFINE r == [status |-> "completed", session |-> runs[j], at |-> clock]
    <3>1. r.at = clock /\ records' = [records EXCEPT ![j] = r]
      BY <2>2 DEF Continued!RunEnds
    <3> HIDE DEF r
    <3>2. QED
      BY <2>1, <3>1, RecordedNow DEF UseInv
  <2>3. CASE Continued!RunFails(j)
    <3>1. records' = Continued!Record(j, "failed")
      BY <2>3 DEF Continued!RunFails, Continued!Record
    <3>2. QED
      BY <2>1, <3>1, StatusNow DEF UseInv
  <2>4. QED
    BY <1>4, <2>2, <2>3
<1>5. CASE Continued!Tick
  <2>1. UNCHANGED <<records, used, decided>> /\ clock < SessionTime /\ clock' = clock + 1
    BY <1>5 DEF Continued!Tick
  <2>2. clock \in 0 .. SessionTime /\ SessionTime \in Nat
    BY PartsAssumption DEF UseInv, Continued!Times, SessionConstants
  <2>3. \A j \in Continued!Jobs : records[j].at \in Nat
    BY DEF SessionInv, SessionTypes
  <2>4. clock' \in Continued!Times
    BY <2>1, <2>2 DEF Continued!Times
  <2>5. \A j \in Continued!Jobs : records'[j].at <= clock'
    BY <2>1, <2>2, <2>3 DEF UseInv
  <2>6. QED
    BY <2>1, <2>4, <2>5 DEF UseInv
<1>6. CASE UNCHANGED Continued!vars
  BY <1>6 DEF Continued!vars, UseInv
<1>7. QED
  BY <1>1, <1>2, <1>3, <1>4, <1>5, <1>6 DEF Continued!Next

LEMMA ContinuedTypes == Spec => []Continued!TypeOK
<1>1. Continued!Init => UseInv
  <2> SUFFICES ASSUME Continued!Init PROVE UseInv
    OBVIOUS
  <2>1. clock = 0 /\ clock \in Continued!Times
    BY PartsAssumption DEF Continued!Init, Continued!Times, SessionConstants
  <2>2. QED
    BY <2>1 DEF Continued!Init, UseInv
<1>2. SessionInv /\ UseInv => Continued!TypeOK
  <2> SUFFICES ASSUME SessionInv, UseInv PROVE Continued!TypeOK
    OBVIOUS
  <2>1. ASSUME NEW j \in Continued!Jobs
        PROVE  records[j] \in [status : Continued!Statuses, session : Ids \cup {Continued!None},
                               at : Continued!Times]
    <3>1. records[j] \in [status : Continued!Statuses, session : Ids \cup {Continued!None}, at : Nat]
      BY DEF SessionInv, SessionTypes
    <3>2. records[j].at \in Nat /\ records[j].at <= clock /\ clock \in 0 .. SessionTime
      BY <3>1 DEF UseInv, Continued!Times
    <3>3. records[j].at \in Continued!Times
      BY <3>2, PartsAssumption DEF SessionConstants, Continued!Times
    <3>4. QED
      BY <3>1, <3>3
  <2>2. records \in [Continued!Jobs -> [status : Continued!Statuses,
                       session : Ids \cup {Continued!None}, at : Continued!Times]]
    BY <2>1 DEF SessionInv, SessionTypes
  <2>3. QED
    BY <2>2 DEF SessionInv, SessionTypes, UseInv, Continued!TypeOK
<1>3. QED
  BY <1>1, <1>2, UseStep, SessionsPart, SessionInvariant, PTL DEF Continued!Spec

(* The variables of every part have their types, in every state that a part  *)
(* of any size comes to.                                                     *)
THEOREM TypesAreKept == Spec => []TypeOK
<1>1. FleetInv => Fleet!TypeOK
  BY DEF FleetInv
<1>2. InboxInv => Inbox!TypeOK
  BY DEF InboxInv
<1>3. FetchInv => Git!TypeOK
  BY DEF FetchInv
<1>4. ProxyInv => Cred!TypeOK
  BY DEF ProxyInv
<1>5. ReadersInv => Readers!TypeOK
  BY DEF ReadersInv
<1>6. WorkInv => Work!TypeOK
  BY DEF WorkInv
<1>7. QED
  BY <1>1, <1>2, <1>3, <1>4, <1>5, <1>6, FleetInvariant, InboxInvariant, FetchInvariant,
     ProxyInvariant, ReadersInvariant, WorkInvariant, WorkPart, JournalTypes, RecorderTypes,
     SandboxTypes, ContinuedTypes, PTL DEF TypeOK
=============================================================================
