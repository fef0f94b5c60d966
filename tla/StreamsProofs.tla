---------------------------- MODULE StreamsProofs ----------------------------
(***************************************************************************)
(* Proofs about Streams, for every answer of an upstream, every way to cut *)
(* it into chunks and every meaning of a line.                             *)
(*                                                                         *)
(* The framer and a reader that goes line by line are led along together.  *)
(* Wherever the framer takes a frame out, the reader has nothing in hand;  *)
(* where it finds no separator, the reader sees no event, and what it has  *)
(* in hand is what the buffer holds.  So the buffer always begins where the*)
(* reader had nothing in hand.  That no separator is in what the framer    *)
(* scanned before needs that three bytes of it are looked at again.        *)
(*                                                                         *)
(* What a Claude answer has counted is told by the events read so far: the *)
(* last figures that stand before its first message_stop.  The tokens are  *)
(* recorded at that event, or else at the end, and never once recorded.    *)
(*                                                                         *)
(* What an aggregated answer holds is told by the events before its end:   *)
(* the items they finished, each under the index it states.  The k-th of   *)
(* those indices is the one that k - 1 of them are smaller than.           *)
(***************************************************************************)
EXTENDS Texts, Sums

----------------------------------------------------------------------------
(* Streams: what frames and lines hold. *)

Datum(L) == Seq({Data(x) : x \in L})
Datums(L) == Seq(Datum(L))
Pieces(L) == Seq(Seq(L))

LEMMA SameFlatten == \A q : S!FlattenSeq(q) = FlattenSeq(q)
BY DEF S!FlattenSeq, FlattenSeq

LEMMA CarriedType ==
  ASSUME NEW L, NEW x \in L
  PROVE  S!Carried(x) \in Datum(L)
<1>1. Data(x) \in {Data(y) : y \in L}  OBVIOUS
<1> QED BY <1>1 DEF S!Carried, Datum

\* The data of one more byte comes after the data of the others.
LEMMA DataOfAppend ==
  ASSUME NEW L, NEW b \in Seq(L), NEW x \in L
  PROVE  /\ S!DataOf(b) \in Datum(L)
         /\ S!DataOf(Append(b, x)) = S!DataOf(b) \o S!Carried(x)
<1> DEFINE G == [y \in L |-> S!Carried(y)]
           T == {Data(y) : y \in L}
<1>1. Maps(G, L, Seq(T))  BY CarriedType DEF Datum, Maps
<1>2. ASSUME NEW s \in Seq(L)  PROVE S!DataOf(s) = FlattenSeq(Mapped(G, s))
  <2>1. [k \in DOMAIN s |-> S!Carried(s[k])] = Mapped(G, s)
    <3>1. \A k \in DOMAIN s : G[s[k]] = S!Carried(s[k])  OBVIOUS
    <3> QED BY <3>1 DEF Mapped
  <2> HIDE DEF G
  <2> QED BY <2>1, SameFlatten, Zenon DEF S!DataOf
<1>3. G[x] = S!Carried(x) /\ Append(b, x) \in Seq(L)  BY AppendProperties
<1> HIDE DEF G, T
<1>4. FlattenSeq(Mapped(G, b)) \in Seq(T) /\ FlattenSeq(Mapped(G, Append(b, x))) = FlattenSeq(Mapped(G, b)) \o G[x]
  BY <1>1, FlattenMapped
<1> QED BY <1>2, <1>3, <1>4 DEF Datum, T

LEMMA NoData0 == S!DataOf(<<>>) = <<>>
<1>1. [k \in DOMAIN <<>> |-> S!Carried((<<>>)[k])] = <<>>  OBVIOUS
<1> QED BY <1>1, FlattenEmpty DEF S!DataOf, S!FlattenSeq, FlattenSeq

LEMMA RefDataType ==
  ASSUME NEW L, NEW d \in Datum(L)
  PROVE  S!RefData(d) \in Datums(L)
<1> DEFINE U == Datum(L)
<1> HIDE DEF U
<1>1. d \in U  BY DEF U
<1>2. <<>> \in Seq(U) /\ <<d>> \in Seq(U)  BY <1>1
<1> QED BY <1>2 DEF S!RefData, Datums, U

\* A frame yields what the lines of an event do.
LEMMA PayloadsAppend ==
  ASSUME NEW L, NEW fs \in Pieces(L), NEW f \in Seq(L)
  PROVE  /\ S!Payloads(fs) \in Datums(L)
         /\ S!Payloads(Append(fs, f)) = S!Payloads(fs) \o S!RefData(S!DataOf(f))
<1> DEFINE X == Seq(L)
           T == Datum(L)
           G == [y \in X |-> S!RefData(S!DataOf(y))]
<1>1. ASSUME NEW y \in X  PROVE S!RefData(S!DataOf(y)) \in Seq(T)
  <2>1. S!DataOf(y) \in Datum(L)
    <3>1. y \in Seq(L)  OBVIOUS
    <3>2. CASE L = {}
      <4>1. y = <<>>  BY <3>1, <3>2
      <4> QED BY <4>1, NoData0, EmptySeq DEF Datum
    <3>3. CASE L # {}
      <4>1. PICK x : x \in L  BY <3>3
      <4> QED BY <3>1, <4>1, DataOfAppend
    <3> QED BY <3>2, <3>3
  <2> QED BY <2>1, RefDataType DEF Datums
<1>2. Maps(G, X, Seq(T))  BY <1>1 DEF Maps
<1> HIDE DEF T
<1>3. ASSUME NEW s \in Seq(X)  PROVE S!Payloads(s) = FlattenSeq(Mapped(G, s))
  <2>1. ASSUME NEW k \in DOMAIN s
        PROVE  G[s[k]] = IF S!Payload(s[k]) = <<>> THEN <<>> ELSE <<S!Payload(s[k])>>
    <3>1. s[k] \in X
      <4> HIDE DEF X
      <4> QED OBVIOUS
    <3>2. G[s[k]] = S!RefData(S!DataOf(s[k]))  BY <3>1
    <3> HIDE DEF G
    <3> QED BY <3>2, Zenon DEF S!RefData, S!Payload
  <2>2. [k \in DOMAIN s |-> IF S!Payload(s[k]) = <<>> THEN <<>> ELSE <<S!Payload(s[k])>>] = Mapped(G, s)
    <3> HIDE DEF G, X
    <3> QED BY <2>1 DEF Mapped
  <2> HIDE DEF G
  <2> QED BY <2>2, SameFlatten, Zenon DEF S!Payloads
<1>4. G[f] = S!RefData(S!DataOf(f))  OBVIOUS
<1>5. fs \in Seq(X) /\ f \in X  BY DEF Pieces
<1> HIDE DEF G, X
<1>6. Append(fs, f) \in Seq(X)  BY <1>5, AppendProperties
<1>7. FlattenSeq(Mapped(G, fs)) \in Seq(T) /\ FlattenSeq(Mapped(G, Append(fs, f))) = FlattenSeq(Mapped(G, fs)) \o G[f]
  BY <1>2, <1>5, FlattenMapped
<1> QED BY <1>3, <1>4, <1>5, <1>6, <1>7 DEF Datums, T

LEMMA NoPayloads0 == S!Payloads(<<>>) = <<>>
<1>1. [k \in DOMAIN <<>> |-> IF S!Payload((<<>>)[k]) = <<>> THEN <<>> ELSE <<S!Payload((<<>>)[k])>>] = <<>>  OBVIOUS
<1> QED BY <1>1, FlattenEmpty DEF S!Payloads, S!FlattenSeq, FlattenSeq

----------------------------------------------------------------------------
(* Streams: the reader that goes line by line. *)

Lines(L) == {<<>>} \cup {<<x>> : x \in L}
Readers(L) == [line : Lines(L), data : Datum(L), cr : BOOLEAN, out : Datums(L)]

LEMMA ReaderStarts ==
  ASSUME NEW L  PROVE S!RefStart \in Readers(L)
<1> DEFINE U == Datum(L)
<1>1. <<>> \in Datum(L)  BY EmptySeq DEF Datum
<1>2. <<>> \in Datums(L)
  <2> HIDE DEF U
  <2>1. <<>> \in Seq(U)  BY EmptySeq
  <2> QED BY <2>1 DEF Datums, U
<1> QED BY <1>1, <1>2 DEF Readers, Lines, S!RefStart

\* What the reader does with a byte.
Ends(s, x) == x \in {CR, LF} /\ ~ (x = LF /\ s.cr)

LEMMA ReaderIs ==
  ASSUME NEW L, NEW s \in Readers(L)
  PROVE  /\ s = [line |-> s.line, data |-> s.data, cr |-> s.cr, out |-> s.out]
         /\ s.line \in Lines(L) /\ s.data \in Datum(L) /\ s.cr \in BOOLEAN /\ s.out \in Datums(L)
BY DEF Readers

LEMMA ReaderText ==
  ASSUME NEW L, NEW s \in Readers(L), NEW x \in L, x \notin {CR, LF}
  PROVE  /\ S!RefStep(s, x) \in Readers(L)
         /\ S!RefStep(s, x).line = <<x>>
         /\ S!RefStep(s, x).data = s.data
         /\ ~ S!RefStep(s, x).cr
         /\ S!RefStep(s, x).out = s.out
<1> DEFINE w == S!RefStep(s, x)
           dat == Datum(L)
           O == Datums(L)
           l == Lines(L)
<1>0. <<x>> \in Lines(L)  BY DEF Lines
<1>s. s = [line |-> s.line, data |-> s.data, cr |-> s.cr, out |-> s.out]  BY ReaderIs
<1>1. w = [line |-> <<x>>, data |-> s.data, cr |-> FALSE, out |-> s.out]
  BY <1>s DEF S!RefStep
<1>2. s.data \in dat /\ s.out \in O /\ <<x>> \in l  BY <1>0, ReaderIs
<1> HIDE DEF w, dat, O, l
<1>3. w.line = <<x>> /\ w.data = s.data /\ ~ w.cr /\ w.out = s.out  BY ONLY <1>1
<1>4. w \in [line : l, data : dat, cr : BOOLEAN, out : O]  BY ONLY <1>1, <1>2
<1> QED BY <1>3, <1>4 DEF w, dat, O, l, Readers

LEMMA ReaderHalf ==
  ASSUME NEW L, NEW s \in Readers(L), NEW x \in L, x = LF, s.cr
  PROVE  /\ S!RefStep(s, x) \in Readers(L)
         /\ S!RefStep(s, x).line = s.line
         /\ S!RefStep(s, x).data = s.data
         /\ ~ S!RefStep(s, x).cr
         /\ S!RefStep(s, x).out = s.out
<1> DEFINE w == S!RefStep(s, x)
           dat == Datum(L)
           O == Datums(L)
           l == Lines(L)
<1>s. s = [line |-> s.line, data |-> s.data, cr |-> s.cr, out |-> s.out]  BY ReaderIs
<1>1. w = [line |-> s.line, data |-> s.data, cr |-> FALSE, out |-> s.out]
  BY <1>s DEF S!RefStep
<1>2. s.data \in dat /\ s.out \in O /\ s.line \in l  BY ReaderIs
<1> HIDE DEF w, dat, O, l
<1>3. w.line = s.line /\ w.data = s.data /\ ~ w.cr /\ w.out = s.out  BY ONLY <1>1
<1>4. w \in [line : l, data : dat, cr : BOOLEAN, out : O]  BY ONLY <1>1, <1>2
<1> QED BY <1>3, <1>4 DEF w, dat, O, l, Readers

LEMMA ReaderBlank ==
  ASSUME NEW L, NEW s \in Readers(L), NEW x \in L, Ends(s, x), s.line = <<>>
  PROVE  /\ S!RefStep(s, x) \in Readers(L)
         /\ S!RefStep(s, x).line = <<>>
         /\ S!RefStep(s, x).data = <<>>
         /\ S!RefStep(s, x).out = s.out \o S!RefData(s.data)
<1> DEFINE w == S!RefStep(s, x)
           dat == Datum(L)
           O == Datums(L)
           l == Lines(L)
           out == s.out \o S!RefData(s.data)
<1>0. <<>> \in l  BY DEF Lines
<1>s. s = [line |-> s.line, data |-> s.data, cr |-> s.cr, out |-> s.out]  BY ReaderIs
<1>1. w = [line |-> <<>>, data |-> <<>>, cr |-> (x = CR), out |-> out]
  BY <1>s DEF S!RefStep, Ends
<1>2. <<>> \in dat  BY EmptySeq DEF Datum
<1>3. out \in O
  <2>1. s.data \in dat /\ s.out \in O  BY ReaderIs
  <2>2. S!RefData(s.data) \in O  BY <2>1, RefDataType
  <2> QED BY <2>1, <2>2, ConcatProperties DEF Datums
<1> HIDE DEF w, dat, O, l, out
<1>4. w.line = <<>> /\ w.data = <<>> /\ w.out = out  BY ONLY <1>1
<1>5. w \in [line : l, data : dat, cr : BOOLEAN, out : O]  BY ONLY <1>0, <1>1, <1>2, <1>3
<1> QED BY <1>4, <1>5 DEF w, dat, O, l, out, Readers

LEMMA ReaderLine ==
  ASSUME NEW L, NEW s \in Readers(L), NEW x \in L, Ends(s, x), NEW y \in L, s.line = <<y>>
  PROVE  /\ S!RefStep(s, x) \in Readers(L)
         /\ S!RefStep(s, x).line = <<>>
         /\ S!RefStep(s, x).data = s.data \o S!Carried(y)
         /\ S!RefStep(s, x).out = s.out
<1> DEFINE w == S!RefStep(s, x)
           dat == Datum(L)
           O == Datums(L)
           l == Lines(L)
           data == s.data \o S!Carried(y)
<1>0. <<>> \in l  BY DEF Lines
<1>1. w = [line |-> <<>>, data |-> data, cr |-> (x = CR), out |-> s.out]
  <2>1. s.line # <<>> /\ s.line[1] = y  OBVIOUS
  <2>2. s = [line |-> s.line, data |-> s.data, cr |-> s.cr, out |-> s.out]  BY ReaderIs
  <2> QED BY <2>1, <2>2 DEF S!RefStep, Ends
<1>2. s.out \in O  BY ReaderIs
<1>3. data \in dat
  <2>1. s.data \in dat /\ S!Carried(y) \in dat  BY ReaderIs, CarriedType
  <2> QED BY <2>1, ConcatProperties DEF Datum
<1> HIDE DEF w, dat, O, l, data
<1>4. w.line = <<>> /\ w.data = data /\ w.out = s.out  BY ONLY <1>1
<1>5. w \in [line : l, data : dat, cr : BOOLEAN, out : O]  BY ONLY <1>0, <1>1, <1>2, <1>3
<1> QED BY <1>4, <1>5 DEF w, dat, O, l, data, Readers

LEMMA ReaderCR ==
  ASSUME NEW L, NEW s \in Readers(L), NEW x \in L, Ends(s, x), x = CR
  PROVE  S!RefStep(s, x).cr
<1> DEFINE w == S!RefStep(s, x)
<1>1. s = [line |-> s.line, data |-> s.data, cr |-> s.cr, out |-> s.out]  BY ReaderIs
<1>2. w.cr  BY <1>1 DEF S!RefStep, Ends
<1> QED BY <1>2

LEMMA ReaderLF ==
  ASSUME NEW L, NEW s \in Readers(L), NEW x \in L, Ends(s, x), x # CR
  PROVE  ~ S!RefStep(s, x).cr
<1> DEFINE w == S!RefStep(s, x)
<1>1. s = [line |-> s.line, data |-> s.data, cr |-> s.cr, out |-> s.out]  BY ReaderIs
<1>2. ~ w.cr  BY <1>1 DEF S!RefStep, Ends
<1> QED BY <1>2

LEMMA ReaderSteps ==
  ASSUME NEW L, NEW s \in Readers(L), NEW x \in L
  PROVE  S!RefStep(s, x) \in Readers(L)
<1>1. CASE x \notin {CR, LF}  BY <1>1, ReaderText
<1>2. CASE x = LF /\ s.cr  BY <1>2, ReaderHalf
<1>3. CASE Ends(s, x)
  <2>1. CASE s.line = <<>>  BY <1>3, <2>1, ReaderBlank
  <2>2. CASE s.line # <<>>
    <3>1. s.line \in Lines(L)  BY ReaderIs
    <3>2. PICK y \in L : s.line = <<y>>  BY <2>2, <3>1 DEF Lines
    <3> QED BY <1>3, <3>2, ReaderLine
  <2> QED BY <2>1, <2>2
<1> QED BY <1>1, <1>2, <1>3 DEF Ends

\* Its states, byte by byte.
Reads(R, b) == \A i \in 1..Len(b) : R[i] = S!RefStep(R[i - 1], b[i])

LEMMA ReferenceIs ==
  ASSUME NEW L, NEW b \in Seq(L)
  PROVE  \E R \in [0..Len(b) -> Readers(L)] :
           R[0] = S!RefStart /\ Reads(R, b) /\ S!Reference(b) = R[Len(b)]
<1> DEFINE n == Len(b)
           X == Readers(L)
           a == S!RefStart
           G == [p \in (1..n) \X X |-> S!RefStep(p[2], b[p[1]])]
           Fits(R) == R = [i \in 0..n |-> IF i = 0 THEN a ELSE S!RefStep(R[i - 1], b[i])]
<1>0. n \in Nat /\ \A i \in 1..n : b[i] \in L  OBVIOUS
<1> HIDE DEF X, a
<1>1. \A i \in 1..n, s \in X : G[<<i, s>>] = S!RefStep(s, b[i])  OBVIOUS
<1>2. \A i \in 1..n, s \in X : S!RefStep(s, b[i]) \in X  BY <1>0, ReaderSteps DEF X
<1>3. a \in X  BY ReaderStarts DEF X, a
<1> HIDE DEF G, n
<1>g. Keeps(a, G, n, X)  BY <1>1, <1>2, <1>3 DEF Keeps
<1>p. PICK F : Evolves(F, a, G, n, X)  BY <1>0, <1>g, RecursTyped
<1>4. F \in [0..n -> X] /\ F[0] = a /\ \A i \in 1..n : F[i] = G[<<i, F[i - 1]>>]
  BY <1>p DEF Evolves
<1>5. Fits(F)
  <2>1. ASSUME NEW i \in 0..n  PROVE F[i] = IF i = 0 THEN a ELSE S!RefStep(F[i - 1], b[i])
    <3>1. CASE i = 0  BY <1>4, <3>1
    <3>2. CASE i # 0
      <4>1. i \in 1..n /\ i - 1 \in 0..n  BY <1>0, <3>2
      <4>2. F[i - 1] \in X  BY <1>4, <4>1
      <4> QED BY <1>1, <1>4, <3>2, <4>1, <4>2
    <3> QED BY <3>1, <3>2
  <2>2. F = [i \in 0..n |-> F[i]]  BY <1>4
  <2> QED BY <2>1, <2>2
<1> DEFINE chosen == CHOOSE R : Fits(R)
<1>6. Fits(chosen)
  <2> HIDE DEF Fits
  <2> QED BY <1>5
<1>7. S!Reference(b) = chosen[n]  BY DEF S!Reference, n, a
<1> HIDE DEF chosen
<1>8. chosen[0] = a /\ \A i \in 1..n : chosen[i] = S!RefStep(chosen[i - 1], b[i])
  <2>1. \A i \in 0..n : chosen[i] = IF i = 0 THEN a ELSE S!RefStep(chosen[i - 1], b[i])  BY <1>6, Zenon
  <2>2. 0 \in 0..n /\ \A i \in 1..n : i \in 0..n /\ i # 0  BY <1>0
  <2> HIDE DEF Fits
  <2> QED BY <2>1, <2>2
<1>9. \A i \in 0..n : chosen[i] \in X
  <2> DEFINE T == {k \in Nat : chosen[k] \in X}
  <2>1. 0 \in T  BY <1>3, <1>8
  <2>2. ASSUME NEW i \in 1..n, i - 1 \in T  PROVE i \in T
    <3>1. i \in Nat /\ chosen[i - 1] \in X  BY <1>0, <2>2
    <3>2. chosen[i] = S!RefStep(chosen[i - 1], b[i])  BY <1>8
    <3> QED BY <1>2, <3>1, <3>2
  <2>3. \A i \in 0..n : i \in T
    <3> HIDE DEF T, Fits
    <3> QED BY <1>0, <2>1, <2>2, UpTo
  <2> QED BY <2>3
<1>10. chosen = [i \in 0..n |-> chosen[i]]
  <2>1. chosen = [i \in 0..n |-> IF i = 0 THEN a ELSE S!RefStep(chosen[i - 1], b[i])]  BY <1>6
  <2> QED BY <2>1
<1>11. chosen \in [0..n -> X]
  <2> HIDE DEF Fits
  <2> QED BY <1>9, <1>10
<1> HIDE DEF Fits
<1> QED BY <1>7, <1>8, <1>11 DEF Reads, n, X, a

At(s, j) == S!Reference(SubSeq(s, 1, j))

LEMMA Piece ==
  ASSUME NEW L, NEW s \in Seq(L), NEW m \in Nat, m # 0, NEW n \in Nat, m - 1 <= n, n <= Len(s)
  PROVE  /\ SubSeq(s, m, n) \in Seq(L) /\ Len(SubSeq(s, m, n)) = n - m + 1
         /\ \A i \in 1..(n - m + 1) : SubSeq(s, m, n)[i] = s[m + i - 1]
<1>1. \A i \in m..n : s[i] \in L  OBVIOUS
<1>2. m \in Int /\ n \in Int /\ (IF m <= n THEN n - m + 1 ELSE 0) = n - m + 1  OBVIOUS
<1> QED BY <1>1, <1>2, SubSeqProperties

LEMMA PieceGrows ==
  ASSUME NEW L, NEW s \in Seq(L), NEW e \in Nat, NEW i \in Nat, e <= i, i + 1 <= Len(s)
  PROVE  SubSeq(s, e + 1, i + 1) = Append(SubSeq(s, e + 1, i), s[i + 1])
<1> DEFINE a == SubSeq(s, e + 1, i + 1)
           b == SubSeq(s, e + 1, i)
<1>0. e + 1 \in Nat /\ i + 1 \in Nat /\ e + 1 # 0 /\ s[i + 1] \in L /\ Len(s) \in Nat
  OBVIOUS
<1>1. a \in Seq(L) /\ Len(a) = i - e + 1 /\ \A k \in 1..(i - e + 1) : a[k] = s[e + k]
  <2>1. /\ a \in Seq(L) /\ Len(a) = (i + 1) - (e + 1) + 1
        /\ \A k \in 1..((i + 1) - (e + 1) + 1) : a[k] = s[(e + 1) + k - 1]
    <3>1. (e + 1) - 1 <= i + 1  OBVIOUS
    <3> QED BY <1>0, <3>1, Piece
  <2>2. (i + 1) - (e + 1) + 1 = i - e + 1  OBVIOUS
  <2>3. \A k \in 1..(i - e + 1) : (e + 1) + k - 1 = e + k  OBVIOUS
  <2> HIDE DEF a
  <2> QED BY <2>1, <2>2, <2>3
<1>2. b \in Seq(L) /\ Len(b) = i - e /\ \A k \in 1..(i - e) : b[k] = s[e + k]
  <2>1. /\ b \in Seq(L) /\ Len(b) = i - (e + 1) + 1
        /\ \A k \in 1..(i - (e + 1) + 1) : b[k] = s[(e + 1) + k - 1]
    <3>1. (e + 1) - 1 <= i /\ i <= Len(s)  BY <1>0
    <3> QED BY <1>0, <3>1, Piece
  <2>2. i - (e + 1) + 1 = i - e  OBVIOUS
  <2>3. \A k \in 1..(i - e) : (e + 1) + k - 1 = e + k  OBVIOUS
  <2> HIDE DEF b
  <2> QED BY <2>1, <2>2, <2>3
<1> HIDE DEF a, b
<1> DEFINE c == Append(b, s[i + 1])
<1>3. /\ c \in Seq(L) /\ Len(c) = i - e + 1 /\ c[i - e + 1] = s[i + 1]
      /\ \A k \in 1..(i - e) : c[k] = b[k]
  BY <1>0, <1>2, AppendProperties
<1> HIDE DEF c
<1>4. ASSUME NEW k \in 1..(i - e + 1)  PROVE a[k] = c[k]
  <2>1. CASE k = i - e + 1
    <3>1. e + k = i + 1  BY <2>1
    <3>2. a[k] = s[i + 1]  BY <1>1, <3>1
    <3> QED BY <1>3, <2>1, <3>2
  <2>2. CASE k # i - e + 1
    <3>1. k \in 1..(i - e)  BY <2>2
    <3> QED BY <1>1, <1>2, <1>3, <3>1
  <2> QED BY <2>1, <2>2
<1>5. a = c  BY <1>1, <1>3, <1>4, SeqEqual
<1> QED BY <1>5 DEF a, b, c

\* What it has read of a prefix depends on no byte after it.
LEMMA ReferenceAt ==
  ASSUME NEW L, NEW s \in Seq(L)
  PROVE  /\ At(s, 0) = S!RefStart /\ S!Reference(s) = At(s, Len(s))
         /\ \A j \in 0..Len(s) : At(s, j) \in Readers(L)
         /\ \A j \in 1..Len(s) : At(s, j) = S!RefStep(At(s, j - 1), s[j])
<1> DEFINE n == Len(s)
<1>0. n \in Nat  OBVIOUS
<1>1. PICK R \in [0..n -> Readers(L)] :
        R[0] = S!RefStart /\ Reads(R, s) /\ S!Reference(s) = R[n]
  BY ReferenceIs
<1>r. \A i \in 1..n : R[i] = S!RefStep(R[i - 1], s[i])  BY <1>1 DEF Reads
<1> HIDE DEF n
<1>2. ASSUME NEW j \in 0..n  PROVE At(s, j) = R[j]
  <2> DEFINE p == SubSeq(s, 1, j)
  <2>1. p \in Seq(L) /\ Len(p) = j /\ \A i \in 1..j : p[i] = s[i]
    <3>1. 1 \in Nat /\ j \in Nat /\ 1 - 1 <= j /\ j <= Len(s)  BY <1>0 DEF n
    <3>2. /\ p \in Seq(L) /\ Len(p) = j - 1 + 1
          /\ \A i \in 1..(j - 1 + 1) : p[i] = s[1 + i - 1]
      BY <3>1, Piece
    <3>3. j - 1 + 1 = j /\ \A i \in 1..j : 1 + i - 1 = i  BY <3>1
    <3> HIDE DEF p
    <3> QED BY <3>2, <3>3
  <2> HIDE DEF p
  <2>2. PICK P \in [0..Len(p) -> Readers(L)] :
          P[0] = S!RefStart /\ Reads(P, p) /\ S!Reference(p) = P[Len(p)]
    BY <2>1, ReferenceIs
  <2>3. \A i \in 1..j : P[i] = S!RefStep(P[i - 1], s[i])  BY <2>1, <2>2 DEF Reads
  <2> DEFINE T == {k \in Nat : P[k] = R[k]}
  <2>4. 0 \in T  BY <1>1, <2>2
  <2>5. ASSUME NEW i \in 1..j, i - 1 \in T  PROVE i \in T
    <3>1. i \in Nat /\ i \in 1..n /\ P[i - 1] = R[i - 1]  BY <1>0, <2>5
    <3> QED BY <1>r, <2>3, <3>1
  <2>6. \A i \in 0..j : i \in T
    <3>1. j \in Nat  BY <1>0
    <3> HIDE DEF T
    <3> QED BY <2>4, <2>5, <3>1, UpTo
  <2>7. P[j] = R[j]  BY <1>0, <2>6
  <2> QED BY <2>1, <2>2, <2>7 DEF At, p
<1>3. 0 \in 0..n /\ n \in 0..n /\ \A j \in 1..n : j \in 0..n /\ j - 1 \in 0..n  BY <1>0
<1>4. \A j \in 1..n : At(s, j) = S!RefStep(At(s, j - 1), s[j])
  <2> SUFFICES ASSUME NEW j \in 1..n  PROVE At(s, j) = S!RefStep(At(s, j - 1), s[j])
    OBVIOUS
  <2>1. At(s, j) = R[j] /\ At(s, j - 1) = R[j - 1]  BY <1>2, <1>3
  <2> QED BY <1>r, <2>1
<1>5. At(s, 0) = R[0] /\ At(s, n) = R[n] /\ \A j \in 0..n : At(s, j) \in Readers(L)
  BY <1>1, <1>2, <1>3
<1> QED BY <1>1, <1>4, <1>5 DEF n


----------------------------------------------------------------------------
(* Streams: between two separators. *)

Rest(line) == IF line = <<>> THEN <<>> ELSE S!Carried(line[1])

Spaced(b) == \A i \in 1..(Len(b) - 1) : b[i] \in {CR, LF} \/ b[i + 1] \in {CR, LF}

\* The reader goes over b.
Over(R, b, L) == /\ b \in Seq(L) /\ Spaced(b)
                 /\ R \in [0..Len(b) -> Readers(L)] /\ Reads(R, b)

\* What it knows at m of the frame that began after e.
Within(R, b, e, m) ==
  /\ R[m].out = R[e].out
  /\ R[m].data \o Rest(R[m].line) = S!DataOf(SubSeq(b, e + 1, m))
  /\ m = e => R[m].line = <<>> /\ R[m].data = <<>>
  /\ m > e /\ b[m] \in {CR, LF} => R[m].line = <<>> /\ (R[m].cr <=> b[m] = CR)
  /\ m > e /\ b[m] \notin {CR, LF} => R[m].line = <<b[m]>> /\ ~ R[m].cr

LEMMA RestType ==
  ASSUME NEW L, NEW line \in Lines(L)
  PROVE  Rest(line) \in Datum(L)
<1>1. CASE line = <<>>  BY <1>1, EmptySeq DEF Rest, Datum
<1>2. CASE line # <<>>
  <2>1. PICK x \in L : line = <<x>>  BY <1>2 DEF Lines
  <2>2. line[1] = x  BY <2>1
  <2> QED BY <1>2, <2>1, <2>2, CarriedType DEF Rest
<1> QED BY <1>1, <1>2

\* A blank line would have been a separator.
LEMMA BlankSeparates ==
  ASSUME NEW L, NEW b \in Seq(L), NEW i \in Nat, i # 0, i + 1 <= Len(b),
         b[i] \in {CR, LF}, b[i + 1] \in {CR, LF}, ~ (b[i] = CR /\ b[i + 1] = LF)
  PROVE  S!SeparatorAt(b, i) # 0
<1>1. Len(b) \in Nat /\ i < Len(b) /\ ~ (i > Len(b)) /\ ~ (i + 1 > Len(b))  OBVIOUS
<1>2. S!LineBreakAt(b, i) = 1  BY <1>1 DEF S!LineBreakAt
<1>3. S!LineBreakAt(b, i + 1) \in {1, 2}  BY <1>1 DEF S!LineBreakAt
<1> QED BY <1>2, <1>3 DEF S!SeparatorAt

LEMMA OneMore ==
  ASSUME NEW L, NEW b, NEW R, Over(R, b, L), NEW e \in Nat, NEW i \in Nat,
         e <= i, i + 1 <= Len(b), Within(R, b, e, i), \A k \in (e + 1)..(i + 1) : S!SeparatorAt(b, k) = 0
  PROVE  Within(R, b, e, i + 1)
<1> DEFINE n == Len(b)
           x == b[i + 1]
           s == R[i]
           w == R[i + 1]
           f == SubSeq(b, e + 1, i)
           g == SubSeq(b, e + 1, i + 1)
<1>0. /\ b \in Seq(L) /\ n \in Nat /\ x \in L /\ s \in Readers(L) /\ w \in Readers(L)
      /\ w = S!RefStep(s, x)
  <2>1. b \in Seq(L) /\ n \in Nat  BY DEF Over
  <2>2. i \in 0..n /\ i + 1 \in 0..n /\ i + 1 \in 1..n /\ (i + 1) - 1 = i  BY <2>1
  <2>3. x \in L  BY <2>1, <2>2
  <2>4. R[i] \in Readers(L) /\ R[i + 1] \in Readers(L)  BY <2>2 DEF Over
  <2>5. \A j \in 1..n : R[j] = S!RefStep(R[j - 1], b[j])  BY DEF Over, Reads
  <2>6. R[i + 1] = S!RefStep(R[(i + 1) - 1], b[i + 1])  BY <2>2, <2>5
  <2> QED BY <2>1, <2>2, <2>3, <2>4, <2>6
<1>1. /\ s.line \in Lines(L) /\ s.data \in Datum(L) /\ s.cr \in BOOLEAN  BY <1>0 DEF Readers
<1>2. /\ s.out = R[e].out /\ s.data \o Rest(s.line) = S!DataOf(f)
      /\ i = e => s.line = <<>> /\ s.data = <<>>
      /\ i > e /\ b[i] \in {CR, LF} => s.line = <<>> /\ (s.cr <=> b[i] = CR)
      /\ i > e /\ b[i] \notin {CR, LF} => s.line = <<b[i]>> /\ ~ s.cr
  BY DEF Within
<1>3. i > e => b[i] \in {CR, LF} \/ x \in {CR, LF}
  <2>1. i > e => i \in 1..(Len(b) - 1)  BY <1>0
  <2> QED BY <2>1 DEF Over, Spaced
<1>4. f \in Seq(L)
  <2>1. e + 1 \in Nat /\ e + 1 # 0 /\ (e + 1) - 1 <= i /\ i <= Len(b)  BY <1>0
  <2> QED BY <1>0, <2>1, Piece
<1>5. g = Append(f, x)  BY <1>0, PieceGrows
<1> HIDE DEF f, g
<1>6. S!DataOf(f) \in Datum(L) /\ S!DataOf(g) = S!DataOf(f) \o S!Carried(x)
  BY <1>0, <1>4, <1>5, DataOfAppend
<1>7. x \in {CR, LF} => S!Carried(x) = <<>>  BY DEF S!Carried
<1>8. \A d \in Datum(L) : d \o <<>> = d  BY ConcatEmptySeq DEF Datum
<1>9. Rest(<<>>) = <<>> /\ Rest(<<x>>) = S!Carried(x)  BY DEF Rest
<1>10. ~ (i + 1 = e) /\ i + 1 > e /\ ~ (i + 1 = e)  OBVIOUS
<1> HIDE DEF n, s, w, x
<1>11. SUFFICES /\ w.out = R[e].out /\ w.data \o Rest(w.line) = S!DataOf(g)
                /\ x \in {CR, LF} => w.line = <<>> /\ (w.cr <=> x = CR)
                /\ x \notin {CR, LF} => w.line = <<x>> /\ ~ w.cr
  BY <1>10 DEF Within, w, g, x
<1>e. Ends(s, x) => x \in {CR, LF} /\ ~ (x = LF /\ s.cr)  BY DEF Ends
<1>c. Ends(s, x) => (w.cr <=> x = CR)
  <2>1. Ends(s, x) /\ x = CR => w.cr  BY <1>0, ReaderCR
  <2>2. Ends(s, x) /\ x # CR => ~ w.cr  BY <1>0, ReaderLF
  <2> QED BY <2>1, <2>2
<1>12. CASE x \notin {CR, LF}
  <2>1. s.line = <<>>  BY <1>2, <1>3, <1>12
  <2>3. w.line = <<x>> /\ w.data = s.data /\ ~ w.cr /\ w.out = s.out  BY <1>0, <1>12, ReaderText
  <2>4. s.data = S!DataOf(f)  BY <1>1, <1>2, <1>8, <1>9, <2>1
  <2> QED BY <1>2, <1>6, <1>9, <1>12, <2>3, <2>4
<1>13. CASE x = LF /\ s.cr
  <2>2. w.line = s.line /\ w.data = s.data /\ ~ w.cr /\ w.out = s.out  BY <1>0, <1>13, ReaderHalf
  <2>3. s.line = <<>>  BY <1>2, <1>13
  <2>4. S!DataOf(g) = S!DataOf(f)  BY <1>6, <1>7, <1>8, <1>13
  <2>5. CR # LF  BY StreamsAssumption
  <2> QED BY <1>2, <1>13, <2>2, <2>3, <2>4, <2>5
<1>14. CASE Ends(s, x) /\ s.line = <<>>
  <2>2. w.line = <<>> /\ w.data = <<>> /\ w.out = s.out \o S!RefData(s.data)
    BY <1>0, <1>14, ReaderBlank
  <2>3. i = e
    <3> SUFFICES ASSUME i > e  PROVE FALSE
      OBVIOUS
    <3>1. b[i] \in {CR, LF} /\ (s.cr <=> b[i] = CR)  BY <1>2, <1>14, <1>e
    <3>2. i # 0 /\ i + 1 <= Len(b)  OBVIOUS
    <3>3. S!SeparatorAt(b, i) # 0
      <4>1. b[i + 1] \in {CR, LF} /\ ~ (b[i] = CR /\ b[i + 1] = LF)  BY <1>e, <1>14, <3>1 DEF x
      <4> QED BY <1>0, <3>1, <3>2, <4>1, BlankSeparates
    <3>4. i \in (e + 1)..(i + 1)  OBVIOUS
    <3> QED BY <3>3, <3>4
  <2>4. s.data = <<>>  BY <1>2, <2>3
  <2>5. S!RefData(<<>>) = <<>>  BY DEF S!RefData
  <2>6. s.out \o <<>> = s.out
    <3>1. s.out \in Seq(Datum(L))  BY <1>0 DEF Readers, Datums
    <3> DEFINE U == Datum(L)
    <3> HIDE DEF U
    <3>2. s.out \in Seq(U)  BY <3>1 DEF U
    <3> QED BY <3>2, ConcatEmptySeq
  <2>7. S!DataOf(g) = S!DataOf(f)  BY <1>6, <1>7, <1>8, <1>14, <1>e
  <2> QED BY <1>2, <1>14, <2>2, <2>4, <2>5, <2>6, <2>7, <1>e, <1>c
<1>15. CASE Ends(s, x) /\ s.line # <<>>
  <2>1. PICK y \in L : s.line = <<y>>  BY <1>1, <1>15 DEF Lines
  <2>3. w.line = <<>> /\ w.data = s.data \o S!Carried(y) /\ w.out = s.out
    <3>1. s \in Readers(L) /\ x \in L /\ Ends(s, x) /\ y \in L /\ s.line = <<y>>  BY <1>0, <1>15, <2>1
    <3>2. w = S!RefStep(s, x)  BY <1>0
    <3>3. S!RefStep(s, x).line = <<>>  BY <3>1, ReaderLine
    <3>4. S!RefStep(s, x).data = s.data \o S!Carried(y)  BY <3>1, ReaderLine
    <3>5. S!RefStep(s, x).out = s.out  BY <3>1, ReaderLine
    <3> QED BY <3>2, <3>3, <3>4, <3>5
  <2>4. S!Carried(y) = Rest(s.line)
    <3>1. s.line # <<>> /\ s.line[1] = y  BY <2>1
    <3> QED BY <3>1 DEF Rest
  <2>5. S!DataOf(g) = S!DataOf(f)  BY <1>6, <1>7, <1>8, <1>15, <1>e
  <2>6. w.data \o <<>> = w.data
    <3>1. w.data \in Datum(L)  BY <1>0 DEF Readers
    <3> QED BY <1>8, <3>1
  <2> QED BY <1>2, <1>9, <1>15, <2>3, <2>4, <2>5, <2>6, <1>e, <1>c
<1> QED BY <1>12, <1>13, <1>14, <1>15 DEF Ends

\* Without a separator, all of it is one frame.
LEMMA Unbroken ==
  ASSUME NEW L, NEW b, NEW R, Over(R, b, L), NEW e \in Nat, NEW m \in Nat, e <= m, m <= Len(b),
         R[e].line = <<>>, R[e].data = <<>>, \A k \in (e + 1)..m : S!SeparatorAt(b, k) = 0
  PROVE  Within(R, b, e, m)
<1> DEFINE T == {k \in Nat : e <= k => Within(R, b, e, k)}
<1>0. Len(b) \in Nat  BY DEF Over
<1>1. Within(R, b, e, e)
  <2>1. SubSeq(b, e + 1, e) = <<>>
    <3>1. e + 1 \in Int /\ e \in Int /\ e < e + 1  OBVIOUS
    <3> QED BY <3>1, SubSeqEmpty
  <2>2. <<>> \o <<>> = <<>>  OBVIOUS
  <2>3. S!DataOf(SubSeq(b, e + 1, e)) = <<>>  BY <2>1, NoData0
  <2>4. R[e].data \o Rest(R[e].line) = <<>>  BY <2>2 DEF Rest
  <2>5. ~ (e > e)  OBVIOUS
  <2> QED BY <2>3, <2>4, <2>5 DEF Within
<1>2. 0 \in T
  <2>1. e <= 0 => e = 0  OBVIOUS
  <2> QED BY <1>1, <2>1
<1>3. ASSUME NEW k \in 1..m, k - 1 \in T  PROVE k \in T
  <2> SUFFICES ASSUME e <= k  PROVE Within(R, b, e, k)
    OBVIOUS
  <2>1. CASE e = k  BY <1>1, <2>1
  <2>2. CASE e # k
    <3> DEFINE i == k - 1
    <3>1. i \in Nat /\ e <= i /\ i + 1 = k /\ i + 1 <= Len(b)  BY <1>0, <2>2
    <3>2. Within(R, b, e, i)  BY <1>3, <3>1
    <3>3. \A j \in (e + 1)..(i + 1) : S!SeparatorAt(b, j) = 0
      <4>1. \A j \in (e + 1)..(i + 1) : j \in (e + 1)..m  OBVIOUS
      <4> QED BY <4>1
    <3> HIDE DEF i
    <3>4. Within(R, b, e, i + 1)  BY <3>1, <3>2, <3>3, OneMore
    <3> QED BY <3>1, <3>4
  <2> QED BY <2>1, <2>2
<1>4. \A k \in 0..m : k \in T
  <2> HIDE DEF T
  <2> QED BY <1>2, <1>3, UpTo
<1>5. m \in T  BY <1>4
<1> QED BY <1>5

----------------------------------------------------------------------------
(* Streams: at a separator. *)

LEMMA StepOver ==
  ASSUME NEW L, NEW b, NEW R, Over(R, b, L), NEW k \in Nat, k # 0, k <= Len(b)
  PROVE  /\ b \in Seq(L) /\ Len(b) \in Nat /\ b[k] \in L /\ R[k - 1] \in Readers(L) /\ R[k] \in Readers(L)
         /\ R[k] = S!RefStep(R[k - 1], b[k])
<1>1. b \in Seq(L) /\ Len(b) \in Nat  BY DEF Over
<1>2. k \in 0..Len(b) /\ k - 1 \in 0..Len(b) /\ k \in 1..Len(b)  BY <1>1
<1>3. R[k - 1] \in Readers(L) /\ R[k] \in Readers(L)  BY <1>2 DEF Over
<1>4. R[k] = S!RefStep(R[k - 1], b[k])  BY <1>2 DEF Over, Reads
<1> QED BY <1>1, <1>2, <1>3, <1>4

LEMMA Breaks ==
  ASSUME NEW L, NEW b \in Seq(L), NEW k \in Nat, S!LineBreakAt(b, k) # 0
  PROVE  /\ k <= Len(b) /\ b[k] \in {CR, LF} /\ S!LineBreakAt(b, k) \in {1, 2}
         /\ S!LineBreakAt(b, k) = 1 /\ b[k] = CR /\ k + 1 <= Len(b) => b[k + 1] # LF
         /\ S!LineBreakAt(b, k) = 2 => b[k] = CR /\ k + 1 <= Len(b) /\ b[k + 1] = LF
<1>1. Len(b) \in Nat  OBVIOUS
<1> QED BY <1>1 DEF S!LineBreakAt

\* A break before a separator makes an earlier one.
LEMMA NotTwice ==
  ASSUME NEW L, NEW b \in Seq(L), NEW i \in Nat, i # 0, i + 1 <= Len(b),
         b[i] \in {CR, LF}, S!SeparatorAt(b, i + 1) # 0
  PROVE  S!SeparatorAt(b, i) # 0
<1>1. S!LineBreakAt(b, i + 1) # 0 /\ S!LineBreakAt(b, (i + 1) + S!LineBreakAt(b, i + 1)) # 0
  BY DEF S!SeparatorAt
<1>2. b[i + 1] \in {CR, LF}
  <2>1. i + 1 \in Nat  OBVIOUS
  <2> QED BY <1>1, <2>1, Breaks
<1>3. CASE ~ (b[i] = CR /\ b[i + 1] = LF)
  BY <1>2, <1>3, BlankSeparates
<1>4. CASE b[i] = CR /\ b[i + 1] = LF
  <2>1. Len(b) \in Nat /\ i < Len(b)  OBVIOUS
  <2>2. S!LineBreakAt(b, i) = 2  BY <1>4, <2>1 DEF S!LineBreakAt
  <2>3. S!LineBreakAt(b, i + 1) = 1
    <3>1. CR # LF  BY StreamsAssumption
    <3> QED BY <1>4, <2>1, <3>1 DEF S!LineBreakAt
  <2>4. (i + 1) + 1 = i + 2  OBVIOUS
  <2>5. S!LineBreakAt(b, i + 2) # 0  BY <1>1, <2>3, <2>4
  <2>6. S!LineBreakAt(b, i + 2) \in {1, 2}  BY <2>1, <2>5, Breaks
  <2> QED BY <2>2, <2>5, <2>6 DEF S!SeparatorAt
<1> QED BY <1>3, <1>4

\* A reader with nothing in hand stays so over a break.
LEMMA CleanByte ==
  ASSUME NEW L, NEW s \in Readers(L), NEW x \in L, s.line = <<>>, s.data = <<>>, x \in {CR, LF}
  PROVE  /\ S!RefStep(s, x).line = <<>>
         /\ S!RefStep(s, x).data = <<>>
         /\ S!RefStep(s, x).out = s.out
<1>1. CASE x = LF /\ s.cr  BY <1>1, ReaderHalf
<1>2. CASE Ends(s, x)
  <2>1. S!RefStep(s, x).line = <<>> /\ S!RefStep(s, x).data = <<>>  BY <1>2, ReaderBlank
  <2>2. S!RefStep(s, x).out = s.out \o S!RefData(s.data)  BY <1>2, ReaderBlank
  <2>3. S!RefData(<<>>) = <<>>  BY DEF S!RefData
  <2>4. s.out \o <<>> = s.out
    <3> DEFINE U == Datum(L)
    <3>1. s.out \in Seq(U)  BY ReaderIs DEF Datums
    <3> HIDE DEF U
    <3> QED BY <3>1, ConcatEmptySeq
  <2> QED BY <2>1, <2>2, <2>3, <2>4
<1> QED BY <1>1, <1>2 DEF Ends

LEMMA CleanBreak ==
  ASSUME NEW L, NEW b, NEW R, Over(R, b, L), NEW k \in Nat, k # 0, k <= Len(b),
         R[k - 1].line = <<>>, R[k - 1].data = <<>>, NEW f, f = S!LineBreakAt(b, k), f # 0
  PROVE  /\ k + f - 1 \in Nat /\ k + f - 1 <= Len(b)
         /\ R[k + f - 1].line = <<>> /\ R[k + f - 1].data = <<>> /\ R[k + f - 1].out = R[k - 1].out
<1>1. b \in Seq(L) /\ Len(b) \in Nat  BY DEF Over
<1>2. /\ b[k] \in {CR, LF} /\ f \in {1, 2}
      /\ f = 2 => b[k] = CR /\ k + 1 <= Len(b) /\ b[k + 1] = LF
  BY <1>1, Breaks
<1>3. R[k].line = <<>> /\ R[k].data = <<>> /\ R[k].out = R[k - 1].out
  BY <1>2, StepOver, CleanByte
<1>4. CASE f = 1
  <2>1. k + f - 1 = k  BY <1>4
  <2> QED BY <1>3, <2>1
<1>5. CASE f = 2
  <2>1. k + f - 1 = k + 1 /\ k + 1 \in Nat /\ k + 1 # 0 /\ k + 1 <= Len(b) /\ (k + 1) - 1 = k  BY <1>2, <1>5
  <2>2. b[k + 1] \in L /\ R[k] \in Readers(L) /\ R[k + 1] = S!RefStep(R[k], b[k + 1])
    <3> DEFINE j == k + 1
    <3>1. j \in Nat /\ j # 0 /\ j <= Len(b) /\ j - 1 = k  BY <2>1
    <3> HIDE DEF j
    <3>2. b[j] \in L /\ R[j - 1] \in Readers(L) /\ R[j] = S!RefStep(R[j - 1], b[j])  BY <3>1, StepOver
    <3> QED BY <3>1, <3>2 DEF j
  <2>3. b[k + 1] \in {CR, LF}  BY <1>2, <1>5
  <2>4. R[k + 1].line = <<>> /\ R[k + 1].data = <<>> /\ R[k + 1].out = R[k].out
    BY <1>3, <2>2, <2>3, CleanByte
  <2> QED BY <1>3, <2>1, <2>4
<1> QED BY <1>2, <1>4, <1>5

\* A break is read with its first byte, and the next break is another.
LEMMA BreakEnds ==
  ASSUME NEW L, NEW b, NEW R, Over(R, b, L), NEW k \in Nat, k # 0, k <= Len(b),
         Ends(R[k - 1], b[k]), NEW f, f = S!LineBreakAt(b, k), f # 0
  PROVE  /\ k + f - 1 \in Nat /\ k + f - 1 <= Len(b) /\ f \in {1, 2}
         /\ R[k + f - 1].line = R[k].line /\ R[k + f - 1].data = R[k].data /\ R[k + f - 1].out = R[k].out
         /\ k + f <= Len(b) /\ b[k + f] \in {CR, LF} => Ends(R[k + f - 1], b[k + f])
<1>1. b \in Seq(L) /\ Len(b) \in Nat  BY DEF Over
<1>2. /\ b[k] \in {CR, LF} /\ f \in {1, 2}
      /\ f = 1 /\ b[k] = CR /\ k + 1 <= Len(b) => b[k + 1] # LF
      /\ f = 2 => b[k] = CR /\ k + 1 <= Len(b) /\ b[k + 1] = LF
  BY <1>1, Breaks
<1>3. b[k] \in L /\ R[k - 1] \in Readers(L) /\ R[k] \in Readers(L) /\ R[k] = S!RefStep(R[k - 1], b[k])
  BY StepOver
<1>4. CASE f = 1
  <2>1. k + f - 1 = k /\ k + f = k + 1  BY <1>4
  <2>2. ASSUME k + 1 <= Len(b), b[k + 1] \in {CR, LF}  PROVE Ends(R[k], b[k + 1])
    <3>1. CASE b[k] = CR  BY <1>2, <1>4, <2>2, <3>1 DEF Ends
    <3>2. CASE b[k] # CR
      <4>1. ~ R[k].cr  BY <1>3, <3>2, ReaderLF
      <4> QED BY <2>2, <4>1 DEF Ends
    <3> QED BY <3>1, <3>2
  <2> QED BY <1>4, <2>1, <2>2
<1>5. CASE f = 2
  <2>1. k + f - 1 = k + 1 /\ k + f = k + 2 /\ k + 1 \in Nat /\ k + 1 # 0 /\ k + 1 <= Len(b) /\ (k + 1) - 1 = k
    BY <1>2, <1>5
  <2>2. b[k + 1] \in L /\ R[k + 1] = S!RefStep(R[k], b[k + 1])
    <3> DEFINE j == k + 1
    <3>1. j \in Nat /\ j # 0 /\ j <= Len(b) /\ j - 1 = k  BY <2>1
    <3> HIDE DEF j
    <3>2. b[j] \in L /\ R[j] = S!RefStep(R[j - 1], b[j])  BY <3>1, StepOver
    <3> QED BY <3>1, <3>2 DEF j
  <2>3. R[k].cr  BY <1>2, <1>3, <1>5, ReaderCR
  <2>4. b[k + 1] = LF  BY <1>2, <1>5
  <2>5. R[k + 1].line = R[k].line /\ R[k + 1].data = R[k].data /\ ~ R[k + 1].cr /\ R[k + 1].out = R[k].out
    BY <1>3, <2>2, <2>3, <2>4, ReaderHalf
  <2>6. b[k + 2] \in {CR, LF} => Ends(R[k + 1], b[k + 2])  BY <2>5 DEF Ends
  <2> QED BY <1>5, <2>1, <2>5, <2>6
<1> QED BY <1>2, <1>4, <1>5

Told(R, b, e, i, to) ==
  /\ to \in Nat /\ to <= Len(b) /\ i < to
  /\ R[to].line = <<>> /\ R[to].data = <<>>
  /\ R[to].out = R[e].out \o S!RefData(S!DataOf(SubSeq(b, e + 1, i)))

\* After a separator the reader has nothing in hand, and what it had it has told.
LEMMA AtSeparator ==
  ASSUME NEW L, NEW b, NEW R, Over(R, b, L), NEW e \in Nat, NEW i \in Nat, e <= i, i + 1 <= Len(b),
         Within(R, b, e, i), \A k \in (e + 1)..i : S!SeparatorAt(b, k) = 0,
         NEW n, n = S!SeparatorAt(b, i + 1), n # 0,
         NEW to \in Nat, to = i + n
  PROVE  Told(R, b, e, i, to)
<1> DEFINE f == S!LineBreakAt(b, i + 1)
           j == i + f
           g == S!LineBreakAt(b, j + 1)
           d == S!DataOf(SubSeq(b, e + 1, i))
<1>0. b \in Seq(L) /\ Len(b) \in Nat  BY DEF Over
<1>1. f # 0 /\ S!LineBreakAt(b, (i + 1) + f) # 0 /\ n = f + S!LineBreakAt(b, (i + 1) + f)
  BY DEF S!SeparatorAt
<1>2. f \in {1, 2} /\ b[i + 1] \in {CR, LF}
  <2>1. i + 1 \in Nat  OBVIOUS
  <2> QED BY <1>0, <1>1, <2>1, Breaks
<1>3. j \in Nat /\ i < j /\ (i + 1) + f = j + 1 /\ (i + 1) + f - 1 = j /\ (i + 1) - 1 = i /\ i + 1 # 0 /\ i + 1 \in Nat
  BY <1>2
<1>4. g # 0 /\ n = f + g  BY <1>1, <1>3
<1>5. g \in {1, 2} /\ j + 1 <= Len(b) /\ b[j + 1] \in {CR, LF} /\ j + 1 \in Nat /\ j + 1 # 0 /\ (j + 1) - 1 = j
  <2>1. j + 1 \in Nat /\ j + 1 # 0 /\ (j + 1) - 1 = j  BY <1>3
  <2> HIDE DEF j
  <2> QED BY <1>0, <1>4, <2>1, Breaks
<1>6. i + n = (j + 1) + g - 1 /\ i < i + n  BY <1>2, <1>4, <1>5
<1>s. d \in Datum(L)
  <2>1. e + 1 \in Nat /\ e + 1 # 0 /\ (e + 1) - 1 <= i /\ i <= Len(b)  BY <1>0
  <2>2. SubSeq(b, e + 1, i) \in Seq(L)  BY <1>0, <2>1, Piece
  <2>3. b[i + 1] \in L  BY <1>3, StepOver
  <2> QED BY <2>2, <2>3, DataOfAppend
<1>w. /\ R[i].out = R[e].out /\ R[i].data \o Rest(R[i].line) = d
      /\ i = e => R[i].line = <<>> /\ R[i].data = <<>>
      /\ i > e /\ b[i] \in {CR, LF} => R[i].line = <<>> /\ (R[i].cr <=> b[i] = CR)
      /\ i > e /\ b[i] \notin {CR, LF} => R[i].line = <<b[i]>> /\ ~ R[i].cr
  BY DEF Within
<1>7. CASE i = e
  <2>1. R[i].line = <<>> /\ R[i].data = <<>>  BY <1>7, <1>w
  <2>2. R[j].line = <<>> /\ R[j].data = <<>> /\ R[j].out = R[i].out
    <3> DEFINE k == i + 1
    <3>1. k \in Nat /\ k # 0 /\ k <= Len(b) /\ k - 1 = i /\ k + f - 1 = j /\ f = S!LineBreakAt(b, k) /\ f # 0
      BY <1>1, <1>3
    <3> HIDE DEF k, f, j
    <3>2. R[k + f - 1].line = <<>> /\ R[k + f - 1].data = <<>> /\ R[k + f - 1].out = R[k - 1].out
      BY <2>1, <3>1, CleanBreak
    <3> QED BY <3>1, <3>2
  <2>3. /\ i + n \in Nat /\ i + n <= Len(b)
        /\ R[i + n].line = <<>> /\ R[i + n].data = <<>> /\ R[i + n].out = R[j].out
    <3> DEFINE k == j + 1
    <3>1. k \in Nat /\ k # 0 /\ k <= Len(b) /\ k - 1 = j /\ k + g - 1 = i + n /\ g = S!LineBreakAt(b, k) /\ g # 0
      BY <1>4, <1>5, <1>6
    <3> HIDE DEF k, f, j, g
    <3>2. /\ k + g - 1 \in Nat /\ k + g - 1 <= Len(b)
          /\ R[k + g - 1].line = <<>> /\ R[k + g - 1].data = <<>> /\ R[k + g - 1].out = R[k - 1].out
      BY <2>2, <3>1, CleanBreak
    <3> QED BY <3>1, <3>2
  <2>4. d = <<>>
    <3>1. Rest(<<>>) = <<>> /\ <<>> \o <<>> = <<>>  BY DEF Rest
    <3> QED BY <1>w, <2>1, <3>1
  <2>5. R[e].out \o S!RefData(d) = R[e].out
    <3>1. S!RefData(d) = <<>>  BY <2>4 DEF S!RefData
    <3>2. R[e] \in Readers(L)
      <4>1. e + 1 \in Nat /\ e + 1 # 0 /\ e + 1 <= Len(b) /\ (e + 1) - 1 = e  BY <1>7
      <4> DEFINE k == e + 1
      <4> HIDE DEF k
      <4>2. R[k - 1] \in Readers(L)  BY <4>1, StepOver DEF k
      <4> QED BY <4>1, <4>2 DEF k
    <3> DEFINE U == Datum(L)
    <3>3. R[e].out \in Seq(U)  BY <3>2, ReaderIs DEF Datums
    <3> HIDE DEF U
    <3>4. R[e].out \o <<>> = R[e].out  BY <3>3, ConcatEmptySeq
    <3> QED BY <3>1, <3>4
  <2> QED BY <1>6, <1>w, <2>2, <2>3, <2>5 DEF Told
<1>8. CASE i > e
  <2>1. b[i] \notin {CR, LF}
    <3> SUFFICES ASSUME b[i] \in {CR, LF}  PROVE FALSE
      OBVIOUS
    <3>1. i # 0 /\ i \in (e + 1)..i  BY <1>8
    <3>2. S!SeparatorAt(b, i) # 0  BY <1>0, <3>1, NotTwice
    <3> QED BY <3>1, <3>2
  <2>2. R[i].line = <<b[i]>> /\ ~ R[i].cr  BY <1>8, <1>w, <2>1
  <2>3. Ends(R[i], b[i + 1])  BY <1>2, <2>2 DEF Ends
  <2>4. b[i] \in L
    <3>1. i # 0 /\ i <= Len(b)  BY <1>0, <1>8
    <3> QED BY <3>1, StepOver
  <2>5. R[i + 1].line = <<>> /\ R[i + 1].data = d /\ R[i + 1].out = R[i].out
    <3>1. R[i] \in Readers(L) /\ b[i + 1] \in L /\ R[i + 1] = S!RefStep(R[i], b[i + 1])
      <4> DEFINE k == i + 1
      <4>1. k \in Nat /\ k # 0 /\ k <= Len(b) /\ k - 1 = i  BY <1>3
      <4> HIDE DEF k
      <4>2. b[k] \in L /\ R[k - 1] \in Readers(L) /\ R[k] = S!RefStep(R[k - 1], b[k])  BY <4>1, StepOver
      <4> QED BY <4>1, <4>2 DEF k
    <3>2. S!RefStep(R[i], b[i + 1]).line = <<>>  BY <2>2, <2>3, <2>4, <3>1, ReaderLine
    <3>3. S!RefStep(R[i], b[i + 1]).data = R[i].data \o S!Carried(b[i])  BY <2>2, <2>3, <2>4, <3>1, ReaderLine
    <3>4. S!RefStep(R[i], b[i + 1]).out = R[i].out  BY <2>2, <2>3, <2>4, <3>1, ReaderLine
    <3>5. S!Carried(b[i]) = Rest(R[i].line)
      <4>1. R[i].line # <<>> /\ R[i].line[1] = b[i]  BY <2>2
      <4> QED BY <4>1 DEF Rest
    <3> HIDE DEF d
    <3> QED BY <1>w, <3>1, <3>2, <3>3, <3>4, <3>5
  <2>6. /\ R[j].line = <<>> /\ R[j].data = d /\ R[j].out = R[i].out
        /\ Ends(R[j], b[j + 1])
    <3> DEFINE k == i + 1
    <3>1. k \in Nat /\ k # 0 /\ k <= Len(b) /\ k - 1 = i /\ k + f - 1 = j /\ k + f = j + 1 /\ f = S!LineBreakAt(b, k) /\ f # 0
      BY <1>1, <1>3
    <3>2. Ends(R[k - 1], b[k]) /\ R[k].line = <<>> /\ R[k].data = d /\ R[k].out = R[i].out
      BY <2>3, <2>5, <3>1
    <3>3. j + 1 <= Len(b) /\ b[j + 1] \in {CR, LF}  BY <1>5
    <3> HIDE DEF k, f, j, d
    <3>4. /\ R[k + f - 1].line = R[k].line /\ R[k + f - 1].data = R[k].data /\ R[k + f - 1].out = R[k].out
          /\ k + f <= Len(b) /\ b[k + f] \in {CR, LF} => Ends(R[k + f - 1], b[k + f])
      BY <3>1, <3>2, BreakEnds
    <3> QED BY <3>1, <3>2, <3>3, <3>4
  <2> DEFINE k == j + 1
  <2>7. /\ k \in Nat /\ k # 0 /\ k <= Len(b) /\ k - 1 = j /\ k + g - 1 = i + n /\ g = S!LineBreakAt(b, k) /\ g # 0
        /\ Ends(R[k - 1], b[k])
    BY <1>4, <1>5, <1>6, <2>6
  <2> HIDE DEF k, f, j, g, d
  <2>8. /\ k + g - 1 \in Nat /\ k + g - 1 <= Len(b)
        /\ R[k + g - 1].line = R[k].line /\ R[k + g - 1].data = R[k].data /\ R[k + g - 1].out = R[k].out
    BY <2>7, BreakEnds
  <2>9. R[k - 1] \in Readers(L) /\ b[k] \in L /\ R[k] = S!RefStep(R[k - 1], b[k])  BY <2>7, StepOver
  <2>10. R[k - 1].line = <<>> /\ R[k - 1].data = d /\ R[k - 1].out = R[i].out  BY <2>6, <2>7
  <2>11. S!RefStep(R[k - 1], b[k]).line = <<>>  BY <2>7, <2>9, <2>10, ReaderBlank
  <2>12. S!RefStep(R[k - 1], b[k]).data = <<>>  BY <2>7, <2>9, <2>10, ReaderBlank
  <2>13. S!RefStep(R[k - 1], b[k]).out = R[k - 1].out \o S!RefData(R[k - 1].data)
    BY <2>7, <2>9, <2>10, ReaderBlank
  <2> QED BY <1>6, <1>w, <2>7, <2>8, <2>9, <2>10, <2>11, <2>12, <2>13 DEF d, Told
<1>9. i = e \/ i > e  OBVIOUS
<1> QED BY <1>7, <1>8, <1>9

----------------------------------------------------------------------------
(* Streams: a scan. *)

Scans(L) == [frames : Pieces(L), start : Nat]

ScanStep(b, from, i, s) ==
  IF i <= from \/ i <= s.start \/ S!SeparatorAt(b, i) = 0 THEN s
  ELSE [frames |-> Append(s.frames, SubSeq(b, s.start + 1, i - 1)),
        start |-> i + S!SeparatorAt(b, i) - 1]

LEMMA SeparatorType ==
  ASSUME NEW b, NEW i  PROVE S!SeparatorAt(b, i) \in {0, 2, 3, 4}
<1>1. \A k : S!LineBreakAt(b, k) \in {0, 1, 2}  BY DEF S!LineBreakAt
<1> QED BY <1>1 DEF S!SeparatorAt

LEMMA ScanStepType ==
  ASSUME NEW L, NEW b \in Seq(L), NEW from, NEW i \in 1..Len(b), NEW s \in Scans(L)
  PROVE  ScanStep(b, from, i, s) \in Scans(L)
<1>1. CASE i <= from \/ i <= s.start \/ S!SeparatorAt(b, i) = 0
  BY <1>1 DEF ScanStep
<1>2. CASE ~ (i <= from \/ i <= s.start \/ S!SeparatorAt(b, i) = 0)
  <2> DEFINE P == Pieces(L)
             fs == Append(s.frames, SubSeq(b, s.start + 1, i - 1))
             n == i + S!SeparatorAt(b, i) - 1
  <2>1. s.frames \in P /\ s.start \in Nat /\ i \in Nat /\ Len(b) \in Nat /\ i <= Len(b)  BY DEF Scans
  <2>2. SubSeq(b, s.start + 1, i - 1) \in Seq(L)
    <3>1. s.start + 1 \in Nat /\ s.start + 1 # 0 /\ i - 1 \in Nat /\ (s.start + 1) - 1 <= i - 1 /\ i - 1 <= Len(b)
      BY <1>2, <2>1
    <3> QED BY <3>1, Piece
  <2>3. fs \in P
    <3> DEFINE U == Seq(L)
    <3>1. s.frames \in Seq(U) /\ SubSeq(b, s.start + 1, i - 1) \in U  BY <2>1, <2>2 DEF Pieces
    <3> HIDE DEF U
    <3>2. fs \in Seq(U)  BY <3>1, AppendProperties
    <3> QED BY <3>2 DEF U, Pieces
  <2>4. n \in Nat  BY <2>1, SeparatorType
  <2>5. ScanStep(b, from, i, s) = [frames |-> fs, start |-> n]  BY <1>2 DEF ScanStep
  <2> HIDE DEF P, fs, n
  <2>6. [frames |-> fs, start |-> n] \in [frames : P, start : Nat]  BY <2>3, <2>4
  <2> QED BY <2>5, <2>6 DEF Scans, P
<1> QED BY <1>1, <1>2

LEMMA ScanIs ==
  ASSUME NEW L, NEW b \in Seq(L), NEW from
  PROVE  \E F : /\ \A i \in 0..Len(b) : F[i] \in Scans(L)
                /\ F[0] = [frames |-> <<>>, start |-> 0]
                /\ \A i \in 1..Len(b) : F[i] = ScanStep(b, from, i, F[i - 1])
                /\ S!Scan(b, from) = F[Len(b)]
<1> DEFINE n == Len(b)
           X == Scans(L)
           a == [frames |-> <<>>, start |-> 0]
           G == [p \in (1..n) \X X |-> ScanStep(b, from, p[1], p[2])]
           Fits(R) == R = [i \in 0..n |-> IF i = 0 THEN a ELSE ScanStep(b, from, i, R[i - 1])]
<1>0. n \in Nat  OBVIOUS
<1>3. a \in X
  <2> DEFINE U == Seq(L)
  <2>1. <<>> \in Pieces(L)
    <3> HIDE DEF U
    <3>1. <<>> \in Seq(U)  BY EmptySeq
    <3> QED BY <3>1 DEF Pieces, U
  <2> QED BY <2>1 DEF Scans
<1> HIDE DEF X, a
<1>1. \A i \in 1..n, s \in X : G[<<i, s>>] = ScanStep(b, from, i, s)  OBVIOUS
<1>2. \A i \in 1..n, s \in X : ScanStep(b, from, i, s) \in X  BY ScanStepType DEF X
<1> HIDE DEF G, n
<1>g. Keeps(a, G, n, X)  BY <1>1, <1>2, <1>3 DEF Keeps
<1>p. PICK F : Evolves(F, a, G, n, X)  BY <1>0, <1>g, RecursTyped
<1>4. F \in [0..n -> X] /\ F[0] = a /\ \A i \in 1..n : F[i] = G[<<i, F[i - 1]>>]
  BY <1>p DEF Evolves
<1>5. Fits(F)
  <2>1. ASSUME NEW i \in 0..n  PROVE F[i] = IF i = 0 THEN a ELSE ScanStep(b, from, i, F[i - 1])
    <3>1. CASE i = 0  BY <1>4, <3>1
    <3>2. CASE i # 0
      <4>1. i \in 1..n /\ i - 1 \in 0..n  BY <1>0, <3>2
      <4>2. F[i - 1] \in X  BY <1>4, <4>1
      <4> QED BY <1>1, <1>4, <3>2, <4>1, <4>2
    <3> QED BY <3>1, <3>2
  <2>2. F = [i \in 0..n |-> F[i]]  BY <1>4
  <2> QED BY <2>1, <2>2
<1> DEFINE chosen == CHOOSE R : Fits(R)
<1>6. Fits(chosen)
  <2> HIDE DEF Fits
  <2> QED BY <1>5
<1>7. S!Scan(b, from) = chosen[n]  BY DEF S!Scan, ScanStep, n, a
<1> HIDE DEF chosen
<1>8. chosen[0] = a /\ \A i \in 1..n : chosen[i] = ScanStep(b, from, i, chosen[i - 1])
  <2>1. \A i \in 0..n : chosen[i] = IF i = 0 THEN a ELSE ScanStep(b, from, i, chosen[i - 1])  BY <1>6, Zenon
  <2>2. 0 \in 0..n /\ \A i \in 1..n : i \in 0..n /\ i # 0  BY <1>0
  <2> HIDE DEF Fits
  <2> QED BY <2>1, <2>2
<1>9. \A i \in 0..n : chosen[i] \in X
  <2> DEFINE T == {k \in Nat : chosen[k] \in X}
  <2>1. 0 \in T  BY <1>3, <1>8
  <2>2. ASSUME NEW i \in 1..n, i - 1 \in T  PROVE i \in T
    <3>1. i \in Nat /\ chosen[i - 1] \in X  BY <1>0, <2>2
    <3>2. chosen[i] = ScanStep(b, from, i, chosen[i - 1])  BY <1>8
    <3> QED BY <1>2, <3>1, <3>2
  <2>3. \A i \in 0..n : i \in T
    <3> HIDE DEF T, Fits
    <3> QED BY <1>0, <2>1, <2>2, UpTo
  <2> QED BY <2>3
<1> HIDE DEF Fits
<1> QED BY <1>7, <1>8, <1>9 DEF n, X, a

\* The frames of a scan are what the reader told on the way, and the reader has
\* nothing in hand where the next one starts.
Scanned(b, R, i, s) ==
  /\ s.start <= Len(b)
  /\ R[s.start].line = <<>> /\ R[s.start].data = <<>>
  /\ R[s.start].out = R[0].out \o S!Payloads(s.frames)
  /\ \A k \in (s.start + 1)..i : S!SeparatorAt(b, k) = 0

LEMMA ScanStepReads ==
  ASSUME NEW L, NEW b, NEW R, Over(R, b, L), NEW from, NEW i \in 1..Len(b), NEW s \in Scans(L),
         i <= from => S!SeparatorAt(b, i) = 0, Scanned(b, R, i - 1, s)
  PROVE  Scanned(b, R, i, ScanStep(b, from, i, s))
<1>0. /\ b \in Seq(L) /\ Len(b) \in Nat /\ i \in Nat /\ i # 0 /\ i <= Len(b) /\ i - 1 \in Nat
      /\ s.start \in Nat /\ s.frames \in Pieces(L)
  BY DEF Over, Scans
<1>1. /\ s.start <= Len(b) /\ R[s.start].line = <<>> /\ R[s.start].data = <<>>
      /\ R[s.start].out = R[0].out \o S!Payloads(s.frames)
      /\ \A k \in (s.start + 1)..(i - 1) : S!SeparatorAt(b, k) = 0
  BY DEF Scanned
<1>2. CASE i <= from \/ i <= s.start \/ S!SeparatorAt(b, i) = 0
  <2>1. ScanStep(b, from, i, s) = s  BY <1>2 DEF ScanStep
  <2>2. \A k \in (s.start + 1)..i : S!SeparatorAt(b, k) = 0
    <3> SUFFICES ASSUME NEW k \in (s.start + 1)..i  PROVE S!SeparatorAt(b, k) = 0
      OBVIOUS
    <3>1. k = i \/ k \in (s.start + 1)..(i - 1)  BY <1>0
    <3>2. ~ (i <= s.start)  BY <1>0
    <3> QED BY <1>1, <1>2, <3>1, <3>2
  <2> QED BY <1>1, <2>1, <2>2 DEF Scanned
<1>3. CASE ~ (i <= from \/ i <= s.start \/ S!SeparatorAt(b, i) = 0)
  <2> DEFINE e == s.start
             h == i - 1
             n == S!SeparatorAt(b, i)
             f == SubSeq(b, e + 1, h)
             z == ScanStep(b, from, i, s)
  <2>1. e \in Nat /\ h \in Nat /\ e <= h /\ h <= Len(b) /\ h + 1 = i /\ h + 1 <= Len(b) /\ n # 0
    BY <1>0, <1>3
  <2>2. z = [frames |-> Append(s.frames, f), start |-> i + n - 1]  BY <1>3 DEF ScanStep
  <2>3. z.frames = Append(s.frames, f) /\ z.start = h + n
    <3>1. i + n - 1 = h + n  BY <1>0, SeparatorType
    <3> HIDE DEF z, f, n, h
    <3> QED BY <2>2, <3>1
  <2>4. n = S!SeparatorAt(b, h + 1)  BY <2>1
  <2>5. R[e].line = <<>> /\ R[e].data = <<>> /\ \A k \in (e + 1)..h : S!SeparatorAt(b, k) = 0  BY <1>1
  <2> HIDE DEF e, h, n, z
  <2>6. Within(R, b, e, h)  BY <2>1, <2>5, Unbroken
  <2>7. /\ h + n \in Nat /\ h + n <= Len(b) /\ h < h + n
        /\ R[h + n].line = <<>> /\ R[h + n].data = <<>>
        /\ R[h + n].out = R[e].out \o S!RefData(S!DataOf(f))
    <3>0. /\ Over(R, b, L) /\ e \in Nat /\ h \in Nat /\ e <= h /\ h + 1 <= Len(b)
          /\ Within(R, b, e, h) /\ n = S!SeparatorAt(b, h + 1) /\ n # 0
      BY <2>1, <2>4, <2>6
    <3>s. \A k \in (e + 1)..h : S!SeparatorAt(b, k) = 0  BY <2>5
    <3> DEFINE to == h + n
    <3>t. to = h + n /\ to \in Nat
      <4>1. S!SeparatorAt(b, h + 1) \in {0, 2, 3, 4}  BY SeparatorType
      <4>2. n \in Nat  BY <3>0, <4>1
      <4> QED BY <2>1, <4>2
    <3> HIDE DEF to
    <3>1. Told(R, b, e, h, to)  BY ONLY <3>0, <3>s, <3>t, AtSeparator
    <3> QED BY <3>t, <3>1 DEF Told
  <2>8. f \in Seq(L)
    <3>1. e + 1 \in Nat /\ e + 1 # 0 /\ (e + 1) - 1 <= h  BY <2>1
    <3> QED BY <1>0, <2>1, <3>1, Piece
  <2> HIDE DEF f
  <2>9. /\ S!Payloads(s.frames) \in Datums(L)
        /\ S!Payloads(z.frames) = S!Payloads(s.frames) \o S!RefData(S!DataOf(f))
    BY <1>0, <2>3, <2>8, PayloadsAppend
  <2>10. R[0].out \in Datums(L) /\ S!RefData(S!DataOf(f)) \in Datums(L)
    <3>1. R[0] \in Readers(L)
      <4>1. 0 \in 0..Len(b)  BY <1>0
      <4> QED BY <4>1 DEF Over
    <3>2. S!DataOf(f) \in Datum(L)
      <4>1. b[i] \in L  BY <1>0
      <4> QED BY <2>8, <4>1, DataOfAppend
    <3> QED BY <3>1, <3>2, ReaderIs, RefDataType
  <2>11. (R[0].out \o S!Payloads(s.frames)) \o S!RefData(S!DataOf(f))
           = R[0].out \o (S!Payloads(s.frames) \o S!RefData(S!DataOf(f)))
    <3> DEFINE U == Datum(L)
               p == R[0].out
               q == S!Payloads(s.frames)
               r == S!RefData(S!DataOf(f))
    <3>1. p \in Seq(U) /\ q \in Seq(U) /\ r \in Seq(U)  BY <2>9, <2>10 DEF Datums
    <3> HIDE DEF U, p, q, r
    <3>2. (p \o q) \o r = p \o (q \o r)  BY <3>1, ConcatAssociative
    <3> QED BY <3>2 DEF p, q, r
  <2>12. R[z.start].out = R[0].out \o S!Payloads(z.frames)
    BY <1>1, <2>3, <2>7, <2>9, <2>11 DEF e
  <2>13. \A k \in (z.start + 1)..i : S!SeparatorAt(b, k) = 0
    <3>1. z.start \in Nat /\ i <= z.start  BY <1>0, <2>1, <2>3, <2>7
    <3>2. \A k \in (z.start + 1)..i : FALSE  BY <1>0, <3>1
    <3> QED BY <3>2
  <2>14. z.start <= Len(b) /\ R[z.start].line = <<>> /\ R[z.start].data = <<>>  BY <2>3, <2>7
  <2> QED BY <2>12, <2>13, <2>14 DEF Scanned, z
<1> QED BY <1>2, <1>3

LEMMA ScanReads ==
  ASSUME NEW L, NEW b, NEW R, Over(R, b, L), NEW from, R[0].line = <<>>, R[0].data = <<>>,
         \A i \in 1..Len(b) : i <= from => S!SeparatorAt(b, i) = 0
  PROVE  S!Scan(b, from) \in Scans(L) /\ Scanned(b, R, Len(b), S!Scan(b, from))
<1> DEFINE n == Len(b)
<1>0. b \in Seq(L) /\ n \in Nat /\ 0 \in 0..n /\ n \in 0..n  BY DEF Over
<1>1. PICK F : /\ \A i \in 0..n : F[i] \in Scans(L)
               /\ F[0] = [frames |-> <<>>, start |-> 0]
               /\ \A i \in 1..n : F[i] = ScanStep(b, from, i, F[i - 1])
               /\ S!Scan(b, from) = F[n]
  BY <1>0, ScanIs
<1> DEFINE T == {k \in Nat : Scanned(b, R, k, F[k])}
<1>2. 0 \in T
  <2>1. F[0].frames = <<>> /\ F[0].start = 0  BY <1>1
  <2>2. R[0].out \o <<>> = R[0].out
    <3>1. R[0] \in Readers(L)  BY <1>0 DEF Over
    <3> DEFINE U == Datum(L)
    <3>2. R[0].out \in Seq(U)  BY <3>1, ReaderIs DEF Datums
    <3> HIDE DEF U
    <3> QED BY <3>2, ConcatEmptySeq
  <2>3. \A k \in (0 + 1)..0 : FALSE  OBVIOUS
  <2>4. Scanned(b, R, 0, F[0])
    <3> DEFINE z == F[0]
    <3>1. z.frames = <<>> /\ z.start = 0 /\ 0 <= Len(b)  BY <1>0, <2>1
    <3> HIDE DEF z, T
    <3>2. R[z.start].out = R[0].out \o S!Payloads(z.frames)  BY <2>2, <3>1, NoPayloads0
    <3>3. R[z.start].line = <<>> /\ R[z.start].data = <<>>  BY <3>1
    <3>4. \A k \in (z.start + 1)..0 : S!SeparatorAt(b, k) = 0  BY <2>3, <3>1
    <3>5. z.start <= Len(b)  BY <3>1
    <3> QED BY <3>2, <3>3, <3>4, <3>5 DEF Scanned, z
  <2> QED BY <2>4
<1>3. ASSUME NEW i \in 1..n, i - 1 \in T  PROVE i \in T
  <2>1. i \in Nat /\ i - 1 \in 0..n /\ Scanned(b, R, i - 1, F[i - 1])  BY <1>0, <1>3
  <2>2. F[i - 1] \in Scans(L) /\ F[i] = ScanStep(b, from, i, F[i - 1])  BY <1>1, <2>1
  <2>3. i <= from => S!SeparatorAt(b, i) = 0  OBVIOUS
  <2>4. i \in 1..Len(b)  OBVIOUS
  <2> HIDE DEF n, T
  <2>5. Scanned(b, R, i, F[i])  BY <2>1, <2>2, <2>3, <2>4, ScanStepReads
  <2> QED BY <2>1, <2>5 DEF T
<1>4. \A k \in 0..n : k \in T
  <2> HIDE DEF T, n
  <2> QED BY <1>0, <1>2, <1>3, UpTo
<1>5. Scanned(b, R, n, F[n])  BY <1>0, <1>4
<1> QED BY <1>0, <1>1, <1>5

----------------------------------------------------------------------------
(* Streams: parts of the stream. *)

LEMMA PieceOf ==
  ASSUME NEW L, NEW s \in Seq(L), NEW e \in Nat, NEW m \in Nat, e <= m, m <= Len(s)
  PROVE  /\ SubSeq(s, e + 1, m) \in Seq(L) /\ Len(SubSeq(s, e + 1, m)) = m - e
         /\ \A i \in 1..(m - e) : SubSeq(s, e + 1, m)[i] = s[e + i]
<1> DEFINE b == SubSeq(s, e + 1, m)
<1>1. e + 1 \in Nat /\ e + 1 # 0 /\ (e + 1) - 1 <= m  OBVIOUS
<1>2. /\ b \in Seq(L) /\ Len(b) = m - (e + 1) + 1
      /\ \A i \in 1..(m - (e + 1) + 1) : b[i] = s[(e + 1) + i - 1]
  BY <1>1, Piece
<1>3. m - (e + 1) + 1 = m - e /\ \A i \in 1..(m - e) : (e + 1) + i - 1 = e + i  OBVIOUS
<1> HIDE DEF b
<1>4. b \in Seq(L) /\ Len(b) = m - e /\ \A i \in 1..(m - e) : b[i] = s[e + i]
  BY <1>2, <1>3
<1> QED BY <1>4 DEF b

\* The reader of the stream goes over every part of it.
LEMMA PieceIsRead ==
  ASSUME NEW L, NEW s \in Seq(L), Spaced(s), NEW e \in Nat, NEW m \in Nat, e <= m, m <= Len(s)
  PROVE  Over([j \in 0..(m - e) |-> At(s, e + j)], SubSeq(s, e + 1, m), L)
<1> DEFINE b == SubSeq(s, e + 1, m)
           R == [j \in 0..(m - e) |-> At(s, e + j)]
<1>0. Len(s) \in Nat /\ m - e \in Nat  OBVIOUS
<1>1. b \in Seq(L) /\ Len(b) = m - e /\ \A i \in 1..(m - e) : b[i] = s[e + i]
  BY PieceOf
<1> HIDE DEF b
<1>2. Spaced(b)
  <2> SUFFICES ASSUME NEW i \in 1..(Len(b) - 1)  PROVE b[i] \in {CR, LF} \/ b[i + 1] \in {CR, LF}
    BY DEF Spaced
  <2>1. i \in 1..(m - e) /\ i + 1 \in 1..(m - e) /\ e + i \in 1..(Len(s) - 1)  BY <1>0, <1>1
  <2>2. b[i] = s[e + i] /\ b[i + 1] = s[(e + i) + 1]
    <3>1. e + (i + 1) = (e + i) + 1  BY <2>1
    <3>2. b[i + 1] = s[e + (i + 1)]  BY <1>1, <2>1
    <3> QED BY <1>1, <2>1, <3>1, <3>2
  <2> QED BY <2>1, <2>2 DEF Spaced
<1>3. ASSUME NEW j \in 0..(m - e)  PROVE At(s, e + j) \in Readers(L)
  <2>1. e + j \in 0..Len(s)  BY <1>0
  <2> QED BY <2>1, ReferenceAt
<1>4. ASSUME NEW j \in 1..(m - e)  PROVE R[j] = S!RefStep(R[j - 1], b[j])
  <2>1. j \in 0..(m - e) /\ j - 1 \in 0..(m - e) /\ e + j \in 1..Len(s) /\ (e + j) - 1 = e + (j - 1)  BY <1>0
  <2>2. At(s, e + j) = S!RefStep(At(s, (e + j) - 1), s[e + j])
    <3> DEFINE k == e + j
    <3>1. k \in 1..Len(s)  BY <2>1
    <3> HIDE DEF k
    <3>2. At(s, k) = S!RefStep(At(s, k - 1), s[k])  BY <3>1, ReferenceAt
    <3> QED BY <3>2 DEF k
  <2>3. R[j] = At(s, e + j) /\ R[j - 1] = At(s, e + (j - 1))  BY <2>1
  <2>4. b[j] = s[e + j]  BY <1>1
  <2> QED BY <2>1, <2>2, <2>3, <2>4
<1>5. R \in [0..Len(b) -> Readers(L)]  BY <1>1, <1>3
<1>6. Reads(R, b)
  <2> HIDE DEF R
  <2> QED BY <1>1, <1>4 DEF Reads
<1> QED BY <1>1, <1>2, <1>5, <1>6 DEF Over, b

\* A separator is in the three bytes after its first.
LEMMA SeparatorBefore ==
  ASSUME NEW b, NEW c, Len(b) \in Nat, Len(c) \in Nat, Len(c) <= Len(b),
         \A j \in 1..Len(c) : c[j] = b[j], NEW i \in Nat, i # 0, i + 3 <= Len(c)
  PROVE  S!SeparatorAt(b, i) = S!SeparatorAt(c, i)
<1>1. \A k \in i..(i + 2) : S!LineBreakAt(b, k) = S!LineBreakAt(c, k)
  <2> SUFFICES ASSUME NEW k \in i..(i + 2)  PROVE S!LineBreakAt(b, k) = S!LineBreakAt(c, k)
    OBVIOUS
  <2>1. k \in 1..Len(c) /\ k + 1 \in 1..Len(c) /\ ~ (k > Len(c)) /\ ~ (k > Len(b)) /\ k < Len(c) /\ k < Len(b)
    OBVIOUS
  <2>2. c[k] = b[k] /\ c[k + 1] = b[k + 1]  BY <2>1
  <2> QED BY <2>1, <2>2 DEF S!LineBreakAt
<1>2. i \in i..(i + 2) /\ i + 1 \in i..(i + 2) /\ i + 2 \in i..(i + 2)  OBVIOUS
<1>3. S!LineBreakAt(b, i) \in {0, 1, 2}  BY DEF S!LineBreakAt
<1> QED BY <1>1, <1>2, <1>3 DEF S!SeparatorAt

\* ... and what precedes it does not matter.
LEMMA SeparatorAfter ==
  ASSUME NEW b, NEW c, Len(b) \in Nat, Len(c) \in Nat, NEW d \in Nat, Len(b) = d + Len(c),
         \A j \in 1..Len(c) : c[j] = b[d + j], NEW i \in Nat, i # 0
  PROVE  S!SeparatorAt(c, i) = S!SeparatorAt(b, d + i)
<1>1. ASSUME NEW k \in Nat, k # 0  PROVE S!LineBreakAt(c, k) = S!LineBreakAt(b, d + k)
  <2>1. CASE k > Len(c)
    <3>1. d + k > Len(b)  BY <2>1
    <3> QED BY <2>1, <3>1 DEF S!LineBreakAt
  <2>2. CASE ~ (k > Len(c))
    <3> DEFINE m == Len(c)
               n == Len(b)
    <3>0. m \in Nat /\ n \in Nat /\ n = d + m /\ k \in Nat /\ k # 0 /\ k <= m
      <4>1. m \in Nat /\ n \in Nat /\ n = d + m  OBVIOUS
      <4>2. ~ (k > m)  BY <2>2
      <4> HIDE DEF m, n
      <4> QED BY <1>1, <4>1, <4>2
    <3> HIDE DEF m, n
    <3>a. k \in 1..m /\ ~ (d + k > n) /\ (k < m => d + k < n) /\ (d + k < n => k < m)  BY ONLY <3>0
    <3>1. k \in 1..Len(c) /\ ~ (d + k > Len(b)) /\ (k < Len(c) <=> d + k < Len(b))  BY <3>a DEF m, n
    <3>2. c[k] = b[d + k]  BY <3>1
    <3>3. k < Len(c) => c[k + 1] = b[(d + k) + 1]
      <4>1. k < Len(c) => k + 1 \in 1..Len(c) /\ d + (k + 1) = (d + k) + 1  OBVIOUS
      <4> QED BY <4>1
    <3> QED BY <2>2, <3>1, <3>2, <3>3 DEF S!LineBreakAt
  <2> QED BY <2>1, <2>2
<1>2. S!LineBreakAt(c, i) \in {0, 1, 2}  BY DEF S!LineBreakAt
<1>3. S!LineBreakAt(c, i) = S!LineBreakAt(b, d + i)  BY <1>1
<1> DEFINE f == S!LineBreakAt(c, i)
<1>4. i + f \in Nat /\ i + f # 0 /\ d + (i + f) = (d + i) + f  BY <1>2
<1>5. S!LineBreakAt(c, i + f) = S!LineBreakAt(b, (d + i) + f)
  <2> HIDE DEF f
  <2>1. S!LineBreakAt(c, i + f) = S!LineBreakAt(b, d + (i + f))  BY <1>1, <1>4
  <2> QED BY <1>4, <2>1
<1> QED BY <1>3, <1>5 DEF S!SeparatorAt

LEMMA NoneAfter ==
  ASSUME NEW b, NEW c, Len(b) \in Nat, Len(c) \in Nat, NEW d \in Nat, Len(b) = d + Len(c),
         \A j \in 1..Len(c) : c[j] = b[d + j], \A k \in (d + 1)..Len(b) : S!SeparatorAt(b, k) = 0
  PROVE  \A k \in 1..Len(c) : S!SeparatorAt(c, k) = 0
<1> SUFFICES ASSUME NEW k \in 1..Len(c)  PROVE S!SeparatorAt(c, k) = 0
  OBVIOUS
<1>1. k \in Nat /\ k # 0 /\ d + k \in (d + 1)..Len(b)  OBVIOUS
<1>2. S!SeparatorAt(c, k) = S!SeparatorAt(b, d + k)  BY <1>1, SeparatorAfter
<1> QED BY <1>1, <1>2

----------------------------------------------------------------------------
(* Streams: what the framer holds. *)

Modes == {"chained", "plain", "buffer", "claude"}

\* The unterminated frame, b, begins after e, where the reader had nothing in hand
\* and had told all that has been seen; the framer need not scan before `from`.
Pending(s, p, b, from, out, e) ==
  /\ e \in 0..p /\ b = SubSeq(s, e + 1, p)
  /\ At(s, e).line = <<>> /\ At(s, e).data = <<>> /\ At(s, e).out = out
  /\ \A k \in 1..Len(b) : S!SeparatorAt(b, k) = 0
  /\ from = S!LookBack(Len(b))

\* p bytes of the answer s have arrived, and out has been seen.
Heard(s, p, b, from, out, end) ==
  /\ p \in 0..Len(s)
  /\ end = "eof" => out = S!Everything(s)
  /\ end # "eof" => out = At(s, p).out
  /\ end = "no" => \E e \in 0..p : Pending(s, p, b, from, out, e)

StreamsInv ==
  /\ mode \in Modes /\ stream \in Answers[mode]
  /\ Heard(stream, pos, buf, scanFrom, seen, ended)

LEMMA StreamIs ==
  ASSUME mode \in Modes, stream \in Answers[mode]
  PROVE  \E L : stream \in Seq(L) /\ Spaced(stream)
<1>1. stream \in Seq({stream[i] : i \in DOMAIN stream}) /\ Spaced(stream)
  BY StreamsAssumption DEF Modes, Spaced
<1> QED BY <1>1

LEMMA StreamsStart == S!Init => StreamsInv
<1> SUFFICES ASSUME S!Init  PROVE StreamsInv
  OBVIOUS
<1>1. /\ mode \in Modes /\ stream \in Answers[mode] /\ pos = 0 /\ buf = <<>> /\ scanFrom = 0
      /\ seen = <<>> /\ ended = "no"
  BY DEF S!Init, Modes
<1>2. PICK L : stream \in Seq(L) /\ Spaced(stream)  BY <1>1, StreamIs
<1>3. Len(stream) \in Nat /\ 0 \in 0..Len(stream) /\ 0 \in 0..0  BY <1>2
<1>4. At(stream, 0) = S!RefStart  BY <1>2, ReferenceAt
<1>5. At(stream, 0).line = <<>> /\ At(stream, 0).data = <<>> /\ At(stream, 0).out = <<>>
  BY <1>4 DEF S!RefStart
<1>6. SubSeq(stream, 0 + 1, 0) = <<>>  BY SubSeqEmpty
<1>7. S!LookBack(0) = 0  BY DEF S!LookBack, S!MaxSeparatorLen
<1>8. Pending(stream, pos, buf, scanFrom, seen, 0)  BY <1>1, <1>3, <1>5, <1>6, <1>7 DEF Pending
<1> QED BY <1>1, <1>3, <1>5, <1>8 DEF StreamsInv, Heard

LEMMA LookBackEnough ==
  ASSUME NEW n \in Nat, NEW i \in Nat, i # 0, i <= S!LookBack(n)
  PROVE  i + 3 <= n
BY DEF S!LookBack, S!MaxSeparatorLen

\* The next chunk, wherever it ends.
LEMMA ChunkHolds ==
  ASSUME StreamsInv, NEW n \in 1..MaxChunk, S!Chunk(n)
  PROVE  StreamsInv'
<1> DEFINE bytes == SubSeq(stream, pos + 1, pos + n)
           b == buf \o bytes
           s == S!Scan(b, scanFrom)
           rest == SubSeq(b, s.start + 1, Len(b))
<1>0. /\ mode \in Modes /\ stream \in Answers[mode] /\ pos \in 0..Len(stream)
      /\ ended = "no" /\ mode' = mode /\ stream' = stream /\ pos' = pos + n /\ pos + n <= Len(stream)
      /\ buf' = rest /\ scanFrom' = S!LookBack(Len(rest)) /\ seen' = seen \o S!Payloads(s.frames)
      /\ ended' \in {"no", "done"}
  BY DEF StreamsInv, Heard, S!Chunk, S!Take
<1>n. n \in Nat /\ n # 0  BY StreamsAssumption
<1>1. PICK e \in 0..pos : Pending(stream, pos, buf, scanFrom, seen, e)  BY <1>0 DEF StreamsInv, Heard
<1>2. PICK L : stream \in Seq(L) /\ Spaced(stream)  BY <1>0, StreamIs
<1> DEFINE m == pos + n
           R == [j \in 0..(m - e) |-> At(stream, e + j)]
<1>3. /\ Len(stream) \in Nat /\ pos \in Nat /\ e \in Nat /\ e <= pos /\ m \in Nat /\ e <= m
      /\ m <= Len(stream) /\ pos < m
  <2>1. Len(stream) \in Nat  BY <1>2
  <2>2. pos \in 0..Len(stream) /\ pos + n <= Len(stream)  BY <1>0
  <2> HIDE DEF s, rest, b, R
  <2> QED BY <1>n, <2>1, <2>2
<1>p. /\ buf = SubSeq(stream, e + 1, pos)
      /\ At(stream, e).line = <<>> /\ At(stream, e).data = <<>> /\ At(stream, e).out = seen
      /\ \A k \in 1..Len(buf) : S!SeparatorAt(buf, k) = 0
      /\ scanFrom = S!LookBack(Len(buf))
  BY <1>1 DEF Pending
<1>4. b = SubSeq(stream, e + 1, m)
  <2>1. e + 1 \in 1..(Len(stream) + 1) /\ pos \in ((e + 1) - 1)..Len(stream) /\ m \in pos..Len(stream)
    BY <1>3
  <2> HIDE DEF m
  <2>2. SubSeq(stream, e + 1, pos) \o SubSeq(stream, pos + 1, m) = SubSeq(stream, e + 1, m)
    BY <1>2, <2>1, ConcatAdjacentSubSeq
  <2> QED BY <1>p, <2>2 DEF m
<1>5. /\ b \in Seq(L) /\ Len(b) = m - e /\ \A i \in 1..(m - e) : b[i] = stream[e + i]
  <2> HIDE DEF b, m
  <2> QED BY <1>2, <1>3, <1>4, PieceOf
<1>6. /\ buf \in Seq(L) /\ Len(buf) = pos - e /\ \A i \in 1..(pos - e) : buf[i] = stream[e + i]
  <2>1. pos <= Len(stream)  BY <1>3
  <2> QED BY <1>2, <1>3, <1>p, <2>1, PieceOf
<1>7. Over(R, b, L)
  <2> HIDE DEF b, m
  <2> QED BY <1>2, <1>3, <1>4, PieceIsRead
<1>8. \A i \in 1..Len(b) : i <= scanFrom => S!SeparatorAt(b, i) = 0
  <2> HIDE DEF b, m
  <2> SUFFICES ASSUME NEW i \in 1..Len(b), i <= scanFrom  PROVE S!SeparatorAt(b, i) = 0
    OBVIOUS
  <2>1. i \in Nat /\ i # 0 /\ Len(buf) \in Nat /\ Len(b) \in Nat /\ Len(buf) <= Len(b)
    BY <1>3, <1>5, <1>6
  <2>2. i + 3 <= Len(buf)  BY <1>p, <2>1, LookBackEnough
  <2>3. \A j \in 1..Len(buf) : buf[j] = b[j]
    <3> SUFFICES ASSUME NEW j \in 1..Len(buf)  PROVE buf[j] = b[j]
      OBVIOUS
    <3>1. j \in 1..(pos - e) /\ j \in 1..(m - e)  BY <1>3, <1>6
    <3> QED BY <1>5, <1>6, <3>1
  <2>4. S!SeparatorAt(b, i) = S!SeparatorAt(buf, i)  BY <2>1, <2>2, <2>3, SeparatorBefore
  <2>5. i \in 1..Len(buf)  BY <2>1, <2>2
  <2> QED BY <1>p, <2>4, <2>5
<1>9. R[0] = At(stream, e) /\ R[m - e] = At(stream, m)
  <2>1. 0 \in 0..(m - e) /\ m - e \in 0..(m - e) /\ e + 0 = e /\ e + (m - e) = m  BY <1>3
  <2> QED BY <2>1
<1> HIDE DEF R, b, bytes
<1>10. s \in Scans(L) /\ Scanned(b, R, Len(b), s)
  <2>1. R[0].line = <<>> /\ R[0].data = <<>>  BY <1>9, <1>p
  <2> QED BY <1>7, <1>8, <2>1, ScanReads
<1> DEFINE g == s.start
<1>11. /\ g \in Nat /\ g <= Len(b) /\ R[g].line = <<>> /\ R[g].data = <<>>
       /\ R[g].out = R[0].out \o S!Payloads(s.frames)
       /\ \A k \in (g + 1)..Len(b) : S!SeparatorAt(b, k) = 0
  BY <1>10 DEF Scanned, Scans
<1> HIDE DEF g
<1>12. Len(b) \in Nat  BY <1>5
<1>13. Within(R, b, g, Len(b))  BY <1>7, <1>11, <1>12, Unbroken
<1>14. R[Len(b)].out = R[g].out  BY <1>13 DEF Within
<1>15. seen' = R[g].out /\ seen' = At(stream, m).out
  <2>1. seen' = R[g].out  BY <1>0, <1>p, <1>9, <1>11
  <2>2. R[Len(b)] = At(stream, m)  BY <1>5, <1>9
  <2> QED BY <1>14, <2>1, <2>2
<1>16. R[g] = At(stream, e + g)
  <2>1. g \in 0..(m - e)  BY <1>3, <1>5, <1>11
  <2> QED BY <2>1 DEF R
<1>17. rest \in Seq(L) /\ Len(rest) = Len(b) - g /\ \A i \in 1..(Len(b) - g) : rest[i] = b[g + i]
  <2>1. rest = SubSeq(b, g + 1, Len(b))  BY DEF g
  <2>2. b \in Seq(L) /\ g \in Nat /\ Len(b) \in Nat /\ g <= Len(b) /\ Len(b) <= Len(b)
    BY <1>5, <1>11, <1>12
  <2> HIDE DEF rest
  <2>3. /\ SubSeq(b, g + 1, Len(b)) \in Seq(L) /\ Len(SubSeq(b, g + 1, Len(b))) = Len(b) - g
        /\ \A i \in 1..(Len(b) - g) : SubSeq(b, g + 1, Len(b))[i] = b[g + i]
    BY <2>2, PieceOf
  <2> QED BY <2>1, <2>3
<1>18. rest = SubSeq(stream, (e + g) + 1, m)
  <2> DEFINE c == SubSeq(stream, (e + g) + 1, m)
  <2>1. e + g \in Nat /\ e + g <= m  BY <1>3, <1>5, <1>11
  <2>2. c \in Seq(L) /\ Len(c) = m - (e + g) /\ \A i \in 1..(m - (e + g)) : c[i] = stream[(e + g) + i]
    <3> DEFINE h == e + g
    <3>1. h \in Nat /\ h <= m  BY <2>1
    <3> HIDE DEF h, m
    <3>2. /\ SubSeq(stream, h + 1, m) \in Seq(L) /\ Len(SubSeq(stream, h + 1, m)) = m - h
          /\ \A i \in 1..(m - h) : SubSeq(stream, h + 1, m)[i] = stream[h + i]
      BY <1>2, <1>3, <3>1, PieceOf
    <3> QED BY <3>2 DEF h
  <2> HIDE DEF c, rest
  <2>3. Len(rest) = Len(c)  BY <1>3, <1>5, <1>11, <1>17, <2>2
  <2>4. ASSUME NEW i \in 1..Len(rest)  PROVE rest[i] = c[i]
    <3>1. i \in 1..(Len(b) - g) /\ i \in 1..(m - (e + g)) /\ g + i \in 1..(m - e) /\ e + (g + i) = (e + g) + i
      BY <1>3, <1>5, <1>11, <1>17
    <3>2. rest[i] = b[g + i]  BY <1>17, <3>1
    <3>3. b[g + i] = stream[e + (g + i)]  BY <1>5, <3>1
    <3>4. c[i] = stream[(e + g) + i]  BY <2>2, <3>1
    <3> QED BY <3>1, <3>2, <3>3, <3>4
  <2>5. rest = c  BY <1>17, <2>2, <2>3, <2>4, SeqEqual
  <2> QED BY <2>5 DEF c
<1>19. \A k \in 1..Len(rest) : S!SeparatorAt(rest, k) = 0
  <2> HIDE DEF rest, s, m
  <2>a. g \in Nat /\ g <= Len(b) /\ Len(rest) = Len(b) - g  BY <1>11, <1>17
  <2>1. Len(b) = g + Len(rest) /\ Len(rest) \in Nat  BY <1>12, <2>a
  <2>2. g \in Nat /\ \A k \in (g + 1)..Len(b) : S!SeparatorAt(b, k) = 0  BY <1>11
  <2>3. \A j \in 1..Len(rest) : rest[j] = b[g + j]
    <3>1. \A i \in 1..(Len(b) - g) : rest[i] = b[g + i]  BY <1>17
    <3> QED BY <3>1, <2>a
  <2> QED BY <1>12, <2>1, <2>2, <2>3, NoneAfter
<1> DEFINE f == e + g
<1>20. f \in 0..pos' /\ pos' = m  BY <1>0, <1>3, <1>5, <1>11
<1>21. Pending(stream', pos', buf', scanFrom', seen', f)
  <2>1. stream' = stream /\ buf' = rest /\ scanFrom' = S!LookBack(Len(rest))  BY <1>0
  <2>2. rest = SubSeq(stream, f + 1, m)  BY <1>18
  <2>3. At(stream, f).line = <<>> /\ At(stream, f).data = <<>> /\ At(stream, f).out = seen'
    BY <1>11, <1>15, <1>16
  <2> HIDE DEF rest, m, f
  <2> QED BY <1>19, <1>20, <2>1, <2>2, <2>3, Zenon DEF Pending
<1>22. Heard(stream', pos', buf', scanFrom', seen', ended')
  <2>1. pos' \in 0..Len(stream') /\ ended' # "eof"  BY <1>0, <1>3
  <2>2. seen' = At(stream', pos').out  BY <1>0, <1>15
  <2> HIDE DEF f, rest, m
  <2> QED BY <1>20, <1>21, <2>1, <2>2 DEF Heard
<1>23. mode' \in Modes /\ stream' \in Answers[mode']  BY <1>0
<1> QED BY <1>22, <1>23 DEF StreamsInv

LEMMA TailHolds ==
  ASSUME NEW L, NEW b \in Seq(L)
  PROVE  S!Payloads(IF b = <<>> THEN <<>> ELSE <<b>>) = S!RefData(S!DataOf(b))
<1>1. CASE b = <<>>
  <2>1. S!DataOf(b) = <<>>  BY <1>1, NoData0
  <2> QED BY <1>1, <2>1, NoPayloads0 DEF S!RefData
<1>2. CASE b # <<>>
  <2>1. PICK x : x \in L  BY <1>2
  <2>2. S!DataOf(b) \in Datum(L)  BY <2>1, DataOfAppend
  <2>3. S!RefData(S!DataOf(b)) \in Datums(L)  BY <2>2, RefDataType
  <2>4. S!Payloads(Append(<<>>, b)) = S!Payloads(<<>>) \o S!RefData(S!DataOf(b))
    <3>1. <<>> \in Pieces(L)
      <4> DEFINE X == Seq(L)
      <4> HIDE DEF X
      <4>1. <<>> \in Seq(X)  BY EmptySeq
      <4> QED BY <4>1 DEF Pieces, X
    <3> QED BY <3>1, PayloadsAppend
  <2>5. <<>> \o S!RefData(S!DataOf(b)) = S!RefData(S!DataOf(b))
    <3> DEFINE U == Datum(L)
               r == S!RefData(S!DataOf(b))
    <3>1. r \in Seq(U)  BY <2>3 DEF Datums
    <3> HIDE DEF U, r
    <3>2. <<>> \o r = r  BY <3>1, ConcatEmptySeq
    <3> QED BY <3>2 DEF r
  <2>6. Append(<<>>, b) = <<b>>  OBVIOUS
  <2> QED BY <1>2, <2>4, <2>5, <2>6, NoPayloads0, Zenon
<1> QED BY <1>1, <1>2

\* The end of the stream: what is left in the buffer is its last event.
LEMMA EofHolds ==
  ASSUME StreamsInv, S!Eof
  PROVE  StreamsInv'
<1> DEFINE tail == IF buf = <<>> THEN <<>> ELSE <<buf>>
           n == Len(stream)
<1>0. /\ mode \in Modes /\ stream \in Answers[mode] /\ pos = n
      /\ ended = "no" /\ mode' = mode /\ stream' = stream /\ pos' = pos
      /\ seen' = seen \o S!Payloads(tail) /\ ended' = "eof"
  BY DEF StreamsInv, Heard, S!Eof, S!Take
<1>1. PICK e \in 0..pos : Pending(stream, pos, buf, scanFrom, seen, e)
  BY <1>0 DEF StreamsInv, Heard
<1>2. PICK L : stream \in Seq(L) /\ Spaced(stream)  BY <1>0, StreamIs
<1>3. n \in Nat /\ e \in Nat /\ e <= n /\ n <= Len(stream)
  <2>1. n \in Nat  BY <1>2
  <2>2. e \in 0..n  BY <1>0
  <2> HIDE DEF tail
  <2> QED BY <2>1, <2>2
<1> DEFINE R == [j \in 0..(n - e) |-> At(stream, e + j)]
<1>p. /\ buf = SubSeq(stream, e + 1, n)
      /\ At(stream, e).line = <<>> /\ At(stream, e).data = <<>> /\ At(stream, e).out = seen
      /\ \A k \in 1..Len(buf) : S!SeparatorAt(buf, k) = 0
  <2> HIDE DEF n, R
  <2> QED BY <1>0, <1>1 DEF Pending
<1>4. buf \in Seq(L) /\ Len(buf) = n - e
  <2> HIDE DEF n, R
  <2> QED BY <1>2, <1>3, <1>p, PieceOf
<1>5. Over(R, buf, L)
  <2> HIDE DEF n
  <2> QED BY <1>2, <1>3, <1>p, PieceIsRead
<1>6. R[0] = At(stream, e) /\ R[n - e] = At(stream, n)
  <2> HIDE DEF n
  <2>1. 0 \in 0..(n - e) /\ n - e \in 0..(n - e) /\ e + 0 = e /\ e + (n - e) = n  BY <1>3
  <2> QED BY <2>1
<1> DEFINE z == Len(buf)
<1> HIDE DEF R
<1>7. z \in Nat /\ z = n - e  BY <1>4
<1>8. Within(R, buf, 0, z)
  <2>1. R[0].line = <<>> /\ R[0].data = <<>>  BY <1>6, <1>p
  <2>2. \A k \in (0 + 1)..z : S!SeparatorAt(buf, k) = 0  BY <1>p
  <2>3. 0 \in Nat /\ 0 <= z /\ z <= Len(buf)  BY <1>7
  <2> QED BY <1>5, <1>7, <2>1, <2>2, <2>3, Unbroken
<1> DEFINE r == At(stream, n)
<1>9. R[z] = r  BY <1>6, <1>7
<1>10. SubSeq(buf, 0 + 1, z) = buf
  <2>1. SubSeq(buf, 1, Len(buf)) = buf  BY <1>4
  <2> QED BY <2>1
<1>11. r.out = seen /\ r.data \o Rest(r.line) = S!DataOf(buf)
  <2> HIDE DEF r, z
  <2>1. R[z].out = R[0].out /\ R[z].data \o Rest(R[z].line) = S!DataOf(SubSeq(buf, 0 + 1, z))
    BY <1>8 DEF Within
  <2> QED BY <1>6, <1>9, <1>10, <1>p, <2>1
<1>12. S!Payloads(tail) = S!RefData(S!DataOf(buf))  BY <1>4, TailHolds
<1>13. S!Everything(stream) = r.out \o S!RefData(r.data \o Rest(r.line))
  <2>1. S!Reference(stream) = r  BY <1>2, ReferenceAt
  <2> HIDE DEF r
  <2> QED BY <2>1, Zenon DEF S!Everything, Rest
<1>14. seen' = S!Everything(stream)
  <2> HIDE DEF tail, r
  <2> QED BY <1>0, <1>11, <1>12, <1>13
<1>15. pos' \in 0..Len(stream')
  <2> HIDE DEF tail
  <2> QED BY <1>0, <1>3
<1>16. Heard(stream', pos', buf', scanFrom', seen', ended')
  BY <1>0, <1>14, <1>15 DEF Heard
<1> QED BY <1>0, <1>16 DEF StreamsInv

\* A break or a hang-up: no frame is made of what is left in the buffer.
LEMMA StopHolds ==
  ASSUME StreamsInv, S!Break \/ S!HangUp
  PROVE  StreamsInv'
<1>1. /\ mode \in Modes /\ stream \in Answers[mode] /\ pos \in 0..Len(stream)
      /\ ended = "no" /\ mode' = mode /\ stream' = stream /\ pos' = pos
      /\ seen' \in {seen, seen \o S!Payloads(<<>>)} /\ ended' \in {"broken", "gone"}
      /\ seen = At(stream, pos).out
  BY DEF StreamsInv, Heard, S!Break, S!HangUp, S!Take
<1>2. PICK L : stream \in Seq(L)  BY <1>1, StreamIs
<1>3. seen \in Datums(L)
  <2>1. At(stream, pos) \in Readers(L)  BY <1>1, <1>2, ReferenceAt
  <2> QED BY <1>1, <2>1, ReaderIs
<1>4. seen \o <<>> = seen
  <2> DEFINE U == Datum(L)
  <2>1. seen \in Seq(U)  BY <1>3 DEF Datums
  <2> HIDE DEF U
  <2> QED BY <2>1, ConcatEmptySeq
<1>5. seen' = At(stream', pos').out  BY <1>1, <1>4, NoPayloads0
<1>6. Heard(stream', pos', buf', scanFrom', seen', ended')
  <2>1. ended' # "no" /\ ended' # "eof" /\ pos' \in 0..Len(stream')  BY <1>1
  <2> QED BY <1>5, <2>1 DEF Heard
<1> QED BY <1>1, <1>6 DEF StreamsInv

LEMMA StreamsSteps == StreamsInv /\ S!Next => StreamsInv'
BY ChunkHolds, EofHolds, StopHolds DEF S!Next

LEMMA StreamsStutters == StreamsInv /\ UNCHANGED streamVars => StreamsInv'
<1> SUFFICES ASSUME StreamsInv, UNCHANGED streamVars  PROVE StreamsInv'
  OBVIOUS
<1>1. /\ mode' = mode /\ stream' = stream /\ pos' = pos /\ buf' = buf /\ scanFrom' = scanFrom
      /\ seen' = seen /\ ended' = ended
  BY DEF streamVars
<1> QED BY <1>1 DEF StreamsInv

LEMMA DataType ==
  ASSUME NEW L, NEW f \in Seq(L)
  PROVE  S!DataOf(f) \in Datum(L)
<1>1. CASE f = <<>>  BY <1>1, NoData0, EmptySeq DEF Datum
<1>2. CASE f # <<>>
  <2>1. PICK x : x \in L  BY <1>2
  <2> QED BY <2>1, DataOfAppend
<1> QED BY <1>1, <1>2

----------------------------------------------------------------------------
(* Streams: the frames of a chunk, in their order. *)

\* What is carried from frame to frame.
LEMMA AbsorbedIs ==
  ASSUME NEW L, NEW fs \in Seq(L)
  PROVE  \E F : /\ F[0] = [agg |-> agg, counts |-> counts, posted |-> posted, recorded |-> recorded]
                /\ \A i \in 1..Len(fs) : F[i] = S!Absorb(F[i - 1], fs[i])
                /\ S!Absorbed(fs) = F[Len(fs)]
<1> DEFINE n == Len(fs)
           a == [agg |-> agg, counts |-> counts, posted |-> posted, recorded |-> recorded]
           Fits(R, m) == R = [i \in 0..m |-> IF i = 0 THEN a ELSE S!Absorb(R[i - 1], fs[i])]
           T == {m \in Nat : \E R : Fits(R, m)}
<1>0. n \in Nat  OBVIOUS
<1>1. ASSUME NEW m \in Nat, NEW R, Fits(R, m)
      PROVE  R[0] = a /\ \A i \in 1..m : R[i] = S!Absorb(R[i - 1], fs[i])
  <2>1. \A i \in 0..m : R[i] = IF i = 0 THEN a ELSE S!Absorb(R[i - 1], fs[i])  BY <1>1, Zenon
  <2>2. 0 \in 0..m /\ \A i \in 1..m : i \in 0..m /\ i # 0  OBVIOUS
  <2> HIDE DEF Fits, a
  <2> QED BY <2>1, <2>2
<1>2. 0 \in T
  <2> DEFINE R == [i \in 0..0 |-> a]
  <2> HIDE DEF a
  <2>1. R = [i \in 0..0 |-> IF i = 0 THEN a ELSE S!Absorb(R[i - 1], fs[i])]
    OBVIOUS
  <2> QED BY <2>1
<1>3. ASSUME NEW m \in T  PROVE m + 1 \in T
  <2>1. PICK R : Fits(R, m)  OBVIOUS
  <2> DEFINE H == [i \in 0..(m + 1) |-> IF i = m + 1 THEN S!Absorb(R[i - 1], fs[i]) ELSE R[i]]
  <2>2. \A i \in 0..m : H[i] = R[i]  OBVIOUS
  <2>3. R[0] = a /\ \A i \in 1..m : R[i] = S!Absorb(R[i - 1], fs[i])  BY <1>1, <2>1
  <2>4. H[m + 1] = S!Absorb(R[m], fs[m + 1])
    <3>1. m + 1 \in 0..(m + 1) /\ m + 1 - 1 = m  OBVIOUS
    <3> QED BY <3>1
  <2>5. H = [i \in 0..(m + 1) |-> H[i]]  OBVIOUS
  <2> HIDE DEF H, Fits, a
  <2>6. \A i \in 0..(m + 1) : H[i] = IF i = 0 THEN a ELSE S!Absorb(H[i - 1], fs[i])
    <3>1. \A i \in 1..m : i \in 0..m /\ i - 1 \in 0..m  OBVIOUS
    <3>2. \A i \in 0..(m + 1) : i = 0 \/ (i # 0 /\ i \in 1..m) \/ (i = m + 1 /\ i # 0 /\ i - 1 = m)
      OBVIOUS
    <3>3. 0 \in 0..m /\ m \in 0..m  OBVIOUS
    <3> QED BY <2>2, <2>3, <2>4, <3>1, <3>2, <3>3
  <2>7. Fits(H, m + 1)  BY <2>5, <2>6, Zenon DEF Fits
  <2> QED BY <2>7
<1>4. T = Nat
  <2>1. T \in SUBSET Nat  OBVIOUS
  <2> HIDE DEF T
  <2> QED BY <1>2, <1>3, <2>1, SetInduction
<1> DEFINE R == CHOOSE f : Fits(f, n)
<1>5. Fits(R, n)
  <2> HIDE DEF Fits
  <2> QED BY <1>0, <1>4
<1>6. S!Absorbed(fs) = R[n]  BY DEF S!Absorbed
<1> HIDE DEF R
<1>7. R[0] = a /\ \A i \in 1..n : R[i] = S!Absorb(R[i - 1], fs[i])  BY <1>0, <1>1, <1>5
<1> HIDE DEF Fits
<1> QED BY <1>6, <1>7

\* F is carried and O has been seen, from the first of n frames to the last.
InTurn(F, O, fs, n, L) ==
  /\ F[0] = [agg |-> agg, counts |-> counts, posted |-> posted, recorded |-> recorded] /\ O[0] = seen
  /\ \A i \in 1..n : /\ F[i] = S!Absorb(F[i - 1], fs[i]) /\ fs[i] \in Seq(L)
                     /\ O[i] = O[i - 1] \o S!RefData(S!DataOf(fs[i]))
  /\ \A i \in 0..n : O[i] \in Datums(L)
  /\ F[n] = S!Absorbed(fs) /\ O[n] = seen \o S!Payloads(fs)

LEMMA Absorbing ==
  ASSUME NEW L, NEW fs \in Pieces(L), seen \in Datums(L)
  PROVE  \E F, O : InTurn(F, O, fs, Len(fs), L)
<1> DEFINE n == Len(fs)
           Before(i) == SubSeq(fs, 1, i)
           P == Seq(L)
           O == [i \in 0..n |-> seen \o S!Payloads(Before(i))]
<1>0. fs \in Seq(P) /\ n \in Nat  BY DEF Pieces
<1>1. PICK F : /\ F[0] = [agg |-> agg, counts |-> counts, posted |-> posted, recorded |-> recorded]
               /\ \A i \in 1..n : F[i] = S!Absorb(F[i - 1], fs[i])
               /\ S!Absorbed(fs) = F[n]
  <2> HIDE DEF P
  <2> QED BY <1>0, AbsorbedIs
<1>s. \A i \in 0..n : Before(i) \in Pieces(L)
  <2> HIDE DEF P
  <2> SUFFICES ASSUME NEW i \in 0..n  PROVE Before(i) \in Seq(P)
    BY DEF Pieces, P
  <2>1. 0 + 1 = 1 /\ i \in Nat /\ 0 <= i /\ i <= Len(fs)  BY <1>0
  <2>2. SubSeq(fs, 0 + 1, i) \in Seq(P)  BY <1>0, <2>1, PieceOf
  <2> QED BY <2>1, <2>2
<1>t. \A i \in 0..n : S!Payloads(Before(i)) \in Datums(L)
  <2> SUFFICES ASSUME NEW i \in 0..n  PROVE S!Payloads(Before(i)) \in Datums(L)
    OBVIOUS
  <2>1. Before(i) \in Pieces(L)  BY <1>s
  <2>2. <<>> \in Seq(L)  BY EmptySeq
  <2> HIDE DEF Before
  <2> QED BY <2>1, <2>2, PayloadsAppend
<1>o. \A i \in 0..n : O[i] = seen \o S!Payloads(Before(i))  OBVIOUS
<1> HIDE DEF O
<1>2. O[0] = seen
  <2>1. Before(0) = <<>>  BY SubSeqEmpty
  <2>2. seen \o <<>> = seen
    <3> DEFINE U == Datum(L)
    <3>1. seen \in Seq(U)  BY DEF Datums
    <3> HIDE DEF U
    <3> QED BY <3>1, ConcatEmptySeq
  <2>3. S!Payloads(Before(0)) = <<>>  BY <2>1, NoPayloads0
  <2>4. 0 \in 0..n  BY <1>0
  <2> HIDE DEF Before
  <2> QED BY <1>o, <2>2, <2>3, <2>4
<1>3. ASSUME NEW i \in 0..n  PROVE O[i] \in Datums(L)
  <2> DEFINE U == Datum(L)
             q == S!Payloads(Before(i))
  <2>1. seen \in Seq(U) /\ q \in Seq(U)  BY <1>t DEF Datums
  <2>2. O[i] = seen \o q  BY <1>o
  <2> HIDE DEF U, q
  <2>3. seen \o q \in Seq(U)  BY <2>1, ConcatProperties
  <2> QED BY <2>2, <2>3 DEF Datums, U
<1>4. ASSUME NEW i \in 1..n
      PROVE  fs[i] \in Seq(L) /\ O[i] = O[i - 1] \o S!RefData(S!DataOf(fs[i]))
  <2> DEFINE h == i - 1
             d == S!RefData(S!DataOf(fs[i]))
             old == Before(h)
             q == S!Payloads(old)
  <2>0. h \in Nat /\ i \in Nat /\ i = h + 1 /\ h \in 0..n /\ i \in 0..n /\ 0 <= h /\ h + 1 <= n  BY <1>0
  <2>2. fs[i] \in Seq(L)
    <3>1. fs[i] \in P
      <4> HIDE DEF P
      <4> QED BY <1>0
    <3> QED BY <3>1
  <2>3. Before(i) = Append(old, fs[i])
    <3> HIDE DEF P, h
    <3>1. SubSeq(fs, 0 + 1, h + 1) = Append(SubSeq(fs, 0 + 1, h), fs[h + 1])
      BY <1>0, <2>0, PieceGrows
    <3> QED BY <2>0, <3>1
  <2>4. old \in Pieces(L) /\ q \in Datums(L)  BY <1>s, <1>t, <2>0
  <2>5. S!Payloads(Before(i)) = q \o d
    <3> HIDE DEF Before, old, h
    <3>1. S!Payloads(Append(old, fs[i])) = S!Payloads(old) \o d  BY <2>2, <2>4, PayloadsAppend
    <3> QED BY <2>3, <3>1
  <2>6. O[i] = seen \o (q \o d) /\ O[h] = seen \o q  BY <1>o, <2>0, <2>5
  <2>7. seen \o (q \o d) = (seen \o q) \o d
    <3> DEFINE U == Datum(L)
    <3>1. d \in Datums(L)
      <4>1. S!DataOf(fs[i]) \in U  BY <2>2, DataType
      <4> QED BY <4>1, RefDataType
    <3>2. seen \in Seq(U) /\ q \in Seq(U) /\ d \in Seq(U)  BY <2>4, <3>1 DEF Datums
    <3> HIDE DEF U, d, q
    <3> QED BY <3>2, ConcatAssociative
  <2> HIDE DEF q, d
  <2> QED BY <2>2, <2>6, <2>7 DEF d
<1>5. O[n] = seen \o S!Payloads(fs)
  <2>1. Before(n) = fs
    <3> HIDE DEF P
    <3> QED BY <1>0, SubSeqFull
  <2>2. n \in 0..n  BY <1>0
  <2> QED BY <1>o, <2>1, <2>2
<1> HIDE DEF n
<1>6. InTurn(F, O, fs, n, L)  BY <1>1, <1>2, <1>3, <1>4, <1>5 DEF InTurn
<1> QED BY <1>6 DEF n

----------------------------------------------------------------------------
(* Streams: what a Claude stream counts. *)

LEMMA LargestThere ==
  ASSUME NEW n \in Nat, NEW K \in SUBSET (1..n), K # {}
  PROVE  \E x \in K : \A y \in K : x >= y
<1> DEFINE T == {m \in Nat : \A J \in SUBSET (1..m) : J # {} => \E x \in J : \A y \in J : x >= y}
<1>1. 0 \in T
  <2>1. \A J \in SUBSET (1..0) : J = {}  OBVIOUS
  <2> QED BY <2>1
<1>2. ASSUME NEW i \in 1..n, i - 1 \in T  PROVE i \in T
  <2> SUFFICES ASSUME NEW J \in SUBSET (1..i), J # {}  PROVE \E x \in J : \A y \in J : x >= y
    OBVIOUS
  <2>0. i \in Nat /\ \A y \in J : y \in Nat /\ y <= i  OBVIOUS
  <2>1. CASE i \in J  BY <2>0, <2>1
  <2>2. CASE i \notin J
    <3>1. J \in SUBSET (1..(i - 1))  BY <2>0, <2>2
    <3> QED BY <1>2, <3>1
  <2> QED BY <2>1, <2>2
<1>3. \A i \in 0..n : i \in T
  <2> HIDE DEF T
  <2> QED BY <1>1, <1>2, UpTo
<1>4. n \in 0..n  OBVIOUS
<1>5. n \in T
  <2> HIDE DEF T
  <2> QED BY <1>3, <1>4
<1> QED BY <1>5

LEMMA LargestIn ==
  ASSUME NEW n \in Nat, NEW K \in SUBSET (1..n), K # {}
  PROVE  S!Max(K) \in K /\ \A y \in K : S!Max(K) >= y
BY LargestThere DEF S!Max

LEMMA LargestIsLast ==
  ASSUME NEW n \in Nat, NEW K \in SUBSET (1..n)
  PROVE  S!Max(K \cup {n + 1}) = n + 1
<1> DEFINE J == K \cup {n + 1}
<1>1. J \in SUBSET (1..(n + 1)) /\ J # {} /\ n + 1 \in Nat /\ n + 1 \in J  OBVIOUS
<1>2. S!Max(J) \in J /\ \A y \in J : S!Max(J) >= y
  <2> HIDE DEF J
  <2> QED BY <1>1, LargestIn
<1>3. \A y \in J : y \in Nat /\ y <= n + 1  OBVIOUS
<1> HIDE DEF J
<1>4. S!Max(J) = n + 1
  <2>1. S!Max(J) \in Nat /\ S!Max(J) <= n + 1  BY <1>2, <1>3
  <2>2. S!Max(J) >= n + 1  BY <1>1, <1>2
  <2> HIDE DEF S!Max
  <2> QED BY <1>1, <2>1, <2>2
<1> QED BY <1>4 DEF J

IsStop(p) == Event(p) # Junk /\ Event(p).type = "message_stop"
IsCarrier(p) == Event(p) # Junk /\ Event(p).type \in {"message_start", "message_delta"}

LEMMA StopsAppend ==
  ASSUME NEW U, NEW s \in Seq(U), NEW p \in U
  PROVE  S!Stops(Append(s, p)) = S!Stops(s) \cup (IF IsStop(p) THEN {Len(s) + 1} ELSE {})
<1> DEFINE t == Append(s, p)
           n == Len(s)
<1>1. n \in Nat /\ DOMAIN s = 1..n /\ DOMAIN t = 1..(n + 1) /\ t[n + 1] = p /\ \A k \in 1..n : t[k] = s[k]
  OBVIOUS
<1>2. \A k : k \in 1..(n + 1) <=> k \in 1..n \/ k = n + 1  BY <1>1
<1> HIDE DEF t, n
<1>3. S!Stops(t) = S!Stops(s) \cup (IF IsStop(p) THEN {n + 1} ELSE {})
  BY <1>1, <1>2 DEF S!Stops, IsStop
<1> QED BY <1>3 DEF t, n

LEMMA CountedAppend ==
  ASSUME NEW U, NEW s \in Seq(U), NEW p \in U
  PROVE  S!Counted(Append(s, p)) =
           S!Counted(s) \cup (IF IsCarrier(p) /\ S!Stops(s) = {} THEN {Len(s) + 1} ELSE {})
<1> DEFINE t == Append(s, p)
           n == Len(s)
           before == S!Stops(s)
           after == S!Stops(t)
<1>1. n \in Nat /\ DOMAIN s = 1..n /\ DOMAIN t = 1..(n + 1) /\ t[n + 1] = p /\ \A k \in 1..n : t[k] = s[k]
  OBVIOUS
<1>2. after = before \cup (IF IsStop(p) THEN {n + 1} ELSE {})  BY StopsAppend
<1>3. before \in SUBSET (1..n)  BY <1>1 DEF S!Stops
<1>c. \A k \in 1..n : (k < n + 1) /\ ~ (n + 1 < k)  BY <1>1
<1>d. ~ (n + 1 < n + 1) /\ \A k : k \in 1..(n + 1) <=> k \in 1..n \/ k = n + 1  BY <1>1
<1>4. IsCarrier(p) => ~ IsStop(p)  BY DEF IsCarrier, IsStop
<1>5. S!Counted(t) = {k \in 1..(n + 1) : IsCarrier(t[k]) /\ \A j \in after : k < j}
  BY <1>1 DEF S!Counted, S!Carriers, IsCarrier
<1>6. S!Counted(s) = {k \in 1..n : IsCarrier(s[k]) /\ \A j \in before : k < j}
  BY <1>1 DEF S!Counted, S!Carriers, IsCarrier
<1> HIDE DEF t, n, before, after
<1>7. ASSUME NEW k \in 1..n  PROVE k \in S!Counted(t) <=> k \in S!Counted(s)
  <2>1. k \in 1..(n + 1) /\ t[k] = s[k] /\ k < n + 1  BY <1>1, <1>c, <1>d
  <2>2. (\A j \in after : k < j) <=> (\A j \in before : k < j)  BY <1>2, <2>1
  <2> QED BY <1>5, <1>6, <2>1, <2>2
<1>8. n + 1 \in S!Counted(t) <=> IsCarrier(p) /\ before = {}
  <2>1. (\A j \in after : n + 1 < j) <=> after = {}  BY <1>2, <1>3, <1>c, <1>d
  <2>2. IsCarrier(p) => after = before  BY <1>2, <1>4
  <2> QED BY <1>1, <1>5, <1>d, <2>1, <2>2
<1>9. \A k : k \in S!Counted(t) => k \in 1..n \/ k = n + 1  BY <1>5, <1>d
<1>10. n + 1 \notin S!Counted(s)  BY <1>1, <1>6
<1>11. \A k : k \in S!Counted(s) => k \in 1..n  BY <1>6
<1>12. S!Counted(t) = S!Counted(s) \cup (IF IsCarrier(p) /\ before = {} THEN {n + 1} ELSE {})
  BY <1>7, <1>8, <1>9, <1>11
<1> QED BY <1>12 DEF t, n, before

Stated(s, kind) == {k \in S!Counted(s) : S!Counts(Event(s[k]))[kind] # Junk}

LEMMA TotalIs ==
  \A s, kind : S!Total(s, kind) = IF Stated(s, kind) = {} THEN Junk
                                  ELSE S!Counts(Event(s[S!Max(Stated(s, kind))]))[kind]
BY DEF S!Total, Stated

\* The last total of a kind, when one more event has come.
LEMMA TotalAppend ==
  ASSUME NEW U, NEW s \in Seq(U), NEW p \in U, NEW kind
  PROVE  S!Total(Append(s, p), kind) =
           IF IsCarrier(p) /\ S!Stops(s) = {} THEN S!Or(S!Counts(Event(p))[kind], S!Total(s, kind))
           ELSE S!Total(s, kind)
<1> DEFINE t == Append(s, p)
           n == Len(s)
           more == IsCarrier(p) /\ S!Stops(s) = {}
           v == S!Counts(Event(p))[kind]
           old == Stated(s, kind)
           new == Stated(t, kind)
<1>1. n \in Nat /\ DOMAIN s = 1..n /\ t[n + 1] = p /\ \A k \in 1..n : t[k] = s[k]
  OBVIOUS
<1>2. S!Counted(t) = S!Counted(s) \cup (IF more THEN {n + 1} ELSE {})  BY CountedAppend
<1>3. S!Counted(s) \in SUBSET (1..n)  BY <1>1 DEF S!Counted
<1>4. old \in SUBSET (1..n)  BY <1>3 DEF Stated
<1>t. /\ S!Total(t, kind) = IF new = {} THEN Junk ELSE S!Counts(Event(t[S!Max(new)]))[kind]
      /\ S!Total(s, kind) = IF old = {} THEN Junk ELSE S!Counts(Event(s[S!Max(old)]))[kind]
  BY TotalIs
<1> HIDE DEF t, n, more
<1>5. new = old \cup (IF more /\ v # Junk THEN {n + 1} ELSE {})
  BY <1>1, <1>2, <1>3 DEF Stated
<1> HIDE DEF new, old, v
<1>6. CASE more /\ v # Junk
  <2>1. new = old \cup {n + 1}  BY <1>5, <1>6
  <2>2. S!Max(new) = n + 1
    <3>1. S!Max(old \cup {n + 1}) = n + 1  BY <1>1, <1>4, LargestIsLast
    <3> QED BY <2>1, <3>1
  <2>3. n + 1 \in new  BY <2>1
  <2>4. S!Total(t, kind) = v  BY <1>1, <1>t, <2>2, <2>3 DEF v
  <2> QED BY <1>6, <2>4 DEF S!Or, t, more, v
<1>7. CASE ~ (more /\ v # Junk)
  <2>1. new = old  BY <1>5, <1>7
  <2>2. S!Total(t, kind) = S!Total(s, kind)
    <3>1. CASE old = {}  BY <1>t, <2>1, <3>1
    <3>2. CASE old # {}
      <4>1. S!Max(old) \in old  BY <1>1, <1>4, <3>2, LargestIn
      <4>2. t[S!Max(old)] = s[S!Max(old)]  BY <1>1, <1>4, <4>1
      <4> QED BY <1>t, <2>1, <3>2, <4>2
    <3> QED BY <3>1, <3>2
  <2> QED BY <1>7, <2>2 DEF S!Or, t, more, v
<1> QED BY <1>6, <1>7

----------------------------------------------------------------------------
(* Streams: what a Claude stream posts. *)

EventIn(f) == IF S!Payload(f) = <<>> THEN Junk ELSE Event(S!Payload(f))

\* What the body of a stream carries from frame to frame.
Carrying(s) == s = [agg |-> s.agg, counts |-> s.counts, posted |-> s.posted, recorded |-> s.recorded]

LEMMA AbsorbCarrier ==
  ASSUME mode = "claude", NEW f, NEW s, Carrying(s), EventIn(f) # Junk,
         EventIn(f).type \in {"message_start", "message_delta"}
  PROVE  S!Absorb(s, f) =
           [agg |-> s.agg,
            counts |-> [input |-> S!Or(EventIn(f).input, s.counts.input),
                        output |-> S!Or(EventIn(f).count, s.counts.output)],
            posted |-> s.posted, recorded |-> s.recorded]
BY DEF S!Absorb, S!ClaudeObserve, EventIn, Carrying

LEMMA AbsorbStop ==
  ASSUME mode = "claude", NEW f, NEW s, Carrying(s), EventIn(f) # Junk, EventIn(f).type = "message_stop"
  PROVE  S!Absorb(s, f) = S!Flush(s)
<1>1. EventIn(f).type \notin {"message_start", "message_delta"}  OBVIOUS
<1> QED BY <1>1 DEF S!Absorb, S!ClaudeObserve, EventIn

LEMMA AbsorbOther ==
  ASSUME mode = "claude", NEW f, NEW s,
         EventIn(f) = Junk \/ EventIn(f).type \notin {"message_start", "message_delta", "message_stop"}
  PROVE  S!Absorb(s, f) = s
BY DEF S!Absorb, S!ClaudeObserve, EventIn

LEMMA FlushIs ==
  ASSUME NEW s, Carrying(s)
  PROVE  S!Flush(s) =
           IF s.recorded THEN s
           ELSE [agg |-> s.agg, counts |-> s.counts, posted |-> S!SetTokens(s.posted, s.counts),
                 recorded |-> TRUE]
<1>1. CASE s.recorded  BY <1>1 DEF S!Flush
<1>2. CASE ~ s.recorded
  <2> DEFINE x == S!SetTokens(s.posted, s.counts)
  <2>1. S!Flush(s) = [s EXCEPT !.recorded = TRUE, !.posted = x]  BY <1>2 DEF S!Flush
  <2> HIDE DEF x
  <2>2. [s EXCEPT !.recorded = TRUE, !.posted = x]
          = [agg |-> s.agg, counts |-> s.counts, posted |-> x, recorded |-> TRUE]
    <3>1. s = [agg |-> s.agg, counts |-> s.counts, posted |-> s.posted, recorded |-> s.recorded]
      BY DEF Carrying
    <3> DEFINE yes == TRUE
               a == s.agg
               c == s.counts
               q == s.posted
               r == s.recorded
    <3> SUFFICES [s EXCEPT !.recorded = yes, !.posted = x]
                   = [agg |-> a, counts |-> c, posted |-> x, recorded |-> yes]
      OBVIOUS
    <3>2. s = [agg |-> a, counts |-> c, posted |-> q, recorded |-> r]  BY <3>1
    <3> HIDE DEF yes, a, c, q, r
    <3> DEFINE u == [s EXCEPT !.recorded = yes]
    <3>4. u = [agg |-> a, counts |-> c, posted |-> q, recorded |-> yes]  BY ONLY <3>2
    <3>5. [s EXCEPT !.recorded = yes, !.posted = x] = [u EXCEPT !.posted = x]  OBVIOUS
    <3> HIDE DEF u
    <3>6. [u EXCEPT !.posted = x] = [agg |-> a, counts |-> c, posted |-> x, recorded |-> yes]
      BY ONLY <3>4
    <3> QED BY ONLY <3>5, <3>6
  <2> QED BY <1>2, <2>1, <2>2 DEF x
<1> QED BY <1>1, <1>2

\* What has been counted and posted after the payloads of out.
Counting(out, s) ==
  /\ Carrying(s)
  /\ s.recorded \in BOOLEAN
  /\ ~ s.recorded => S!Stops(out) = {} /\ s.counts = S!Totals(out) /\ s.posted = <<>>
  /\ s.recorded => s.posted = S!SetTokens(<<>>, S!Totals(out))

\* ... while the stream goes on.
Going(out, s) == Counting(out, s) /\ (s.recorded => S!Stops(out) # {})

LEMMA FlushCounts ==
  ASSUME NEW out, NEW s, Counting(out, s)
  PROVE  Counting(out, S!Flush(s)) /\ S!Flush(s).recorded
<1>1. CASE s.recorded
  <2>1. S!Flush(s) = s  BY <1>1, FlushIs DEF Counting
  <2> QED BY <1>1, <2>1
<1>2. CASE ~ s.recorded
  <2>1. S!Flush(s) = [agg |-> s.agg, counts |-> s.counts, posted |-> S!SetTokens(s.posted, s.counts),
                      recorded |-> TRUE]
    BY <1>2, FlushIs DEF Counting
  <2>2. s.counts = S!Totals(out) /\ s.posted = <<>>  BY <1>2 DEF Counting
  <2> QED BY <2>1, <2>2 DEF Counting, Carrying
<1> QED BY <1>1, <1>2

\* One frame.
LEMMA AbsorbCounts ==
  ASSUME mode = "claude", NEW L, NEW out \in Datums(L), NEW f \in Seq(L), NEW s, Going(out, s)
  PROVE  Going(out \o S!RefData(S!DataOf(f)), S!Absorb(s, f))
<1> DEFINE d == S!DataOf(f)
           U == Datum(L)
           p == S!Payload(f)
           t == Append(out, p)
           z == S!Absorb(s, f)
<1>1. d \in U /\ out \in Seq(U)
  <2>1. d \in U  BY DataType
  <2> QED BY <2>1 DEF Datums
<1>2. CASE p = <<>>
  <2>1. S!RefData(d) = <<>>  BY <1>2 DEF S!RefData, S!Payload
  <2>2. out \o <<>> = out
    <3> HIDE DEF U
    <3> QED BY <1>1, ConcatEmptySeq
  <2>3. z = s  BY <1>2, AbsorbOther DEF EventIn
  <2> QED BY <2>1, <2>2, <2>3
<1>3. CASE p # <<>>
  <2>1. S!RefData(d) = <<p>> /\ p = d  BY <1>3 DEF S!RefData, S!Payload
  <2>2. p \in U /\ out \o <<p>> = t
    <3> HIDE DEF U
    <3>1. p \in U  BY <1>1, <2>1
    <3> QED BY <1>1, <3>1
  <2>3. EventIn(f) = Event(p)  BY <1>3 DEF EventIn
  <2>u. out \o S!RefData(S!DataOf(f)) = t  BY <2>1, <2>2
  <2>s. S!Stops(t) = S!Stops(out) \cup (IF IsStop(p) THEN {Len(out) + 1} ELSE {})
    <3> HIDE DEF U, p
    <3> QED BY <1>1, <2>2, StopsAppend
  <2>t. \A kind : S!Total(t, kind) =
           IF IsCarrier(p) /\ S!Stops(out) = {} THEN S!Or(S!Counts(Event(p))[kind], S!Total(out, kind))
           ELSE S!Total(out, kind)
    <3> HIDE DEF U, p
    <3> QED BY <1>1, <2>2, TotalAppend
  <2> SUFFICES Going(t, z)  BY <2>u
  <2> HIDE DEF U, p, t, d
  <2>4. CASE IsCarrier(p)
    <3>1. z = [agg |-> s.agg,
               counts |-> [input |-> S!Or(Event(p).input, s.counts.input),
                           output |-> S!Or(Event(p).count, s.counts.output)],
               posted |-> s.posted, recorded |-> s.recorded]
      BY <2>3, <2>4, AbsorbCarrier DEF IsCarrier, Going, Counting
    <3>2. S!Stops(t) = S!Stops(out)  BY <2>4, <2>s DEF IsCarrier, IsStop
    <3>3. CASE s.recorded
      <4>1. S!Totals(t) = S!Totals(out)
        BY <2>t, <3>3 DEF S!Totals, Going
      <4> HIDE DEF z
      <4> QED BY <3>1, <3>2, <3>3, <4>1 DEF Going, Counting, Carrying
    <3>4. CASE ~ s.recorded
      <4>1. S!Stops(out) = {} /\ s.counts = S!Totals(out) /\ s.posted = <<>>
        BY <3>4 DEF Going, Counting
      <4>2. /\ S!Counts(Event(p))["input"] = Event(p).input
            /\ S!Counts(Event(p))["output"] = Event(p).count
        BY DEF S!Counts
      <4>3. /\ S!Total(t, "input") = S!Or(Event(p).input, s.counts.input)
            /\ S!Total(t, "output") = S!Or(Event(p).count, s.counts.output)
        BY <2>4, <2>t, <4>1, <4>2 DEF S!Totals
      <4>4. z.counts = S!Totals(t)  BY <3>1, <4>3 DEF S!Totals
      <4>5. z.posted = <<>> /\ ~ z.recorded /\ z.recorded \in BOOLEAN /\ Carrying(z)
        <5>1. s.recorded \in BOOLEAN  BY DEF Going, Counting
        <5> HIDE DEF z
        <5> QED BY <3>1, <3>4, <4>1, <5>1 DEF Carrying
      <4> HIDE DEF z
      <4> QED BY <3>2, <4>1, <4>4, <4>5 DEF Going, Counting
    <3> QED BY <3>3, <3>4
  <2>5. CASE IsStop(p)
    <3>1. z = S!Flush(s)  BY <2>3, <2>5, AbsorbStop DEF IsStop, Going, Counting
    <3>2. S!Totals(t) = S!Totals(out)
      <4>1. ~ IsCarrier(p)  BY <2>5 DEF IsCarrier, IsStop
      <4> QED BY <2>t, <4>1 DEF S!Totals
    <3>3. S!Stops(t) # {}  BY <2>5, <2>s
    <3>4. Counting(out, z) /\ z.recorded  BY <3>1, FlushCounts DEF Going
    <3> HIDE DEF z
    <3>5. Counting(t, z)  BY <3>2, <3>4 DEF Counting
    <3> QED BY <3>3, <3>4, <3>5 DEF Going
  <2>6. CASE ~ IsCarrier(p) /\ ~ IsStop(p)
    <3>1. z = s  BY <2>3, <2>6, AbsorbOther DEF IsCarrier, IsStop
    <3>2. S!Totals(t) = S!Totals(out) /\ S!Stops(t) = S!Stops(out)
      BY <2>6, <2>s, <2>t DEF S!Totals
    <3> QED BY <3>1, <3>2 DEF Going, Counting
  <2> QED BY <2>4, <2>5, <2>6
<1> QED BY <1>2, <1>3

\* All the frames of a chunk, in their order.
LEMMA AbsorbedCounts ==
  ASSUME mode = "claude", NEW L, NEW fs \in Pieces(L), seen \in Datums(L),
         Going(seen, [agg |-> agg, counts |-> counts, posted |-> posted, recorded |-> recorded])
  PROVE  Going(seen \o S!Payloads(fs), S!Absorbed(fs))
<1> DEFINE n == Len(fs)
<1>1. PICK F, O : InTurn(F, O, fs, n, L)  BY Absorbing
<1>2. n \in Nat  BY DEF Pieces
<1> DEFINE T == {k \in Nat : Going(O[k], F[k])}
<1>3. 0 \in T  BY <1>1 DEF InTurn
<1>4. ASSUME NEW i \in 1..n, i - 1 \in T  PROVE i \in T
  <2>1. i \in Nat /\ i - 1 \in 0..n  BY <1>2
  <2>2. /\ O[i - 1] \in Datums(L) /\ fs[i] \in Seq(L) /\ F[i] = S!Absorb(F[i - 1], fs[i])
        /\ O[i] = O[i - 1] \o S!RefData(S!DataOf(fs[i]))
    BY <1>1, <2>1 DEF InTurn
  <2>3. Going(O[i - 1], F[i - 1])  BY <1>4
  <2>4. Going(O[i], F[i])  BY <2>2, <2>3, AbsorbCounts
  <2> QED BY <2>1, <2>4
<1>5. \A i \in 0..n : i \in T
  <2> HIDE DEF T, n
  <2> QED BY <1>2, <1>3, <1>4, UpTo
<1>6. n \in T
  <2> HIDE DEF T
  <2> QED BY <1>2, <1>5
<1> QED BY <1>1, <1>6 DEF InTurn

\* What a Claude stream has counted and posted.
CountsInv ==
  mode = "claude" =>
    LET s == [agg |-> agg, counts |-> counts, posted |-> posted, recorded |-> recorded]
    IN  /\ Counting(seen, s)
        /\ ended = "no" => Going(seen, s)
        /\ ended \in {"eof", "broken"} => recorded

LEMMA CountsStart == S!Init => CountsInv
<1> SUFFICES ASSUME S!Init  PROVE CountsInv
  OBVIOUS
<1> DEFINE s == [agg |-> agg, counts |-> counts, posted |-> posted, recorded |-> recorded]
<1>1. seen = <<>> /\ counts = S!Nothing /\ posted = <<>> /\ recorded = FALSE /\ ended = "no"
  BY DEF S!Init
<1>2. S!Stops(<<>>) = {} /\ S!Counted(<<>>) = {}  BY DEF S!Stops, S!Counted
<1>3. S!Totals(<<>>) = S!Nothing
  <2>1. \A kind : S!Total(<<>>, kind) = Junk  BY <1>2 DEF S!Total
  <2> QED BY <2>1 DEF S!Totals, S!Nothing
<1>4. Carrying(s) /\ s.counts = counts /\ s.posted = posted /\ s.recorded = recorded  BY DEF Carrying
<1> HIDE DEF s
<1>5. Going(seen, s)  BY <1>1, <1>2, <1>3, <1>4 DEF Going, Counting
<1> QED BY <1>1, <1>5 DEF CountsInv, Going, s

LEMMA FramesTyped ==
  ASSUME NEW L, NEW b \in Seq(L), NEW from
  PROVE  S!Scan(b, from).frames \in Pieces(L)
<1>1. PICK F : (\A i \in 0..Len(b) : F[i] \in Scans(L)) /\ S!Scan(b, from) = F[Len(b)]
  BY ScanIs
<1>2. Len(b) \in 0..Len(b)  OBVIOUS
<1>3. S!Scan(b, from) \in Scans(L)  BY <1>1, <1>2
<1> QED BY <1>3 DEF Scans

LEMMA HeldTyped ==
  ASSUME StreamsInv, ended = "no"
  PROVE  \E L : stream \in Seq(L) /\ buf \in Seq(L) /\ seen \in Datums(L)
<1>1. /\ mode \in Modes /\ stream \in Answers[mode] /\ pos \in 0..Len(stream)
      /\ seen = At(stream, pos).out
  BY DEF StreamsInv, Heard
<1>2. PICK e \in 0..pos : Pending(stream, pos, buf, scanFrom, seen, e)
  BY DEF StreamsInv, Heard
<1>3. PICK L : stream \in Seq(L)  BY <1>1, StreamIs
<1>4. seen \in Datums(L)
  <2>1. At(stream, pos) \in Readers(L)  BY <1>1, <1>3, ReferenceAt
  <2> QED BY <1>1, <2>1, ReaderIs
<1>5. buf \in Seq(L)
  <2>1. Len(stream) \in Nat  BY <1>3
  <2>2. e \in Nat /\ pos \in Nat /\ e <= pos /\ pos <= Len(stream)  BY <1>1, <2>1
  <2>3. SubSeq(stream, e + 1, pos) \in Seq(L)  BY <1>3, <2>2, PieceOf
  <2> QED BY <1>2, <2>3 DEF Pending
<1> QED BY <1>3, <1>4, <1>5

LEMMA ChunkCounts ==
  ASSUME StreamsInv, CountsInv, NEW n \in 1..MaxChunk, S!Chunk(n)
  PROVE  CountsInv'
<1> DEFINE bytes == SubSeq(stream, pos + 1, pos + n)
           b == buf \o bytes
           fs == S!Scan(b, scanFrom).frames
           s == S!Absorbed(fs)
           old == [agg |-> agg, counts |-> counts, posted |-> posted, recorded |-> recorded]
<1> SUFFICES ASSUME mode = "claude"  PROVE CountsInv'
  BY DEF S!Chunk, CountsInv
<1>1. /\ ended = "no" /\ pos + n <= Len(stream) /\ mode' = mode
      /\ agg' = s.agg /\ counts' = s.counts /\ recorded' = s.recorded /\ posted' = s.posted
      /\ seen' = seen \o S!Payloads(fs) /\ ended' = ended
  <2>1. mode # "buffer"  OBVIOUS
  <2>2. /\ ended = "no" /\ pos + n <= Len(stream) /\ mode' = mode /\ S!Take(s, fs)
    BY DEF S!Chunk
  <2>3. ended' = ended  BY <2>1 DEF S!Chunk
  <2> HIDE DEF s, fs
  <2> QED BY <2>1, <2>2, <2>3 DEF S!Take
<1>2. PICK L : stream \in Seq(L) /\ buf \in Seq(L) /\ seen \in Datums(L)  BY <1>1, HeldTyped
<1>3. b \in Seq(L)
  <2>1. Len(stream) \in Nat /\ pos \in 0..Len(stream)  BY <1>2 DEF StreamsInv, Heard
  <2>2. n \in Nat  BY StreamsAssumption
  <2> DEFINE m == pos + n
  <2>3. pos \in Nat /\ m \in Nat /\ pos <= m /\ m <= Len(stream)  BY <1>1, <2>1, <2>2
  <2> HIDE DEF m
  <2>4. SubSeq(stream, pos + 1, m) \in Seq(L)  BY <1>2, <2>3, PieceOf
  <2>5. bytes \in Seq(L)  BY <2>4 DEF m
  <2> HIDE DEF bytes
  <2> QED BY <1>2, <2>5
<1> HIDE DEF b
<1>4. fs \in Pieces(L)  BY <1>3, FramesTyped
<1>5. Going(seen, old) /\ recorded \in BOOLEAN
  BY <1>1 DEF CountsInv, Counting
<1> HIDE DEF fs
<1>6. Going(seen \o S!Payloads(fs), s)  BY <1>2, <1>4, <1>5, AbsorbedCounts
<1> HIDE DEF s
<1>7. [agg |-> agg', counts |-> counts', posted |-> posted', recorded |-> recorded'] = s
  BY <1>1, <1>6 DEF Going, Counting, Carrying
<1>8. Going(seen', s) /\ ended' = "no"  BY <1>1, <1>6
<1>9. Counting(seen', s)  BY <1>8 DEF Going
<1> QED BY <1>7, <1>8, <1>9 DEF CountsInv

LEMMA LastCounts ==
  ASSUME StreamsInv, CountsInv, S!Eof \/ S!Break
  PROVE  CountsInv'
<1> DEFINE fs == IF S!Eof /\ buf # <<>> THEN <<buf>> ELSE <<>>
           s == S!Flush(S!Absorbed(fs))
           old == [agg |-> agg, counts |-> counts, posted |-> posted, recorded |-> recorded]
<1> SUFFICES ASSUME mode = "claude"  PROVE CountsInv'
  BY DEF S!Eof, S!Break, CountsInv
<1>1. /\ ended = "no" /\ mode' = mode
      /\ agg' = s.agg /\ counts' = s.counts /\ recorded' = s.recorded /\ posted' = s.posted
      /\ seen' = seen \o S!Payloads(fs) /\ ended' \in {"eof", "broken"}
  <2>1. mode # "buffer"  OBVIOUS
  <2>2. S!Take(s, fs)
    <3>1. CASE S!Eof
      <4>1. fs = IF buf = <<>> THEN <<>> ELSE <<buf>>  BY <3>1
      <4> QED BY <3>1, <4>1 DEF S!Eof
    <3>2. CASE ~ S!Eof
      <4>1. fs = <<>> /\ S!Break  BY <3>2
      <4> QED BY <4>1 DEF S!Break
    <3> QED BY <3>1, <3>2
  <2>3. ended = "no" /\ mode' = mode /\ ended' \in {"eof", "broken"}
    BY DEF S!Eof, S!Break
  <2> HIDE DEF s, fs
  <2> QED BY <2>1, <2>2, <2>3 DEF S!Take
<1>2. PICK L : stream \in Seq(L) /\ buf \in Seq(L) /\ seen \in Datums(L)  BY <1>1, HeldTyped
<1>4. fs \in Pieces(L)
  <2> DEFINE P == Seq(L)
  <2>1. buf \in P  BY <1>2
  <2> HIDE DEF P
  <2>2. <<>> \in Seq(P) /\ <<buf>> \in Seq(P)  BY <2>1
  <2> QED BY <2>2 DEF Pieces, P
<1>5. Going(seen, old) /\ recorded \in BOOLEAN
  BY <1>1 DEF CountsInv, Counting
<1> HIDE DEF fs
<1>6. Going(seen \o S!Payloads(fs), S!Absorbed(fs))  BY <1>2, <1>4, <1>5, AbsorbedCounts
<1>7. Counting(seen \o S!Payloads(fs), s) /\ s.recorded
  BY <1>6, FlushCounts DEF Going
<1> HIDE DEF s
<1>8. [agg |-> agg', counts |-> counts', posted |-> posted', recorded |-> recorded'] = s
  BY <1>1, <1>7 DEF Counting, Carrying
<1>9. Counting(seen', s) /\ ended' # "no" /\ recorded'  BY <1>1, <1>7
<1> QED BY <1>8, <1>9 DEF CountsInv

LEMMA HangUpCounts ==
  ASSUME CountsInv, S!HangUp
  PROVE  CountsInv'
BY DEF CountsInv, S!HangUp

LEMMA CountsSteps == StreamsInv /\ CountsInv /\ S!Next => CountsInv'
BY ChunkCounts, LastCounts, HangUpCounts DEF S!Next

LEMMA CountsStutter == CountsInv /\ UNCHANGED streamVars => CountsInv'
BY DEF CountsInv, streamVars

LEMMA CountsPosted == CountsInv => S!CountedOnce
<1> SUFFICES ASSUME CountsInv, mode = "claude"
             PROVE  Len(posted) <= 1 /\ (ended \in {"eof", "broken"} => posted = S!SetTokens(<<>>, S!Totals(seen)))
  BY DEF S!CountedOnce
<1>1. /\ recorded \in BOOLEAN
      /\ ~ recorded => posted = <<>>
      /\ recorded => posted = S!SetTokens(<<>>, S!Totals(seen))
      /\ ended \in {"eof", "broken"} => recorded
  BY DEF CountsInv, Counting
<1>2. S!SetTokens(<<>>, S!Totals(seen)) \in {<<>>, <<S!Totals(seen)>>}  BY DEF S!SetTokens
<1>3. Len(<<>>) <= 1 /\ Len(<<S!Totals(seen)>>) <= 1  OBVIOUS
<1> QED BY <1>1, <1>2, <1>3

----------------------------------------------------------------------------
(* Streams: what an aggregated answer holds. *)

LEMMA SameCardinality == \A K : S!Cardinality(K) = Cardinality(K)
BY DEF S!Cardinality, Cardinality

\* The k-th of some numbers, in their order.
Below(K, i) == {j \in K : j < i}
Kth(K, k) == CHOOSE i \in K : Cardinality(Below(K, i)) = k - 1

LEMMA KthIs ==
  ASSUME NEW K \in SUBSET Nat, IsFiniteSet(K)
  PROVE  /\ Cardinality(K) \in Nat
         /\ \A k \in 1..Cardinality(K) : Kth(K, k) \in K
         /\ \A k, l \in 1..Cardinality(K) : k < l => Kth(K, k) < Kth(K, l)
<1> DEFINE n == Cardinality(K)
           F == [i \in K |-> Cardinality(Below(K, i)) + 1]
<1>1. n \in Nat  BY FS_CardinalityType
<1>2. ASSUME NEW i \in K  PROVE IsFiniteSet(Below(K, i)) /\ Cardinality(Below(K, i)) \in 0..(n - 1)
  <2>1. Below(K, i) \in SUBSET K /\ i \notin Below(K, i)  BY DEF Below
  <2>2. IsFiniteSet(Below(K, i)) /\ Cardinality(Below(K, i)) <= n /\ Cardinality(Below(K, i)) # n
    BY <2>1, FS_Subset
  <2>3. Cardinality(Below(K, i)) \in Nat  BY <2>2, FS_CardinalityType
  <2> QED BY <1>1, <2>2, <2>3
<1>3. ASSUME NEW i \in K, NEW j \in K, i < j
      PROVE  Cardinality(Below(K, i)) < Cardinality(Below(K, j))
  <2>0. i \in Nat /\ j \in Nat /\ \A x \in K : x \in Nat  OBVIOUS
  <2>1. Below(K, i) \in SUBSET Below(K, j) /\ i \in Below(K, j) /\ i \notin Below(K, i)
    <3>1. ASSUME NEW x \in Below(K, i)  PROVE x \in Below(K, j)
      <4>1. x \in K /\ x < i /\ x \in Nat  BY <2>0 DEF Below
      <4>2. x < j  BY <1>3, <2>0, <4>1
      <4> QED BY <4>1, <4>2 DEF Below
    <3>2. i \in Below(K, j)  BY <1>3 DEF Below
    <3>3. ~ (i < i)  BY <2>0
    <3>4. i \notin Below(K, i)  BY <3>3 DEF Below
    <3> QED BY <3>1, <3>2, <3>4
  <2>2. /\ Cardinality(Below(K, i)) <= Cardinality(Below(K, j))
        /\ Cardinality(Below(K, i)) # Cardinality(Below(K, j))
    BY <1>2, <2>1, FS_Subset
  <2> QED BY <1>1, <1>2, <2>2
<1>4. F \in [K -> 1..n] /\ \A i \in K : F[i] = Cardinality(Below(K, i)) + 1
  <2>1. \A i \in K : Cardinality(Below(K, i)) + 1 \in 1..n  BY <1>1, <1>2
  <2> QED BY <2>1
<1> HIDE DEF F
<1>5. \A i, j \in K : F[i] = F[j] => i = j
  <2> SUFFICES ASSUME NEW i \in K, NEW j \in K, F[i] = F[j], i # j  PROVE FALSE
    OBVIOUS
  <2>1. i \in Nat /\ j \in Nat  OBVIOUS
  <2>2. i < j \/ j < i  BY <2>1
  <2>3. Cardinality(Below(K, i)) = Cardinality(Below(K, j))  BY <1>1, <1>2, <1>4
  <2> QED BY <1>1, <1>2, <1>3, <2>2, <2>3
<1>6. F \in Surjection(K, 1..n)
  <2>1. F \in Injection(K, 1..n)  BY <1>4, <1>5 DEF Injection, IsInjective
  <2>2. IsFiniteSet(1..n) /\ Cardinality(1..n) = n
    <3>1. 1 \in Int /\ n \in Int  BY <1>1
    <3>2. Cardinality(1..n) = IF 1 > n THEN 0 ELSE n - 1 + 1  BY <3>1, FS_Interval
    <3> QED BY <1>1, <3>1, <3>2, FS_Interval
  <2> QED BY <2>1, <2>2, FS_Injection
<1>7. ASSUME NEW k \in 1..n  PROVE Kth(K, k) \in K /\ Cardinality(Below(K, Kth(K, k))) = k - 1
  <2>1. PICK i \in K : F[i] = k  BY <1>6 DEF Surjection
  <2>2. Cardinality(Below(K, i)) = k - 1  BY <1>1, <1>2, <1>4, <2>1
  <2> QED BY <2>2 DEF Kth
<1>8. ASSUME NEW k \in 1..n, NEW l \in 1..n, k < l  PROVE Kth(K, k) < Kth(K, l)
  <2> DEFINE i == Kth(K, k)
             j == Kth(K, l)
  <2>1. /\ i \in K /\ j \in K /\ i \in Nat /\ j \in Nat
        /\ Cardinality(Below(K, i)) = k - 1 /\ Cardinality(Below(K, j)) = l - 1
    BY <1>7
  <2> HIDE DEF i, j
  <2>2. i < j
    <3> SUFFICES ASSUME ~ (i < j)  PROVE FALSE
      OBVIOUS
    <3>1. j < i \/ i = j  BY <2>1
    <3>2. k - 1 < l - 1  BY <1>1, <1>8
    <3> QED BY <1>1, <1>3, <2>1, <3>1, <3>2
  <2> QED BY <2>2 DEF i, j
<1> QED BY <1>1, <1>7, <1>8

IndexOf(out, k) == Event(out[k]).index
ItemOf(out, k) == Event(out[k]).item
IsItem(p) == Event(p) # Junk /\ Event(p).type = "item"
Ended(out) == \E k \in DOMAIN out : S!Ends(out[k])

\* What the aggregator holds after the payloads of out.
Gathered(out, a) ==
  /\ a = [terminal |-> a.terminal, error |-> a.error, items |-> a.items, next |-> a.next]
  /\ a.next \in Nat /\ IsFiniteSet(S!Finished(out))
  /\ a.terminal = Junk <=> ~ Ended(out)
  /\ S!Listed(out) =>
       /\ DOMAIN a.items = {IndexOf(out, k) : k \in S!Finished(out)}
       /\ \A k \in S!Finished(out) : a.items[IndexOf(out, k)] = ItemOf(out, k)

LEMMA FinishedIs ==
  \A out : S!Finished(out) = {k \in DOMAIN out : IsItem(out[k]) /\ \A j \in 1..k : ~ S!Ends(out[j])}
BY DEF S!Finished, IsItem

LEMMA FinishedAppend ==
  ASSUME NEW U, NEW out \in Seq(U), NEW p \in U
  PROVE  /\ S!Finished(Append(out, p)) =
              S!Finished(out) \cup (IF IsItem(p) /\ ~ Ended(out) THEN {Len(out) + 1} ELSE {})
         /\ Ended(Append(out, p)) <=> Ended(out) \/ S!Ends(p)
         /\ Len(out) \in Nat /\ S!Finished(out) \in SUBSET (1..Len(out))
         /\ \A k \in 1..Len(out) : Append(out, p)[k] = out[k]
         /\ Append(out, p)[Len(out) + 1] = p
<1> DEFINE t == Append(out, p)
           n == Len(out)
<1>1. /\ n \in Nat /\ DOMAIN out = 1..n /\ DOMAIN t = 1..(n + 1) /\ t[n + 1] = p
      /\ \A k \in 1..n : t[k] = out[k]
  OBVIOUS
<1> HIDE DEF t, n
<1>2. Ended(t) <=> Ended(out) \/ S!Ends(p)
  <2>1. \A k \in 1..(n + 1) : k \in 1..n \/ k = n + 1  BY <1>1
  <2>2. \A k \in 1..n : k \in 1..(n + 1)  BY <1>1
  <2>3. n + 1 \in 1..(n + 1)  BY <1>1
  <2> QED BY <1>1, <2>1, <2>2, <2>3 DEF Ended
<1>3. IsItem(p) => ~ S!Ends(p)  BY DEF IsItem, S!Ends
<1>4. ASSUME NEW k \in 1..n  PROVE k \in S!Finished(t) <=> k \in S!Finished(out)
  <2>1. k \in DOMAIN out /\ k \in DOMAIN t /\ \A j \in 1..k : t[j] = out[j]  BY <1>1
  <2> QED BY <1>1, <2>1, FinishedIs
<1>5. n + 1 \in S!Finished(t) <=> IsItem(p) /\ ~ Ended(out)
  <2>1. (\A j \in 1..(n + 1) : ~ S!Ends(t[j])) <=> ~ Ended(t)  BY <1>1 DEF Ended
  <2>2. n + 1 \in DOMAIN t  BY <1>1
  <2> QED BY <1>1, <1>2, <1>3, <2>1, <2>2, FinishedIs
<1>6. S!Finished(t) \in SUBSET (1..(n + 1)) /\ S!Finished(out) \in SUBSET (1..n)
  BY <1>1, FinishedIs
<1>7. n + 1 \notin 1..n /\ \A k \in 1..(n + 1) : k \in 1..n \/ k = n + 1  BY <1>1
<1>8. S!Finished(t) = S!Finished(out) \cup (IF IsItem(p) /\ ~ Ended(out) THEN {n + 1} ELSE {})
  BY <1>4, <1>5, <1>6, <1>7
<1> QED BY <1>1, <1>2, <1>6, <1>8 DEF t, n

LEMMA ListedAppend ==
  ASSUME NEW U, NEW out \in Seq(U), NEW p \in U, S!Listed(Append(out, p))
  PROVE  S!Listed(out)
<1> DEFINE t == Append(out, p)
<1>1. /\ S!Finished(out) \in SUBSET S!Finished(t)
      /\ \A k \in S!Finished(out) : t[k] = out[k]
  BY FinishedAppend
<1>2. /\ \A k \in S!Finished(t) : Event(t[k]).index \in Nat
      /\ \A j, k \in S!Finished(t) : Event(t[j]).index = Event(t[k]).index => j = k
  BY DEF S!Listed
<1> HIDE DEF t
<1>3. \A k \in S!Finished(out) : Event(out[k]).index \in Nat  BY <1>1, <1>2
<1>4. ASSUME NEW j \in S!Finished(out), NEW k \in S!Finished(out), Event(out[j]).index = Event(out[k]).index
      PROVE  j = k
  BY <1>1, <1>2, <1>4
<1> QED BY <1>3, <1>4 DEF S!Listed

\* A payload that is no item, or that comes after the end, adds none.
LEMMA NoItemMore ==
  ASSUME NEW U, NEW out \in Seq(U), NEW p \in U, ~ (IsItem(p) /\ ~ Ended(out)), NEW a, NEW b,
         Gathered(out, a), b = [terminal |-> b.terminal, error |-> b.error, items |-> a.items, next |-> a.next],
         b.terminal = Junk <=> ~ Ended(Append(out, p))
  PROVE  Gathered(Append(out, p), b)
<1> DEFINE t == Append(out, p)
<1>1. S!Finished(t) = S!Finished(out) /\ \A k \in S!Finished(out) : t[k] = out[k]
  <2> DEFINE more == IF IsItem(p) /\ ~ Ended(out) THEN {Len(out) + 1} ELSE {}
  <2>1. /\ S!Finished(t) = S!Finished(out) \cup more
        /\ S!Finished(out) \in SUBSET (1..Len(out)) /\ \A k \in 1..Len(out) : t[k] = out[k]
    BY FinishedAppend
  <2>2. more = {}  OBVIOUS
  <2> HIDE DEF more, t
  <2> QED BY <2>1, <2>2
<1>2. S!Listed(t) => S!Listed(out)  BY ListedAppend
<1>3. b.items = a.items /\ b.next = a.next  OBVIOUS
<1> HIDE DEF t
<1>4. /\ a.next \in Nat /\ IsFiniteSet(S!Finished(out))
      /\ S!Listed(out) =>
           /\ DOMAIN a.items = {IndexOf(out, k) : k \in S!Finished(out)}
           /\ \A k \in S!Finished(out) : a.items[IndexOf(out, k)] = ItemOf(out, k)
  BY DEF Gathered
<1>5. \A k \in S!Finished(out) : IndexOf(t, k) = IndexOf(out, k) /\ ItemOf(t, k) = ItemOf(out, k)
  BY <1>1 DEF IndexOf, ItemOf
<1>6. {IndexOf(out, k) : k \in S!Finished(out)} = {IndexOf(t, k) : k \in S!Finished(t)}
  BY <1>1, <1>5
<1>7. Gathered(t, b)
  <2>1. S!Listed(t) => /\ DOMAIN b.items = {IndexOf(t, k) : k \in S!Finished(t)}
                       /\ \A k \in S!Finished(t) : b.items[IndexOf(t, k)] = ItemOf(t, k)
    BY <1>1, <1>2, <1>3, <1>4, <1>5, <1>6
  <2>2. b.next \in Nat /\ IsFiniteSet(S!Finished(t))  BY <1>1, <1>3, <1>4
  <2>3. b = [terminal |-> b.terminal, error |-> b.error, items |-> b.items, next |-> b.next]  BY <1>3
  <2> QED BY <2>1, <2>2, <2>3 DEF Gathered, t
<1> QED BY <1>7 DEF t

\* An item before the end is inserted under its index.
LEMMA ItemMore ==
  ASSUME NEW U, NEW out \in Seq(U), NEW p \in U, IsItem(p), ~ Ended(out), NEW a, Gathered(out, a),
         NEW index, index = IF Event(p).index \in Nat THEN Event(p).index ELSE a.next, NEW b,
         b = [terminal |-> a.terminal, error |-> a.error,
              items |-> S!Inserted(a.items, index, Event(p).item), next |-> S!Max({a.next, index + 1})]
  PROVE  Gathered(Append(out, p), b)
<1> DEFINE t == Append(out, p)
           n == Len(out)
<1>1. /\ S!Finished(t) = S!Finished(out) \cup {n + 1} /\ n + 1 \notin S!Finished(out)
      /\ \A k \in S!Finished(out) : t[k] = out[k]
      /\ t[n + 1] = p /\ (Ended(t) <=> S!Ends(p))
  BY FinishedAppend
<1>2. S!Listed(t) => S!Listed(out)  BY ListedAppend
<1>3. ~ S!Ends(p)  BY DEF IsItem, S!Ends
<1>4. a.terminal = Junk /\ a.next \in Nat /\ IsFiniteSet(S!Finished(out))  BY DEF Gathered
<1> HIDE DEF t, n
<1>5. b.next \in Nat
  <2>1. index \in Nat  BY <1>4
  <2>2. S!Max({a.next, index + 1}) \in {a.next, index + 1}
    <3>1. \E x \in {a.next, index + 1} : \A y \in {a.next, index + 1} : x >= y  BY <1>4, <2>1
    <3> QED BY <3>1 DEF S!Max
  <2> QED BY <1>4, <2>1, <2>2
<1>6. IsFiniteSet(S!Finished(t))  BY <1>1, <1>4, FS_AddElement
<1>7. ASSUME S!Listed(t)
      PROVE  /\ DOMAIN b.items = {IndexOf(t, k) : k \in S!Finished(t)}
             /\ \A k \in S!Finished(t) : b.items[IndexOf(t, k)] = ItemOf(t, k)
  <2>1. /\ DOMAIN a.items = {IndexOf(out, k) : k \in S!Finished(out)}
        /\ \A k \in S!Finished(out) : a.items[IndexOf(out, k)] = ItemOf(out, k)
    BY <1>2, <1>7 DEF Gathered
  <2>2. /\ \A k \in S!Finished(t) : IndexOf(t, k) \in Nat
        /\ \A j, k \in S!Finished(t) : IndexOf(t, j) = IndexOf(t, k) => j = k
    BY <1>7 DEF S!Listed, IndexOf
  <2>3. /\ \A k \in S!Finished(out) : IndexOf(t, k) = IndexOf(out, k) /\ ItemOf(t, k) = ItemOf(out, k)
        /\ IndexOf(t, n + 1) = Event(p).index /\ ItemOf(t, n + 1) = Event(p).item
    BY <1>1 DEF IndexOf, ItemOf
  <2>4. index = IndexOf(t, n + 1)  BY <1>1, <2>2, <2>3
  <2>5. /\ DOMAIN b.items = DOMAIN a.items \cup {index}
        /\ \A i \in DOMAIN a.items \cup {index} :
             b.items[i] = IF i = index THEN Event(p).item ELSE a.items[i]
    BY DEF S!Inserted
  <2>6. \A k \in S!Finished(out) : IndexOf(out, k) # index
    BY <1>1, <2>2, <2>3, <2>4
  <2>7. DOMAIN b.items = {IndexOf(t, k) : k \in S!Finished(t)}
    <3>1. {IndexOf(out, k) : k \in S!Finished(out)} = {IndexOf(t, k) : k \in S!Finished(out)}
      BY <2>3
    <3>2. {IndexOf(t, k) : k \in S!Finished(t)}
            = {IndexOf(t, k) : k \in S!Finished(out)} \cup {IndexOf(t, n + 1)}
      BY <1>1
    <3> QED BY <2>1, <2>4, <2>5, <3>1, <3>2
  <2>8. ASSUME NEW k \in S!Finished(t)  PROVE b.items[IndexOf(t, k)] = ItemOf(t, k)
    <3>1. CASE k = n + 1  BY <2>3, <2>4, <2>5, <3>1
    <3>2. CASE k \in S!Finished(out)
      <4>1. IndexOf(t, k) = IndexOf(out, k) /\ IndexOf(out, k) \in DOMAIN a.items
        BY <2>1, <2>3, <3>2
      <4> QED BY <2>1, <2>3, <2>5, <2>6, <3>2, <4>1
    <3> QED BY <1>1, <3>1, <3>2
  <2> QED BY <2>7, <2>8
<1>8. b = [terminal |-> b.terminal, error |-> b.error, items |-> b.items, next |-> b.next]  OBVIOUS
<1>9. b.terminal = Junk <=> ~ Ended(t)  BY <1>1, <1>3, <1>4
<1> QED BY <1>5, <1>6, <1>7, <1>8, <1>9 DEF Gathered, t

Aggregate(a) == a = [terminal |-> a.terminal, error |-> a.error, items |-> a.items, next |-> a.next]

LEMMA TwoFields ==
  ASSUME NEW a, Aggregate(a), NEW x, NEW y
  PROVE  [a EXCEPT !.items = x, !.next = y] = [terminal |-> a.terminal, error |-> a.error, items |-> x, next |-> y]
<1> DEFINE r == a.terminal
           e == a.error
           c == a.items
           q == a.next
           u == [a EXCEPT !.items = x]
<1> SUFFICES [a EXCEPT !.items = x, !.next = y] = [terminal |-> r, error |-> e, items |-> x, next |-> y]
  OBVIOUS
<1>1. a = [terminal |-> r, error |-> e, items |-> c, next |-> q]  BY DEF Aggregate
<1> HIDE DEF r, e, c, q
<1>2. u = [terminal |-> r, error |-> e, items |-> x, next |-> q]  BY ONLY <1>1
<1>3. [a EXCEPT !.items = x, !.next = y] = [u EXCEPT !.next = y]  OBVIOUS
<1> HIDE DEF u
<1>4. [u EXCEPT !.next = y] = [terminal |-> r, error |-> e, items |-> x, next |-> y]  BY ONLY <1>2
<1> QED BY ONLY <1>3, <1>4

\* One frame.
LEMMA ConsumeGathers ==
  ASSUME NEW L, NEW out \in Datums(L), NEW f \in Seq(L), NEW a, Gathered(out, a)
  PROVE  Gathered(out \o S!RefData(S!DataOf(f)), S!Consume(a, f))
<1> DEFINE d == S!DataOf(f)
           U == Datum(L)
           p == S!Payload(f)
           t == Append(out, p)
           b == S!Consume(a, f)
<1>1. d \in U /\ out \in Seq(U)
  <2>1. d \in U  BY DataType
  <2> QED BY <2>1 DEF Datums
<1>a. Aggregate(a) /\ (a.terminal = Junk <=> ~ Ended(out))  BY DEF Gathered, Aggregate
<1>2. CASE p = <<>>
  <2>1. S!RefData(d) = <<>>  BY <1>2 DEF S!RefData, S!Payload
  <2>2. out \o <<>> = out
    <3> HIDE DEF U
    <3> QED BY <1>1, ConcatEmptySeq
  <2>3. b = a  BY <1>2 DEF S!Consume
  <2> QED BY <2>1, <2>2, <2>3
<1>3. CASE p # <<>>
  <2>1. S!RefData(d) = <<p>> /\ p = d  BY <1>3 DEF S!RefData, S!Payload
  <2>2. p \in U /\ out \o <<p>> = t
    <3> HIDE DEF U
    <3>1. p \in U  BY <1>1, <2>1
    <3> QED BY <1>1, <3>1
  <2>u. out \o S!RefData(S!DataOf(f)) = t  BY <2>1, <2>2
  <2> SUFFICES Gathered(t, b)  BY <2>u
  <2>3. Ended(t) <=> Ended(out) \/ S!Ends(p)
    <3> HIDE DEF U, p
    <3> QED BY <1>1, <2>2, FinishedAppend
  <2>4. ASSUME ~ (IsItem(p) /\ ~ Ended(out)), NEW z,
               z = [terminal |-> z.terminal, error |-> z.error, items |-> a.items, next |-> a.next],
               z.terminal = Junk <=> ~ Ended(t)
        PROVE  Gathered(t, z)
    <3> HIDE DEF U, p
    <3> QED BY <1>1, <2>2, <2>4, NoItemMore
  <2> DEFINE e == Event(p)
  <2>5. CASE Ended(out) \/ e = Junk
    <3>1. b = a  BY <1>a, <2>5 DEF S!Consume
    <3>2. ~ (IsItem(p) /\ ~ Ended(out))  BY <2>5 DEF IsItem
    <3>3. a.terminal = Junk <=> ~ Ended(t)  BY <1>a, <2>3, <2>5 DEF S!Ends
    <3> HIDE DEF t, b, p
    <3> QED BY <1>a, <2>4, <3>1, <3>2, <3>3 DEF Aggregate
  <2>6. CASE ~ Ended(out) /\ e # Junk
    <3>1. a.terminal = Junk  BY <1>a, <2>6
    <3>2. CASE e.type = "item"
      <4> DEFINE index == IF e.index \in Nat THEN e.index ELSE a.next
                 x == S!Inserted(a.items, index, e.item)
                 y == S!Max({a.next, index + 1})
      <4>1. b = [a EXCEPT !.items = x, !.next = y]  BY <1>3, <2>6, <3>1, <3>2 DEF S!Consume
      <4>2. IsItem(p)  BY <2>6, <3>2 DEF IsItem
      <4> HIDE DEF x, y, b
      <4>3. b = [terminal |-> a.terminal, error |-> a.error, items |-> x, next |-> y]
        BY <1>a, <4>1, TwoFields
      <4>4. b = [terminal |-> a.terminal, error |-> a.error,
                 items |-> S!Inserted(a.items, index, Event(p).item), next |-> S!Max({a.next, index + 1})]
        BY <4>3 DEF x, y
      <4>5. index = IF Event(p).index \in Nat THEN Event(p).index ELSE a.next  OBVIOUS
      <4> HIDE DEF index, e, U, p
      <4> QED BY <1>1, <2>2, <2>6, <4>2, <4>4, <4>5, ItemMore
    <3>3. CASE S!Ends(p)
      <4>1. e.type = "terminal" /\ e.response  BY <3>3 DEF S!Ends
      <4>2. b = [a EXCEPT !.terminal = e]  BY <1>3, <2>6, <3>1, <4>1 DEF S!Consume
      <4>3. ~ IsItem(p)  BY <4>1 DEF IsItem
      <4> HIDE DEF b, e
      <4>4. b = [terminal |-> e, error |-> a.error, items |-> a.items, next |-> a.next]
        BY <1>a, <4>2 DEF Aggregate
      <4>5. b.terminal = e  BY <4>4
      <4>6. b = [terminal |-> b.terminal, error |-> b.error, items |-> a.items, next |-> a.next]  BY <4>4
      <4>7. b.terminal = Junk <=> ~ Ended(t)  BY <2>3, <2>6, <3>3, <4>5
      <4> HIDE DEF p, t
      <4> QED BY <2>4, <4>3, <4>6, <4>7
    <3>4. CASE e.type # "item" /\ ~ S!Ends(p)
      <4>1. ~ (e.type = "terminal" /\ e.response)  BY <2>6, <3>4 DEF S!Ends
      <4>2. b = IF e.type = "error" THEN [a EXCEPT !.error = e] ELSE a
        BY <1>3, <2>6, <3>1, <3>4, <4>1 DEF S!Consume
      <4>3. ~ IsItem(p)  BY <3>4 DEF IsItem
      <4> HIDE DEF b, e
      <4>4. b = [terminal |-> a.terminal, error |-> b.error, items |-> a.items, next |-> a.next]
        BY <1>a, <4>2 DEF Aggregate
      <4>5. b.terminal = a.terminal  BY <4>4
      <4>6. b.terminal = Junk <=> ~ Ended(t)  BY <1>a, <2>3, <3>4, <4>5
      <4>7. b = [terminal |-> b.terminal, error |-> b.error, items |-> a.items, next |-> a.next]  BY <4>4, <4>5
      <4> HIDE DEF p, t
      <4> QED BY <2>4, <4>3, <4>6, <4>7
    <3> QED BY <3>2, <3>3, <3>4
  <2> QED BY <2>5, <2>6
<1> QED BY <1>2, <1>3

\* All the frames of a chunk, in their order.
LEMMA AbsorbedGathers ==
  ASSUME mode = "buffer", NEW L, NEW fs \in Pieces(L), seen \in Datums(L), Gathered(seen, agg)
  PROVE  Gathered(seen \o S!Payloads(fs), S!Absorbed(fs).agg)
<1> DEFINE n == Len(fs)
<1>1. PICK F, O : InTurn(F, O, fs, n, L)  BY Absorbing
<1>2. n \in Nat  BY DEF Pieces
<1> DEFINE T == {k \in Nat : Carrying(F[k]) /\ Gathered(O[k], F[k].agg)}
<1>3. 0 \in T
  <2>1. F[0] = [agg |-> agg, counts |-> counts, posted |-> posted, recorded |-> recorded] /\ O[0] = seen
    BY <1>1 DEF InTurn
  <2>2. Carrying(F[0]) /\ F[0].agg = agg  BY <2>1 DEF Carrying
  <2> QED BY <2>1, <2>2
<1>4. ASSUME NEW i \in 1..n, i - 1 \in T  PROVE i \in T
  <2>1. i \in Nat /\ i - 1 \in 0..n  BY <1>2
  <2>2. /\ O[i - 1] \in Datums(L) /\ fs[i] \in Seq(L) /\ F[i] = S!Absorb(F[i - 1], fs[i])
        /\ O[i] = O[i - 1] \o S!RefData(S!DataOf(fs[i]))
    BY <1>1, <2>1 DEF InTurn
  <2> DEFINE s == F[i - 1]
             a == S!Consume(s.agg, fs[i])
  <2>3. Carrying(s) /\ Gathered(O[i - 1], s.agg)  BY <1>4
  <2>4. Gathered(O[i], a)  BY <2>2, <2>3, ConsumeGathers
  <2>5. F[i] = [s EXCEPT !.agg = a]  BY <2>2 DEF S!Absorb
  <2> HIDE DEF a, s
  <2>6. Carrying(F[i]) /\ F[i].agg = a  BY <2>3, <2>5 DEF Carrying
  <2> QED BY <2>1, <2>4, <2>6
<1>5. \A i \in 0..n : i \in T
  <2> HIDE DEF T, n
  <2> QED BY <1>2, <1>3, <1>4, UpTo
<1>6. n \in T
  <2> HIDE DEF T
  <2> QED BY <1>2, <1>5
<1> QED BY <1>1, <1>6 DEF InTurn

\* What an aggregated answer holds and told.
WholeInv ==
  mode = "buffer" =>
    /\ Gathered(seen, agg)
    /\ ended \in {"no", "done"} => status = 200
    /\ ended = "done" => S!IsDone(agg)
    /\ ended = "eof" => (status = 502 <=> ~ S!IsDone(agg))
    /\ ended \in {"done", "eof"} /\ S!IsDone(agg) => told = S!Output(agg)

LEMMA WholeStart == S!Init => WholeInv
<1> SUFFICES ASSUME S!Init  PROVE WholeInv
  OBVIOUS
<1>1. seen = <<>> /\ agg = S!NewAggregator /\ status = 200 /\ ended = "no"
  BY DEF S!Init
<1>2. S!Finished(<<>>) = {} /\ ~ Ended(<<>>)  BY DEF S!Finished, Ended
<1>3. /\ agg.terminal = Junk /\ agg.error = Junk /\ agg.items = <<>> /\ agg.next = 0
      /\ agg = [terminal |-> agg.terminal, error |-> agg.error, items |-> agg.items, next |-> agg.next]
  BY <1>1 DEF S!NewAggregator
<1>4. DOMAIN agg.items = {IndexOf(seen, k) : k \in S!Finished(seen)}
  BY <1>1, <1>2, <1>3
<1>5. IsFiniteSet(S!Finished(seen)) /\ agg.next \in Nat  BY <1>1, <1>2, <1>3, FS_EmptySet
<1>6. Gathered(seen, agg)  BY <1>1, <1>2, <1>3, <1>4, <1>5 DEF Gathered
<1> QED BY <1>1, <1>6 DEF WholeInv

LEMMA WholeChunk ==
  ASSUME StreamsInv, WholeInv, NEW n \in 1..MaxChunk, S!Chunk(n)
  PROVE  WholeInv'
<1> DEFINE bytes == SubSeq(stream, pos + 1, pos + n)
           b == buf \o bytes
           fs == S!Scan(b, scanFrom).frames
           s == S!Absorbed(fs)
<1> SUFFICES ASSUME mode = "buffer"  PROVE WholeInv'
  BY DEF S!Chunk, WholeInv
<1>1. /\ ended = "no" /\ pos + n <= Len(stream) /\ mode' = mode /\ status' = status
      /\ agg' = s.agg /\ seen' = seen \o S!Payloads(fs)
      /\ \/ ended' = "done" /\ S!IsDone(s.agg) /\ told' = S!Output(s.agg)
         \/ ended' = ended
  <2>1. /\ ended = "no" /\ pos + n <= Len(stream) /\ mode' = mode /\ status' = status /\ S!Take(s, fs)
    BY DEF S!Chunk
  <2>2. \/ ended' = "done" /\ S!IsDone(s.agg) /\ told' = S!Output(s.agg)
        \/ ended' = ended
    BY DEF S!Chunk
  <2> HIDE DEF s, fs
  <2> QED BY <2>1, <2>2 DEF S!Take
<1>2. PICK L : stream \in Seq(L) /\ buf \in Seq(L) /\ seen \in Datums(L)  BY <1>1, HeldTyped
<1>3. b \in Seq(L)
  <2>1. Len(stream) \in Nat /\ pos \in 0..Len(stream)  BY <1>2 DEF StreamsInv, Heard
  <2>2. n \in Nat  BY StreamsAssumption
  <2> DEFINE m == pos + n
  <2>3. pos \in Nat /\ m \in Nat /\ pos <= m /\ m <= Len(stream)  BY <1>1, <2>1, <2>2
  <2> HIDE DEF m
  <2>4. SubSeq(stream, pos + 1, m) \in Seq(L)  BY <1>2, <2>3, PieceOf
  <2>5. bytes \in Seq(L)  BY <2>4 DEF m
  <2> HIDE DEF bytes
  <2> QED BY <1>2, <2>5
<1> HIDE DEF b
<1>4. fs \in Pieces(L)  BY <1>3, FramesTyped
<1> HIDE DEF fs
<1>5. Gathered(seen \o S!Payloads(fs), s.agg)  BY <1>2, <1>4, AbsorbedGathers DEF WholeInv
<1> HIDE DEF s
<1>6. Gathered(seen', agg')  BY <1>1, <1>5
<1>7. status' = 200  BY <1>1 DEF WholeInv
<1>8. \/ ended' = "done" /\ S!IsDone(agg') /\ told' = S!Output(agg')
      \/ ended' = "no"
  BY <1>1
<1>9. S!IsDone(agg') <=> S!IsDone(agg)'  BY DEF S!IsDone
<1>10. S!Output(agg') = S!Output(agg)'  BY DEF S!Output, S!Values
<1> QED BY <1>6, <1>7, <1>8, <1>9, <1>10 DEF WholeInv

LEMMA WholeLast ==
  ASSUME StreamsInv, WholeInv, S!Eof \/ S!Break
  PROVE  WholeInv'
<1> DEFINE fs == IF S!Eof /\ buf # <<>> THEN <<buf>> ELSE <<>>
           s == S!Absorbed(fs)
<1> SUFFICES ASSUME mode = "buffer"  PROVE WholeInv'
  BY DEF S!Eof, S!Break, WholeInv
<1>1. /\ ended = "no" /\ mode' = mode
      /\ agg' = s.agg /\ seen' = seen \o S!Payloads(fs)
      /\ \/ ended' = "broken"
         \/ /\ ended' = "eof" /\ status' = IF S!IsDone(s.agg) THEN status ELSE 502
            /\ S!IsDone(s.agg) => told' = S!Output(s.agg)
  <2>1. mode # "claude"  OBVIOUS
  <2>2. CASE S!Eof
    <3>1. fs = IF buf = <<>> THEN <<>> ELSE <<buf>>  BY <2>2
    <3>2. S!Take(s, fs)  BY <2>1, <2>2, <3>1 DEF S!Eof
    <3>3. ended = "no" /\ mode' = mode /\ ended' = "eof"  BY <2>2 DEF S!Eof
    <3>4. status' = IF S!IsDone(s.agg) THEN status ELSE 502  BY <2>1, <2>2, <3>1 DEF S!Eof
    <3>5. S!IsDone(s.agg) => told' = S!Output(s.agg)  BY <2>1, <2>2, <3>1 DEF S!Eof
    <3> HIDE DEF s, fs
    <3> QED BY <3>2, <3>3, <3>4, <3>5 DEF S!Take
  <2>3. CASE ~ S!Eof
    <3>1. fs = <<>> /\ S!Break  BY <2>3
    <3>2. S!Take(s, fs)  BY <2>1, <3>1 DEF S!Break
    <3>3. ended = "no" /\ mode' = mode /\ ended' = "broken"  BY <3>1 DEF S!Break
    <3> HIDE DEF s, fs
    <3> QED BY <3>2, <3>3 DEF S!Take
  <2> QED BY <2>2, <2>3
<1>2. PICK L : stream \in Seq(L) /\ buf \in Seq(L) /\ seen \in Datums(L)  BY <1>1, HeldTyped
<1>4. fs \in Pieces(L)
  <2> DEFINE P == Seq(L)
  <2>1. buf \in P  BY <1>2
  <2> HIDE DEF P
  <2>2. <<>> \in Seq(P) /\ <<buf>> \in Seq(P)  BY <2>1
  <2> QED BY <2>2 DEF Pieces, P
<1> HIDE DEF fs
<1>5. Gathered(seen \o S!Payloads(fs), s.agg)  BY <1>2, <1>4, AbsorbedGathers DEF WholeInv
<1> HIDE DEF s
<1>6. Gathered(seen', agg') /\ status = 200  BY <1>1, <1>5 DEF WholeInv
<1>7. S!IsDone(agg') <=> S!IsDone(agg)'  BY DEF S!IsDone
<1>8. S!Output(agg') = S!Output(agg)'  BY DEF S!Output, S!Values
<1>9. CASE ended' = "broken"  BY <1>6, <1>9 DEF WholeInv
<1>10. CASE ended' = "eof"
  <2>1. status' = IF S!IsDone(agg') THEN 200 ELSE 502  BY <1>1, <1>6, <1>10
  <2>2. S!IsDone(agg') => told' = S!Output(agg')  BY <1>1, <1>10
  <2> QED BY <1>6, <1>7, <1>8, <1>10, <2>1, <2>2 DEF WholeInv
<1> QED BY <1>1, <1>9, <1>10

LEMMA WholeSteps == StreamsInv /\ WholeInv /\ S!Next => WholeInv'
<1>1. S!HangUp /\ WholeInv => WholeInv'
  BY DEF S!HangUp, WholeInv, S!IsDone, S!Output, S!Values
<1> QED BY <1>1, WholeChunk, WholeLast DEF S!Next

LEMMA WholeStutter == WholeInv /\ UNCHANGED streamVars => WholeInv'
<1> SUFFICES ASSUME WholeInv, UNCHANGED streamVars  PROVE WholeInv'
  OBVIOUS
<1>1. mode' = mode /\ seen' = seen /\ agg' = agg /\ ended' = ended /\ status' = status /\ told' = told
  BY DEF streamVars
<1>2. Gathered(seen', agg') <=> Gathered(seen, agg)  BY <1>1
<1>3. S!IsDone(agg') <=> S!IsDone(agg)'  BY DEF S!IsDone
<1>4. S!Output(agg') = S!Output(agg)'  BY DEF S!Output, S!Values
<1>5. (S!IsDone(agg') <=> S!IsDone(agg)) /\ S!Output(agg') = S!Output(agg)  BY <1>1
<1> QED BY <1>1, <1>2, <1>3, <1>4, <1>5 DEF WholeInv

\* The values of a map by index are its items in the order of their indices.
LEMMA ValuesInOrder ==
  ASSUME NEW out, NEW a, Gathered(out, a), S!Listed(out)
  PROVE  S!InOrder(out, S!Values(a.items))
<1> DEFINE D0 == S!Finished(out)
           K == {IndexOf(out, k) : k \in D0}
           n == Cardinality(D0)
           I == [k \in D0 |-> IndexOf(out, k)]
           g == [m \in 1..n |-> CHOOSE k \in D0 : IndexOf(out, k) = Kth(K, m)]
<1>1. IsFiniteSet(D0) /\ DOMAIN a.items = K /\ \A k \in D0 : a.items[IndexOf(out, k)] = ItemOf(out, k)
  BY DEF Gathered
<1>2. /\ \A k \in D0 : IndexOf(out, k) \in Nat
      /\ \A j, k \in D0 : IndexOf(out, j) = IndexOf(out, k) => j = k
  BY DEF S!Listed, IndexOf
<1>i. \A k \in D0 : I[k] = IndexOf(out, k)  OBVIOUS
<1>d. I \in [D0 -> K]  OBVIOUS
<1>k. K \in SUBSET Nat /\ \A i \in K : \E k \in D0 : IndexOf(out, k) = i  BY <1>2
<1>g. \A m \in 1..n : g[m] = CHOOSE k \in D0 : IndexOf(out, k) = Kth(K, m)  OBVIOUS
<1>h. DOMAIN g = 1..n  OBVIOUS
<1>s. S!Finished(out) = D0  OBVIOUS
<1> HIDE DEF I, g, D0, K
<1>3. IsFiniteSet(K) /\ Cardinality(K) = n
  <2>1. I \in Bijection(D0, K)
    <3>1. \A j, k \in D0 : I[j] = I[k] => j = k  BY <1>2, <1>i
    <3>2. \A i \in K : \E k \in D0 : I[k] = i  BY <1>i, <1>k
    <3> QED BY <1>d, <3>1, <3>2 DEF Bijection, Injection, IsInjective, Surjection
  <2>2. ExistsBijection(D0, K)  BY <2>1 DEF ExistsBijection
  <2> QED BY <1>1, <2>2, FS_Bijection
<1>4. /\ n \in Nat /\ \A m \in 1..n : Kth(K, m) \in K
      /\ \A m, l \in 1..n : m < l => Kth(K, m) < Kth(K, l)
  <2> HIDE DEF n
  <2> QED BY <1>3, <1>k, KthIs
<1>5. \A m \in 1..n : g[m] \in D0 /\ IndexOf(out, g[m]) = Kth(K, m)
  <2> SUFFICES ASSUME NEW m \in 1..n  PROVE g[m] \in D0 /\ IndexOf(out, g[m]) = Kth(K, m)
    OBVIOUS
  <2>1. \E k \in D0 : IndexOf(out, k) = Kth(K, m)  BY <1>4, <1>k
  <2>2. g[m] = CHOOSE k \in D0 : IndexOf(out, k) = Kth(K, m)  BY <1>g
  <2> QED BY <2>1, <2>2
<1>6. S!Values(a.items) = [m \in 1..n |-> ItemOf(out, g[m])]
  <2>1. S!Cardinality(DOMAIN a.items) = n  BY <1>1, <1>3, SameCardinality
  <2> DEFINE key(k) == CHOOSE i \in DOMAIN a.items : S!Cardinality({j \in DOMAIN a.items : j < i}) = k - 1
  <2>2. S!Values(a.items) = [k \in 1..S!Cardinality(DOMAIN a.items) |-> a.items[key(k)]]
    BY DEF S!Values
  <2>3. ASSUME NEW m \in 1..n  PROVE key(m) = Kth(K, m)
    <3>1. \A i : S!Cardinality({j \in K : j < i}) = Cardinality({j \in K : j < i})
      BY SameCardinality
    <3>2. Kth(K, m) = CHOOSE i \in K : S!Cardinality({j \in K : j < i}) = m - 1
      BY <3>1 DEF Kth, Below
    <3> QED BY <1>1, <3>2
  <2>4. ASSUME NEW m \in 1..n  PROVE a.items[key(m)] = ItemOf(out, g[m])
    <3> HIDE DEF key
    <3> QED BY <1>1, <1>5, <2>3
  <2> HIDE DEF key, n
  <2> QED BY <2>1, <2>2, <2>4
<1>7. g \in [1..n -> D0]
  <2>1. g = [m \in 1..n |-> g[m]]  BY <1>h DEF g
  <2> HIDE DEF n
  <2> QED BY <1>5, <2>1
<1>8. ASSUME NEW m \in 1..n, NEW l \in 1..n, m < l
      PROVE  IndexOf(out, g[m]) < IndexOf(out, g[l])
  <2>1. Kth(K, m) < Kth(K, l)  BY <1>4, <1>8
  <2> QED BY <1>5, <2>1
<1>9. S!Cardinality(D0) = n  BY SameCardinality
<1>10. S!Values(a.items) = [m \in DOMAIN g |-> Event(out[g[m]]).item]
  BY <1>6, <1>h, Zenon DEF ItemOf
<1>11. \A m, l \in DOMAIN g : m < l => Event(out[g[m]]).index < Event(out[g[l]]).index
  BY <1>8, <1>h DEF IndexOf
<1> HIDE DEF n
<1>12. \E order \in [1..S!Cardinality(S!Finished(out)) -> S!Finished(out)] :
         /\ \A m, l \in DOMAIN order : m < l => Event(out[order[m]]).index < Event(out[order[l]]).index
         /\ S!Values(a.items) = [m \in DOMAIN order |-> Event(out[order[m]]).item]
  BY <1>7, <1>9, <1>10, <1>11, <1>s
<1> QED BY <1>12 DEF S!InOrder

LEMMA WholeHolds == WholeInv => S!AnswerIsWhole
<1> SUFFICES ASSUME WholeInv, mode = "buffer", ended \in {"done", "eof"}
             PROVE  /\ status = 502 <=> ~ S!IsDone(agg)
                    /\ S!IsDone(agg) /\ agg.terminal.output = <<>> /\ S!Listed(seen) => S!InOrder(seen, told)
  BY DEF S!AnswerIsWhole
<1>1. status = 502 <=> ~ S!IsDone(agg)  BY DEF WholeInv
<1>2. ASSUME S!IsDone(agg), agg.terminal.output = <<>>, S!Listed(seen)
      PROVE  S!InOrder(seen, told)
  <2>1. told = S!Values(agg.items) /\ Gathered(seen, agg)  BY <1>2 DEF WholeInv, S!Output
  <2> QED BY <1>2, <2>1, ValuesInOrder
<1> QED BY <1>1, <1>2

----------------------------------------------------------------------------
(* Streams: the properties. *)

StreamsAtWork == focus = "streams" => StreamsInv

\* However upstream cuts an answer - inside a separator, inside a CRLF - and
\* wherever it ends, breaks or is dropped: the frames that SseFramer has yielded
\* hold exactly the events of the bytes that have arrived, and at the end of the
\* stream the unterminated last one too.  For every answer and every cut.
THEOREM FramesAreEvents == PartsSpec => []ChunksDoNotMatter
<1>1. PartsInit => StreamsAtWork
  BY StreamsStart DEF PartsInit, StreamsAtWork
<1>2. StreamsAtWork /\ [PartsNext]_partsVars => StreamsAtWork'
  <2> SUFFICES ASSUME StreamsAtWork, [PartsNext]_partsVars, focus' = "streams"
               PROVE  StreamsInv'
    BY DEF StreamsAtWork
  <2>1. CASE focus = "streams" /\ S!Next
    BY <2>1, StreamsSteps DEF StreamsAtWork
  <2>2. CASE focus = "streams" /\ UNCHANGED streamVars
    BY <2>2, StreamsStutters DEF StreamsAtWork
  <2>3. (focus = "streams" /\ S!Next) \/ (focus = "streams" /\ UNCHANGED streamVars)
    BY DEF PartsNext, partsVars
  <2> QED BY <2>1, <2>2, <2>3
<1>3. StreamsAtWork => ChunksDoNotMatter
  <2> SUFFICES ASSUME focus = "streams", StreamsInv
               PROVE  seen = IF ended = "eof" THEN S!Everything(stream) ELSE S!Dispatched(SubSeq(stream, 1, pos))
    BY DEF StreamsAtWork, ChunksDoNotMatter, S!ChunksDoNotMatter
  <2> QED BY DEF StreamsInv, Heard, At, S!Dispatched
<1> QED BY <1>1, <1>2, <1>3, PTL DEF PartsSpec

\* At most one record of tokens is posted for an answer, and once the answer has
\* ended it is the last counts that were read up to message_stop: however the
\* stream was cut, and whether it ended, broke off or said so itself.
THEOREM TokensAreCountedOnce == PartsSpec => []CountedOnce
<1> DEFINE Held == focus = "streams" => StreamsInv /\ CountsInv
<1>1. PartsInit => Held
  BY StreamsStart, CountsStart DEF PartsInit
<1>2. Held /\ [PartsNext]_partsVars => Held'
  <2> SUFFICES ASSUME Held, [PartsNext]_partsVars, focus' = "streams"
               PROVE  (StreamsInv /\ CountsInv)'
    OBVIOUS
  <2>1. CASE focus = "streams" /\ S!Next
    BY <2>1, StreamsSteps, CountsSteps
  <2>2. CASE focus = "streams" /\ UNCHANGED streamVars
    BY <2>2, StreamsStutters, CountsStutter
  <2>3. (focus = "streams" /\ S!Next) \/ (focus = "streams" /\ UNCHANGED streamVars)
    BY DEF PartsNext, partsVars
  <2> QED BY <2>1, <2>2, <2>3
<1>3. Held => CountedOnce
  BY CountsPosted DEF CountedOnce
<1> QED BY <1>1, <1>2, <1>3, PTL DEF PartsSpec

\* An aggregated answer is a 502 exactly when no event carried its response; when
\* that event listed no output of its own, the client gets every item finished
\* before it, in the order of the indices upstream stated, however late any came.
THEOREM AnswersAreWhole == PartsSpec => []AnswerIsWhole
<1> DEFINE Held == focus = "streams" => StreamsInv /\ WholeInv
<1>1. PartsInit => Held
  BY StreamsStart, WholeStart DEF PartsInit
<1>2. Held /\ [PartsNext]_partsVars => Held'
  <2> SUFFICES ASSUME Held, [PartsNext]_partsVars, focus' = "streams"
               PROVE  (StreamsInv /\ WholeInv)'
    OBVIOUS
  <2>1. CASE focus = "streams" /\ S!Next
    BY <2>1, StreamsSteps, WholeSteps
  <2>2. CASE focus = "streams" /\ UNCHANGED streamVars
    BY <2>2, StreamsStutters, WholeStutter
  <2>3. (focus = "streams" /\ S!Next) \/ (focus = "streams" /\ UNCHANGED streamVars)
    BY DEF PartsNext, partsVars
  <2> QED BY <2>1, <2>2, <2>3
<1>3. Held => AnswerIsWhole
  BY WholeHolds DEF AnswerIsWhole
<1> QED BY <1>1, <1>2, <1>3, PTL DEF PartsSpec
=============================================================================
