---------------------------- MODULE RequestsProofs ----------------------------
(***************************************************************************)
(* Proofs about a reader's messages (Requests): an answer's chunks arrive  *)
(* whole and in their place, and the newest head reaches every subscriber. *)
(*                                                                         *)
(* The recursive definitions, FlattenSeq, Fit and the groups of            *)
(* SplitSized, are reasoned about by DataInduction: its Recursion gives    *)
(* the function that their equation determines, and a counterexample of    *)
(* least length gives what they compute.                                   *)
(***************************************************************************)
EXTENDS Requests, DataInduction, FiniteSetTheorems, SequenceTheorems, TLAPS

-----------------------------------------------------------------------------
(* Sequences of sequences, joined.                                         *)

(* What FlattenSeq joins step by step.                                     *)
Joins(f, seqs) ==
  \A i \in 1 .. Len(seqs) : f[i] = IF i = 1 THEN seqs[i] ELSE f[i - 1] \o seqs[i]

(* Such a function exists.                                                 *)
LEMMA JoinsExist ==
  ASSUME NEW S, NEW seqs \in Seq(Seq(S)), seqs # <<>>
  PROVE  \E f \in [1 .. Len(seqs) -> Seq(S)] : Joins(f, seqs)
<1> DEFINE N == 1 .. Len(seqs)
           size == [i \in N |-> i]
           base == [i \in N |-> seqs[i]]
           next == [i \in N |-> IF i = 1 THEN 1 ELSE i - 1]
           combine == [p \in N \X Seq(S) |-> p[2] \o seqs[p[1]]]
           stop == {1}
<1>1. Len(seqs) \in Nat /\ 1 \in N /\ \A i \in N : i \in Nat /\ seqs[i] \in Seq(S)
  OBVIOUS
<1>2. size \in [N -> Nat] /\ base \in [N -> Seq(S)] /\ next \in [N -> N] /\ stop \in SUBSET N
  BY <1>1
<1>3. combine \in [N \X Seq(S) -> Seq(S)]
  BY <1>1
<1>4. \A i \in N \ stop : size[next[i]] < size[i]
  BY <1>1
<1>5. PICK f \in [N -> Seq(S)] : SolvesRecursion(f, N, stop, base, next, combine)
  <2> HIDE DEF N, size, base, next, combine, stop
  <2>1. IsRecursion(N, Seq(S), size, stop, base, next, combine)
    BY <1>2, <1>3, <1>4 DEF IsRecursion
  <2> QED
    BY <2>1, Recursion
<1>6. \A i \in N : f[i] = IF i = 1 THEN seqs[i] ELSE f[i - 1] \o seqs[i]
  <2> SUFFICES ASSUME NEW i \in N PROVE f[i] = IF i = 1 THEN seqs[i] ELSE f[i - 1] \o seqs[i]
    OBVIOUS
  <2>1. CASE i = 1
    BY <1>5, <2>1 DEF SolvesRecursion
  <2>2. CASE i # 1
    <3>0. i \in Nat /\ 1 <= i /\ i <= Len(seqs) /\ i - 1 \in N
      BY <1>1, <2>2
    <3>1. next[i] = i - 1 /\ i - 1 \in N /\ f[i - 1] \in Seq(S)
      BY <2>2, <3>0
    <3>2. f[i] = combine[<<i, f[i - 1]>>]
      BY <1>5, <2>2, <3>1 DEF SolvesRecursion
    <3> QED
      BY <2>2, <3>1, <3>2
  <2> QED
    BY <2>1, <2>2
<1> QED
  BY <1>6 DEF Joins

(* There is only one.                                                      *)
LEMMA JoinsAreEqual ==
  ASSUME NEW seqs, Len(seqs) \in Nat, NEW f, NEW g, Joins(f, seqs), Joins(g, seqs)
  PROVE  \A i \in 1 .. Len(seqs) : f[i] = g[i]
<1> DEFINE Differ == {i \in 1 .. Len(seqs) : f[i] # g[i]}
<1> SUFFICES ASSUME Differ # {} PROVE FALSE
  OBVIOUS
<1>0. Differ \in SUBSET Nat
  OBVIOUS
<1>1. PICK i \in Differ : \A j \in Differ : i <= j
  <2> HIDE DEF Differ
  <2> QED
    BY <1>0, LeastNumber
<1>2. i # 1
  BY <1>1 DEF Joins
<1>3. i - 1 \in 1 .. Len(seqs) /\ i - 1 \notin Differ
  BY <1>1, <1>2
<1> QED
  BY <1>1, <1>2, <1>3 DEF Joins

(* Its last value is the concatenation.                                    *)
LEMMA FlattenIsJoin ==
  ASSUME NEW S, NEW seqs \in Seq(Seq(S)), seqs # <<>>, NEW f, Joins(f, seqs)
  PROVE  FlattenSeq(seqs) = f[Len(seqs)]
<1> DEFINE N == 1 .. Len(seqs)
           E(g) == [i \in N |-> IF i = 1 THEN seqs[i] ELSE g[i - 1] \o seqs[i]]
           flatten == CHOOSE g : g = E(g)
<1>1. Len(seqs) \in Nat /\ Len(seqs) # 0
  OBVIOUS
<1>2. FlattenSeq(seqs) = flatten[Len(seqs)]
  BY <1>1, Zenon DEF FlattenSeq
<1>3. \E g : g = E(g)
  <2>1. PICK g \in [N -> Seq(S)] : Joins(g, seqs)
    BY JoinsExist
  <2>2. g = E(g)
    BY <2>1 DEF Joins
  <2> QED
    BY <2>2
<1>4. flatten = E(flatten)
  <2> HIDE DEF E
  <2> QED
    BY <1>3, Zenon
<1>5. Joins(flatten, seqs)
  <2> HIDE DEF flatten
  <2> QED
    BY <1>4 DEF Joins
<1> HIDE DEF flatten
<1> QED
  BY <1>1, <1>2, <1>5, JoinsAreEqual

(* Of nothing there is nothing.                                            *)
LEMMA FlattenNone == FlattenSeq(<<>>) = <<>>
BY DEF FlattenSeq

(* The concatenation is a sequence of the elements.                        *)
LEMMA FlattenType ==
  ASSUME NEW S, NEW seqs \in Seq(Seq(S))
  PROVE  FlattenSeq(seqs) \in Seq(S)
<1>1. CASE seqs = <<>>
  <2>1. FlattenSeq(seqs) = <<>>
    BY <1>1, FlattenNone
  <2> QED
    BY <2>1
<1>2. CASE seqs # <<>>
  <2>1. PICK f \in [1 .. Len(seqs) -> Seq(S)] : Joins(f, seqs)
    BY <1>2, JoinsExist
  <2>2. FlattenSeq(seqs) = f[Len(seqs)]
    BY <1>2, <2>1, FlattenIsJoin
  <2>3. Len(seqs) \in 1 .. Len(seqs)
    BY <1>2
  <2> QED
    BY <2>1, <2>2, <2>3
<1> QED
  BY <1>1, <1>2

(* One sequence more is appended to it.                                    *)
LEMMA FlattenAppend ==
  ASSUME NEW S, NEW seqs \in Seq(Seq(S)), NEW seq \in Seq(S)
  PROVE  FlattenSeq(Append(seqs, seq)) = FlattenSeq(seqs) \o seq
<1> DEFINE more == Append(seqs, seq)
           n == Len(seqs)
<1>1. /\ n \in Nat /\ more \in Seq(Seq(S)) /\ more # <<>> /\ Len(more) = n + 1
      /\ more[n + 1] = seq /\ \A i \in 1 .. n : more[i] = seqs[i]
  BY AppendProperties
<1>2. PICK f \in [1 .. Len(more) -> Seq(S)] : Joins(f, more)
  BY <1>1, JoinsExist
<1>3. FlattenSeq(more) = f[n + 1]
  BY <1>1, <1>2, FlattenIsJoin
<1> HIDE DEF more
<1>4. CASE seqs = <<>>
  <2>1. n = 0 /\ f[1] = seq
    BY <1>1, <1>2, <1>4 DEF Joins
  <2>2. FlattenSeq(seqs) \o seq = seq
    BY <1>4, FlattenNone
  <2> QED
    BY <1>3, <2>1, <2>2 DEF more
<1>5. CASE seqs # <<>>
  <2>1. Joins(f, seqs)
    <3> SUFFICES ASSUME NEW i \in 1 .. n PROVE f[i] = IF i = 1 THEN seqs[i] ELSE f[i - 1] \o seqs[i]
      BY DEF Joins
    <3>1. i \in 1 .. Len(more) /\ more[i] = seqs[i]
      BY <1>1
    <3> QED
      BY <1>2, <3>1 DEF Joins
  <2>2. FlattenSeq(seqs) = f[n]
    BY <1>5, <2>1, FlattenIsJoin
  <2>3. f[n + 1] = f[n] \o seq
    <3>1. n + 1 \in 1 .. Len(more) /\ n + 1 # 1 /\ (n + 1) - 1 = n
      BY <1>1, <1>5
    <3> QED
      BY <1>1, <1>2, <3>1 DEF Joins
  <2> QED
    BY <1>3, <2>2, <2>3 DEF more
<1> QED
  BY <1>4, <1>5

(* Those of two parts are concatenated.                                    *)
LEMMA FlattenConcat ==
  ASSUME NEW S, NEW left \in Seq(Seq(S)), NEW right \in Seq(Seq(S))
  PROVE  FlattenSeq(left \o right) = FlattenSeq(left) \o FlattenSeq(right)
<1> DEFINE T == {n \in Nat : \A r \in Seq(Seq(S)) : Len(r) = n =>
                   FlattenSeq(left \o r) = FlattenSeq(left) \o FlattenSeq(r)}
<1>1. 0 \in T
  <2> SUFFICES ASSUME NEW r \in Seq(Seq(S)), Len(r) = 0
               PROVE  FlattenSeq(left \o r) = FlattenSeq(left) \o FlattenSeq(r)
    OBVIOUS
  <2>1. r = <<>> /\ left \o r = left
    OBVIOUS
  <2>2. FlattenSeq(left) \o <<>> = FlattenSeq(left)
    BY FlattenType
  <2> QED
    BY <2>1, <2>2, FlattenNone
<1>2. ASSUME NEW n \in Nat, n \in T PROVE n + 1 \in T
  <2> SUFFICES ASSUME NEW r \in Seq(Seq(S)), Len(r) = n + 1
               PROVE  FlattenSeq(left \o r) = FlattenSeq(left) \o FlattenSeq(r)
    OBVIOUS
  <2> DEFINE front == SubSeq(r, 1, n)
             seq == r[n + 1]
  <2>1. /\ front \in Seq(Seq(S)) /\ Len(front) = n /\ seq \in Seq(S)
        /\ r = Append(front, seq)
    OBVIOUS
  <2> HIDE DEF front, seq
  <2>2. left \o r = Append(left \o front, seq) /\ left \o front \in Seq(Seq(S))
    BY <2>1
  <2>3. FlattenSeq(left \o front) = FlattenSeq(left) \o FlattenSeq(front)
    BY <1>2, <2>1
  <2>4. /\ FlattenSeq(left) \in Seq(S) /\ FlattenSeq(front) \in Seq(S)
        /\ FlattenSeq(left \o r) = FlattenSeq(left \o front) \o seq
        /\ FlattenSeq(r) = FlattenSeq(front) \o seq
    BY <2>1, <2>2, FlattenAppend, FlattenType
  <2>5. (FlattenSeq(left) \o FlattenSeq(front)) \o seq
          = FlattenSeq(left) \o (FlattenSeq(front) \o seq)
    BY <2>1, <2>4, SMTT(30)
  <2> QED
    BY <2>3, <2>4, <2>5
<1>3. Nat \subseteq T
  <2> HIDE DEF T
  <2> QED
    BY <1>1, <1>2, SetInduction
<1>4. Len(right) \in T
  BY <1>3
<1> QED
  BY <1>4
(* A sequence of the sequences of single elements.                         *)
LEMMA FlattenSingletons ==
  ASSUME NEW S, NEW seq \in Seq(S)
  PROVE  FlattenSeq([i \in DOMAIN seq |-> <<seq[i]>>]) = seq
<1> DEFINE seqs == [i \in DOMAIN seq |-> <<seq[i]>>]
           n == Len(seq)
           f == [i \in 1 .. n |-> SubSeq(seq, 1, i)]
<1>1. n \in Nat /\ DOMAIN seq = 1 .. n /\ seqs \in Seq(Seq(S)) /\ Len(seqs) = n
  <2>1. n \in Nat /\ DOMAIN seq = 1 .. n /\ \A i \in 1 .. n : seq[i] \in S
    OBVIOUS
  <2>2. \A i \in 1 .. n : <<seq[i]>> \in Seq(S)
    BY <2>1
  <2>3. seqs \in [1 .. n -> Seq(S)]
    <3> HIDE DEF n
    <3> QED
      BY <2>1, <2>2
  <2>4. seqs \in Seq(Seq(S))
    <3> HIDE DEF n, seqs
    <3> QED
      BY <2>1, <2>3
  <2>5. DOMAIN seqs = 1 .. n
    <3> HIDE DEF n
    <3> QED
      BY <2>1
  <2>6. Len(seqs) = n
    <3> HIDE DEF n, seqs
    <3> QED
      BY <2>1, <2>4, <2>5, LenProperties
  <2> QED
    BY <2>1, <2>4, <2>6
<1>2. CASE seq = <<>>
  <2>1. seqs = <<>>
    BY <1>1, <1>2
  <2> QED
    BY <1>2, <2>1, FlattenNone
<1>3. CASE seq # <<>>
  <2>1. n >= 1 /\ seqs # <<>>
    BY <1>1, <1>3
  <2>2. ASSUME NEW i \in 1 .. n PROVE f[i] = IF i = 1 THEN seqs[i] ELSE f[i - 1] \o seqs[i]
    <3>1. f[i] = SubSeq(seq, 1, i) /\ seqs[i] = <<seq[i]>>
      BY <1>1
    <3>2. CASE i = 1
      <4>1. SubSeq(seq, 1, 1) = <<seq[1]>>
        <5>1. 1 \in 1 .. Len(seq) /\ 1 \in 1 .. 1
          BY <1>1, <2>1
        <5>2. SubSeq(seq, 1, 1) = <<seq[1]>> \o SubSeq(seq, 2, 1)
          BY <5>1, SubSeqRecursiveFirst
        <5>3. SubSeq(seq, 2, 1) = <<>>
          BY SubSeqEmpty
        <5>4. <<seq[1]>> \o <<>> = <<seq[1]>>
          OBVIOUS
        <5> QED
          BY <5>2, <5>3, <5>4
      <4> QED
        BY <3>1, <3>2, <4>1
    <3>3. CASE i # 1
      <4>1. i - 1 \in 1 .. n /\ f[i - 1] = SubSeq(seq, 1, i - 1)
        BY <1>1, <3>3
      <4>2. SubSeq(seq, 1, i) = SubSeq(seq, 1, i - 1) \o <<seq[i]>>
        BY <1>1, <3>3
      <4> QED
        BY <3>1, <3>3, <4>1, <4>2
    <3> QED
      BY <3>2, <3>3
  <2>3. Joins(f, seqs)
    BY <1>1, <2>2 DEF Joins
  <2>4. FlattenSeq(seqs) = f[n]
    <3> HIDE DEF f, seqs, n
    <3> QED
      BY <1>1, <2>1, <2>3, FlattenIsJoin
  <2>5. SubSeq(seq, 1, n) = seq
    OBVIOUS
  <2> QED
    BY <1>1, <2>1, <2>4, <2>5
<1> QED
  BY <1>2, <1>3

-----------------------------------------------------------------------------
(* Answers cut in chunks.                                                  *)

(* The halving of a group that is too large ends at a part of it that      *)
(* begins where it begins and is not empty.                                *)
LEMMA FitIsDefined ==
  \A items \in Seq(Nat) :
    Fit[items] = IF Len(items) > 1 /\ BytesOf(items) > MaxChunkBytes
                 THEN Fit[SubSeq(items, 1, (Len(items) + 1) \div 2)] ELSE items
<1> DEFINE S == Seq(Nat)
           E(g) == [items \in S |-> IF Len(items) > 1 /\ BytesOf(items) > MaxChunkBytes
                    THEN g[SubSeq(items, 1, (Len(items) + 1) \div 2)] ELSE items]
           size == [items \in S |-> Len(items)]
           stop == {items \in S : ~(Len(items) > 1 /\ BytesOf(items) > MaxChunkBytes)}
           base == [items \in S |-> items]
           next == [items \in S |-> SubSeq(items, 1, (Len(items) + 1) \div 2)]
           combine == [p \in S \X S |-> p[2]]
<1>1. \A items \in S : SubSeq(items, 1, (Len(items) + 1) \div 2) \in S
  <2> SUFFICES ASSUME NEW items \in S PROVE SubSeq(items, 1, (Len(items) + 1) \div 2) \in S
    OBVIOUS
  <2>1. /\ Len(items) \in Nat /\ (Len(items) + 1) \div 2 \in Nat
        /\ \/ (Len(items) + 1) \div 2 <= Len(items)
           \/ Len(items) = 0
    OBVIOUS
  <2>2. \A i \in 1 .. (Len(items) + 1) \div 2 : items[i] \in Nat
    BY <2>1
  <2> QED
    BY <2>1, <2>2, SubSeqProperties
<1>2. \A items \in S \ stop : size[next[items]] < size[items]
  <2> SUFFICES ASSUME NEW items \in S, Len(items) > 1
               PROVE  Len(SubSeq(items, 1, (Len(items) + 1) \div 2)) < Len(items)
    BY <1>1
  <2>1. /\ Len(items) \in Nat /\ (Len(items) + 1) \div 2 \in 1 .. Len(items)
        /\ (Len(items) + 1) \div 2 < Len(items)
    OBVIOUS
  <2>2. Len(SubSeq(items, 1, (Len(items) + 1) \div 2)) = (Len(items) + 1) \div 2
    BY <2>1
  <2> QED
    BY <2>1, <2>2
<1>3. IsRecursion(S, S, size, stop, base, next, combine)
  BY <1>1, <1>2 DEF IsRecursion
<1>4. PICK g \in [S -> S] : SolvesRecursion(g, S, stop, base, next, combine)
  <2> HIDE DEF S, size, stop, base, next, combine
  <2> QED
    BY <1>3, Recursion
<1>5. g = E(g)
  <2>1. ASSUME NEW items \in S
        PROVE  g[items] = IF Len(items) > 1 /\ BytesOf(items) > MaxChunkBytes
                          THEN g[SubSeq(items, 1, (Len(items) + 1) \div 2)] ELSE items
    <3>1. CASE items \in stop
      BY <1>4, <3>1 DEF SolvesRecursion
    <3>2. CASE items \notin stop
      <4>1. g[next[items]] \in S
        BY <1>1
      <4> QED
        BY <1>4, <3>2, <4>1 DEF SolvesRecursion
    <3> QED
      BY <3>1, <3>2
  <2> QED
    BY <2>1
<1>6. Fit = CHOOSE h : h = E(h)
  BY Zenon DEF Fit
<1>7. Fit = E(Fit)
  <2> HIDE DEF E
  <2> QED
    BY <1>5, <1>6, Zenon
<1> QED
  BY <1>7

(* What fits into a chunk is a first part, and never empty.                *)
LEMMA FitIsPrefix ==
  ASSUME NEW items \in Seq(Nat), items # <<>>
  PROVE  \E k \in 1 .. Len(items) : Fit[items] = SubSeq(items, 1, k)
<1> DEFINE Good(seq) == \E k \in 1 .. Len(seq) : Fit[seq] = SubSeq(seq, 1, k)
           Bad == {Len(seq) : seq \in {it \in Seq(Nat) : it # <<>> /\ ~Good(it)}}
<1> SUFFICES ASSUME ~Good(items) PROVE FALSE
  OBVIOUS
<1>1. Bad \in SUBSET Nat /\ Len(items) \in Bad
  OBVIOUS
<1>2. PICK n \in Bad : \A m \in Bad : n <= m
  <2> HIDE DEF Bad
  <2> QED
    BY <1>1, LeastNumber
<1>3. PICK seq \in Seq(Nat) : seq # <<>> /\ ~Good(seq) /\ Len(seq) = n
  BY <1>2
<1> DEFINE half == (n + 1) \div 2
           left == SubSeq(seq, 1, half)
<1>4. CASE Len(seq) > 1 /\ BytesOf(seq) > MaxChunkBytes
  <2>1. n \in Nat /\ half \in 1 .. n /\ half < n
    BY <1>3, <1>4, SMTT(30)
  <2> HIDE DEF half
  <2>2. left \in Seq(Nat) /\ Len(left) = half /\ left # <<>>
    <3>1. \A i \in 1 .. half : seq[i] \in Nat
      BY <1>3, <2>1
    <3>2. left \in Seq(Nat) /\ Len(left) = half
      BY <1>3, <2>1, <3>1, SubSeqProperties
    <3> HIDE DEF left
    <3> QED
      BY <2>1, <3>2
  <2>3. Good(left)
    <3> HIDE DEF left, Good
    <3>1. ~Good(left) => half \in Bad
      <4> HIDE DEF half
      <4> QED
        BY <2>2
    <3>2. n \in Nat /\ half \in Nat
      BY <2>1
    <3> HIDE DEF Bad, half
    <3> QED
      BY <1>2, <2>1, <3>1, <3>2
  <2>4. PICK k \in 1 .. half : Fit[left] = SubSeq(left, 1, k)
    BY <2>2, <2>3
  <2>5. SubSeq(left, 1, k) = SubSeq(seq, 1, k)
    BY <1>3, <2>1
  <2>6. Fit[seq] = Fit[left]
    BY <1>3, <1>4, FitIsDefined DEF half
  <2>7. k \in 1 .. n
    BY <2>1
  <2> QED
    BY <1>3, <2>4, <2>5, <2>6, <2>7
<1>5. CASE ~(Len(seq) > 1 /\ BytesOf(seq) > MaxChunkBytes)
  <2>1. Fit[seq] = seq
    BY <1>5, FitIsDefined
  <2>2. seq = SubSeq(seq, 1, n) /\ n \in 1 .. n
    BY <1>3
  <2> QED
    BY <1>3, <2>1, <2>2
<1> QED
  BY <1>4, <1>5

(* The group taken from what is left of an answer.                         *)
Group(rest, limit) ==
  LET end == IF limit < Len(rest) THEN limit ELSE Len(rest) IN Fit[SubSeq(rest, 1, end)]

(* So is a group that is limited in number as well.                        *)
LEMMA GroupIsPrefix ==
  ASSUME NEW rest \in Seq(Nat), rest # <<>>, NEW limit \in Nat \ {0}
  PROVE  \E k \in 1 .. Len(rest) : Group(rest, limit) = SubSeq(rest, 1, k)
<1> DEFINE end == IF limit < Len(rest) THEN limit ELSE Len(rest)
           taken == SubSeq(rest, 1, end)
<1>1. Len(rest) \in Nat /\ end \in 1 .. Len(rest)
  OBVIOUS
<1> HIDE DEF end
<1>2. taken \in Seq(Nat) /\ Len(taken) = end /\ taken # <<>>
  <2>1. \A i \in 1 .. end : rest[i] \in Nat
    BY <1>1
  <2>2. taken \in Seq(Nat) /\ Len(taken) = end
    BY <1>1, <2>1, SubSeqProperties
  <2> HIDE DEF taken
  <2> QED
    BY <1>1, <2>2
<1>3. PICK k \in 1 .. end : Fit[taken] = SubSeq(taken, 1, k)
  <2> HIDE DEF taken
  <2> QED
    BY <1>2, FitIsPrefix
<1>4. SubSeq(taken, 1, k) = SubSeq(rest, 1, k)
  BY <1>1
<1>5. k \in 1 .. Len(rest)
  BY <1>1
<1> QED
  BY <1>3, <1>4, <1>5 DEF Group, end

(* To split by size loses nothing and keeps the order.                     *)
LEMMA SplitSizedIsWhole ==
  ASSUME NEW items \in Seq(Nat), NEW limit \in Nat \ {0}
  PROVE  /\ SplitSized(items, limit) \in Seq(Seq(Nat))
         /\ FlattenSeq(SplitSized(items, limit)) = items
<1> DEFINE S == Seq(Nat)
           V == Seq(Seq(Nat))
           E(g) == [rest \in S |->
             IF rest = <<>> THEN <<>>
             ELSE LET end == IF limit < Len(rest) THEN limit ELSE Len(rest)
                      group == Fit[SubSeq(rest, 1, end)]
                  IN <<group>> \o g[SubSeq(rest, Len(group) + 1, Len(rest))]]
           groups == CHOOSE g : g = E(g)
           Rest(rest) == SubSeq(rest, Len(Group(rest, limit)) + 1, Len(rest))
           size == [rest \in S |-> Len(rest)]
           stop == {<<>>}
           base == [rest \in S |-> <<>>]
           next == [rest \in S |-> IF rest = <<>> THEN <<>> ELSE Rest(rest)]
           combine == [p \in S \X V |->
                        IF p[1] = <<>> THEN <<>> ELSE <<Group(p[1], limit)>> \o p[2]]
<1>1. SplitSized(items, limit) = IF items = <<>> THEN << <<>> >> ELSE groups[items]
  BY Zenon DEF SplitSized
<1>2. ASSUME NEW rest \in S, rest # <<>>
      PROVE  /\ Group(rest, limit) \in S /\ Rest(rest) \in S
             /\ Len(Rest(rest)) < Len(rest)
             /\ Group(rest, limit) \o Rest(rest) = rest
  <2>1. PICK k \in 1 .. Len(rest) : Group(rest, limit) = SubSeq(rest, 1, k)
    BY <1>2, GroupIsPrefix
  <2>2. Len(rest) \in Nat /\ \A i \in 1 .. Len(rest) : rest[i] \in Nat
    OBVIOUS
  <2>3. SubSeq(rest, 1, k) \in S /\ Len(SubSeq(rest, 1, k)) = k
    <3>1. \A i \in 1 .. k : rest[i] \in Nat
      BY <2>2
    <3> QED
      BY <2>2, <3>1, SubSeqProperties
  <2>4. SubSeq(rest, k + 1, Len(rest)) \in S /\ Len(SubSeq(rest, k + 1, Len(rest))) < Len(rest)
    <3>1. \A i \in k + 1 .. Len(rest) : rest[i] \in Nat
      BY <2>2
    <3> QED
      BY <2>2, <3>1, SubSeqProperties
  <2>5. SubSeq(rest, 1, k) \o SubSeq(rest, k + 1, Len(rest)) = rest
    <3>1. SubSeq(rest, 1, k) \o SubSeq(rest, k + 1, Len(rest)) = SubSeq(rest, 1, Len(rest))
      <4>1. 1 \in 1 .. Len(rest) + 1 /\ k \in 1 - 1 .. Len(rest) /\ Len(rest) \in k .. Len(rest)
        BY <2>2
      <4> QED
        BY <4>1, ConcatAdjacentSubSeq
    <3>2. SubSeq(rest, 1, Len(rest)) = rest
      BY SubSeqFull
    <3> QED
      BY <3>1, <3>2
  <2> QED
    BY <2>1, <2>3, <2>4, <2>5
<1>3. PICK g \in [S -> V] : SolvesRecursion(g, S, stop, base, next, combine)
  <2>1. /\ size \in [S -> Nat] /\ stop \in SUBSET S /\ base \in [S -> V]
        /\ next \in [S -> S]
    BY <1>2
  <2>2. combine \in [S \X V -> V]
    <3>1. \A rest \in S, v \in V :
            (IF rest = <<>> THEN <<>> ELSE <<Group(rest, limit)>> \o v) \in V
      <4> SUFFICES ASSUME NEW rest \in S, NEW v \in V, rest # <<>>
                   PROVE  <<Group(rest, limit)>> \o v \in V
        OBVIOUS
      <4>1. <<Group(rest, limit)>> \in V
        BY <1>2
      <4> QED
        BY <4>1
    <3> HIDE DEF S, V
    <3> QED
      BY <3>1
  <2>3. \A rest \in S \ stop : size[next[rest]] < size[rest]
    BY <1>2
  <2>4. IsRecursion(S, V, size, stop, base, next, combine)
    <3> HIDE DEF S, V, size, stop, base, next, combine
    <3> QED
      BY <2>1, <2>2, <2>3 DEF IsRecursion
  <2> HIDE DEF S, V, size, stop, base, next, combine
  <2> QED
    BY <2>4, Recursion
<1>4. g = E(g)
  <2>1. ASSUME NEW rest \in S PROVE g[rest] = E(g)[rest]
    <3>1. CASE rest = <<>>
      BY <1>3, <3>1 DEF SolvesRecursion
    <3>2. CASE rest # <<>>
      <4>1. next[rest] = Rest(rest) /\ Rest(rest) \in S /\ g[Rest(rest)] \in V
        BY <1>2, <3>2
      <4>2. g[rest] = combine[<<rest, g[Rest(rest)]>>]
        BY <1>3, <3>2, <4>1 DEF SolvesRecursion
      <4>3. g[rest] = <<Group(rest, limit)>> \o g[Rest(rest)]
        <5> HIDE DEF Rest, V, S
        <5> QED
          BY <3>2, <4>1, <4>2
      <4>4. E(g)[rest] = <<Group(rest, limit)>> \o g[Rest(rest)]
        BY <3>2 DEF Group
      <4> QED
        BY <4>3, <4>4
    <3> QED
      BY <3>1, <3>2
  <2>2. g \in [S -> V] /\ \A rest \in S : g[rest] = E(g)[rest]
    BY <2>1
  <2>3. E(g) = [rest \in S |-> E(g)[rest]]
    BY Zenon
  <2>4. g = [rest \in S |-> g[rest]]
    BY <2>2
  <2> HIDE DEF E
  <2> QED
    BY <2>2, <2>3, <2>4
<1>5. groups = E(groups)
  <2> HIDE DEF E
  <2> QED
    BY <1>4, Zenon
<1>6. /\ groups[<<>>] = <<>>
      /\ \A rest \in S : rest # <<>> => groups[rest] = <<Group(rest, limit)>> \o groups[Rest(rest)]
  <2> HIDE DEF groups
  <2>1. \A rest \in S : groups[rest] = E(groups)[rest]
    BY <1>5, Zenon
  <2>2. groups[<<>>] = <<>>
    <3>1. <<>> \in S
      OBVIOUS
    <3> QED
      BY <2>1, <3>1
  <2>3. ASSUME NEW rest \in S, rest # <<>>
        PROVE  groups[rest] = <<Group(rest, limit)>> \o groups[Rest(rest)]
    <3>1. groups[rest] = E(groups)[rest]
      BY <2>1
    <3> QED
      BY <2>3, <3>1 DEF Group
  <2> QED
    BY <2>2, <2>3
<1> DEFINE Good(rest) == groups[rest] \in V /\ FlattenSeq(groups[rest]) = rest
           Bad == {Len(rest) : rest \in {r \in S : ~Good(r)}}
<1> HIDE DEF groups
<1>7. \A rest \in S : Good(rest)
  <2> SUFFICES ASSUME NEW it \in S, ~Good(it) PROVE FALSE
    OBVIOUS
  <2>1. Bad \in SUBSET Nat /\ Len(it) \in Bad
    OBVIOUS
  <2>2. PICK n \in Bad : \A m \in Bad : n <= m
    <3> HIDE DEF Bad
    <3> QED
      BY <2>1, LeastNumber
  <2>3. PICK rest \in S : ~Good(rest) /\ Len(rest) = n
    BY <2>2
  <2>4. rest # <<>>
    <3>1. Good(<<>>)
      BY <1>6, FlattenNone
    <3> HIDE DEF Good
    <3> QED
      BY <2>3, <3>1
  <2>5. /\ Group(rest, limit) \in S /\ Rest(rest) \in S
        /\ Len(Rest(rest)) < Len(rest) /\ Group(rest, limit) \o Rest(rest) = rest
    BY <1>2, <2>4
  <2>6. Good(Rest(rest))
    <3>1. ~Good(Rest(rest)) => Len(Rest(rest)) \in Bad
      <4> HIDE DEF Good, Rest
      <4> QED
        BY <2>5
    <3>2. Len(rest) \in Nat /\ Len(Rest(rest)) \in Nat
      <4> HIDE DEF Rest
      <4> QED
        BY <2>5, SMTT(30)
    <3> HIDE DEF Bad, Good, Rest
    <3> QED
      BY <2>2, <2>3, <2>5, <3>1, <3>2
  <2>7. groups[rest] = <<Group(rest, limit)>> \o groups[Rest(rest)]
    BY <1>6, <2>4
  <2>8. <<Group(rest, limit)>> \in V /\ FlattenSeq(<<Group(rest, limit)>>) = Group(rest, limit)
    <3> DEFINE group == Group(rest, limit)
    <3> HIDE DEF group
    <3>1. group \in S
      BY <2>5 DEF group
    <3>2. <<group>> = Append(<<>>, group) /\ <<>> \in V
      BY <3>1
    <3>3. FlattenSeq(Append(<<>>, group)) = FlattenSeq(<<>>) \o group
      BY <3>1, <3>2, FlattenAppend
    <3>4. <<>> \o group = group
      BY <3>1
    <3>5. <<group>> \in V
      BY <3>1
    <3> QED
      BY <3>2, <3>3, <3>4, <3>5, FlattenNone DEF group
  <2> HIDE DEF Rest
  <2>9. FlattenSeq(groups[rest]) = Group(rest, limit) \o Rest(rest)
    <3>1. /\ groups[Rest(rest)] \in Seq(Seq(Nat)) /\ <<Group(rest, limit)>> \in Seq(Seq(Nat))
          /\ FlattenSeq(groups[Rest(rest)]) = Rest(rest)
      BY <2>6, <2>8
    <3>2. FlattenSeq(<<Group(rest, limit)>> \o groups[Rest(rest)])
            = FlattenSeq(<<Group(rest, limit)>>) \o FlattenSeq(groups[Rest(rest)])
      BY <3>1, FlattenConcat
    <3> QED
      BY <2>7, <2>8, <3>1, <3>2
  <2>10. groups[rest] \in V
    BY <2>6, <2>7, <2>8
  <2> QED
    BY <2>3, <2>5, <2>9, <2>10
<1>8. CASE items = <<>>
  <2>1. << <<>> >> = Append(<<>>, <<>>) /\ <<>> \in V /\ <<>> \in S /\ << <<>> >> \in V
    OBVIOUS
  <2>2. FlattenSeq(Append(<<>>, <<>>)) = FlattenSeq(<<>>) \o <<>>
    BY <2>1, FlattenAppend
  <2>3. FlattenSeq(<<>>) \o <<>> = <<>>
    BY FlattenNone
  <2> QED
    BY <1>1, <1>8, <2>1, <2>2, <2>3
<1>9. CASE items # <<>>
  BY <1>1, <1>7, <1>9
<1> QED
  BY <1>8, <1>9

(* The number of chunks is the quotient rounded up.                        *)
LEMMA RoundedUp ==
  ASSUME NEW n \in Nat \ {0}, NEW limit \in Nat \ {0},
         NEW count, count = (n + limit - 1) \div limit
  PROVE  /\ count \in Nat \ {0} /\ n <= count * limit
         /\ \A i \in 1 .. count : (i - 1) * limit \in Nat /\ (i - 1) * limit < n
<1>1. count \in Int /\ limit * count <= n + limit - 1 /\ n + limit - 1 < limit * (count + 1)
  BY SMTT(30)
<1>2. limit * (count + 1) = limit * count + limit
  BY <1>1, SMTT(30)
<1>3. n <= limit * count /\ limit * count < n + limit
  BY <1>1, <1>2
<1>4. count > 0
  <2> SUFFICES ASSUME count <= 0 PROVE FALSE
    BY <1>1
  <2>1. limit * count <= 0
    BY <1>1, SMTT(30)
  <2> QED
    BY <1>1, <1>3, <2>1
<1>5. ASSUME NEW i \in 1 .. count PROVE (i - 1) * limit \in Nat /\ (i - 1) * limit < n
  <2>1. (i - 1) * limit <= (count - 1) * limit /\ (i - 1) * limit \in Nat
    <3>1. /\ i - 1 \in Nat /\ count - 1 \in Nat /\ i - 1 <= count - 1
      BY <1>1, <1>4
    <3>2. \A p, q, r \in Nat : p <= q => p * r <= q * r
      <4> SUFFICES ASSUME NEW p \in Nat, NEW q \in Nat, NEW r \in Nat, p <= q
                   PROVE  p * r <= q * r
        OBVIOUS
      <4>1. PICK d \in Nat : q = p + d
        <5>1. q - p \in Nat /\ q = p + (q - p)
          OBVIOUS
        <5> QED
          BY <5>1
      <4>2. (p + d) * r = p * r + d * r /\ d * r \in Nat /\ p * r \in Nat
        BY SMTT(30)
      <4> QED
        BY <4>1, <4>2
    <3>3. (i - 1) * limit \in Nat
      BY <3>1
    <3> QED
      BY <3>1, <3>2, <3>3
  <2>2. (count - 1) * limit = limit * count - limit
    BY <1>1, SMTT(30)
  <2>3. limit * count \in Int
    BY <1>1
  <2> QED
    BY <1>3, <2>1, <2>2, <2>3
<1>6. limit * count = count * limit
  BY <1>1
<1> QED
  BY <1>1, <1>3, <1>4, <1>5, <1>6

(* To split by count loses nothing and keeps the order.                    *)
LEMMA SplitByCountIsWhole ==
  ASSUME NEW items \in Seq(Nat), NEW limit \in Nat \ {0}
  PROVE  /\ SplitByCount(items, limit) \in Seq(Seq(Nat))
         /\ FlattenSeq(SplitByCount(items, limit)) = items
<1> DEFINE S == Seq(Nat)
           n == Len(items)
           count == IF items = <<>> THEN 1 ELSE (Len(items) + limit - 1) \div limit
           end(i) == IF i * limit < Len(items) THEN i * limit ELSE Len(items)
           groups == [i \in 1 .. count |-> SubSeq(items, (i - 1) * limit + 1, end(i))]
           f == [i \in 1 .. count |-> SubSeq(items, 1, end(i))]
<1>1. n \in Nat /\ (items = <<>> <=> n = 0) /\ \A i \in 1 .. n : items[i] \in Nat
  OBVIOUS
<1>2. /\ count \in Nat \ {0} /\ n <= count * limit
      /\ \A i \in 1 .. count : (i - 1) * limit \in Nat /\ (n > 0 => (i - 1) * limit < n)
  <2>1. CASE items = <<>>
    BY <1>1, <2>1
  <2>2. CASE items # <<>>
    BY <1>1, <2>2, RoundedUp
  <2> QED
    BY <2>1, <2>2
<1>3. ASSUME NEW i \in 1 .. count
      PROVE  /\ end(i) \in 0 .. n /\ (i - 1) * limit <= end(i)
             /\ (i # 1 => i - 1 \in 1 .. count /\ end(i - 1) = (i - 1) * limit)
  <2> HIDE DEF count
  <2>1. i \in Nat /\ i * limit \in Nat /\ i * limit = (i - 1) * limit + limit
    BY <1>2, SMTT(30)
  <2>2. n = 0 => (i - 1) * limit = 0
    <3>1. n = 0 => count = 1
      BY <1>1 DEF count
    <3>2. n = 0 => i = 1
      BY <3>1
    <3> QED
      BY <3>2
  <2>3. (i - 1) * limit \in Nat /\ (n > 0 => (i - 1) * limit < n)
    BY <1>2
  <2>4. end(i) \in 0 .. n /\ (i - 1) * limit <= end(i)
    BY <1>1, <2>1, <2>2, <2>3
  <2>5. i # 1 => n > 0
    BY <1>1, <1>2 DEF count
  <2>6. i # 1 => end(i - 1) = (i - 1) * limit
    BY <1>1, <2>3, <2>5
  <2> QED
    BY <1>2, <2>1, <2>4, <2>6
<1>4. end(count) = n
  BY <1>1, <1>2
<1>5. SplitByCount(items, limit) = groups
  BY DEF SplitByCount
<1> HIDE DEF count, end
<1>6. groups \in Seq(S) /\ Len(groups) = count /\ groups # <<>>
  <2>1. ASSUME NEW i \in 1 .. count PROVE SubSeq(items, (i - 1) * limit + 1, end(i)) \in S
    <3>1. \A j \in (i - 1) * limit + 1 .. end(i) : items[j] \in Nat
      BY <1>1, <1>2, <1>3
    <3>2. (i - 1) * limit + 1 \in Int /\ end(i) \in Int
      BY <1>2, <1>3
    <3> QED
      BY <3>1, <3>2, SubSeqProperties
  <2>2. groups \in [1 .. count -> S] /\ DOMAIN groups = 1 .. count
    BY <2>1
  <2> HIDE DEF groups
  <2>3. groups \in Seq(S)
    BY <1>2, <2>2
  <2>4. Len(groups) = count
    BY <1>2, <2>2, <2>3, LenProperties
  <2> QED
    BY <1>2, <2>3, <2>4
<1>7. ASSUME NEW i \in 1 .. count PROVE f[i] = IF i = 1 THEN groups[i] ELSE f[i - 1] \o groups[i]
  <2>1. f[i] = SubSeq(items, 1, end(i)) /\ groups[i] = SubSeq(items, (i - 1) * limit + 1, end(i))
    OBVIOUS
  <2>2. CASE i = 1
    <3>1. (i - 1) * limit + 1 = 1
      BY <2>2
    <3> QED
      BY <2>1, <2>2, <3>1
  <2>3. CASE i # 1
    <3>1. f[i - 1] = SubSeq(items, 1, (i - 1) * limit)
      BY <1>3, <2>3
    <3> DEFINE k == (i - 1) * limit
    <3>2. k \in Nat /\ end(i) \in 0 .. n /\ k <= end(i) /\ n \in Nat
      BY <1>1, <1>2, <1>3
    <3> HIDE DEF k
    <3>3. SubSeq(items, 1, k) \o SubSeq(items, k + 1, end(i)) = SubSeq(items, 1, end(i))
      <4>1. 1 \in 1 .. Len(items) + 1 /\ k \in 1 - 1 .. Len(items) /\ end(i) \in k .. Len(items)
        BY <3>2
      <4> QED
        BY <4>1, ConcatAdjacentSubSeq
    <3> QED
      BY <2>1, <2>3, <3>1, <3>3 DEF k
  <2> QED
    BY <2>2, <2>3
<1>8. Joins(f, groups)
  <2> HIDE DEF f, groups
  <2> QED
    BY <1>6, <1>7 DEF Joins
<1>9. FlattenSeq(groups) = f[count]
  <2> HIDE DEF f, groups
  <2> QED
    BY <1>6, <1>8, FlattenIsJoin
<1>10. f[count] = items
  <2>1. count \in 1 .. count
    BY <1>2
  <2>2. SubSeq(items, 1, n) = items
    BY SubSeqFull
  <2> QED
    BY <1>4, <2>1, <2>2
<1> QED
  BY <1>5, <1>6, <1>9, <1>10

(* The values of the state.                                                *)
Chunks == [items : Seq(Nat), index : Int, count : Int, final : BOOLEAN, error : BOOLEAN]
MessageKinds == {"none", "digest", "chunk", "ack", "pong"}
Messages == [kind : MessageKinds, head : Nat, chunk : Chunks]
EventKinds == {"report", "changed", "subscribe", "unsubscribe", "other"}
StepKinds == {"head"} \cup EventKinds \cup MessageKinds
Steps == {step \in [do : {"read", "event", "control"}, kind : StepKinds, message : Messages] :
            step.do # "control" => step.message.kind # "chunk"}
RelayEvents == [kind : StepKinds, session : Readers, head : Nat]

RequestsTypes ==
  /\ store_head \in Nat
  /\ todo \in [Readers -> Seq(Steps)]
  /\ read_head \in [Readers -> Nat]
  /\ events \in Seq(RelayEvents)
  /\ head_subscribers \in SUBSET Readers /\ missed \in SUBSET Readers
  /\ writer_control \in [Readers -> Seq(Messages)]
  /\ told \in [Readers -> SUBSET Nat]
  /\ received \in [Readers -> Seq(Chunks)]
  /\ expected \in [Readers -> Seq(Nat)]

-----------------------------------------------------------------------------
(* The chunks of a sequence of messages.                                   *)
ChunkIn(message) == IF message.kind = "chunk" THEN <<message.chunk>> ELSE <<>>
MessagesOf(steps) == [i \in DOMAIN steps |-> steps[i].message]
StreamOf(sent, control, steps) == sent \o ChunksIn(control) \o ChunksIn(MessagesOf(steps))

(* The stream of a session is that of its parts.                           *)
LEMMA StreamOfSession == \A s : ChunkStream(s) = StreamOf(received[s], writer_control[s], todo[s])
BY DEF ChunkStream, StreamOf, MessagesOf

(* A message has one chunk or none.                                        *)
LEMMA ChunkInType == \A message \in Messages : ChunkIn(message) \in Seq(Chunks)
BY DEF ChunkIn, Messages

(* The chunks of messages, a message at a time.                            *)
LEMMA ChunkCells ==
  ASSUME NEW messages \in Seq(Messages)
  PROVE  LET cells == [i \in DOMAIN messages |-> ChunkIn(messages[i])]
         IN  cells \in Seq(Seq(Chunks)) /\ Len(cells) = Len(messages)
             /\ ChunksIn(messages) = FlattenSeq(cells)
<1> DEFINE cells == [i \in DOMAIN messages |-> ChunkIn(messages[i])]
           n == Len(messages)
<1>1. n \in Nat /\ DOMAIN messages = 1 .. n /\ \A i \in 1 .. n : messages[i] \in Messages
  OBVIOUS
<1>2. cells \in [1 .. n -> Seq(Chunks)] /\ DOMAIN cells = 1 .. n
  <2> HIDE DEF n
  <2> QED
    BY <1>1, ChunkInType
<1>3. ChunksIn(messages) = FlattenSeq(cells)
  BY DEF ChunksIn, ChunkIn
<1> HIDE DEF cells, n
<1>4. cells \in Seq(Seq(Chunks))
  BY <1>1, <1>2
<1>5. Len(cells) = n
  BY <1>1, <1>2, <1>4, LenProperties
<1> QED
  BY <1>3, <1>4, <1>5 DEF cells, n

(* They are chunks.                                                        *)
LEMMA ChunksInType ==
  ASSUME NEW messages \in Seq(Messages)
  PROVE  ChunksIn(messages) \in Seq(Chunks)
BY ChunkCells, FlattenType

(* No messages, no chunks.                                                 *)
LEMMA ChunksInNone == ChunksIn(<<>>) = <<>>
<1>1. [i \in DOMAIN <<>> |-> ChunkIn(<<>>[i])] = <<>>
  OBVIOUS
<1>2. ChunksIn(<<>>) = FlattenSeq([i \in DOMAIN <<>> |-> ChunkIn(<<>>[i])])
  BY DEF ChunksIn, ChunkIn
<1> QED
  BY <1>1, <1>2, FlattenNone

(* A message more adds its chunk.                                          *)
LEMMA ChunksInAppend ==
  ASSUME NEW messages \in Seq(Messages), NEW message \in Messages
  PROVE  ChunksIn(Append(messages, message)) = ChunksIn(messages) \o ChunkIn(message)
<1> DEFINE more == Append(messages, message)
           Cells(list) == [i \in DOMAIN list |-> ChunkIn(list[i])]
<1>1. /\ more \in Seq(Messages) /\ Len(more) = Len(messages) + 1 /\ Len(messages) \in Nat
      /\ more[Len(messages) + 1] = message
      /\ \A i \in 1 .. Len(messages) : more[i] = messages[i]
  BY AppendProperties
<1> HIDE DEF more
<1>2. /\ Cells(messages) \in Seq(Seq(Chunks)) /\ Len(Cells(messages)) = Len(messages)
      /\ ChunksIn(messages) = FlattenSeq(Cells(messages))
      /\ Cells(more) \in Seq(Seq(Chunks)) /\ Len(Cells(more)) = Len(more)
      /\ ChunksIn(more) = FlattenSeq(Cells(more))
  BY <1>1, ChunkCells
<1>3. ChunkIn(message) \in Seq(Chunks)
  BY ChunkInType
<1>4. Cells(more) = Append(Cells(messages), ChunkIn(message))
  <2> DEFINE both == Append(Cells(messages), ChunkIn(message))
  <2>1. /\ both \in Seq(Seq(Chunks)) /\ Len(both) = Len(messages) + 1
        /\ both[Len(messages) + 1] = ChunkIn(message)
        /\ \A i \in 1 .. Len(messages) : both[i] = Cells(messages)[i]
    <3> HIDE DEF Cells
    <3> QED
      BY <1>2, <1>3, AppendProperties
  <2>2. DOMAIN more = 1 .. Len(messages) + 1 /\ DOMAIN messages = 1 .. Len(messages)
    BY <1>1
  <2>3. ASSUME NEW i \in 1 .. Len(messages) + 1 PROVE Cells(more)[i] = both[i]
    <3>1. Cells(more)[i] = ChunkIn(more[i])
      BY <2>2
    <3>2. CASE i = Len(messages) + 1
      BY <1>1, <2>1, <3>1, <3>2
    <3>3. CASE i # Len(messages) + 1
      <4>1. i \in 1 .. Len(messages)
        BY <1>1, <3>3
      <4>2. Cells(messages)[i] = ChunkIn(messages[i])
        BY <2>2, <4>1
      <4> QED
        BY <1>1, <2>1, <3>1, <4>1, <4>2
    <3> QED
      BY <3>2, <3>3
  <2> HIDE DEF Cells, both
  <2>4. Cells(more) = both
    BY <1>1, <1>2, <2>1, <2>3, SeqEqual
  <2> QED
    BY <2>4 DEF both
<1> HIDE DEF Cells
<1> QED
  BY <1>2, <1>3, <1>4, FlattenAppend DEF more

(* The first message has the first chunk.                                  *)
LEMMA ChunksInTail ==
  ASSUME NEW messages \in Seq(Messages), messages # <<>>
  PROVE  ChunksIn(messages) = ChunkIn(messages[1]) \o ChunksIn(Tail(messages))
<1> DEFINE Cells(list) == [i \in DOMAIN list |-> ChunkIn(list[i])]
           one == <<ChunkIn(messages[1])>>
           rest == Tail(messages)
<1>1. /\ messages[1] \in Messages /\ rest \in Seq(Messages)
      /\ Len(rest) = Len(messages) - 1 /\ Len(messages) \in Nat \ {0}
      /\ \A i \in 1 .. Len(rest) : rest[i] = messages[i + 1]
  BY HeadTailProperties
<1> HIDE DEF rest
<1>2. /\ Cells(messages) \in Seq(Seq(Chunks)) /\ Len(Cells(messages)) = Len(messages)
      /\ ChunksIn(messages) = FlattenSeq(Cells(messages))
      /\ Cells(rest) \in Seq(Seq(Chunks)) /\ Len(Cells(rest)) = Len(rest)
      /\ ChunksIn(rest) = FlattenSeq(Cells(rest))
  BY <1>1, ChunkCells
<1>3. ChunkIn(messages[1]) \in Seq(Chunks)
  BY <1>1, ChunkInType
<1>4. one \in Seq(Seq(Chunks)) /\ Len(one) = 1 /\ one[1] = ChunkIn(messages[1])
  BY <1>3
<1>5. FlattenSeq(one) = ChunkIn(messages[1])
  <2> DEFINE chunk == ChunkIn(messages[1])
  <2> HIDE DEF chunk
  <2>1. chunk \in Seq(Chunks)
    BY <1>3 DEF chunk
  <2>2. <<chunk>> = Append(<<>>, chunk) /\ <<>> \in Seq(Seq(Chunks))
    BY <2>1
  <2>3. FlattenSeq(Append(<<>>, chunk)) = FlattenSeq(<<>>) \o chunk
    BY <2>1, <2>2, FlattenAppend
  <2>4. <<>> \o chunk = chunk
    BY <2>1
  <2> QED
    BY <2>2, <2>3, <2>4, FlattenNone DEF chunk
<1>6. Cells(messages) = one \o Cells(rest)
  <2> DEFINE both == one \o Cells(rest)
  <2>1. /\ both \in Seq(Seq(Chunks)) /\ Len(both) = 1 + Len(rest)
        /\ \A i \in 1 .. 1 + Len(rest) : both[i] = IF i <= 1 THEN one[i] ELSE Cells(rest)[i - 1]
    <3> DEFINE right == Cells(rest)
    <3>1. /\ one \in Seq(Seq(Chunks)) /\ Len(one) = 1
          /\ right \in Seq(Seq(Chunks)) /\ Len(right) = Len(rest)
      BY <1>2, <1>4
    <3> HIDE DEF right, one
    <3>2. /\ one \o right \in Seq(Seq(Chunks)) /\ Len(one \o right) = Len(one) + Len(right)
          /\ \A i \in 1 .. Len(one) + Len(right) :
               (one \o right)[i] = IF i <= Len(one) THEN one[i] ELSE right[i - Len(one)]
      <4> DEFINE T == Seq(Chunks)
      <4>1. one \in Seq(T) /\ right \in Seq(T)
        BY <3>1
      <4> HIDE DEF T
      <4>2. /\ one \o right \in Seq(T) /\ Len(one \o right) = Len(one) + Len(right)
            /\ \A i \in 1 .. Len(one) + Len(right) :
                 (one \o right)[i] = IF i <= Len(one) THEN one[i] ELSE right[i - Len(one)]
        BY <4>1, ConcatProperties
      <4> QED
        BY <4>2 DEF T
    <3> QED
      BY <3>1, <3>2 DEF right
  <2>2. DOMAIN messages = 1 .. Len(messages) /\ DOMAIN rest = 1 .. Len(rest)
    BY <1>1
  <2>3. ASSUME NEW i \in 1 .. Len(messages) PROVE Cells(messages)[i] = both[i]
    <3>1. Cells(messages)[i] = ChunkIn(messages[i]) /\ i \in 1 .. 1 + Len(rest)
      BY <1>1, <2>2
    <3>2. CASE i = 1
      BY <1>4, <2>1, <3>1, <3>2
    <3>3. CASE i # 1
      <4>1. i - 1 \in 1 .. Len(rest) /\ rest[i - 1] = messages[i] /\ ~(i <= 1)
        BY <1>1, <3>3
      <4>2. Cells(rest)[i - 1] = ChunkIn(rest[i - 1])
        BY <2>2, <4>1
      <4> QED
        BY <2>1, <3>1, <4>1, <4>2
    <3> QED
      BY <3>2, <3>3
  <2> HIDE DEF Cells, both, one
  <2>4. Cells(messages) = both
    BY <1>1, <1>2, <2>1, <2>3, SeqEqual
  <2> QED
    BY <2>4 DEF both
<1> HIDE DEF Cells, one
<1>7. FlattenSeq(one \o Cells(rest)) = FlattenSeq(one) \o FlattenSeq(Cells(rest))
  BY <1>2, <1>4, FlattenConcat
<1> QED
  BY <1>2, <1>5, <1>6, <1>7 DEF rest

(* Other messages have no chunks.                                          *)
LEMMA ChunkFree ==
  ASSUME NEW messages \in Seq(Messages), \A i \in DOMAIN messages : messages[i].kind # "chunk"
  PROVE  ChunksIn(messages) = <<>>
<1> DEFINE T == {n \in Nat : \A m \in Seq(Messages) :
                   Len(m) = n /\ (\A i \in DOMAIN m : m[i].kind # "chunk") => ChunksIn(m) = <<>>}
<1>1. 0 \in T
  BY ChunksInNone
<1>2. ASSUME NEW n \in Nat, n \in T PROVE n + 1 \in T
  <2> SUFFICES ASSUME NEW m \in Seq(Messages), Len(m) = n + 1,
                      \A i \in DOMAIN m : m[i].kind # "chunk"
               PROVE  ChunksIn(m) = <<>>
    OBVIOUS
  <2>1. /\ m # <<>> /\ Tail(m) \in Seq(Messages) /\ Len(Tail(m)) = n
        /\ \A i \in DOMAIN Tail(m) : Tail(m)[i].kind # "chunk"
    OBVIOUS
  <2>2. ChunksIn(Tail(m)) = <<>>
    BY <1>2, <2>1
  <2>3. ChunkIn(m[1]) = <<>>
    BY <2>1 DEF ChunkIn
  <2>4. ChunksIn(m) = <<>> \o <<>>
    BY <2>1, <2>2, <2>3, ChunksInTail
  <2> QED
    BY <2>4
<1>3. Nat \subseteq T
  <2> HIDE DEF T
  <2> QED
    BY <1>1, <1>2, SetInduction
<1> QED
  BY <1>3

(* A session's stream, as its parts change.                                *)
LEMMA MessagesOfType ==
  ASSUME NEW steps \in Seq(Steps)
  PROVE  MessagesOf(steps) \in Seq(Messages) /\ Len(MessagesOf(steps)) = Len(steps)
<1> DEFINE n == Len(steps)
<1>1. n \in Nat /\ DOMAIN steps = 1 .. n /\ \A i \in 1 .. n : steps[i] \in Steps
  OBVIOUS
<1>2. \A step \in Steps : step.message \in Messages
  BY DEF Steps
<1> HIDE DEF n
<1>3. MessagesOf(steps) \in [1 .. n -> Messages] /\ DOMAIN MessagesOf(steps) = 1 .. n
  BY <1>1, <1>2 DEF MessagesOf
<1>4. MessagesOf(steps) \in Seq(Messages)
  BY <1>1, <1>3
<1>5. Len(MessagesOf(steps)) = n
  BY <1>1, <1>3, <1>4, LenProperties
<1> QED
  BY <1>4, <1>5 DEF n

(* A step that is done takes its message with it.                          *)
LEMMA MessagesOfTail ==
  ASSUME NEW steps \in Seq(Steps), steps # <<>>
  PROVE  /\ Tail(steps) \in Seq(Steps) /\ steps[1] \in Steps /\ steps[1].message \in Messages
         /\ MessagesOf(steps) # <<>> /\ MessagesOf(steps)[1] = steps[1].message
         /\ MessagesOf(Tail(steps)) = Tail(MessagesOf(steps))
<1> DEFINE rest == Tail(steps)
           all == MessagesOf(steps)
<1>1. /\ steps[1] \in Steps /\ rest \in Seq(Steps) /\ Len(rest) = Len(steps) - 1
      /\ Len(steps) \in Nat \ {0} /\ \A i \in 1 .. Len(rest) : rest[i] = steps[i + 1]
  BY HeadTailProperties
<1> HIDE DEF rest
<1>2. all \in Seq(Messages) /\ Len(all) = Len(steps)
  BY MessagesOfType
<1>3. MessagesOf(rest) \in Seq(Messages) /\ Len(MessagesOf(rest)) = Len(rest)
  BY <1>1, MessagesOfType
<1>4. \A i \in 1 .. Len(steps) : all[i] = steps[i].message
  BY <1>1 DEF MessagesOf
<1>5. \A i \in 1 .. Len(rest) : MessagesOf(rest)[i] = rest[i].message
  BY <1>1 DEF MessagesOf
<1> HIDE DEF all
<1>6. all # <<>> /\ all[1] = steps[1].message
  BY <1>1, <1>2, <1>4
<1>7. /\ Tail(all) \in Seq(Messages) /\ Len(Tail(all)) = Len(all) - 1
      /\ \A i \in 1 .. Len(Tail(all)) : Tail(all)[i] = all[i + 1]
  BY <1>2, <1>6, HeadTailProperties
<1>8. MessagesOf(rest) = Tail(all)
  <2>1. \A i \in 1 .. Len(rest) : MessagesOf(rest)[i] = Tail(all)[i]
    <3> SUFFICES ASSUME NEW i \in 1 .. Len(rest) PROVE MessagesOf(rest)[i] = Tail(all)[i]
      OBVIOUS
    <3>1. i + 1 \in 1 .. Len(steps) /\ i \in 1 .. Len(Tail(all))
      BY <1>1, <1>2, <1>7
    <3> QED
      BY <1>1, <1>4, <1>5, <1>7, <3>1
  <2> QED
    BY <1>1, <1>2, <1>3, <1>7, <2>1, SeqEqual
<1>9. steps[1].message \in Messages
  BY <1>1 DEF Steps
<1> QED
  BY <1>1, <1>6, <1>8, <1>9 DEF rest, all

(* What a session has of a stream.                                         *)
StreamParts(sent, control, steps) ==
  sent \in Seq(Chunks) /\ control \in Seq(Messages) /\ steps \in Seq(Steps)

(* A stream is one of chunks.                                              *)
LEMMA StreamType ==
  ASSUME NEW sent, NEW control, NEW steps, StreamParts(sent, control, steps)
  PROVE  /\ StreamOf(sent, control, steps) \in Seq(Chunks)
         /\ ChunksIn(control) \in Seq(Chunks) /\ ChunksIn(MessagesOf(steps)) \in Seq(Chunks)
BY ChunksInType, MessagesOfType DEF StreamParts, StreamOf

(* A step that sends nothing to the session's control channel is taken.    *)
LEMMA StreamAfterStep ==
  ASSUME NEW sent, NEW control, NEW steps, StreamParts(sent, control, steps),
         steps # <<>>, steps[1].do # "control"
  PROVE  StreamOf(sent, control, Tail(steps)) = StreamOf(sent, control, steps)
<1>1. /\ Tail(steps) \in Seq(Steps) /\ steps[1] \in Steps /\ MessagesOf(steps) \in Seq(Messages)
      /\ MessagesOf(steps) # <<>> /\ MessagesOf(steps)[1] = steps[1].message
      /\ MessagesOf(Tail(steps)) = Tail(MessagesOf(steps))
  BY MessagesOfTail, MessagesOfType DEF StreamParts
<1>2. ChunkIn(steps[1].message) = <<>>
  BY <1>1 DEF Steps, ChunkIn
<1>3. ChunksIn(MessagesOf(Tail(steps))) \in Seq(Chunks)
  BY <1>1, ChunksInType, MessagesOfType
<1>4. ChunksIn(MessagesOf(steps)) = <<>> \o ChunksIn(MessagesOf(Tail(steps)))
  BY <1>1, <1>2, ChunksInTail
<1>5. ChunksIn(MessagesOf(steps)) = ChunksIn(MessagesOf(Tail(steps)))
  BY <1>3, <1>4
<1> QED
  BY <1>5 DEF StreamOf

(* Its message goes to the control channel.                                *)
LEMMA StreamAfterPush ==
  ASSUME NEW sent, NEW control, NEW steps, StreamParts(sent, control, steps),
         steps # <<>>, NEW message \in Messages, ChunkIn(message) = ChunkIn(steps[1].message)
  PROVE  StreamOf(sent, Append(control, message), Tail(steps)) = StreamOf(sent, control, steps)
<1>1. /\ Tail(steps) \in Seq(Steps) /\ steps[1].message \in Messages
      /\ MessagesOf(steps) \in Seq(Messages)
      /\ MessagesOf(steps) # <<>> /\ MessagesOf(steps)[1] = steps[1].message
      /\ MessagesOf(Tail(steps)) = Tail(MessagesOf(steps))
  BY MessagesOfTail, MessagesOfType DEF StreamParts
<1> DEFINE a == ChunksIn(control)
           b == ChunkIn(message)
           c == ChunksIn(MessagesOf(Tail(steps)))
<1>2. a \in Seq(Chunks) /\ b \in Seq(Chunks) /\ c \in Seq(Chunks) /\ sent \in Seq(Chunks)
  BY <1>1, ChunksInType, ChunkInType, MessagesOfType DEF StreamParts
<1>3. ChunksIn(Append(control, message)) = a \o b
  BY ChunksInAppend DEF StreamParts
<1>4. ChunksIn(MessagesOf(steps)) = b \o c
  BY <1>1, ChunksInTail
<1> HIDE DEF a, b, c
<1>5. (sent \o (a \o b)) \o c = (sent \o a) \o (b \o c)
  BY <1>2, SMTT(30)
<1> QED
  BY <1>3, <1>4, <1>5 DEF StreamOf, a, c

(* The relay's message goes there.                                         *)
LEMMA StreamAfterRelay ==
  ASSUME NEW sent, NEW control, NEW steps, StreamParts(sent, control, steps),
         NEW message \in Messages, message.kind # "chunk"
  PROVE  StreamOf(sent, Append(control, message), steps) = StreamOf(sent, control, steps)
<1>1. ChunkIn(message) = <<>> /\ ChunksIn(control) \in Seq(Chunks)
  BY ChunksInType DEF ChunkIn, StreamParts
<1>2. ChunksIn(Append(control, message)) = ChunksIn(control) \o <<>>
  BY <1>1, ChunksInAppend DEF StreamParts
<1>3. ChunksIn(control) \o <<>> = ChunksIn(control)
  BY <1>1
<1> QED
  BY <1>2, <1>3 DEF StreamOf

(* The writer sends the first message of the channel.                      *)
LEMMA StreamAfterWrite ==
  ASSUME NEW sent, NEW control, NEW steps, StreamParts(sent, control, steps), control # <<>>
  PROVE  StreamOf(sent \o ChunkIn(control[1]), Tail(control), steps)
           = StreamOf(sent, control, steps)
<1>1. control[1] \in Messages /\ Tail(control) \in Seq(Messages)
  BY HeadTailProperties DEF StreamParts
<1> DEFINE a == ChunkIn(control[1])
           b == ChunksIn(Tail(control))
           c == ChunksIn(MessagesOf(steps))
<1>2. a \in Seq(Chunks) /\ b \in Seq(Chunks) /\ c \in Seq(Chunks) /\ sent \in Seq(Chunks)
  BY <1>1, ChunksInType, ChunkInType, MessagesOfType DEF StreamParts
<1>3. ChunksIn(control) = a \o b
  BY ChunksInTail DEF StreamParts
<1> HIDE DEF a, b, c
<1>4. ((sent \o a) \o b) \o c = (sent \o (a \o b)) \o c
  BY <1>2
<1> QED
  BY <1>3, <1>4 DEF StreamOf, a, b, c

(* A message without an answer in chunks begins when none is in hand.      *)
LEMMA StreamAfterBegin ==
  ASSUME NEW sent, NEW control, NEW steps, StreamParts(sent, control, steps),
         \A i \in DOMAIN steps : steps[i].message.kind # "chunk"
  PROVE  StreamOf(sent, control, steps) = StreamOf(sent, control, <<>>)
<1>1. MessagesOf(steps) \in Seq(Messages)
  BY MessagesOfType DEF StreamParts
<1>2. \A i \in DOMAIN MessagesOf(steps) : MessagesOf(steps)[i].kind # "chunk"
  BY DEF MessagesOf
<1>3. ChunksIn(MessagesOf(steps)) = <<>>
  BY <1>1, <1>2, ChunkFree
<1>4. MessagesOf(<<>>) = <<>>
  BY DEF MessagesOf
<1> QED
  BY <1>3, <1>4, ChunksInNone DEF StreamOf

-----------------------------------------------------------------------------
(* The stream of an answer that begins.                                    *)
WholeAnswer(stream, result) ==
  /\ FlattenSeq([i \in DOMAIN stream |-> stream[i].items]) = result
  /\ \A i \in DOMAIN stream :
       /\ stream[i].index = i - 1 /\ stream[i].count = Len(stream)
       /\ stream[i].final = (i = Len(stream))

(* The property is one of the streams.                                     *)
LEMMA AnswersAreWholeStreams ==
  AnswersAreWhole <=> \A s \in Readers : WholeAnswer(ChunkStream(s), expected[s])
BY DEF AnswersAreWhole, WholeAnswer

(* The message of a chunk.                                                 *)
LEMMA ChunkOfType ==
  ASSUME NEW chunk
  PROVE  /\ ChunkOf(chunk).kind = "chunk" /\ ChunkOf(chunk).chunk = chunk
         /\ (chunk \in Chunks => ChunkOf(chunk) \in Messages)
<1>1. ChunkOf(chunk).kind = "chunk" /\ ChunkOf(chunk).chunk = chunk
  BY DEF ChunkOf
<1>2. ASSUME chunk \in Chunks PROVE ChunkOf(chunk) \in Messages
  <2> DEFINE kind == "chunk"
             head == 0
  <2>1. kind \in MessageKinds /\ head \in Nat
    BY DEF MessageKinds
  <2> HIDE DEF kind, head
  <2>2. [kind |-> kind, head |-> head, chunk |-> chunk] \in Messages
    <3> HIDE DEF Chunks
    <3> QED
      BY <1>2, <2>1 DEF Messages
  <2> QED
    BY <2>2 DEF ChunkOf, kind, head
<1> QED
  BY <1>1, <1>2

(* The step that queues a message.                                         *)
LEMMA PushControlType ==
  ASSUME NEW message
  PROVE  /\ PushControl(message).do = "control" /\ PushControl(message).message = message
         /\ (message \in Messages => PushControl(message) \in Steps)
<1>1. PushControl(message).do = "control" /\ PushControl(message).message = message
  BY DEF PushControl
<1>2. ASSUME message \in Messages PROVE PushControl(message) \in Steps
  <2>1. message.kind \in MessageKinds
    BY <1>2 DEF Messages
  <2>2. PushControl(message)
          \in [do : {"read", "event", "control"}, kind : StepKinds, message : Messages]
    <3> DEFINE do == "control"
               kind == message.kind
    <3>1. do \in {"read", "event", "control"} /\ kind \in StepKinds
      BY <2>1 DEF StepKinds
    <3> HIDE DEF do, kind
    <3>2. [do |-> do, kind |-> kind, message |-> message]
            \in [do : {"read", "event", "control"}, kind : StepKinds, message : Messages]
      BY <1>2, <3>1
    <3> QED
      BY <3>2 DEF PushControl, do, kind
  <2> QED
    BY <1>1, <2>2 DEF Steps
<1> QED
  BY <1>1, <1>2

(* The list of the chunks.                                                 *)
LEMMA StreamOfChunks ==
  ASSUME NEW chunks \in Seq(Chunks), NEW steps \in Seq(Steps),
         Len(steps) = Len(chunks),
         \A i \in 1 .. Len(chunks) : steps[i].message = ChunkOf(chunks[i])
  PROVE  StreamOf(<<>>, <<>>, steps) = chunks
<1>1. Len(chunks) \in Nat /\ DOMAIN steps = 1 .. Len(chunks) /\ DOMAIN chunks = 1 .. Len(chunks)
  OBVIOUS
<1>2. DOMAIN MessagesOf(steps) = 1 .. Len(chunks)
  BY <1>1 DEF MessagesOf
<1>3. \A i \in 1 .. Len(chunks) : MessagesOf(steps)[i] = ChunkOf(chunks[i])
  BY <1>1 DEF MessagesOf
<1>4. ChunksIn(MessagesOf(steps)) = FlattenSeq([i \in DOMAIN chunks |-> <<chunks[i]>>])
  <2>1. \A i \in 1 .. Len(chunks) :
          (IF MessagesOf(steps)[i].kind = "chunk" THEN <<MessagesOf(steps)[i].chunk>> ELSE <<>>)
             = <<chunks[i]>>
    BY <1>3, ChunkOfType
  <2>2. [i \in DOMAIN MessagesOf(steps) |->
           IF MessagesOf(steps)[i].kind = "chunk" THEN <<MessagesOf(steps)[i].chunk>> ELSE <<>>]
          = [i \in DOMAIN chunks |-> <<chunks[i]>>]
    BY <1>1, <1>2, <2>1
  <2> QED
    BY <2>2 DEF ChunksIn
<1>5. ChunksIn(MessagesOf(steps)) = chunks
  BY <1>4, FlattenSingletons
<1>6. (<<>> \o <<>>) \o chunks = chunks
  OBVIOUS
<1> QED
  BY <1>5, <1>6, ChunksInNone DEF StreamOf

(* An answer begins with all of its chunks still to come.                  *)
LEMMA AnswerBegins ==
  ASSUME NEW groups \in Seq(Seq(Nat))
  PROVE  /\ ChunkMessages(groups) \in Seq(Steps)
         /\ WholeAnswer(StreamOf(<<>>, <<>>, ChunkMessages(groups)), FlattenSeq(groups))
<1> DEFINE n == Len(groups)
           chunk(i) == [items |-> groups[i], index |-> i - 1, count |-> n,
                        final |-> i = n, error |-> FALSE]
           chunks == [i \in 1 .. n |-> chunk(i)]
           steps == ChunkMessages(groups)
<1>1. n \in Nat /\ DOMAIN groups = 1 .. n /\ \A i \in 1 .. n : groups[i] \in Seq(Nat)
  OBVIOUS
<1> HIDE DEF n
<1>2. \A i \in 1 .. n : chunk(i) \in Chunks
  BY <1>1 DEF Chunks
<1>3. steps = [i \in 1 .. n |-> PushControl(ChunkOf(chunk(i)))]
  BY <1>1 DEF ChunkMessages, n
<1> HIDE DEF chunk
<1>4. \A i \in 1 .. n : PushControl(ChunkOf(chunk(i))) \in Steps
  BY <1>2, ChunkOfType, PushControlType
<1>5. chunks \in [1 .. n -> Chunks] /\ DOMAIN chunks = 1 .. n
  BY <1>2
<1>6. steps \in [1 .. n -> Steps] /\ DOMAIN steps = 1 .. n
  BY <1>3, <1>4
<1> HIDE DEF chunks, steps
<1>7. chunks \in Seq(Chunks) /\ steps \in Seq(Steps)
  BY <1>1, <1>5, <1>6
<1>8. Len(chunks) = n /\ Len(steps) = n
  BY <1>1, <1>5, <1>6, <1>7, LenProperties
<1>9. \A i \in 1 .. n : steps[i].message = ChunkOf(chunks[i])
  BY <1>3 DEF chunks, PushControl
<1>10. StreamOf(<<>>, <<>>, steps) = chunks
  BY <1>7, <1>8, <1>9, StreamOfChunks
<1>11. [i \in DOMAIN chunks |-> chunks[i].items] = groups
  <2>1. \A i \in 1 .. n : chunks[i].items = groups[i]
    BY DEF chunks, chunk
  <2>2. [i \in 1 .. n |-> groups[i]] = groups
    BY <1>1
  <2> QED
    BY <1>5, <2>1, <2>2
<1>12. \A i \in DOMAIN chunks :
         /\ chunks[i].index = i - 1 /\ chunks[i].count = Len(chunks)
         /\ chunks[i].final = (i = Len(chunks))
  BY <1>5, <1>8 DEF chunks, chunk
<1> QED
  BY <1>7, <1>10, <1>11, <1>12 DEF WholeAnswer, steps

(* An error is one empty chunk.                                            *)
LEMMA ErrorBegins ==
  ErrorChunk \in Seq(Steps) /\ WholeAnswer(StreamOf(<<>>, <<>>, ErrorChunk), <<>>)
<1> DEFINE chunk == [items |-> <<>>, index |-> 0, count |-> 1, final |-> TRUE, error |-> TRUE]
           chunks == <<chunk>>
           steps == ErrorChunk
<1>1. chunk \in Chunks
  BY DEF Chunks
<1>2. steps = <<PushControl(ChunkOf(chunk))>>
  BY DEF ErrorChunk
<1>3. chunk.items = <<>> /\ chunk.index = 0 /\ chunk.count = 1 /\ chunk.final = TRUE
  OBVIOUS
<1> HIDE DEF chunk, steps
<1>4. PushControl(ChunkOf(chunk)) \in Steps /\ PushControl(ChunkOf(chunk)).message = ChunkOf(chunk)
  BY <1>1, ChunkOfType, PushControlType
<1>5. steps \in Seq(Steps) /\ Len(steps) = 1 /\ steps[1].message = ChunkOf(chunk)
  BY <1>2, <1>4
<1>6. chunks \in Seq(Chunks) /\ Len(chunks) = 1 /\ chunks[1] = chunk /\ DOMAIN chunks = {1}
  BY <1>1
<1> HIDE DEF chunks
<1>7. StreamOf(<<>>, <<>>, steps) = chunks
  BY <1>5, <1>6, StreamOfChunks
<1>8. [i \in DOMAIN chunks |-> chunks[i].items] = << <<>> >>
  BY <1>3, <1>6
<1>9. FlattenSeq(<< <<>> >>) = <<>>
  <2>1. << <<>> >> = Append(<<>>, <<>>) /\ <<>> \in Seq(Seq(Nat)) /\ <<>> \in Seq(Nat)
    OBVIOUS
  <2>2. FlattenSeq(Append(<<>>, <<>>)) = FlattenSeq(<<>>) \o <<>>
    BY <2>1, FlattenAppend
  <2> QED
    BY <2>1, <2>2, FlattenNone
<1>10. \A i \in DOMAIN chunks :
         /\ chunks[i].index = i - 1 /\ chunks[i].count = Len(chunks)
         /\ chunks[i].final = (i = Len(chunks))
  <2>1. chunk.final = (1 = Len(chunks))
    BY <1>3, <1>6, Zenon
  <2> QED
    BY <1>3, <1>6, <2>1
<1>11. WholeAnswer(chunks, <<>>)
  BY <1>8, <1>9, <1>10 DEF WholeAnswer
<1> QED
  BY <1>5, <1>7, <1>11 DEF steps

-----------------------------------------------------------------------------
(* The lists of steps.                                                     *)

(* A change that nobody has been told of yet: the head is still to be      *)
(* read, or has been.                                                      *)
UnreadSteps == {ReportSteps(TRUE), PublishSteps(TRUE)}
UnannouncedSteps ==
  {<<SendEvent("report"), SendEvent("changed")>>, <<SendEvent("changed")>>,
   <<SendEvent("changed"), PushControl(Reply("ack"))>>}

(* A subscription: to be sent to the relay, then answered.                 *)
OwnSubscribe == <<SendEvent("subscribe"), ReadHead, PushControl(Digest(0))>>
OwnUnread == <<ReadHead, PushControl(Digest(0))>>
OwnUnsent == <<PushControl(Digest(0))>>

(* Steps that have nothing to do with heads.                               *)
Quiet(steps) ==
  \A i \in DOMAIN steps :
    /\ steps[i].do # "read"
    /\ steps[i].do = "event" => steps[i].kind \notin {"changed", "subscribe"}
    /\ steps[i].message.kind # "digest"

HasShape(steps) ==
  \/ steps \in UnreadSteps \cup UnannouncedSteps \cup {OwnSubscribe, OwnUnread, OwnUnsent}
  \/ Quiet(steps)

ChunkFreeSteps(steps) == \A i \in DOMAIN steps : steps[i].message.kind # "chunk"

(* A chunk of nothing is one.                                              *)
LEMMA NoChunkType == NoChunk \in Chunks
<1> DEFINE items == <<>>
           index == 0
           count == 0
<1>1. items \in Seq(Nat) /\ index \in Int /\ count \in Int
  OBVIOUS
<1> HIDE DEF items, index, count
<1>2. [items |-> items, index |-> index, count |-> count, final |-> FALSE, error |-> FALSE]
        \in Chunks
  BY <1>1 DEF Chunks
<1> QED
  BY <1>2 DEF NoChunk, items, index, count

(* Replies and digests are messages.                                       *)
LEMMA MessageTypes ==
  /\ \A kind \in MessageKinds : Reply(kind) \in Messages /\ Reply(kind).kind = kind
  /\ \A revision \in Nat : Digest(revision) \in Messages
  /\ \A revision : Digest(revision).kind = "digest" /\ Digest(revision).head = revision
<1>1. ASSUME NEW kind \in MessageKinds PROVE Reply(kind) \in Messages /\ Reply(kind).kind = kind
  <2> DEFINE head == 0
  <2>1. head \in Nat
    OBVIOUS
  <2> HIDE DEF head
  <2>2. [kind |-> kind, head |-> head, chunk |-> NoChunk] \in Messages
    <3> HIDE DEF Chunks, MessageKinds
    <3> QED
      BY <2>1, NoChunkType DEF Messages
  <2> QED
    BY <2>2 DEF Reply, head
<1>2. ASSUME NEW revision \in Nat PROVE Digest(revision) \in Messages
  <2> DEFINE kind == "digest"
  <2>1. kind \in MessageKinds
    BY DEF MessageKinds
  <2> HIDE DEF kind
  <2>2. [kind |-> kind, head |-> revision, chunk |-> NoChunk] \in Messages
    <3> HIDE DEF Chunks, MessageKinds
    <3> QED
      BY <2>1, NoChunkType DEF Messages
  <2> QED
    BY <2>2 DEF Digest, kind
<1>3. \A revision : Digest(revision).kind = "digest" /\ Digest(revision).head = revision
  BY DEF Digest
<1> QED
  BY <1>1, <1>2, <1>3

(* What is needed of the single steps.                                     *)
LEMMA ReadHeadIs ==
  /\ ReadHead \in Steps /\ ReadHead.do = "read" /\ ReadHead.message.kind = "none"
<1>1. ReadHead.do = "read" /\ ReadHead.kind = "head" /\ ReadHead.message = Reply("none")
  BY DEF ReadHead
<1>2. Reply("none") \in Messages /\ Reply("none").kind = "none"
  BY MessageTypes DEF MessageKinds
<1> DEFINE do == "read"
           kind == "head"
           message == Reply("none")
<1>3. do \in {"read", "event", "control"} /\ kind \in StepKinds /\ message \in Messages
  BY <1>2 DEF StepKinds
<1> HIDE DEF do, kind, message
<1>4. [do |-> do, kind |-> kind, message |-> message]
        \in [do : {"read", "event", "control"}, kind : StepKinds, message : Messages]
  BY <1>3
<1> QED
  BY <1>1, <1>2, <1>4 DEF Steps, ReadHead, do, kind, message

(* The step that sends an event.                                           *)
LEMMA SendEventIs ==
  ASSUME NEW kind \in EventKinds
  PROVE  /\ SendEvent(kind) \in Steps /\ SendEvent(kind).do = "event"
         /\ SendEvent(kind).kind = kind /\ SendEvent(kind).message.kind = "none"
<1>1. /\ SendEvent(kind).do = "event" /\ SendEvent(kind).kind = kind
      /\ SendEvent(kind).message = Reply("none")
  BY DEF SendEvent
<1>2. Reply("none") \in Messages /\ Reply("none").kind = "none"
  BY MessageTypes DEF MessageKinds
<1> DEFINE do == "event"
           message == Reply("none")
<1>3. do \in {"read", "event", "control"} /\ kind \in StepKinds /\ message \in Messages
  BY <1>2 DEF StepKinds
<1> HIDE DEF do, message
<1>4. [do |-> do, kind |-> kind, message |-> message]
        \in [do : {"read", "event", "control"}, kind : StepKinds, message : Messages]
  BY <1>3
<1> QED
  BY <1>1, <1>2, <1>4 DEF Steps, SendEvent, do, message

(* The step that queues a reply.                                           *)
LEMMA PushReplyIs ==
  ASSUME NEW kind \in {"ack", "pong"}
  PROVE  /\ PushControl(Reply(kind)) \in Steps /\ PushControl(Reply(kind)).do = "control"
         /\ PushControl(Reply(kind)).message = Reply(kind) /\ Reply(kind).kind = kind
BY MessageTypes, PushControlType DEF MessageKinds

(* The step that queues a digest.                                          *)
LEMMA PushDigestIs ==
  /\ PushControl(Digest(0)) \in Steps /\ PushControl(Digest(0)).do = "control"
  /\ PushControl(Digest(0)).message.kind = "digest"
BY MessageTypes, PushControlType

(* Concatenations of single steps.                                         *)
LEMMA SmallConcat ==
  ASSUME NEW a, NEW b, NEW c
  PROVE  /\ (<<a>> \o <<b>>) \o <<c>> = <<a, b, c>> /\ <<a, b>> \o <<c>> = <<a, b, c>>
         /\ (<<>> \o <<a>>) \o <<>> = <<a>> /\ <<>> \o <<a>> = <<a>>
<1> DEFINE S == {a, b, c}
<1>1. a \in S /\ b \in S /\ c \in S
  OBVIOUS
<1> HIDE DEF S
<1>2. <<a>> \in Seq(S) /\ <<a, b>> \in Seq(S) /\ <<>> \in Seq(S)
  BY <1>1
<1>3. <<a>> \o <<b>> = Append(<<a>>, b) /\ <<a, b>> \o <<c>> = Append(<<a, b>>, c)
  BY <1>1, <1>2, AppendIsConcat
<1>4. Append(<<a>>, b) = <<a, b>>
  <2> DEFINE one == <<a>>
             two == <<a, b>>
  <2>1. one \in Seq(S) /\ Len(one) = 1 /\ one[1] = a
    BY <1>1
  <2>2. two \in Seq(S) /\ Len(two) = 2 /\ two[1] = a /\ two[2] = b
    BY <1>1
  <2> HIDE DEF one, two
  <2>3. /\ Append(one, b) \in Seq(S) /\ Len(Append(one, b)) = 2
        /\ Append(one, b)[1] = a /\ Append(one, b)[2] = b
    BY <1>1, <2>1, AppendProperties
  <2>4. Append(one, b) = two
    BY <2>2, <2>3, SeqEqual
  <2> QED
    BY <2>4 DEF one, two
<1>6. Append(<<a, b>>, c) = <<a, b, c>>
  <2> DEFINE two == <<a, b>>
             three == <<a, b, c>>
  <2>1. two \in Seq(S) /\ Len(two) = 2 /\ two[1] = a /\ two[2] = b
    BY <1>1
  <2>2. three \in Seq(S) /\ Len(three) = 3 /\ three[1] = a /\ three[2] = b /\ three[3] = c
    BY <1>1
  <2> HIDE DEF two, three
  <2>3. /\ Append(two, c) \in Seq(S) /\ Len(Append(two, c)) = 3
        /\ Append(two, c)[1] = a /\ Append(two, c)[2] = b /\ Append(two, c)[3] = c
    <3>1. /\ Append(two, c) \in Seq(S) /\ Len(Append(two, c)) = Len(two) + 1
          /\ \A i \in 1 .. Len(two) : Append(two, c)[i] = two[i]
          /\ Append(two, c)[Len(two) + 1] = c
      <4>1. two \in Seq(S) /\ c \in S
        BY <1>1, <2>1
      <4> QED
        BY <4>1, AppendProperties, SMTT(30)
    <3>2. 1 \in 1 .. Len(two) /\ 2 \in 1 .. Len(two) /\ Len(two) + 1 = 3
      BY <2>1
    <3> QED
      BY <2>1, <3>1, <3>2
  <2>4. Append(two, c) = three
    BY <2>2, <2>3, SeqEqual
  <2> QED
    BY <2>4 DEF two, three
<1>5. <<>> \o <<a>> = <<a>> /\ <<a>> \o <<>> = <<a>>
  BY <1>2, ConcatEmptySeq
<1> QED
  BY <1>3, <1>4, <1>5, <1>6

(* The steps of the handlers, written out.                                 *)
LEMMA ListsOfSteps ==
  /\ ReportSteps(TRUE) = <<ReadHead, SendEvent("report"), SendEvent("changed")>>
  /\ ReportSteps(FALSE) = <<SendEvent("report")>>
  /\ PublishSteps(TRUE) = <<ReadHead, SendEvent("changed"), PushControl(Reply("ack"))>>
  /\ PublishSteps(FALSE) = <<PushControl(Reply("ack"))>>
  /\ SubscribeSteps(TRUE) = OwnSubscribe /\ SubscribeSteps(FALSE) = <<SendEvent("unsubscribe")>>
<1>1. \A a, b, c : (<<a>> \o <<b>>) \o <<c>> = <<a, b, c>>
  BY SmallConcat
<1>2. \A a : (<<>> \o <<a>>) \o <<>> = <<a>> /\ <<>> \o <<a>> = <<a>>
  BY SmallConcat
<1>3. \A a, b, c : <<a, b>> \o <<c>> = <<a, b, c>>
  BY SmallConcat
<1>4. ReportSteps(TRUE) = <<ReadHead, SendEvent("report"), SendEvent("changed")>>
  BY <1>1, Zenon DEF ReportSteps
<1>5. ReportSteps(FALSE) = <<SendEvent("report")>>
  BY <1>2, Zenon DEF ReportSteps
<1>6. PublishSteps(TRUE) = <<ReadHead, SendEvent("changed"), PushControl(Reply("ack"))>>
  BY <1>3, Zenon DEF PublishSteps
<1>7. PublishSteps(FALSE) = <<PushControl(Reply("ack"))>>
  BY <1>2, Zenon DEF PublishSteps
<1>8. SubscribeSteps(TRUE) = OwnSubscribe /\ SubscribeSteps(FALSE) = <<SendEvent("unsubscribe")>>
  BY Zenon DEF SubscribeSteps, OwnSubscribe
<1> QED
  BY <1>4, <1>5, <1>6, <1>7, <1>8

(* How the lists go on.                                                    *)
LEMMA TuplesGoOn ==
  ASSUME NEW a, NEW b, NEW c
  PROVE  /\ <<a>> # <<>> /\ <<a>>[1] = a /\ Tail(<<a>>) = <<>>
         /\ <<a, b>> # <<>> /\ <<a, b>>[1] = a /\ Tail(<<a, b>>) = <<b>>
         /\ <<a, b, c>> # <<>> /\ <<a, b, c>>[1] = a /\ Tail(<<a, b, c>>) = <<b, c>>
OBVIOUS

(* After the reading of the head its announcement is still to come.        *)
LEMMA UnreadGoesOn ==
  ASSUME NEW steps \in UnreadSteps
  PROVE  steps # <<>> /\ steps[1].do = "read" /\ Tail(steps) \in UnannouncedSteps
<1>1. CASE steps = <<ReadHead, SendEvent("report"), SendEvent("changed")>>
  <2>1. /\ steps # <<>> /\ steps[1] = ReadHead
        /\ Tail(steps) = <<SendEvent("report"), SendEvent("changed")>>
    BY <1>1, TuplesGoOn
  <2> QED
    BY <2>1, ReadHeadIs DEF UnannouncedSteps
<1>2. CASE steps = <<ReadHead, SendEvent("changed"), PushControl(Reply("ack"))>>
  <2>1. /\ steps # <<>> /\ steps[1] = ReadHead
        /\ Tail(steps) = <<SendEvent("changed"), PushControl(Reply("ack"))>>
    BY <1>2, TuplesGoOn
  <2> QED
    BY <2>1, ReadHeadIs DEF UnannouncedSteps
<1> QED
  BY <1>1, <1>2, ListsOfSteps DEF UnreadSteps

(* To have nothing to do is quiet.                                         *)
LEMMA QuietNone == Quiet(<<>>)
BY DEF Quiet

(* An announcement comes, after it the rest is quiet.                      *)
LEMMA UnannouncedGoesOn ==
  ASSUME NEW steps \in UnannouncedSteps
  PROVE  /\ steps # <<>> /\ steps[1].do = "event"
         /\ \/ steps[1].kind = "report" /\ Tail(steps) \in UnannouncedSteps
            \/ steps[1].kind = "changed" /\ Quiet(Tail(steps))
<1>1. /\ SendEvent("report").do = "event" /\ SendEvent("report").kind = "report"
      /\ SendEvent("changed").do = "event" /\ SendEvent("changed").kind = "changed"
  BY SendEventIs DEF EventKinds
<1>2. CASE steps = <<SendEvent("report"), SendEvent("changed")>>
  <2>1. steps # <<>> /\ steps[1] = SendEvent("report") /\ Tail(steps) = <<SendEvent("changed")>>
    BY <1>2, TuplesGoOn
  <2> QED
    BY <1>1, <2>1 DEF UnannouncedSteps
<1>3. CASE steps = <<SendEvent("changed")>>
  <2>1. steps # <<>> /\ steps[1] = SendEvent("changed") /\ Tail(steps) = <<>>
    BY <1>3, TuplesGoOn
  <2> QED
    BY <1>1, <2>1, QuietNone
<1>4. CASE steps = <<SendEvent("changed"), PushControl(Reply("ack"))>>
  <2>1. /\ steps # <<>> /\ steps[1] = SendEvent("changed")
        /\ Tail(steps) = <<PushControl(Reply("ack"))>>
    BY <1>4, TuplesGoOn
  <2>2. Quiet(<<PushControl(Reply("ack"))>>)
    <3> DEFINE step == PushControl(Reply("ack"))
    <3>1. step.do = "control" /\ step.message.kind = "ack"
      BY PushReplyIs
    <3> HIDE DEF step
    <3>2. DOMAIN <<step>> = {1} /\ <<step>>[1] = step
      OBVIOUS
    <3>3. Quiet(<<step>>)
      BY <3>1, <3>2 DEF Quiet
    <3> QED
      BY <3>3 DEF step
  <2> QED
    BY <1>1, <2>1, <2>2
<1> QED
  BY <1>2, <1>3, <1>4 DEF UnannouncedSteps

(* A subscription goes to the relay before the head is read and told.      *)
LEMMA SubscribeGoesOn ==
  /\ OwnSubscribe # <<>> /\ OwnSubscribe[1].do = "event" /\ OwnSubscribe[1].kind = "subscribe"
  /\ Tail(OwnSubscribe) = OwnUnread
  /\ OwnUnread # <<>> /\ OwnUnread[1].do = "read" /\ Tail(OwnUnread) = OwnUnsent
  /\ OwnUnsent # <<>> /\ OwnUnsent[1].do = "control" /\ Tail(OwnUnsent) = <<>>
  /\ OwnUnsent[1].message.kind = "digest"
<1>1. /\ OwnSubscribe # <<>> /\ OwnSubscribe[1] = SendEvent("subscribe")
      /\ Tail(OwnSubscribe) = OwnUnread
  BY TuplesGoOn DEF OwnSubscribe, OwnUnread
<1>2. OwnUnread # <<>> /\ OwnUnread[1] = ReadHead /\ Tail(OwnUnread) = OwnUnsent
  BY TuplesGoOn DEF OwnUnread, OwnUnsent
<1>3. OwnUnsent # <<>> /\ OwnUnsent[1] = PushControl(Digest(0)) /\ Tail(OwnUnsent) = <<>>
  BY TuplesGoOn DEF OwnUnsent
<1>4. SendEvent("subscribe").do = "event" /\ SendEvent("subscribe").kind = "subscribe"
  BY SendEventIs DEF EventKinds
<1> QED
  BY <1>1, <1>2, <1>3, <1>4, ReadHeadIs, PushDigestIs

(* What is quiet stays so.                                                 *)
LEMMA QuietGoesOn ==
  ASSUME NEW steps \in Seq(Steps), Quiet(steps), steps # <<>>
  PROVE  /\ steps[1].do # "read" /\ steps[1].message.kind # "digest"
         /\ steps[1].do = "event" => steps[1].kind \notin {"changed", "subscribe"}
         /\ Quiet(Tail(steps))
<1>1. /\ Len(steps) \in Nat \ {0} /\ DOMAIN steps = 1 .. Len(steps)
      /\ DOMAIN Tail(steps) = 1 .. Len(steps) - 1
      /\ \A i \in 1 .. Len(steps) - 1 : Tail(steps)[i] = steps[i + 1]
  OBVIOUS
<1>2. 1 \in DOMAIN steps
  BY <1>1
<1>3. Quiet(Tail(steps))
  <2> SUFFICES ASSUME NEW i \in 1 .. Len(steps) - 1
               PROVE  /\ Tail(steps)[i].do # "read" /\ Tail(steps)[i].message.kind # "digest"
                      /\ Tail(steps)[i].do = "event" =>
                           Tail(steps)[i].kind \notin {"changed", "subscribe"}
    BY <1>1 DEF Quiet
  <2>1. i + 1 \in DOMAIN steps /\ Tail(steps)[i] = steps[i + 1]
    BY <1>1
  <2> QED
    BY <2>1 DEF Quiet
<1> QED
  BY <1>2, <1>3 DEF Quiet

(* Every shape goes on as one.                                             *)
LEMMA ShapesGoOn ==
  ASSUME NEW steps \in Seq(Steps), HasShape(steps), steps # <<>>
  PROVE  HasShape(Tail(steps))
<1>1. CASE steps \in UnreadSteps
  BY <1>1, UnreadGoesOn DEF HasShape
<1>2. CASE steps \in UnannouncedSteps
  BY <1>2, UnannouncedGoesOn DEF HasShape
<1>3. CASE steps \in {OwnSubscribe, OwnUnread, OwnUnsent}
  BY <1>3, SubscribeGoesOn, QuietNone DEF HasShape
<1>4. CASE Quiet(steps)
  BY <1>4, QuietGoesOn DEF HasShape
<1> QED
  BY <1>1, <1>2, <1>3, <1>4 DEF HasShape

(* How a message begins: with steps that carry no chunk, or with those of  *)
(* an answer.                                                              *)
Beginning(steps) == steps \in Seq(Steps) /\ HasShape(steps) /\ ChunkFreeSteps(steps)

Answering(result, steps) ==
  /\ steps \in Seq(Steps) /\ Quiet(steps) /\ result \in Seq(Nat)
  /\ WholeAnswer(StreamOf(<<>>, <<>>, steps), result)

(* Steps without chunks have none together.                                *)
LEMMA ChunkFreeTuples ==
  ASSUME NEW a \in Steps, NEW b \in Steps, NEW c \in Steps,
         a.message.kind # "chunk", b.message.kind # "chunk", c.message.kind # "chunk"
  PROVE  /\ <<a>> \in Seq(Steps) /\ ChunkFreeSteps(<<a>>)
         /\ <<a, b, c>> \in Seq(Steps) /\ ChunkFreeSteps(<<a, b, c>>)
<1> DEFINE one == <<a>>
           three == <<a, b, c>>
<1>1. one \in Seq(Steps) /\ DOMAIN one = {1} /\ one[1] = a
  OBVIOUS
<1>2. /\ three \in Seq(Steps) /\ DOMAIN three = 1 .. 3
      /\ three[1] = a /\ three[2] = b /\ three[3] = c
  OBVIOUS
<1> HIDE DEF one, three
<1>3. ChunkFreeSteps(one)
  BY <1>1 DEF ChunkFreeSteps
<1>4. ChunkFreeSteps(three)
  <2> SUFFICES ASSUME NEW i \in 1 .. 3 PROVE three[i].message.kind # "chunk"
    BY <1>2 DEF ChunkFreeSteps
  <2>1. i = 1 \/ i = 2 \/ i = 3
    OBVIOUS
  <2> QED
    BY <1>2, <2>1
<1> QED
  BY <1>1, <1>2, <1>3, <1>4 DEF one, three

(* A single quiet step has a shape.                                        *)
LEMMA QuietOne ==
  ASSUME NEW step, step.do # "read", step.message.kind # "digest",
         step.do = "event" => step.kind \notin {"changed", "subscribe"}
  PROVE  HasShape(<<step>>)
<1>1. DOMAIN <<step>> = {1} /\ <<step>>[1] = step
  OBVIOUS
<1> QED
  BY <1>1 DEF Quiet, HasShape

(* The steps of the handlers have a shape and no chunks.                   *)
LEMMA Beginnings ==
  /\ \A changed \in BOOLEAN : Beginning(ReportSteps(changed)) /\ Beginning(PublishSteps(changed))
  /\ \A enabled \in BOOLEAN : Beginning(SubscribeSteps(enabled))
  /\ Beginning(<<PushControl(Reply("pong"))>>) /\ Beginning(<<SendEvent("other")>>)
<1>1. \A kind \in EventKinds :
        /\ SendEvent(kind) \in Steps /\ SendEvent(kind).do = "event"
        /\ SendEvent(kind).kind = kind /\ SendEvent(kind).message.kind = "none"
  BY SendEventIs
<1>2. \A kind \in {"ack", "pong"} :
        /\ PushControl(Reply(kind)) \in Steps /\ PushControl(Reply(kind)).do = "control"
        /\ PushControl(Reply(kind)).message.kind = kind
  BY PushReplyIs
<1>3. \A kind \in {"report", "unsubscribe", "other"} : Beginning(<<SendEvent(kind)>>)
  <2> SUFFICES ASSUME NEW kind \in {"report", "unsubscribe", "other"}
               PROVE  Beginning(<<SendEvent(kind)>>)
    OBVIOUS
  <2>1. kind \in EventKinds /\ kind \notin {"changed", "subscribe"}
    BY DEF EventKinds
  <2>2. HasShape(<<SendEvent(kind)>>)
    BY <1>1, <2>1, QuietOne
  <2> QED
    BY <1>1, <2>1, <2>2, ChunkFreeTuples DEF Beginning
<1>4. \A kind \in {"ack", "pong"} : Beginning(<<PushControl(Reply(kind))>>)
  <2> SUFFICES ASSUME NEW kind \in {"ack", "pong"} PROVE Beginning(<<PushControl(Reply(kind))>>)
    OBVIOUS
  <2>1. HasShape(<<PushControl(Reply(kind))>>)
    BY <1>2, QuietOne
  <2> QED
    BY <1>2, <2>1, ChunkFreeTuples DEF Beginning
<1>5. Beginning(ReportSteps(TRUE)) /\ Beginning(PublishSteps(TRUE))
  <2>1. HasShape(ReportSteps(TRUE)) /\ HasShape(PublishSteps(TRUE))
    BY DEF HasShape, UnreadSteps
  <2>2. "report" \in EventKinds /\ "changed" \in EventKinds
    BY DEF EventKinds
  <2>3. ReportSteps(TRUE) \in Seq(Steps) /\ ChunkFreeSteps(ReportSteps(TRUE))
    <3>1. /\ <<ReadHead, SendEvent("report"), SendEvent("changed")>> \in Seq(Steps)
          /\ ChunkFreeSteps(<<ReadHead, SendEvent("report"), SendEvent("changed")>>)
      BY <1>1, <2>2, ReadHeadIs, ChunkFreeTuples
    <3> QED
      BY <3>1, ListsOfSteps
  <2>4. PublishSteps(TRUE) \in Seq(Steps) /\ ChunkFreeSteps(PublishSteps(TRUE))
    <3>1. /\ <<ReadHead, SendEvent("changed"), PushControl(Reply("ack"))>> \in Seq(Steps)
          /\ ChunkFreeSteps(<<ReadHead, SendEvent("changed"), PushControl(Reply("ack"))>>)
      BY <1>1, <1>2, <2>2, ReadHeadIs, ChunkFreeTuples
    <3> QED
      BY <3>1, ListsOfSteps
  <2> QED
    BY <2>1, <2>3, <2>4 DEF Beginning
<1>6. Beginning(SubscribeSteps(TRUE))
  <2>1. HasShape(OwnSubscribe)
    BY DEF HasShape
  <2>2. "subscribe" \in EventKinds
    BY DEF EventKinds
  <2>3. OwnSubscribe \in Seq(Steps) /\ ChunkFreeSteps(OwnSubscribe)
    BY <1>1, <2>2, ReadHeadIs, PushDigestIs, ChunkFreeTuples DEF OwnSubscribe
  <2> QED
    BY <2>1, <2>3, ListsOfSteps DEF Beginning
<1>7. /\ Beginning(ReportSteps(FALSE)) /\ Beginning(PublishSteps(FALSE))
      /\ Beginning(SubscribeSteps(FALSE))
  BY <1>3, <1>4, ListsOfSteps
<1> QED
  BY <1>3, <1>4, <1>5, <1>6, <1>7

(* Answers are quiet.                                                      *)
LEMMA QuietAnswers ==
  (\A groups : Quiet(ChunkMessages(groups))) /\ Quiet(ErrorChunk)
<1>1. \A chunk : /\ PushControl(ChunkOf(chunk)).do = "control"
                 /\ PushControl(ChunkOf(chunk)).message.kind = "chunk"
  BY ChunkOfType, PushControlType
<1>2. ASSUME NEW groups PROVE Quiet(ChunkMessages(groups))
  <2> SUFFICES ASSUME NEW i \in DOMAIN ChunkMessages(groups)
               PROVE  \E chunk : ChunkMessages(groups)[i] = PushControl(ChunkOf(chunk))
    BY <1>1 DEF Quiet
  <2> QED
    BY DEF ChunkMessages
<1>3. Quiet(ErrorChunk)
  <2> DEFINE step == PushControl(ChunkOf([items |-> <<>>, index |-> 0, count |-> 1,
                                          final |-> TRUE, error |-> TRUE]))
  <2>1. ErrorChunk = <<step>>
    BY DEF ErrorChunk
  <2>2. step.do = "control" /\ step.message.kind = "chunk"
    BY <1>1
  <2> HIDE DEF step
  <2>3. DOMAIN <<step>> = {1} /\ <<step>>[1] = step
    OBVIOUS
  <2> QED
    BY <2>1, <2>2, <2>3 DEF Quiet
<1> QED
  BY <1>2, <1>3

(* An answer, split in either way, begins whole.                           *)
LEMMA AnswersBegin ==
  ASSUME NEW result \in Seq(Nat), NEW limit \in Nat \ {0}
  PROVE  /\ Answering(result, ChunkMessages(SplitSized(result, limit)))
         /\ Answering(result, ChunkMessages(SplitByCount(result, limit)))
         /\ Answering(<<>>, ErrorChunk)
<1>1. \A groups \in Seq(Seq(Nat)) :
        FlattenSeq(groups) = result => Answering(result, ChunkMessages(groups))
  BY AnswerBegins, QuietAnswers DEF Answering
<1>2. Answering(<<>>, ErrorChunk)
  <2>1. <<>> \in Seq(Nat)
    OBVIOUS
  <2> QED
    BY <2>1, ErrorBegins, QuietAnswers DEF Answering
<1> QED
  BY <1>1, <1>2, SplitSizedIsWhole, SplitByCountIsWhole

-----------------------------------------------------------------------------
(* The steps of the specification.                                         *)
BeginsPlainly(s, steps) ==
  /\ Begin(s, steps) /\ Beginning(steps)
  /\ \/ store_head' = store_head
     \/ store_head' = store_head + 1 /\ steps \in UnreadSteps
  /\ UNCHANGED <<read_head, events, head_subscribers, writer_control, told, missed, received,
                  expected>>

BeginsAnswer(s, result, steps) == Answering(result, steps) /\ RespondTo(s, result, steps)

(* What a step of the system is.                                           *)
LEMMA RequestsSteps ==
  ASSUME RequestsNext
  PROVE  \/ \E s \in Readers : \E steps : BeginsPlainly(s, steps)
         \/ \E s \in Readers : \E result, steps : BeginsAnswer(s, result, steps)
         \/ \E s \in Readers : DoRead(s) \/ DoEvent(s) \/ DoControl(s) \/ Write(s)
         \/ HandleEvent
<1>1. ASSUME NEW s \in Readers, NEW changed \in BOOLEAN, PlayerReportBundle(s, changed)
      PROVE  BeginsPlainly(s, ReportSteps(changed))
  <2>1. changed => ReportSteps(changed) \in UnreadSteps
    BY DEF UnreadSteps
  <2>2. Beginning(ReportSteps(changed))
    BY Beginnings
  <2> HIDE DEF UnreadSteps
  <2> QED
    BY <1>1, <2>1, <2>2 DEF PlayerReportBundle, Upsert, BeginsPlainly
<1>2. ASSUME NEW s \in Readers, NEW changed \in BOOLEAN, ExternalDatasetPublish(s, changed)
      PROVE  BeginsPlainly(s, PublishSteps(changed))
  <2>1. changed => PublishSteps(changed) \in UnreadSteps
    BY DEF UnreadSteps
  <2>2. Beginning(PublishSteps(changed))
    BY Beginnings
  <2> HIDE DEF UnreadSteps
  <2> QED
    BY <1>2, <2>1, <2>2 DEF ExternalDatasetPublish, Upsert, BeginsPlainly
<1>3. ASSUME NEW s \in Readers, NEW enabled \in BOOLEAN, TabHistorySubscribe(s, enabled)
      PROVE  BeginsPlainly(s, SubscribeSteps(enabled))
  BY <1>3, Beginnings DEF TabHistorySubscribe, BeginsPlainly
<1>4. ASSUME NEW s \in Readers, Ping(s) \/ ForRelay(s)
      PROVE  \E steps : BeginsPlainly(s, steps)
  BY <1>4, Beginnings DEF Ping, ForRelay, BeginsPlainly
<1>5. ASSUME NEW s \in Readers, NEW result \in Answers, NEW limit \in Limits,
             TabHistorySync(s, result, limit) \/ DirectoryQuery(s, result, limit)
      PROVE  \E steps : BeginsAnswer(s, result, steps)
  <2>1. result \in Seq(Nat) /\ limit \in Nat \ {0}
    BY RequestsAssumption
  <2> QED
    BY <1>5, <2>1, AnswersBegin DEF TabHistorySync, DirectoryQuery, BeginsAnswer
<1>6. ASSUME NEW s \in Readers, InvalidQuery(s)
      PROVE  BeginsAnswer(s, <<>>, ErrorChunk)
  <2>1. Answering(<<>>, ErrorChunk)
    <3>1. <<>> \in Seq(Nat) /\ 1 \in Nat \ {0}
      OBVIOUS
    <3> QED
      BY <3>1, AnswersBegin
  <2> QED
    BY <1>6, <2>1 DEF InvalidQuery, BeginsAnswer
<1>7. CASE SendingNext
  BY <1>7 DEF SendingNext
<1>8. CASE HeadsNext(Readers, Readers)
  BY <1>1, <1>3, <1>7, <1>8 DEF HeadsNext
<1>9. CASE AnswersNext(Readers)
  BY <1>2, <1>3, <1>4, <1>5, <1>6, <1>7, <1>9 DEF AnswersNext
<1> QED
  BY <1>8, <1>9 DEF RequestsNext

(* No session has anything to do.                                          *)
LEMMA RequestsTypesInit == RequestsInit => RequestsTypes
<1> SUFFICES ASSUME RequestsInit PROVE RequestsTypes
  OBVIOUS
<1>1. \A S : <<>> \in Seq(S)
  OBVIOUS
<1>2. 0 \in Nat /\ {} \in SUBSET Nat /\ {} \in SUBSET Readers
  OBVIOUS
<1> QED
  BY <1>1, <1>2 DEF RequestsInit, RequestsTypes

(* Every step keeps the types.                                             *)
LEMMA RequestsTypesNext ==
  ASSUME RequestsTypes, [RequestsNext]_requests_vars
  PROVE  RequestsTypes'
<1> USE DEF RequestsTypes
<1>1. ASSUME NEW s \in Readers, NEW steps \in Seq(Steps), Begin(s, steps)
      PROVE  todo' \in [Readers -> Seq(Steps)]
  BY <1>1 DEF Begin
<1>2. ASSUME NEW s \in Readers, NEW do, Step(s, do)
      PROVE  todo' \in [Readers -> Seq(Steps)] /\ todo[s] # <<>> /\ todo[s][1] \in Steps
  <2>1. todo[s] \in Seq(Steps) /\ todo[s] # <<>>
    BY <1>2 DEF Step
  <2>2. Tail(todo[s]) \in Seq(Steps) /\ todo[s][1] \in Steps
    BY <2>1, HeadTailProperties
  <2> QED
    BY <1>2, <2>1, <2>2 DEF Step
<1>3. ASSUME NEW s \in Readers, NEW steps, BeginsPlainly(s, steps) PROVE RequestsTypes'
  <2>1. steps \in Seq(Steps) /\ Begin(s, steps)
    BY <1>3 DEF BeginsPlainly, Beginning
  <2>2. todo' \in [Readers -> Seq(Steps)]
    BY <1>1, <2>1
  <2>3. store_head' \in Nat
    BY <1>3 DEF BeginsPlainly
  <2> QED
    BY <1>3, <2>2, <2>3 DEF BeginsPlainly
<1>4. ASSUME NEW s \in Readers, NEW result, NEW steps, BeginsAnswer(s, result, steps)
      PROVE  RequestsTypes'
  <2>1. steps \in Seq(Steps) /\ Begin(s, steps) /\ result \in Seq(Nat)
    BY <1>4 DEF BeginsAnswer, RespondTo, Answering
  <2>2. todo' \in [Readers -> Seq(Steps)]
    BY <1>1, <2>1
  <2>3. expected' \in [Readers -> Seq(Nat)]
    BY <1>4, <2>1 DEF BeginsAnswer, RespondTo
  <2>4. received' \in [Readers -> Seq(Chunks)]
    <3>1. <<>> \in Seq(Chunks)
      OBVIOUS
    <3> QED
      BY <1>4, <3>1 DEF BeginsAnswer, RespondTo
  <2> QED
    BY <1>4, <2>2, <2>3, <2>4 DEF BeginsAnswer, RespondTo
<1>5. ASSUME NEW s \in Readers, DoRead(s) PROVE RequestsTypes'
  BY <1>2, <1>5 DEF DoRead
<1>6. ASSUME NEW s \in Readers, DoEvent(s) PROVE RequestsTypes'
  <2>1. todo' \in [Readers -> Seq(Steps)] /\ todo[s] # <<>> /\ todo[s][1] \in Steps
    BY <1>2, <1>6 DEF DoEvent
  <2> DEFINE kind == todo[s][1].kind
             head == read_head[s]
             event == [kind |-> kind, session |-> s, head |-> head]
  <2>2. kind \in StepKinds /\ head \in Nat
    BY <2>1 DEF Steps
  <2> HIDE DEF kind, head
  <2>3. event \in RelayEvents
    BY <2>2 DEF RelayEvents
  <2>4. events' = Append(events, event)
    BY <1>6 DEF DoEvent, kind, head
  <2> HIDE DEF event
  <2>5. events' \in Seq(RelayEvents)
    BY <2>3, <2>4, AppendProperties
  <2> QED
    BY <1>6, <2>1, <2>5 DEF DoEvent
<1>7. ASSUME NEW s \in Readers, DoControl(s) PROVE RequestsTypes'
  <2>1. todo' \in [Readers -> Seq(Steps)] /\ todo[s] # <<>> /\ todo[s][1] \in Steps
    BY <1>2, <1>7 DEF DoControl
  <2> DEFINE message == todo[s][1].message
             sent == IF message.kind = "digest" THEN Digest(read_head[s]) ELSE message
  <2>2. sent \in Messages
    BY <2>1, MessageTypes DEF Steps
  <2>3. writer_control' = [writer_control EXCEPT ![s] = Append(@, sent)]
    BY <1>7 DEF DoControl
  <2> HIDE DEF sent
  <2>4. writer_control' \in [Readers -> Seq(Messages)]
    BY <2>2, <2>3
  <2> QED
    BY <1>7, <2>1, <2>4 DEF DoControl
<1>8. ASSUME NEW s \in Readers, Write(s) PROVE RequestsTypes'
  <2>1. writer_control[s] \in Seq(Messages) /\ writer_control[s] # <<>>
    BY <1>8 DEF Write
  <2> DEFINE message == writer_control[s][1]
  <2>2. message \in Messages /\ Tail(writer_control[s]) \in Seq(Messages)
    BY <2>1, HeadTailProperties
  <2>3. message.head \in Nat /\ message.chunk \in Chunks
    BY <2>2 DEF Messages
  <2>4. writer_control' \in [Readers -> Seq(Messages)]
    BY <1>8, <2>2 DEF Write
  <2>5. told' \in [Readers -> SUBSET Nat]
    <3>1. told[s] \cup {message.head} \in SUBSET Nat
      BY <2>3
    <3>2. \/ told' = told
          \/ told' = [told EXCEPT ![s] = told[s] \cup {message.head}]
      BY <1>8 DEF Write
    <3> HIDE DEF message
    <3> QED
      BY <3>1, <3>2
  <2>6. received' \in [Readers -> Seq(Chunks)]
    <3>1. Append(received[s], message.chunk) \in Seq(Chunks)
      BY <2>3, AppendProperties
    <3>2. \/ received' = received
          \/ received' = [received EXCEPT ![s] = Append(received[s], message.chunk)]
      BY <1>8 DEF Write
    <3> HIDE DEF message
    <3> QED
      BY <3>1, <3>2
  <2> QED
    BY <1>8, <2>4, <2>5, <2>6 DEF Write
<1>9. ASSUME HandleEvent PROVE RequestsTypes'
  <2>1. events # <<>>
    BY <1>9 DEF HandleEvent
  <2>2. events[1] \in RelayEvents /\ Tail(events) \in Seq(RelayEvents)
    BY <2>1, HeadTailProperties
  <2> DEFINE event == events[1]
             full == {s \in head_subscribers : Len(writer_control[s]) >= ControlPlaces}
  <2>3. event.session \in Readers /\ event.head \in Nat
    BY <2>2 DEF RelayEvents
  <2>4. head_subscribers' \in SUBSET Readers /\ events' \in Seq(RelayEvents)
    <3>1. \/ head_subscribers' = head_subscribers
          \/ head_subscribers' = head_subscribers \cup {event.session}
          \/ head_subscribers' = head_subscribers \ {event.session}
      BY <1>9 DEF HandleEvent
    <3>2. events' = Tail(events)
      BY <1>9 DEF HandleEvent
    <3> QED
      BY <2>2, <2>3, <3>1, <3>2
  <2>5. missed' \in SUBSET Readers
    <3>1. missed' = missed \/ missed' = missed \cup full
      BY <1>9 DEF HandleEvent
    <3> QED
      BY <3>1
  <2>6. writer_control' \in [Readers -> Seq(Messages)]
    <3>1. \/ writer_control' = writer_control
          \/ writer_control' = [s \in Readers |->
               IF s \in head_subscribers \ full THEN Append(writer_control[s], Digest(event.head))
               ELSE writer_control[s]]
      BY <1>9 DEF HandleEvent
    <3>2. Digest(event.head) \in Messages
      BY <2>3, MessageTypes
    <3>3. \A s \in Readers : Append(writer_control[s], Digest(event.head)) \in Seq(Messages)
      BY <3>2, AppendProperties
    <3> HIDE DEF event, full
    <3> QED
      BY <3>1, <3>3
  <2> QED
    BY <1>9, <2>4, <2>5, <2>6 DEF HandleEvent
<1>10. CASE UNCHANGED requests_vars
  BY <1>10 DEF requests_vars
<1> QED
  BY <1>3, <1>4, <1>5, <1>6, <1>7, <1>8, <1>9, <1>10, RequestsSteps

(* The state of a session's answer is well typed, and its sequences are    *)
(* those a stream is made of.                                              *)
THEOREM RequestsTypesHold == RequestsSpec => []RequestsTypes
<1>1. RequestsInit => RequestsTypes
  BY RequestsTypesInit
<1>2. RequestsTypes /\ [RequestsNext]_requests_vars => RequestsTypes'
  BY RequestsTypesNext
<1> QED
  BY <1>1, <1>2, PTL DEF RequestsSpec

(* Every session's stream, of the parts that the state keeps.              *)
StreamsAreWhole ==
  \A q \in Readers :
    WholeAnswer(StreamOf(received[q], writer_control[q], todo[q]), expected[q])

(* The property is one of the streams.                                     *)
LEMMA StreamsAreAnswers == StreamsAreWhole <=> AnswersAreWhole
BY AnswersAreWholeStreams, StreamOfSession DEF StreamsAreWhole

(* They are empty at first.                                                *)
LEMMA StreamsInit == RequestsInit => StreamsAreWhole
<1> SUFFICES ASSUME RequestsInit PROVE StreamsAreWhole
  OBVIOUS
<1>1. MessagesOf(<<>>) = <<>>
  BY DEF MessagesOf
<1>2. StreamOf(<<>>, <<>>, <<>>) = <<>>
  <2>1. (<<>> \o <<>>) \o <<>> = <<>>
    OBVIOUS
  <2> QED
    BY <1>1, <2>1, ChunksInNone DEF StreamOf
<1>3. WholeAnswer(<<>>, <<>>)
  <2>1. DOMAIN <<>> = {} /\ [i \in DOMAIN <<>> |-> <<>>[i].items] = <<>>
    OBVIOUS
  <2> QED
    BY <2>1, FlattenNone DEF WholeAnswer
<1> QED
  BY <1>2, <1>3 DEF RequestsInit, StreamsAreWhole

(* A step keeps what a session's stream is.                                *)
SameStream(q) ==
  /\ StreamOf(received[q], writer_control[q], todo[q])'
       = StreamOf(received[q], writer_control[q], todo[q])
  /\ expected'[q] = expected[q]

(* The parts of a session's stream have their types.                       *)
LEMMA PartsOfStream ==
  ASSUME RequestsTypes, NEW q \in Readers
  PROVE  StreamParts(received[q], writer_control[q], todo[q])
BY DEF RequestsTypes, StreamParts

(* A handler without chunks leaves all streams as they are.                *)
LEMMA BeginsPlainlyKeepsStreams ==
  ASSUME RequestsTypes, NEW s \in Readers, NEW steps, BeginsPlainly(s, steps), NEW q \in Readers
  PROVE  SameStream(q)
<1>1. /\ todo[s] = <<>> /\ todo' = [todo EXCEPT ![s] = steps]
      /\ steps \in Seq(Steps) /\ \A i \in DOMAIN steps : steps[i].message.kind # "chunk"
      /\ writer_control' = writer_control /\ received' = received /\ expected' = expected
  BY DEF BeginsPlainly, Begin, Beginning, ChunkFreeSteps
<1>2. StreamParts(received[q], writer_control[q], steps)
  BY <1>1, PartsOfStream DEF StreamParts
<1>3. todo'[q] = IF q = s THEN steps ELSE todo[q]
  BY <1>1 DEF RequestsTypes
<1> QED
  BY <1>1, <1>2, <1>3, StreamAfterBegin DEF SameStream

(* So do the reading of the head and the sending of an event.              *)
LEMMA ReadAndEventKeepStreams ==
  ASSUME RequestsTypes, NEW s \in Readers, DoRead(s) \/ DoEvent(s), NEW q \in Readers
  PROVE  SameStream(q)
<1>1. /\ todo[s] # <<>> /\ todo[s][1].do \in {"read", "event"}
      /\ todo' = [todo EXCEPT ![s] = Tail(@)]
      /\ writer_control' = writer_control /\ received' = received /\ expected' = expected
  BY DEF DoRead, DoEvent, Step
<1>2. todo'[q] = IF q = s THEN Tail(todo[s]) ELSE todo[q]
  BY <1>1 DEF RequestsTypes
<1>3. StreamParts(received[q], writer_control[q], todo[q]) /\ todo[s][1].do # "control"
  BY <1>1, PartsOfStream
<1> QED
  BY <1>1, <1>2, <1>3, StreamAfterStep DEF SameStream

(* A chunk that is queued has its place in the stream.                     *)
LEMMA ControlKeepsStreams ==
  ASSUME RequestsTypes, NEW s \in Readers, DoControl(s), NEW q \in Readers
  PROVE  SameStream(q)
<1> DEFINE message == todo[s][1].message
           sent == IF message.kind = "digest" THEN Digest(read_head[s]) ELSE message
<1>1. /\ todo[s] # <<>>
      /\ todo' = [todo EXCEPT ![s] = Tail(@)]
      /\ writer_control' = [writer_control EXCEPT ![s] = Append(@, sent)]
      /\ received' = received /\ expected' = expected
  BY DEF DoControl, Step
<1>2. sent \in Messages /\ ChunkIn(sent) = ChunkIn(todo[s][1].message)
  <2>1. message \in Messages /\ read_head[s] \in Nat
    BY <1>1, MessagesOfTail DEF RequestsTypes
  <2> QED
    BY <2>1, MessageTypes DEF ChunkIn
<1> HIDE DEF sent, message
<1>3. /\ todo'[q] = IF q = s THEN Tail(todo[s]) ELSE todo[q]
      /\ writer_control'[q] = IF q = s THEN Append(writer_control[s], sent) ELSE writer_control[q]
  BY <1>1 DEF RequestsTypes
<1>4. StreamParts(received[q], writer_control[q], todo[q])
  BY PartsOfStream
<1> QED
  BY <1>1, <1>2, <1>3, <1>4, StreamAfterPush DEF SameStream

(* So has one that is written.                                             *)
LEMMA WriteKeepsStreams ==
  ASSUME RequestsTypes, NEW s \in Readers, Write(s), NEW q \in Readers
  PROVE  SameStream(q)
<1> DEFINE message == writer_control[s][1]
<1>1. /\ writer_control[s] # <<>> /\ todo' = todo /\ expected' = expected
      /\ writer_control' = [writer_control EXCEPT ![s] = Tail(@)]
      /\ received' = IF message.kind = "chunk"
                     THEN [received EXCEPT ![s] = Append(@, message.chunk)] ELSE received
  BY DEF Write
<1>2. writer_control[s] \in Seq(Messages) /\ received[s] \in Seq(Chunks)
  BY DEF RequestsTypes
<1>3. message \in Messages
  BY <1>1, <1>2, HeadTailProperties
<1>4. received'[q] = IF q = s THEN received[s] \o ChunkIn(message) ELSE received[q]
  <2>1. CASE message.kind = "chunk"
    <3>1. message.chunk \in Chunks
      BY <1>3 DEF Messages
    <3>2. Append(received[s], message.chunk) = received[s] \o <<message.chunk>>
      BY <1>2, <3>1, AppendIsConcat
    <3> QED
      BY <1>1, <2>1, <3>2 DEF RequestsTypes, ChunkIn
  <2>2. CASE message.kind # "chunk"
    <3>1. received[s] \o <<>> = received[s]
      BY <1>2, ConcatEmptySeq
    <3> QED
      BY <1>1, <2>2, <3>1 DEF RequestsTypes, ChunkIn
  <2> QED
    BY <2>1, <2>2
<1>5. writer_control'[q] = IF q = s THEN Tail(writer_control[s]) ELSE writer_control[q]
  BY <1>1 DEF RequestsTypes
<1>6. StreamParts(received[q], writer_control[q], todo[q])
  BY PartsOfStream
<1> QED
  BY <1>1, <1>4, <1>5, <1>6, StreamAfterWrite DEF SameStream

(* The events of the relay add no chunks.                                  *)
LEMMA HandleEventKeepsStreams ==
  ASSUME RequestsTypes, HandleEvent, NEW q \in Readers
  PROVE  SameStream(q)
<1> DEFINE event == events[1]
           full == {s \in head_subscribers : Len(writer_control[s]) >= ControlPlaces}
<1>1. /\ events # <<>> /\ todo' = todo /\ received' = received /\ expected' = expected
      /\ \/ writer_control' = writer_control
         \/ writer_control' = [s \in Readers |->
              IF s \in head_subscribers \ full THEN Append(writer_control[s], Digest(event.head))
              ELSE writer_control[s]]
  BY DEF HandleEvent
<1>2. Digest(event.head) \in Messages /\ Digest(event.head).kind # "chunk"
  <2>1. event \in RelayEvents
    BY <1>1, HeadTailProperties DEF RequestsTypes
  <2>2. event.head \in Nat
    BY <2>1 DEF RelayEvents
  <2> QED
    BY <2>2, MessageTypes
<1>3. \/ writer_control'[q] = writer_control[q]
      \/ writer_control'[q] = Append(writer_control[q], Digest(event.head))
  <2> HIDE DEF event, full
  <2> QED
    BY <1>1 DEF RequestsTypes
<1>4. StreamParts(received[q], writer_control[q], todo[q])
  BY PartsOfStream
<1>5. StreamOf(received[q], Append(writer_control[q], Digest(event.head)), todo[q])
        = StreamOf(received[q], writer_control[q], todo[q])
  BY <1>2, <1>4, StreamAfterRelay
<1> HIDE DEF event, full
<1> QED
  BY <1>1, <1>3, <1>5 DEF SameStream

(* Only an answer that begins changes a stream, and it is whole at once.   *)
LEMMA AnswerBeginsWhole ==
  ASSUME RequestsTypes, StreamsAreWhole,
         NEW s \in Readers, NEW result, NEW steps, BeginsAnswer(s, result, steps)
  PROVE  StreamsAreWhole'
<1> SUFFICES ASSUME NEW q \in Readers
             PROVE  WholeAnswer(StreamOf(received'[q], writer_control'[q], todo'[q]), expected'[q])
  BY DEF StreamsAreWhole, WholeAnswer, StreamOf, MessagesOf
<1>1. /\ writer_control[s] = <<>> /\ todo' = [todo EXCEPT ![s] = steps]
      /\ received' = [received EXCEPT ![s] = <<>>] /\ expected' = [expected EXCEPT ![s] = result]
      /\ writer_control' = writer_control /\ Answering(result, steps)
  BY DEF BeginsAnswer, RespondTo, Begin
<1>2. CASE q = s
  <2>1. /\ received'[q] = <<>> /\ writer_control'[q] = <<>> /\ todo'[q] = steps
        /\ expected'[q] = result
    BY <1>1, <1>2 DEF RequestsTypes
  <2> QED
    BY <1>1, <2>1 DEF Answering
<1>3. CASE q # s
  <2>1. /\ received'[q] = received[q] /\ writer_control'[q] = writer_control[q]
        /\ todo'[q] = todo[q] /\ expected'[q] = expected[q]
    BY <1>1, <1>3 DEF RequestsTypes
  <2> QED
    BY <2>1 DEF StreamsAreWhole
<1> QED
  BY <1>2, <1>3

(* Every step keeps the streams whole.                                     *)
LEMMA StreamsNext ==
  ASSUME RequestsTypes, StreamsAreWhole, [RequestsNext]_requests_vars
  PROVE  StreamsAreWhole'
<1>1. ASSUME \A q \in Readers : SameStream(q) PROVE StreamsAreWhole'
  <2> SUFFICES ASSUME NEW q \in Readers
               PROVE  WholeAnswer(StreamOf(received'[q], writer_control'[q], todo'[q]),
                                  expected'[q])
    BY DEF StreamsAreWhole, WholeAnswer, StreamOf, MessagesOf
  <2>1. StreamOf(received'[q], writer_control'[q], todo'[q])
          = StreamOf(received[q], writer_control[q], todo[q]) /\ expected'[q] = expected[q]
    BY <1>1 DEF SameStream
  <2> QED
    BY <2>1 DEF StreamsAreWhole
<1>2. CASE UNCHANGED requests_vars
  <2>1. \A q \in Readers : SameStream(q)
    BY <1>2 DEF requests_vars, SameStream
  <2> QED
    BY <1>1, <2>1
<1>3. ASSUME NEW s \in Readers, NEW steps, BeginsPlainly(s, steps) PROVE StreamsAreWhole'
  BY <1>1, <1>3, BeginsPlainlyKeepsStreams
<1>4. ASSUME NEW s \in Readers, DoRead(s) \/ DoEvent(s) \/ DoControl(s) \/ Write(s)
      PROVE  StreamsAreWhole'
  BY <1>1, <1>4, ReadAndEventKeepStreams, ControlKeepsStreams, WriteKeepsStreams
<1>5. CASE HandleEvent
  BY <1>1, <1>5, HandleEventKeepsStreams
<1> QED
  BY <1>2, <1>3, <1>4, <1>5, AnswerBeginsWhole, RequestsSteps

(* The chunks of an answer are its result cut in order, numbered, the last *)
(* one final, however many sessions' heads and other messages go between   *)
(* them: of what SplitSized and SplitByCount make for every result and     *)
(* every limit, in a control channel of any capacity.                      *)
THEOREM NothingTakesAChunksPlace == RequestsSpec => []AnswersAreWhole
<1>1. RequestsInit => RequestsTypes /\ StreamsAreWhole
  BY RequestsTypesInit, StreamsInit
<1>2. RequestsTypes /\ StreamsAreWhole /\ [RequestsNext]_requests_vars
        => RequestsTypes' /\ StreamsAreWhole'
  BY RequestsTypesNext, StreamsNext
<1>3. StreamsAreWhole => AnswersAreWhole
  BY StreamsAreAnswers
<1> QED
  BY <1>1, <1>2, <1>3, PTL DEF RequestsSpec

-----------------------------------------------------------------------------
(* Where the newest head is on its way to a subscriber.                    *)

(* The subscriber has been told it, is about to be told it by what is in   *)
(* its control channel, or will be by its own subscription.                *)
OnItsWay(s) ==
  \/ store_head \in told[s]
  \/ \E i \in DOMAIN writer_control[s] :
       writer_control[s][i].kind = "digest" /\ writer_control[s][i].head = store_head
  \/ todo[s] = OwnUnread
  \/ todo[s] = OwnUnsent /\ read_head[s] = store_head

(* A reader still has to announce it.                                      *)
BeingAnnounced ==
  \E r \in Readers :
    \/ todo[r] \in UnreadSteps
    \/ todo[r] \in UnannouncedSteps /\ read_head[r] = store_head

(* The relay will hear of it after its j-th event.                         *)
AnnouncedAfter(j) ==
  \E i \in DOMAIN events : i > j /\ events[i].kind = "changed" /\ events[i].head = store_head

Carried(s, j) == OnItsWay(s) \/ BeingAnnounced \/ AnnouncedAfter(j)

HeadsAreCarried ==
  /\ \A s \in Readers : HasShape(todo[s])
  /\ \A s \in head_subscribers \ missed : Carried(s, 0)
  /\ \A q \in Readers \ missed : \A j \in DOMAIN events :
       events[j].kind = "subscribe" /\ events[j].session = q => Carried(q, j)

(* The head is known at first.                                             *)
LEMMA HeadsInit == RequestsInit => HeadsAreCarried
<1> SUFFICES ASSUME RequestsInit PROVE HeadsAreCarried
  OBVIOUS
<1>1. DOMAIN <<>> = {}
  OBVIOUS
<1> QED
  BY <1>1, QuietNone DEF RequestsInit, HeadsAreCarried, HasShape

(* Subscribers and the senders of events are sessions.                     *)
LEMMA EventsAreReaders ==
  ASSUME RequestsTypes
  PROVE  /\ head_subscribers \in SUBSET Readers
         /\ \A j \in DOMAIN events : events[j].session \in Readers
<1>1. \A j \in DOMAIN events : events[j] \in RelayEvents
  BY DEF RequestsTypes
<1>2. \A event \in RelayEvents : event.session \in Readers
  BY DEF RelayEvents
<1> QED
  BY <1>1, <1>2 DEF RequestsTypes

(* When nothing is under way, every subscriber has been told the newest    *)
(* head.                                                                   *)
LEMMA HeadsWhenDone ==
  ASSUME RequestsTypes, HeadsAreCarried
  PROVE  NewestHeadIsTold
<1> SUFFICES ASSUME events = <<>>,
                    \A s \in Readers : todo[s] = <<>> /\ writer_control[s] = <<>>,
                    NEW q \in head_subscribers \ missed
             PROVE  store_head \in told[q]
  BY DEF NewestHeadIsTold
<1>1. q \in Readers
  BY EventsAreReaders
<1>2. ~BeingAnnounced
  BY UnreadGoesOn, UnannouncedGoesOn DEF BeingAnnounced
<1>3. ~AnnouncedAfter(0)
  <2>1. DOMAIN events = {}
    OBVIOUS
  <2> QED
    BY <2>1 DEF AnnouncedAfter
<1>4. OnItsWay(q)
  BY <1>2, <1>3 DEF HeadsAreCarried, Carried
<1>5. DOMAIN writer_control[q] = {} /\ todo[q] = <<>>
  BY <1>1
<1> QED
  BY <1>4, <1>5, SubscribeGoesOn DEF OnItsWay

(* A session or the relay takes no step that loses one.  A message begins  *)
(* when its reader has nothing in hand; a change is announced by it.       *)
LEMMA HeadsBegin ==
  ASSUME RequestsTypes, HeadsAreCarried, NEW s \in Readers, NEW steps,
         \/ BeginsPlainly(s, steps)
         \/ \E result : BeginsAnswer(s, result, steps)
  PROVE  HeadsAreCarried'
<1>1. /\ todo[s] = <<>> /\ todo' = [todo EXCEPT ![s] = steps] /\ HasShape(steps)
      /\ store_head' = store_head \/ steps \in UnreadSteps
      /\ read_head' = read_head /\ events' = events /\ head_subscribers' = head_subscribers
      /\ writer_control' = writer_control /\ told' = told /\ missed' = missed
  BY DEF BeginsPlainly, BeginsAnswer, RespondTo, Begin, Beginning, Answering, HasShape
<1>2. \A q \in Readers : todo'[q] = IF q = s THEN steps ELSE todo[q]
  BY <1>1 DEF RequestsTypes
<1>3. \A q \in Readers : HasShape(todo'[q])
  BY <1>1, <1>2 DEF HeadsAreCarried
<1>4. CASE steps \in UnreadSteps
  <2>1. BeingAnnounced'
    BY <1>2, <1>4 DEF BeingAnnounced
  <2> QED
    BY <1>1, <1>3, <2>1 DEF HeadsAreCarried, Carried
<1>5. CASE store_head' = store_head
  <2>1. /\ OwnUnread # <<>> /\ OwnUnsent # <<>>
        /\ <<>> \notin UnreadSteps /\ <<>> \notin UnannouncedSteps
    BY SubscribeGoesOn, UnreadGoesOn, UnannouncedGoesOn
  <2>2. \A q \in Readers : OnItsWay(q) => OnItsWay(q)'
    BY <1>1, <1>2, <1>5, <2>1 DEF OnItsWay
  <2>3. BeingAnnounced => BeingAnnounced'
    BY <1>1, <1>2, <1>5, <2>1 DEF BeingAnnounced
  <2>4. \A j : AnnouncedAfter(j) => AnnouncedAfter(j)'
    BY <1>1, <1>5 DEF AnnouncedAfter
  <2>5. \A q \in Readers : \A j : Carried(q, j) => Carried(q, j)'
    BY <2>2, <2>3, <2>4 DEF Carried
  <2>6. /\ head_subscribers \in SUBSET Readers
        /\ \A j \in DOMAIN events : events[j].session \in Readers
    BY EventsAreReaders
  <2> QED
    BY <1>1, <1>3, <2>5, <2>6 DEF HeadsAreCarried
<1> QED
  BY <1>1, <1>4, <1>5
(* What a step of the message in hand leaves of the reader's list.         *)
LEMMA TakesStep ==
  ASSUME RequestsTypes, HeadsAreCarried, NEW s \in Readers, NEW do, Step(s, do)
  PROVE  /\ todo[s] \in Seq(Steps) /\ todo[s] # <<>> /\ todo[s][1].do = do
         /\ todo' = [todo EXCEPT ![s] = Tail(todo[s])]
         /\ \A q \in Readers : todo'[q] = IF q = s THEN Tail(todo[s]) ELSE todo[q]
         /\ \A q \in Readers : HasShape(todo'[q])
<1>1. /\ todo[s] \in Seq(Steps) /\ todo[s] # <<>> /\ todo[s][1].do = do
      /\ todo' = [todo EXCEPT ![s] = Tail(todo[s])]
  BY DEF Step, RequestsTypes
<1>2. \A q \in Readers : todo'[q] = IF q = s THEN Tail(todo[s]) ELSE todo[q]
  BY <1>1 DEF RequestsTypes
<1>3. HasShape(Tail(todo[s]))
  BY <1>1, ShapesGoOn DEF HeadsAreCarried
<1>4. \A q \in Readers : HasShape(todo'[q])
  BY <1>2, <1>3 DEF HeadsAreCarried
<1> QED
  BY <1>1, <1>2, <1>4

(* The head is read: what was to be read is now to be announced.           *)
LEMMA HeadsRead ==
  ASSUME RequestsTypes, HeadsAreCarried, NEW s \in Readers, DoRead(s)
  PROVE  HeadsAreCarried'
<1>1. /\ todo[s] # <<>> /\ todo[s][1].do = "read"
      /\ \A q \in Readers : todo'[q] = IF q = s THEN Tail(todo[s]) ELSE todo[q]
      /\ \A q \in Readers : HasShape(todo'[q])
  BY TakesStep DEF DoRead
<1>2. /\ store_head' = store_head /\ events' = events /\ head_subscribers' = head_subscribers
      /\ writer_control' = writer_control /\ told' = told /\ missed' = missed
      /\ \A q \in Readers : read_head'[q] = IF q = s THEN store_head ELSE read_head[q]
  BY DEF DoRead, RequestsTypes
<1>3. todo[s] \notin UnannouncedSteps /\ todo[s] # OwnUnsent
  BY <1>1, UnannouncedGoesOn, SubscribeGoesOn
<1>4. ASSUME NEW q \in Readers, OnItsWay(q) PROVE OnItsWay(q)'
  <2>1. CASE q = s /\ todo[q] = OwnUnread
    <3>1. todo'[q] = OwnUnsent /\ read_head'[q] = store_head
      BY <1>1, <1>2, <2>1, SubscribeGoesOn
    <3> QED
      BY <1>2, <3>1 DEF OnItsWay
  <2>2. CASE ~(q = s /\ todo[q] = OwnUnread)
    BY <1>1, <1>2, <1>3, <1>4, <2>2 DEF OnItsWay
  <2> QED
    BY <2>1, <2>2
<1>5. ASSUME BeingAnnounced PROVE BeingAnnounced'
  <2>1. PICK r \in Readers : \/ todo[r] \in UnreadSteps
                             \/ todo[r] \in UnannouncedSteps /\ read_head[r] = store_head
    BY <1>5 DEF BeingAnnounced
  <2>2. CASE r = s
    <3>1. todo[s] \in UnreadSteps
      BY <1>3, <2>1, <2>2
    <3>2. todo'[s] \in UnannouncedSteps /\ read_head'[s] = store_head
      BY <1>1, <1>2, <3>1, UnreadGoesOn
    <3> QED
      BY <1>2, <3>2 DEF BeingAnnounced
  <2>3. CASE r # s
    BY <1>1, <1>2, <2>1, <2>3 DEF BeingAnnounced
  <2> QED
    BY <2>2, <2>3
<1>6. \A j : AnnouncedAfter(j) => AnnouncedAfter(j)'
  BY <1>2 DEF AnnouncedAfter
<1>7. \A q \in Readers : \A j : Carried(q, j) => Carried(q, j)'
  BY <1>4, <1>5, <1>6 DEF Carried
<1> QED
  BY <1>1, <1>2, <1>7, EventsAreReaders DEF HeadsAreCarried

(* An event is sent to the relay: an announcement goes behind every        *)
(* subscription that is there, and a subscriber will read the head after.  *)
LEMMA HeadsEvent ==
  ASSUME RequestsTypes, HeadsAreCarried, NEW s \in Readers, DoEvent(s)
  PROVE  HeadsAreCarried'
<1> DEFINE kind == todo[s][1].kind
           head == read_head[s]
           event == [kind |-> kind, session |-> s, head |-> head]
           n == Len(events)
<1>1. /\ todo[s] \in Seq(Steps) /\ todo[s] # <<>> /\ todo[s][1].do = "event"
      /\ \A q \in Readers : todo'[q] = IF q = s THEN Tail(todo[s]) ELSE todo[q]
      /\ \A q \in Readers : HasShape(todo'[q])
  BY TakesStep DEF DoEvent
<1>2. /\ store_head' = store_head /\ read_head' = read_head /\ head_subscribers' = head_subscribers
      /\ writer_control' = writer_control /\ told' = told /\ missed' = missed
      /\ events' = Append(events, event)
  BY DEF DoEvent
<1>3. event.kind = kind /\ event.session = s /\ event.head = head
  OBVIOUS
<1> HIDE DEF event
<1>4. /\ n \in Nat /\ DOMAIN events = 1 .. n /\ DOMAIN events' = 1 .. n + 1
      /\ \A j \in 1 .. n : events'[j] = events[j]
      /\ events'[n + 1] = event
  <2>1. events \in Seq(RelayEvents)
    BY DEF RequestsTypes
  <2> QED
    BY <1>2, <2>1
<1>5. todo[s] \notin UnreadSteps /\ todo[s] # OwnUnread /\ todo[s] # OwnUnsent
  BY <1>1, UnreadGoesOn, SubscribeGoesOn
<1>6. \A q \in Readers : OnItsWay(q) => OnItsWay(q)'
  BY <1>1, <1>2, <1>5 DEF OnItsWay
<1> HIDE DEF n
<1>7. \A j : AnnouncedAfter(j) => AnnouncedAfter(j)'
  <2> SUFFICES ASSUME NEW j, AnnouncedAfter(j) PROVE AnnouncedAfter(j)'
    OBVIOUS
  <2>1. PICK i \in DOMAIN events :
          i > j /\ events[i].kind = "changed" /\ events[i].head = store_head
    BY DEF AnnouncedAfter
  <2>2. i \in DOMAIN events' /\ events'[i] = events[i]
    BY <1>4
  <2> QED
    BY <1>2, <2>1, <2>2 DEF AnnouncedAfter
<1>8. ASSUME BeingAnnounced PROVE BeingAnnounced' \/ \A j \in 0 .. n : AnnouncedAfter(j)'
  <2>1. PICK r \in Readers : \/ todo[r] \in UnreadSteps
                             \/ todo[r] \in UnannouncedSteps /\ read_head[r] = store_head
    BY <1>8 DEF BeingAnnounced
  <2>2. CASE r # s
    BY <1>1, <1>2, <2>1, <2>2 DEF BeingAnnounced
  <2>3. CASE r = s
    <3>1. todo[s] \in UnannouncedSteps /\ head = store_head
      BY <1>5, <2>1, <2>3
    <3>2. CASE kind = "report" /\ Tail(todo[s]) \in UnannouncedSteps
      BY <1>1, <1>2, <3>1, <3>2 DEF BeingAnnounced
    <3>3. CASE kind = "changed"
      <4>1. /\ n + 1 \in DOMAIN events' /\ events'[n + 1].kind = "changed"
            /\ events'[n + 1].head = store_head'
        BY <1>2, <1>3, <1>4, <3>1, <3>3
      <4>2. \A j \in 0 .. n : n + 1 > j
        BY <1>4
      <4> QED
        BY <4>1, <4>2 DEF AnnouncedAfter
    <3> QED
      BY <3>1, <3>2, <3>3, UnannouncedGoesOn
  <2> QED
    BY <2>2, <2>3
<1>9. \A q \in Readers, j \in 0 .. n : Carried(q, j) => Carried(q, j)'
  BY <1>6, <1>7, <1>8 DEF Carried
<1>10. kind = "subscribe" => OnItsWay(s)'
  <2> SUFFICES ASSUME kind = "subscribe" PROVE OnItsWay(s)'
    OBVIOUS
  <2>1. todo[s] \notin UnannouncedSteps /\ ~Quiet(todo[s])
    BY <1>1, UnannouncedGoesOn, QuietGoesOn
  <2>2. todo[s] = OwnSubscribe
    BY <1>5, <2>1 DEF HeadsAreCarried, HasShape
  <2>3. todo'[s] = OwnUnread
    BY <1>1, <2>2, SubscribeGoesOn
  <2> QED
    BY <2>3 DEF OnItsWay
<1>11. ASSUME NEW q \in Readers \ missed', NEW j \in DOMAIN events',
              events'[j].kind = "subscribe", events'[j].session = q
       PROVE  Carried(q, j)'
  <2>1. CASE j \in 1 .. n
    <3>1. events'[j] = events[j] /\ j \in DOMAIN events /\ j \in 0 .. n
      BY <1>4, <2>1
    <3>2. Carried(q, j)
      BY <1>2, <1>11, <3>1 DEF HeadsAreCarried
    <3> QED
      BY <1>9, <3>1, <3>2
  <2>2. CASE j = n + 1
    <3>1. q = s /\ kind = "subscribe"
      BY <1>3, <1>4, <1>11, <2>2
    <3> QED
      BY <1>10, <3>1 DEF Carried
  <2> QED
    BY <1>4, <2>1, <2>2
<1>12. \A q \in head_subscribers' \ missed' : Carried(q, 0)'
  <2>1. 0 \in 0 .. n
    BY <1>4
  <2> QED
    BY <1>2, <1>9, <2>1, EventsAreReaders DEF HeadsAreCarried
<1> QED
  BY <1>1, <1>11, <1>12 DEF HeadsAreCarried
(* The reader pushes to its own control channel: its digest is of the head *)
(* that it has read.                                                       *)
LEMMA HeadsControl ==
  ASSUME RequestsTypes, HeadsAreCarried, NEW s \in Readers, DoControl(s)
  PROVE  HeadsAreCarried'
<1> DEFINE message == todo[s][1].message
           sent == IF message.kind = "digest" THEN Digest(read_head[s]) ELSE message
           n == Len(writer_control[s])
<1>1. /\ todo[s] \in Seq(Steps) /\ todo[s] # <<>> /\ todo[s][1].do = "control"
      /\ \A q \in Readers : todo'[q] = IF q = s THEN Tail(todo[s]) ELSE todo[q]
      /\ \A q \in Readers : HasShape(todo'[q])
  BY TakesStep DEF DoControl
<1>2. /\ store_head' = store_head /\ read_head' = read_head /\ head_subscribers' = head_subscribers
      /\ events' = events /\ told' = told /\ missed' = missed
      /\ \A q \in Readers :
           writer_control'[q] = IF q = s THEN Append(writer_control[s], sent) ELSE writer_control[q]
  BY DEF DoControl, RequestsTypes
<1>3. message.kind = "digest" => sent.kind = "digest" /\ sent.head = read_head[s]
  BY MessageTypes
<1>4. sent \in Messages
  <2>1. message \in Messages /\ read_head[s] \in Nat
    BY <1>1, MessagesOfTail DEF RequestsTypes
  <2> QED
    BY <2>1, MessageTypes
<1> HIDE DEF sent
<1>5. /\ n \in Nat /\ DOMAIN writer_control[s] = 1 .. n /\ DOMAIN writer_control'[s] = 1 .. n + 1
      /\ \A j \in 1 .. n : writer_control'[s][j] = writer_control[s][j]
      /\ writer_control'[s][n + 1] = sent
  <2>1. writer_control[s] \in Seq(Messages)
    BY DEF RequestsTypes
  <2>2. writer_control'[s] = Append(writer_control[s], sent)
    BY <1>2
  <2> QED
    BY <1>4, <2>1, <2>2
<1> HIDE DEF n
<1>6. todo[s] \notin UnreadSteps /\ todo[s] \notin UnannouncedSteps /\ todo[s] # OwnUnread
  BY <1>1, UnreadGoesOn, UnannouncedGoesOn, SubscribeGoesOn
<1>7. ASSUME NEW q \in Readers, OnItsWay(q) PROVE OnItsWay(q)'
  <2>1. CASE q # s
    BY <1>1, <1>2, <1>7, <2>1 DEF OnItsWay
  <2>2. CASE q = s
    <3>1. CASE store_head \in told[s]
      BY <1>2, <2>2, <3>1 DEF OnItsWay
    <3>2. CASE \E i \in DOMAIN writer_control[s] :
                 writer_control[s][i].kind = "digest" /\ writer_control[s][i].head = store_head
      <4>1. PICK i \in DOMAIN writer_control[s] :
               writer_control[s][i].kind = "digest" /\ writer_control[s][i].head = store_head
        BY <3>2
      <4>2. i \in DOMAIN writer_control'[s] /\ writer_control'[s][i] = writer_control[s][i]
        BY <1>5
      <4> QED
        BY <1>2, <2>2, <4>1, <4>2 DEF OnItsWay
    <3>3. CASE todo[s] = OwnUnsent /\ read_head[s] = store_head
      <4>1. message.kind = "digest"
        BY <3>3, SubscribeGoesOn
      <4>2. /\ n + 1 \in DOMAIN writer_control'[s] /\ writer_control'[s][n + 1].kind = "digest"
            /\ writer_control'[s][n + 1].head = store_head
        BY <1>3, <1>5, <3>3, <4>1
      <4> QED
        BY <1>2, <2>2, <4>2 DEF OnItsWay
    <3> QED
      BY <1>6, <1>7, <2>2, <3>1, <3>2, <3>3 DEF OnItsWay
  <2> QED
    BY <2>1, <2>2
<1>8. BeingAnnounced => BeingAnnounced'
  BY <1>1, <1>2, <1>6 DEF BeingAnnounced
<1>9. \A j : AnnouncedAfter(j) => AnnouncedAfter(j)'
  BY <1>2 DEF AnnouncedAfter
<1>10. \A q \in Readers : \A j : Carried(q, j) => Carried(q, j)'
  BY <1>7, <1>8, <1>9 DEF Carried
<1> QED
  BY <1>1, <1>2, <1>10, EventsAreReaders DEF HeadsAreCarried

(* The writer sends: what was in the channel has been told.                *)
LEMMA HeadsWrite ==
  ASSUME RequestsTypes, HeadsAreCarried, NEW s \in Readers, Write(s)
  PROVE  HeadsAreCarried'
<1> DEFINE message == writer_control[s][1]
           n == Len(writer_control[s])
<1>1. /\ store_head' = store_head /\ read_head' = read_head /\ head_subscribers' = head_subscribers
      /\ events' = events /\ todo' = todo /\ missed' = missed /\ writer_control[s] # <<>>
      /\ \A q \in Readers :
           writer_control'[q] = IF q = s THEN Tail(writer_control[s]) ELSE writer_control[q]
      /\ \A q \in Readers : told[q] \subseteq told'[q]
      /\ message.kind = "digest" => message.head \in told'[s]
  BY DEF Write, RequestsTypes
<1>2. /\ n \in Nat /\ DOMAIN writer_control[s] = 1 .. n /\ DOMAIN writer_control'[s] = 1 .. n - 1
      /\ \A j \in 1 .. n - 1 : writer_control'[s][j] = writer_control[s][j + 1]
  <2>1. writer_control[s] \in Seq(Messages) /\ writer_control[s] # <<>>
    BY <1>1 DEF RequestsTypes
  <2>2. writer_control'[s] = Tail(writer_control[s])
    BY <1>1
  <2> QED
    BY <2>1, <2>2
<1> HIDE DEF n
<1>3. ASSUME NEW q \in Readers, OnItsWay(q) PROVE OnItsWay(q)'
  <2>1. CASE q # s
    BY <1>1, <1>3, <2>1 DEF OnItsWay
  <2>2. CASE q = s
    <3>1. CASE \E i \in DOMAIN writer_control[s] :
                 writer_control[s][i].kind = "digest" /\ writer_control[s][i].head = store_head
      <4>1. PICK i \in DOMAIN writer_control[s] :
               writer_control[s][i].kind = "digest" /\ writer_control[s][i].head = store_head
        BY <3>1
      <4>2. CASE i = 1
        BY <1>1, <2>2, <4>1, <4>2 DEF OnItsWay
      <4>3. CASE i # 1
        <5>1. i - 1 \in 1 .. n - 1 /\ (i - 1) + 1 = i
          BY <1>2, <4>3
        <5>2. /\ i - 1 \in DOMAIN writer_control'[s]
              /\ writer_control'[s][i - 1] = writer_control[s][i]
          BY <1>2, <5>1
        <5> QED
          BY <1>1, <2>2, <4>1, <5>2 DEF OnItsWay
      <4> QED
        BY <4>2, <4>3
    <3>2. CASE store_head \in told[s] \/ todo[s] = OwnUnread
               \/ (todo[s] = OwnUnsent /\ read_head[s] = store_head)
      BY <1>1, <2>2, <3>2 DEF OnItsWay
    <3> QED
      BY <1>3, <2>2, <3>1, <3>2 DEF OnItsWay
  <2> QED
    BY <2>1, <2>2
<1>4. BeingAnnounced => BeingAnnounced'
  BY <1>1 DEF BeingAnnounced
<1>5. \A j : AnnouncedAfter(j) => AnnouncedAfter(j)'
  BY <1>1 DEF AnnouncedAfter
<1>6. \A q \in Readers : \A j : Carried(q, j) => Carried(q, j)'
  BY <1>3, <1>4, <1>5 DEF Carried
<1> QED
  BY <1>1, <1>6, EventsAreReaders DEF HeadsAreCarried

(* The relay takes an event: a subscriber is known, with an announcement   *)
(* behind it or its own reading ahead, or a head goes to every subscriber  *)
(* that has room for it.                                                   *)
LEMMA HeadsHandle ==
  ASSUME RequestsTypes, HeadsAreCarried, HandleEvent
  PROVE  HeadsAreCarried'
<1> DEFINE event == events[1]
           full == {s \in head_subscribers : Len(writer_control[s]) >= ControlPlaces}
           n == Len(events)
<1>1. /\ store_head' = store_head /\ read_head' = read_head /\ todo' = todo /\ told' = told
      /\ events # <<>> /\ events' = Tail(events)
  BY DEF HandleEvent
<1>2. /\ n \in Nat \ {0} /\ DOMAIN events = 1 .. n /\ DOMAIN events' = 1 .. n - 1
      /\ \A j \in 1 .. n - 1 : events'[j] = events[j + 1]
  <2>1. events \in Seq(RelayEvents)
    BY DEF RequestsTypes
  <2> QED
    BY <1>1, <2>1
<1> HIDE DEF n
<1>3. event.session \in Readers /\ event.head \in Nat
  <2>1. event \in RelayEvents
    BY <1>1, HeadTailProperties DEF RequestsTypes
  <2> QED
    BY <2>1 DEF RelayEvents
<1>4. /\ missed \subseteq missed'
      /\ \A q \in Readers :
           \/ writer_control'[q] = writer_control[q]
           \/ writer_control'[q] = Append(writer_control[q], Digest(event.head))
  <2>1. \/ writer_control' = writer_control /\ missed' = missed
        \/ /\ writer_control' = [q \in Readers |->
                IF q \in head_subscribers \ full THEN Append(writer_control[q], Digest(event.head))
                ELSE writer_control[q]]
           /\ missed' = missed \cup full
    BY DEF HandleEvent
  <2> HIDE DEF event, full
  <2> QED
    BY <2>1
<1>5. ASSUME NEW q \in Readers
      PROVE  \A i \in DOMAIN writer_control[q] :
               i \in DOMAIN writer_control'[q] /\ writer_control'[q][i] = writer_control[q][i]
  <2>1. writer_control[q] \in Seq(Messages) /\ Digest(event.head) \in Messages
    BY <1>3, MessageTypes DEF RequestsTypes
  <2> DEFINE control == writer_control[q]
             digest == Digest(event.head)
  <2>2. \A i \in DOMAIN control :
          i \in DOMAIN Append(control, digest) /\ Append(control, digest)[i] = control[i]
    <3> HIDE DEF control, digest
    <3>1. control \in Seq(Messages) /\ digest \in Messages
      BY <2>1 DEF control, digest
    <3> QED
      BY <3>1
  <2> QED
    BY <1>4, <2>2
<1>6. \A q \in Readers : OnItsWay(q) => OnItsWay(q)'
  BY <1>1, <1>5 DEF OnItsWay
<1>7. BeingAnnounced => BeingAnnounced'
  BY <1>1 DEF BeingAnnounced
<1>8. ASSUME NEW j \in Nat, AnnouncedAfter(j)
      PROVE  \/ j >= 1 /\ AnnouncedAfter(j - 1)'
             \/ j = 0 /\ AnnouncedAfter(0)'
             \/ j = 0 /\ event.kind = "changed" /\ event.head = store_head
  <2>1. PICK i \in DOMAIN events :
          i > j /\ events[i].kind = "changed" /\ events[i].head = store_head
    BY <1>8 DEF AnnouncedAfter
  <2>2. CASE i = 1
    BY <2>1, <2>2
  <2>3. CASE i # 1
    <3>1. i - 1 \in DOMAIN events' /\ events'[i - 1] = events[i] /\ i - 1 > 0
      <4>1. i - 1 \in 1 .. n - 1 /\ (i - 1) + 1 = i
        BY <1>2, <2>3
      <4> QED
        BY <1>2, <4>1
    <3>2. i \in Nat /\ i - 1 > j - 1
      BY <1>2, <2>1
    <3> QED
      BY <1>1, <2>1, <3>1, <3>2 DEF AnnouncedAfter
  <2> QED
    BY <2>2, <2>3
<1>9. ASSUME NEW q \in Readers \ missed', NEW j \in DOMAIN events',
             events'[j].kind = "subscribe", events'[j].session = q
      PROVE  Carried(q, j)'
  <2>1. j + 1 \in DOMAIN events /\ events'[j] = events[j + 1] /\ j + 1 \in Nat /\ j + 1 >= 1
        /\ (j + 1) - 1 = j /\ j + 1 # 0
    BY <1>2
  <2>2. Carried(q, j + 1)
    BY <1>4, <1>9, <2>1 DEF HeadsAreCarried
  <2>3. AnnouncedAfter(j + 1) => AnnouncedAfter(j)'
    BY <1>8, <2>1
  <2> QED
    BY <1>6, <1>7, <2>2, <2>3 DEF Carried
<1>10. ASSUME NEW q \in head_subscribers' \ missed' PROVE Carried(q, 0)'
  <2>1. CASE event.kind = "changed"
    <3>1. /\ head_subscribers' = head_subscribers /\ missed' = missed \cup full
          /\ writer_control' = [p \in Readers |->
                IF p \in head_subscribers \ full THEN Append(writer_control[p], Digest(event.head))
                ELSE writer_control[p]]
      BY <2>1 DEF HandleEvent
    <3>2. q \in Readers /\ q \in head_subscribers \ full /\ Carried(q, 0)
      <4> HIDE DEF full, event
      <4> QED
        BY <1>10, <3>1, EventsAreReaders DEF HeadsAreCarried
    <3>3. writer_control'[q] = Append(writer_control[q], Digest(event.head))
      <4> HIDE DEF full, event
      <4> QED
        BY <3>1, <3>2
    <3>4. event.head = store_head => OnItsWay(q)'
      <4> DEFINE digest == Digest(event.head)
                 last == Len(writer_control[q]) + 1
      <4>1. writer_control[q] \in Seq(Messages) /\ digest \in Messages
        BY <1>3, <3>2, MessageTypes DEF RequestsTypes
      <4>2. digest.kind = "digest" /\ digest.head = event.head
        BY MessageTypes
      <4> HIDE DEF digest
      <4>3. writer_control'[q] = Append(writer_control[q], digest)
        BY <3>3 DEF digest
      <4>4. last \in DOMAIN writer_control'[q] /\ writer_control'[q][last] = digest
        BY <4>1, <4>3
      <4> HIDE DEF last
      <4> QED
        BY <1>1, <4>2, <4>4 DEF OnItsWay
    <3>5. AnnouncedAfter(0) => AnnouncedAfter(0)' \/ event.head = store_head
      BY <1>8
    <3> QED
      BY <1>6, <1>7, <3>2, <3>4, <3>5 DEF Carried
  <2>2. CASE event.kind # "changed"
    <3>1. AnnouncedAfter(0) => AnnouncedAfter(0)'
      BY <1>8, <2>2
    <3>2. CASE q \in head_subscribers
      <4>1. q \in Readers /\ Carried(q, 0)
        BY <1>4, <1>10, <3>2, EventsAreReaders DEF HeadsAreCarried
      <4> QED
        BY <1>6, <1>7, <3>1, <4>1 DEF Carried
    <3>3. CASE q \notin head_subscribers
      <4>1. event.kind = "subscribe" /\ q = event.session
        <5>1. \/ head_subscribers' = head_subscribers
              \/ head_subscribers' = head_subscribers \ {event.session}
              \/ /\ event.kind = "subscribe"
                 /\ head_subscribers' = head_subscribers \cup {event.session}
          BY DEF HandleEvent
        <5> QED
          BY <1>10, <3>3, <5>1
      <4>2. 1 \in DOMAIN events /\ q \in Readers \ missed
        BY <1>2, <1>3, <1>4, <1>10, <4>1
      <4>3. Carried(q, 1)
        BY <4>1, <4>2 DEF HeadsAreCarried
      <4>4. AnnouncedAfter(1) => AnnouncedAfter(0)'
        <5>1. 1 \in Nat /\ 1 >= 1 /\ 1 - 1 = 0 /\ 1 # 0
          OBVIOUS
        <5> QED
          BY <1>8, <5>1
      <4> QED
        BY <1>6, <1>7, <4>2, <4>3, <4>4 DEF Carried
    <3> QED
      BY <3>2, <3>3
  <2> QED
    BY <2>1, <2>2
<1>11. \A q \in Readers : HasShape(todo'[q])
  BY <1>1 DEF HeadsAreCarried
<1> QED
  BY <1>9, <1>10, <1>11 DEF HeadsAreCarried

(* Every step keeps the head on its way.                                   *)
LEMMA HeadsNextStep ==
  ASSUME RequestsTypes, HeadsAreCarried, [RequestsNext]_requests_vars
  PROVE  HeadsAreCarried'
<1>1. CASE UNCHANGED requests_vars
  BY <1>1 DEF requests_vars, HeadsAreCarried, Carried, OnItsWay, BeingAnnounced, AnnouncedAfter
<1>2. CASE RequestsNext
  BY <1>2, RequestsSteps, HeadsBegin, HeadsRead, HeadsEvent, HeadsControl, HeadsWrite, HeadsHandle
<1> QED
  BY <1>1, <1>2

(* A change that is committed while a session subscribes, or while another *)
(* head is under way, is not lost between the reader's digest and the      *)
(* relay's: for every number of sessions, every capacity of the channels   *)
(* and every number of changes.                                            *)
THEOREM NoHeadIsLost == RequestsSpec => []NewestHeadIsTold
<1>1. RequestsInit => RequestsTypes /\ HeadsAreCarried
  BY RequestsTypesInit, HeadsInit
<1>2. RequestsTypes /\ HeadsAreCarried /\ [RequestsNext]_requests_vars
        => RequestsTypes' /\ HeadsAreCarried'
  BY RequestsTypesNext, HeadsNextStep
<1>3. RequestsTypes /\ HeadsAreCarried => NewestHeadIsTold
  BY HeadsWhenDone
<1> QED
  BY <1>1, <1>2, <1>3, PTL DEF RequestsSpec
=============================================================================
