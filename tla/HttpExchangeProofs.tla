------------------------- MODULE HttpExchangeProofs -------------------------
(* What holds of every exchange, for every set of services, texts and lists. A request reaches the *)
(* operation it was made for: what holds of the texts a list is joined to and cut from, of every    *)
(* path a client writes and a server reads, and of the routes of every accepted service. A call    *)
(* refused as not valid or as unknown has not run, no header goes out with an illegal character,    *)
(* the client's outcome is its implementation's answer, and the implementation is called with the   *)
(* client's own arguments whenever they can travel.                                              *)
EXTENDS HttpExchange, WellFoundedInduction, FiniteSetTheorems, TLAPS

(* Every nonempty set of naturals has a least member, so what holds of 0 and of each next number    *)
(* holds of all.                                                                                 *)
LEMMA Least ==
  ASSUME NEW S, S \subseteq Nat, S # {}
  PROVE  \E n \in S : \A m \in S : n <= m
<1> DEFINE Less == {pair \in Nat \X Nat : pair[1] < pair[2]}
<1>1. IsWellFoundedOn(Less, Nat)
  BY NatLessThanWellFounded DEF OpToRel
<1>2. PICK n \in S : \A m \in S : <<m, n>> \notin Less
  <2> HIDE DEF Less
  <2> QED BY <1>1, WFMin
<1>3. ASSUME NEW m \in S PROVE n <= m
  <2>1. n \in Nat /\ m \in Nat /\ ~(m < n)
    BY <1>2
  <2> QED BY <2>1
<1> QED BY <1>3

(* What holds of 0 and of each next number holds of all.                                       *)
LEMMA Induct ==
  ASSUME NEW S, 0 \in S, \A n \in Nat : n \in S => n + 1 \in S
  PROVE  Nat \subseteq S
<1> SUFFICES ASSUME Nat \ S # {} PROVE FALSE
  OBVIOUS
<1>1. PICK n \in Nat \ S : \A m \in Nat \ S : n <= m
  BY Least
<1>2. n # 0 /\ n - 1 \in Nat
  BY <1>1
<1>3. n - 1 \in S
  BY <1>1, <1>2
<1> QED BY <1>1, <1>2, <1>3

(* A function that is recursive over 0..N exists, and its values are those of its steps.          *)
Stays(N, V, step) == \A n \in 1..N : \A v \in V : step[n][v] \in V
Recurs(N, V, first, step, f) ==
  f \in [0..N -> V] /\ f[0] = first /\ \A n \in 1..N : f[n] = step[n][f[n - 1]]
(* A function that recurs over 0..N exists, and is what the recursion says.                     *)
LEMMA RecursionIsDefined ==
  ASSUME NEW N \in Nat, NEW V, NEW first \in V,
         NEW step, Stays(N, V, step)
  PROVE  \E f : Recurs(N, V, first, step, f)
<1> DEFINE Runs(f, m) == f[0] = first /\ \A n \in 1..m : f[n] = step[n][f[n - 1]]
           S == {m \in Nat : m <= N => \E f \in [0..m -> V] : Runs(f, m)}
<1>1. 0 \in S
  <2> DEFINE f == [n \in 0..0 |-> first]
  <2>1. f \in [0..0 -> V] /\ Runs(f, 0)
    OBVIOUS
  <2> QED BY <2>1
<1>2. ASSUME NEW m \in Nat, m \in S PROVE m + 1 \in S
  <2> SUFFICES ASSUME m + 1 <= N PROVE \E f \in [0..m + 1 -> V] : Runs(f, m + 1)
    OBVIOUS
  <2>1. PICK f \in [0..m -> V] : Runs(f, m)
    BY <1>2
  <2> DEFINE next == [n \in 0..m + 1 |-> IF n = m + 1 THEN step[m + 1][f[m]] ELSE f[n]]
  <2>2. f[m] \in V /\ m + 1 \in 1..N
    OBVIOUS
  <2>3. step[m + 1][f[m]] \in V
    BY <2>2 DEF Stays
  <2>4. \A n \in 0..m : next[n] = f[n] /\ f[n] \in V
    OBVIOUS
  <2>5. next[m + 1] = step[m + 1][f[m]]
    OBVIOUS
  <2>6. next \in [0..m + 1 -> V]
    BY <2>3
  <2> HIDE DEF next
  <2>7. ASSUME NEW n \in 1..m + 1 PROVE next[n] = step[n][next[n - 1]]
    <3>1. CASE n \in 1..m
      BY <3>1, <2>1, <2>4
    <3>2. CASE n = m + 1
      BY <3>2, <2>4, <2>5
    <3> QED BY <3>1, <3>2
  <2>8. next[0] = first
    BY <2>1, <2>4
  <2> QED BY <2>6, <2>7, <2>8
<1> HIDE DEF S
<1>3. N \in S
  BY <1>1, <1>2, Induct
<1> QED BY <1>3 DEF S, Recurs

(* What Only keeps of the first elements of a sequence.                                        *)
LEMMA KeptIsDefined ==
  ASSUME NEW V, NEW seq \in Seq(V), NEW wanted
  PROVE  LET kept == KeptOf(seq, wanted)
         IN  /\ kept[0] = <<>> /\ \A n \in 0..Len(seq) : kept[n] \in Seq(V)
             /\ \A n \in 1..Len(seq) :
                  kept[n] = IF seq[n] \in wanted THEN Append(kept[n - 1], seq[n]) ELSE kept[n - 1]
<1> DEFINE N == Len(seq)
           step == [n \in 1..N |-> [before \in Seq(V) |-> IF seq[n] \in wanted THEN Append(before, seq[n]) ELSE before]]
           Then(before, n) == IF seq[n] \in wanted THEN Append(before, seq[n]) ELSE before
           Kept(f) == f = [n \in 0..N |-> IF n = 0 THEN <<>> ELSE Then(f[n - 1], n)]
<1>1. N \in Nat /\ \A n \in 1..N : seq[n] \in V
  OBVIOUS
<1>2. step \in [1..N -> [Seq(V) -> Seq(V)]] /\ <<>> \in Seq(V)
  <2>1. ASSUME NEW n \in 1..N, NEW before \in Seq(V) PROVE Then(before, n) \in Seq(V)
    BY <1>1
  <2> QED BY <2>1
<1>3. \A n \in 1..N : \A before \in Seq(V) : step[n][before] = Then(before, n)
  OBVIOUS
<1> HIDE DEF step, N, Then
<1>4. PICK f \in [0..N -> Seq(V)] : f[0] = <<>> /\ \A n \in 1..N : f[n] = step[n][f[n - 1]]
  <2> DEFINE Seqs == Seq(V)
             start == <<>>
  <2>1. N \in Nat /\ start \in Seqs /\ Stays(N, Seqs, step)
    BY <1>1, <1>2 DEF Stays
  <2> HIDE DEF Seqs, start
  <2>2. \E f : Recurs(N, Seqs, start, step, f)
    BY <2>1, RecursionIsDefined
  <2> QED BY <2>2 DEF Seqs, start, Recurs
<1>5. \A n \in 0..N : f[n] = IF n = 0 THEN <<>> ELSE Then(f[n - 1], n)
  <2> TAKE n \in 0..N
  <2>1. CASE n = 0
    BY <2>1, <1>4
  <2>2. CASE n # 0
    <3>1. n \in 1..N /\ n - 1 \in 0..N
      BY <2>2, <1>1
    <3>2. f[n - 1] \in Seq(V)
      BY <3>1
    <3> QED BY <3>1, <3>2, <1>3, <1>4, <2>2
  <2> QED BY <2>1, <2>2
<1>6. Kept(f)
  BY <1>5
<1> DEFINE kept == KeptOf(seq, wanted)
<1>7. Kept(kept)
  BY <1>6 DEF KeptOf, N, Then
<1> HIDE DEF kept
<1>8. \A n \in 0..N : kept[n] = IF n = 0 THEN <<>> ELSE Then(kept[n - 1], n)
  BY <1>7
<1> DEFINE S == {n \in Nat : n <= N => kept[n] \in Seq(V)}
<1>9. 0 \in S
  <2>1. kept[0] = <<>> /\ <<>> \in Seq(V)
    BY <1>8, <1>1
  <2> QED BY <2>1
<1>10. ASSUME NEW n \in Nat, n \in S PROVE n + 1 \in S
  <2> SUFFICES ASSUME n + 1 <= N PROVE kept[n + 1] \in Seq(V)
    OBVIOUS
  <2>1. kept[n] \in Seq(V) /\ n + 1 \in 0..N /\ n + 1 # 0 /\ (n + 1) - 1 = n
    BY <1>10, <1>1
  <2>2. kept[n + 1] = Then(kept[n], n + 1)
    BY <2>1, <1>8
  <2> QED BY <2>1, <2>2, <1>1 DEF Then
<1> HIDE DEF S
<1>11. Nat \subseteq S
  BY <1>9, <1>10, Induct
<1>12. \A n \in 0..N : kept[n] \in Seq(V)
  BY <1>11, <1>1 DEF S
<1>13. kept[0] = <<>> /\ \A n \in 1..N : kept[n] = Then(kept[n - 1], n)
  BY <1>8, <1>1
<1> QED BY <1>12, <1>13 DEF kept, N, Then

(* What is kept of a sequence is what of it is wanted, and nothing else.    *)
Keeps(only, seq, wanted) ==
  /\ \E V : only \in Seq(V)
  /\ \A i \in 1..Len(only) : \E j \in 1..Len(seq) : only[i] = seq[j] /\ seq[j] \in wanted
  /\ \A j \in 1..Len(seq) : seq[j] \in wanted => \E i \in 1..Len(only) : only[i] = seq[j]

(* Only keeps the elements that are wanted and no others.                                       *)
LEMMA OnlyKeeps ==
  ASSUME NEW V, NEW seq \in Seq(V), NEW wanted
  PROVE  Keeps(Only(seq, wanted), seq, wanted)
<1> DEFINE kept == KeptOf(seq, wanted)
           N == Len(seq)
           Sound(n) == \A i \in 1..Len(kept[n]) : \E j \in 1..n : kept[n][i] = seq[j] /\ seq[j] \in wanted
           Whole(n) == \A j \in 1..n : seq[j] \in wanted => \E i \in 1..Len(kept[n]) : kept[n][i] = seq[j]
           S == {n \in Nat : n <= N => Sound(n) /\ Whole(n)}
<1>1. N \in Nat /\ \A n \in 1..N : seq[n] \in V
  OBVIOUS
<1>2. kept[0] = <<>> /\ \A n \in 0..N : kept[n] \in Seq(V)
  BY KeptIsDefined
<1>3. \A n \in 1..N : kept[n] = IF seq[n] \in wanted THEN Append(kept[n - 1], seq[n]) ELSE kept[n - 1]
  BY KeptIsDefined
<1>4. Only(seq, wanted) = kept[N]
  BY DEF Only
<1> HIDE DEF kept, N
<1>5. 0 \in S
  BY <1>2
<1>6. ASSUME NEW n \in Nat, n \in S PROVE n + 1 \in S
  <2> SUFFICES ASSUME n + 1 <= N PROVE Sound(n + 1) /\ Whole(n + 1)
    OBVIOUS
  <2>1. n + 1 \in 1..N /\ (n + 1) - 1 = n /\ n \in 0..N /\ seq[n + 1] \in V
    BY <1>1
  <2>2. kept[n] \in Seq(V) /\ Sound(n) /\ Whole(n)
    BY <1>6, <2>1, <1>1, <1>2
  <2>3. CASE seq[n + 1] \in wanted
    <3>1. kept[n + 1] = Append(kept[n], seq[n + 1])
      BY <2>1, <2>3, <1>3
    <3> DEFINE l == Len(kept[n])
    <3>2. /\ l \in Nat /\ Len(kept[n + 1]) = l + 1 /\ kept[n + 1][l + 1] = seq[n + 1]
          /\ \A i \in 1..l : kept[n + 1][i] = kept[n][i]
      BY <3>1, <2>1, <2>2
    <3> HIDE DEF l
    <3>3. ASSUME NEW i \in 1..l + 1 PROVE \E j \in 1..n + 1 : kept[n + 1][i] = seq[j] /\ seq[j] \in wanted
      <4>1. CASE i = l + 1
        BY <4>1, <3>2, <2>1, <2>3
      <4>2. CASE i \in 1..l
        <5>1. PICK j \in 1..n : kept[n][i] = seq[j] /\ seq[j] \in wanted
          BY <4>2, <2>2 DEF l
        <5>2. j \in 1..n + 1
          OBVIOUS
        <5> QED BY <5>1, <5>2, <4>2, <3>2
      <4> QED BY <4>1, <4>2, <3>2
    <3>4. ASSUME NEW j \in 1..n + 1, seq[j] \in wanted PROVE \E i \in 1..l + 1 : kept[n + 1][i] = seq[j]
      <4>1. CASE j = n + 1
        BY <4>1, <3>2
      <4>2. CASE j \in 1..n
        <5>1. PICK i \in 1..l : kept[n][i] = seq[j]
          BY <4>2, <3>4, <2>2 DEF l
        <5>2. i \in 1..l + 1
          BY <3>2
        <5> QED BY <5>1, <5>2, <3>2
      <4> QED BY <4>1, <4>2
    <3> QED BY <3>2, <3>3, <3>4
  <2>4. CASE seq[n + 1] \notin wanted
    <3>1. kept[n + 1] = kept[n]
      BY <2>1, <2>4, <1>3
    <3>2. Sound(n + 1)
      BY <3>1, <2>2
    <3>3. Whole(n + 1)
      BY <3>1, <2>2, <2>4
    <3> QED BY <3>2, <3>3
  <2> QED BY <2>3, <2>4
<1> HIDE DEF S
<1>7. Nat \subseteq S
  BY <1>5, <1>6, Induct
<1>8. Sound(N) /\ Whole(N)
  BY <1>7, <1>1 DEF S
<1>9. kept[N] \in Seq(V)
  BY <1>1, <1>2
<1> QED BY <1>4, <1>8, <1>9 DEF N, Keeps

----------------------------------------------------------------------------
(* A list that was joined with commas is the list that is cut at them.       *)
Atoms == STRING \cup {Comma}
Strings == Seq(Atoms)

(* What Join makes of the first texts of a list.                                               *)
LEMMA JoinedIsDefined ==
  ASSUME NEW texts \in Seq(Strings)
  PROVE  LET joined == JoinedOf(texts)
         IN  /\ joined[0] = <<>> /\ \A n \in 0..Len(texts) : joined[n] \in Strings
             /\ \A n \in 1..Len(texts) :
                  joined[n] = IF n = 1 THEN texts[1] ELSE joined[n - 1] \o <<Comma>> \o texts[n]
<1> DEFINE N == Len(texts)
           Then(before, n) == IF n = 1 THEN texts[1] ELSE before \o <<Comma>> \o texts[n]
           step == [n \in 1..N |-> [before \in Strings |-> Then(before, n)]]
           Joins(f) == f = [n \in 0..N |-> IF n = 0 THEN <<>> ELSE Then(f[n - 1], n)]
<1>1. N \in Nat /\ \A n \in 1..N : texts[n] \in Strings
  OBVIOUS
<1>2. \A n \in 1..N : \A before \in Strings : step[n][before] = Then(before, n)
  OBVIOUS
<1>3. ASSUME NEW n \in 1..N, NEW before \in Strings PROVE Then(before, n) \in Strings
  <2> DEFINE comma == <<Comma>>
  <2>1. comma \in Seq(Atoms)
    <3>1. Comma \in Atoms
      BY DEF Atoms
    <3> QED BY <3>1
  <2>2. texts[n] \in Seq(Atoms) /\ before \in Seq(Atoms)
    BY <1>1 DEF Strings
  <2> HIDE DEF comma
  <2>3. before \o comma \o texts[n] \in Seq(Atoms)
    BY <2>1, <2>2
  <2>4. CASE n = 1
    BY <2>2, <2>4 DEF Strings
  <2>5. CASE n # 1
    BY <2>3, <2>5 DEF comma, Strings
  <2> QED BY <2>4, <2>5
<1> HIDE DEF step, N, Then
<1>4. PICK f : f \in [0..N -> Strings] /\ f[0] = <<>> /\ \A n \in 1..N : f[n] = step[n][f[n - 1]]
  <2> DEFINE start == <<>>
  <2>1. N \in Nat /\ start \in Strings /\ Stays(N, Strings, step)
    BY <1>1, <1>2, <1>3 DEF Stays, Strings
  <2> HIDE DEF start
  <2>2. \E f : Recurs(N, Strings, start, step, f)
    BY <2>1, RecursionIsDefined
  <2> QED BY <2>2 DEF start, Recurs
<1>5. \A n \in 0..N : f[n] = IF n = 0 THEN <<>> ELSE Then(f[n - 1], n)
  <2> TAKE n \in 0..N
  <2>1. CASE n = 0
    BY <2>1, <1>4
  <2>2. CASE n # 0
    <3>1. n \in 1..N /\ n - 1 \in 0..N
      BY <2>2, <1>1
    <3>2. f[n - 1] \in Strings
      BY <3>1, <1>4
    <3> QED BY <3>1, <3>2, <1>2, <1>4, <2>2
  <2> QED BY <2>1, <2>2
<1>6. Joins(f)
  BY <1>4, <1>5
<1> DEFINE joined == JoinedOf(texts)
<1>7. Joins(joined)
  BY <1>6 DEF JoinedOf, N, Then
<1> HIDE DEF joined
<1>8. \A n \in 0..N : joined[n] = IF n = 0 THEN <<>> ELSE Then(joined[n - 1], n)
  BY <1>7
<1> DEFINE S == {n \in Nat : n <= N => joined[n] \in Strings}
<1>9. 0 \in S
  <2>1. joined[0] = <<>> /\ <<>> \in Strings
    BY <1>8, <1>1 DEF Strings
  <2> QED BY <2>1
<1>10. ASSUME NEW n \in Nat, n \in S PROVE n + 1 \in S
  <2> SUFFICES ASSUME n + 1 <= N PROVE joined[n + 1] \in Strings
    OBVIOUS
  <2>1. joined[n] \in Strings /\ n + 1 \in 0..N /\ n + 1 # 0 /\ n + 1 \in 1..N /\ (n + 1) - 1 = n
    BY <1>10, <1>1
  <2>2. joined[n + 1] = Then(joined[n], n + 1)
    BY <2>1, <1>8
  <2> QED BY <2>1, <2>2, <1>3
<1> HIDE DEF S
<1>11. Nat \subseteq S
  BY <1>9, <1>10, Induct
<1>12. \A n \in 0..N : joined[n] \in Strings
  BY <1>11, <1>1 DEF S
<1>13. joined[0] = <<>> /\ \A n \in 1..N : joined[n] = Then(joined[n - 1], n)
  BY <1>8, <1>1
<1> QED BY <1>12, <1>13 DEF joined, N, Then

Cut(before, atom) ==
  IF atom = Comma THEN Append(before, <<>>) ELSE [before EXCEPT ![Len(before)] = Append(@, atom)]

(* What Split makes of the first atoms of a text.                                              *)
LEMMA PiecesIsDefined ==
  ASSUME NEW text \in Strings
  PROVE  /\ PiecesOf(text)[0] = << <<>> >>
         /\ \A n \in 1..Len(text) : PiecesOf(text)[n] = Cut(PiecesOf(text)[n - 1], text[n])
<1> DEFINE N == Len(text)
           V == {pieces \in Seq(Strings) : pieces # <<>>}
           step == [n \in 1..N |-> [before \in V |-> Cut(before, text[n])]]
           Cuts(f) == f = [n \in 0..N |-> IF n = 0 THEN << <<>> >> ELSE Cut(f[n - 1], text[n])]
<1>1. N \in Nat /\ \A n \in 1..N : text[n] \in Atoms
  BY DEF Strings
<1>2. \A n \in 1..N : \A before \in V : step[n][before] = Cut(before, text[n])
  OBVIOUS
<1>3. ASSUME NEW n \in 1..N, NEW before \in V PROVE Cut(before, text[n]) \in V
  <2>1. before \in Seq(Strings) /\ Len(before) \in Nat \ {0}
    OBVIOUS
  <2>2. CASE text[n] = Comma
    <3>1. <<>> \in Strings
      BY DEF Strings
    <3>2. Append(before, <<>>) \in Seq(Strings) /\ Append(before, <<>>) # <<>>
      BY <2>1, <3>1
    <3> QED BY <2>2, <3>2 DEF Cut
  <2>3. CASE text[n] # Comma
    <3> DEFINE last == Append(before[Len(before)], text[n])
    <3>1. last \in Strings
      BY <2>1, <1>1 DEF Strings
    <3> HIDE DEF last
    <3>2. [before EXCEPT ![Len(before)] = last] \in Seq(Strings) /\ [before EXCEPT ![Len(before)] = last] # <<>>
      <4>1. DOMAIN before = 1..Len(before) /\ \A i \in 1..Len(before) : before[i] \in Strings
        BY <2>1
      <4>2. [before EXCEPT ![Len(before)] = last] \in [1..Len(before) -> Strings]
        BY <4>1, <3>1
      <4>3. [before EXCEPT ![Len(before)] = last] \in Seq(Strings) /\ Len([before EXCEPT ![Len(before)] = last]) = Len(before)
        BY <4>2, <2>1
      <4> QED BY <4>3, <2>1
    <3> QED BY <2>3, <3>2 DEF Cut, last
  <2> QED BY <2>2, <2>3
<1> HIDE DEF step, N
<1>4. PICK f : f \in [0..N -> V] /\ f[0] = << <<>> >> /\ \A n \in 1..N : f[n] = step[n][f[n - 1]]
  <2> DEFINE start == << <<>> >>
  <2>1. N \in Nat /\ start \in V /\ Stays(N, V, step)
    <3>1. <<>> \in Strings
      BY DEF Strings
    <3>2. start \in V
      BY <3>1
    <3> QED BY <1>1, <1>2, <1>3, <3>2 DEF Stays
  <2> HIDE DEF start, V
  <2>2. \E f : Recurs(N, V, start, step, f)
    BY <2>1, RecursionIsDefined
  <2> QED BY <2>2 DEF start, Recurs
<1> HIDE DEF V
<1>5. \A n \in 0..N : f[n] = IF n = 0 THEN << <<>> >> ELSE Cut(f[n - 1], text[n])
  <2> TAKE n \in 0..N
  <2>1. CASE n = 0
    BY <2>1, <1>4
  <2>2. CASE n # 0
    <3>1. n \in 1..N /\ n - 1 \in 0..N
      BY <2>2, <1>1
    <3>2. f[n - 1] \in V
      BY <3>1, <1>4
    <3> QED BY <3>1, <3>2, <1>2, <1>4, <2>2
  <2> QED BY <2>1, <2>2
<1>6. Cuts(f)
  BY <1>4, <1>5
<1> DEFINE pieces == PiecesOf(text)
<1>7. Cuts(pieces)
  BY <1>6 DEF PiecesOf, N, Cut
<1> HIDE DEF pieces
<1>8. \A n \in 0..N : pieces[n] = IF n = 0 THEN << <<>> >> ELSE Cut(pieces[n - 1], text[n])
  BY <1>7
<1>9. pieces[0] = << <<>> >> /\ \A n \in 1..N : pieces[n] = Cut(pieces[n - 1], text[n])
  <2>1. 0 \in 0..N /\ \A n \in 1..N : n \in 0..N /\ n # 0
    BY <1>1
  <2> HIDE DEF Cuts
  <2> QED BY <2>1, <1>8
<1> QED BY <1>9 DEF pieces, N

(* One more element of a sequence.                                                             *)
LEMMA OneMore ==
  ASSUME NEW A, NEW text \in Seq(A), NEW k \in 0..Len(text) - 1
  PROVE  /\ SubSeq(text, 1, k) \in Seq(A) /\ text[k + 1] \in A
         /\ SubSeq(text, 1, k + 1) = Append(SubSeq(text, 1, k), text[k + 1])
<1>1. k \in Nat /\ k + 1 \in 1..Len(text) /\ Len(text) \in Nat
  OBVIOUS
<1>2. text[k + 1] \in A
  BY <1>1
<1>3. SubSeq(text, 1, k) \in Seq(A) /\ SubSeq(text, 1, k + 1) \in Seq(A)
  BY <1>1
<1>4. Len(SubSeq(text, 1, k)) = k /\ Len(SubSeq(text, 1, k + 1)) = k + 1
  BY <1>1
<1>5. /\ \A i \in 1..k + 1 : SubSeq(text, 1, k + 1)[i] = text[i]
      /\ \A i \in 1..k : SubSeq(text, 1, k)[i] = text[i]
  BY <1>1
<1> DEFINE one == SubSeq(text, 1, k + 1)
           two == Append(SubSeq(text, 1, k), text[k + 1])
<1>6. two \in Seq(A) /\ Len(two) = k + 1 /\ \A i \in 1..k + 1 : two[i] = text[i]
  BY <1>1, <1>2, <1>3, <1>4, <1>5
<1> HIDE DEF one, two
<1>7. one = two
  BY <1>3, <1>4, <1>5, <1>6 DEF one
<1> QED BY <1>2, <1>3, <1>7 DEF one, two

(* An atom that is no comma goes to the last piece.                         *)
LEMMA LastPieceGrows ==
  ASSUME NEW before \in Seq(Strings), NEW last \in Strings, NEW atom \in Atoms, atom # Comma
  PROVE  Cut(Append(before, last), atom) = Append(before, Append(last, atom))
<1> DEFINE one == Append(before, last)
           more == Append(last, atom)
           two == Append(before, more)
           l == Len(before)
<1>1. more \in Strings
  BY DEF Strings
<1> HIDE DEF more
<1>2. l \in Nat /\ one \in Seq(Strings) /\ two \in Seq(Strings) /\ Len(one) = l + 1 /\ Len(two) = l + 1
  BY <1>1
<1>3. one[l + 1] = last /\ two[l + 1] = more /\ \A i \in 1..l : one[i] = before[i] /\ two[i] = before[i]
  BY <1>1
<1> HIDE DEF one, two, l
<1> DEFINE three == [one EXCEPT ![l + 1] = more]
<1>4. Cut(one, atom) = three
  BY <1>2, <1>3 DEF Cut, more
<1>5. three \in Seq(Strings) /\ Len(three) = l + 1
  <2>1. DOMAIN one = 1..l + 1 /\ \A i \in 1..l + 1 : one[i] \in Strings
    BY <1>2
  <2>2. three \in [1..l + 1 -> Strings]
    BY <2>1, <1>1
  <2> QED BY <2>2, <1>2
<1>6. \A i \in 1..l + 1 : three[i] = two[i]
  <2>1. DOMAIN one = 1..l + 1
    BY <1>2
  <2> QED BY <2>1, <1>2, <1>3
<1> HIDE DEF three
<1>7. three = two
  BY <1>2, <1>5, <1>6
<1> QED BY <1>4, <1>7 DEF one, two, more

(* A text without a comma is one piece of what it stands in.                 *)
LEMMA PieceIsCut ==
  ASSUME NEW whole \in Strings, NEW at \in Nat, NEW text \in Strings, at + Len(text) <= Len(whole),
         \A k \in 1..Len(text) : whole[at + k] = text[k] /\ text[k] # Comma,
         NEW before \in Seq(Strings), PiecesOf(whole)[at] = Append(before, <<>>)
  PROVE  PiecesOf(whole)[at + Len(text)] = Append(before, text)
<1> DEFINE L == Len(text)
           pieces == PiecesOf(whole)
           S == {k \in Nat : k <= L => pieces[at + k] = Append(before, SubSeq(text, 1, k))}
<1>1. L \in Nat /\ Len(whole) \in Nat
  BY DEF Strings
<1>2. \A n \in 1..Len(whole) : pieces[n] = Cut(pieces[n - 1], whole[n])
  BY PiecesIsDefined
<1>3. 0 \in S
  <2>1. SubSeq(text, 1, 0) = <<>> /\ at + 0 = at
    BY DEF Strings
  <2> QED BY <2>1
<1> HIDE DEF pieces
<1>4. ASSUME NEW k \in Nat, k \in S PROVE k + 1 \in S
  <2> SUFFICES ASSUME k + 1 <= L PROVE pieces[at + (k + 1)] = Append(before, SubSeq(text, 1, k + 1))
    OBVIOUS
  <2>1. k \in 0..L - 1 /\ k + 1 \in 1..L /\ at + (k + 1) \in 1..Len(whole) /\ (at + (k + 1)) - 1 = at + k
    BY <1>1
  <2>2. pieces[at + k] = Append(before, SubSeq(text, 1, k))
    BY <1>4, <2>1
  <2>3. whole[at + (k + 1)] = text[k + 1] /\ text[k + 1] # Comma
    BY <2>1
  <2>4. /\ SubSeq(text, 1, k) \in Strings /\ text[k + 1] \in Atoms
        /\ SubSeq(text, 1, k + 1) = Append(SubSeq(text, 1, k), text[k + 1])
    BY <2>1, OneMore DEF Strings
  <2>5. pieces[at + (k + 1)] = Cut(Append(before, SubSeq(text, 1, k)), text[k + 1])
    BY <2>1, <2>2, <2>3, <1>2
  <2> QED BY <2>3, <2>4, <2>5, LastPieceGrows
<1> HIDE DEF S
<1>5. Nat \subseteq S
  BY <1>3, <1>4, Induct
<1>6. pieces[at + L] = Append(before, SubSeq(text, 1, L))
  BY <1>5, <1>1 DEF S
<1>7. SubSeq(text, 1, L) = text
  BY DEF Strings
<1> QED BY <1>6, <1>7 DEF pieces

(* Where the atoms of two texts and of the comma between them lie.                             *)
LEMMA StringsJoined ==
  ASSUME NEW one \in Strings, NEW two \in Strings
  PROVE  /\ one \o two \in Strings /\ Len(one) \in Nat /\ Len(two) \in Nat
         /\ Len(one \o two) = Len(one) + Len(two)
         /\ \A k \in 1..Len(one) : (one \o two)[k] = one[k]
         /\ \A k \in 1..Len(two) : (one \o two)[Len(one) + k] = two[k]
<1>1. one \in Seq(Atoms) /\ two \in Seq(Atoms)
  BY DEF Strings
<1>2. one \o two \in Seq(Atoms) /\ Len(one) \in Nat /\ Len(two) \in Nat /\ Len(one \o two) = Len(one) + Len(two)
  BY <1>1
<1>3. \A k \in 1..Len(one) : (one \o two)[k] = one[k]
  BY <1>1
<1>4. ASSUME NEW k \in 1..Len(two) PROVE (one \o two)[Len(one) + k] = two[k]
  <2>1. Len(one) + k \in 1..Len(one) + Len(two) /\ ~(Len(one) + k <= Len(one)) /\ (Len(one) + k) - Len(one) = k
    BY <1>2
  <2> QED BY <2>1, <1>1
<1> QED BY <1>2, <1>3, <1>4 DEF Strings

(* What joining adds with each text: a comma and the text, after what was joined before.          *)
LEMMA TextIsJoined ==
  ASSUME NEW texts \in Seq(Strings), NEW n \in 2..Len(texts)
  PROVE  LET before == JoinedOf(texts)[n - 1]
             after == JoinedOf(texts)[n]
         IN  /\ Len(before) \in Nat /\ Len(after) = Len(before) + 1 + Len(texts[n])
             /\ \A k \in 1..Len(before) : after[k] = before[k]
             /\ after[Len(before) + 1] = Comma
             /\ \A k \in 1..Len(texts[n]) : after[Len(before) + 1 + k] = texts[n][k]
<1> DEFINE before == JoinedOf(texts)[n - 1]
           after == JoinedOf(texts)[n]
           text == texts[n]
           comma == <<Comma>>
<1>1. n - 1 \in 0..Len(texts) /\ n \in 1..Len(texts) /\ n # 1
  OBVIOUS
<1>2. before \in Strings /\ text \in Strings
  BY <1>1, JoinedIsDefined
<1>3. after = before \o comma \o text
  BY <1>1, JoinedIsDefined
<1>4. comma \in Strings /\ Len(comma) = 1 /\ comma[1] = Comma
  <2>1. Comma \in Atoms
    BY DEF Atoms
  <2> QED BY <2>1 DEF Strings
<1> HIDE DEF before, after, text, comma
<1> DEFINE b == Len(before)
           t == Len(text)
           both == before \o comma
<1>5. b \in Nat /\ t \in Nat
  BY <1>2 DEF Strings
<1>6. /\ both \in Strings /\ Len(both) = b + 1
      /\ \A k \in 1..b : both[k] = before[k]
      /\ both[b + 1] = Comma
  <2>1. /\ both \in Strings /\ Len(both) = b + Len(comma)
        /\ \A k \in 1..b : both[k] = before[k]
        /\ \A k \in 1..Len(comma) : both[b + k] = comma[k]
    BY <1>2, <1>4, StringsJoined
  <2>2. 1 \in 1..Len(comma)
    BY <1>4
  <2> HIDE DEF both, b
  <2> QED BY <2>1, <2>2, <1>4
<1>7. after = both \o text
  BY <1>3
<1> HIDE DEF both, b, t
<1>8. /\ Len(after) = b + 1 + t
      /\ \A k \in 1..b + 1 : after[k] = both[k]
      /\ \A k \in 1..t : after[b + 1 + k] = text[k]
  <2>1. /\ Len(after) = Len(both) + t
        /\ \A k \in 1..Len(both) : after[k] = both[k]
        /\ \A k \in 1..t : after[Len(both) + k] = text[k]
    BY <1>2, <1>6, <1>7, StringsJoined DEF t
  <2> QED BY <2>1, <1>6
<1>9. \A k \in 1..b : k \in 1..b + 1
  BY <1>5
<1>10. b + 1 \in 1..b + 1
  BY <1>5
<1> QED BY <1>5, <1>6, <1>8, <1>9, <1>10 DEF before, after, text, b, t

(* The texts that were joined lie in the whole one after the other.          *)
LEMMA JoinedLies ==
  ASSUME NEW texts \in Seq(Strings), NEW n \in 1..Len(texts)
  PROVE  /\ Len(JoinedOf(texts)[n]) <= Len(Join(texts))
         /\ \A k \in 1..Len(JoinedOf(texts)[n]) : Join(texts)[k] = JoinedOf(texts)[n][k]
<1> DEFINE N == Len(texts)
           joined == JoinedOf(texts)
           Lies(m) == /\ Len(joined[m]) <= Len(joined[N])
                      /\ \A k \in 1..Len(joined[m]) : joined[N][k] = joined[m][k]
           S == {d \in Nat : d < N => Lies(N - d)}
<1>1. N \in Nat /\ Join(texts) = joined[N]
  BY DEF Join
<1>2. \A m \in 1..N : Len(joined[m]) \in Nat
  <2> TAKE m \in 1..N
  <2>1. joined[m] \in Strings
    BY <1>1, JoinedIsDefined
  <2> QED BY <2>1 DEF Strings
<1>3. \A m \in 2..N : /\ Len(joined[m]) = Len(joined[m - 1]) + 1 + Len(texts[m])
                       /\ \A k \in 1..Len(joined[m - 1]) : joined[m][k] = joined[m - 1][k]
  BY TextIsJoined
<1>4. \A m \in 1..N : Len(texts[m]) \in Nat
  BY DEF Strings
<1> HIDE DEF joined, N
<1>5. 0 \in S
  <2> SUFFICES ASSUME 0 < N PROVE Lies(N - 0)
    OBVIOUS
  <2>1. N - 0 = N /\ N \in 1..N
    BY <1>1
  <2> QED BY <2>1, <1>2
<1>6. ASSUME NEW d \in Nat, d \in S PROVE d + 1 \in S
  <2> SUFFICES ASSUME d + 1 < N PROVE Lies(N - (d + 1))
    OBVIOUS
  <2> DEFINE m == N - d
  <2>1. m \in 2..N /\ m - 1 = N - (d + 1) /\ m - 1 \in 1..N /\ m \in 1..N
    BY <1>1
  <2>2. Lies(m)
    BY <1>1, <1>6
  <2> HIDE DEF m
  <2>3. Len(joined[m - 1]) \in Nat /\ Len(joined[m]) \in Nat /\ Len(joined[N]) \in Nat /\ Len(texts[m]) \in Nat
    <3>1. N \in 1..N
      BY <2>1, <1>1
    <3> QED BY <3>1, <2>1, <1>2, <1>4
  <2>4. Len(joined[m]) = Len(joined[m - 1]) + 1 + Len(texts[m])
    BY <2>1, <1>3
  <2>7. \A a, b, c \in Nat : c = a + 1 + b => a <= c /\ \A k \in 1..a : k \in 1..c
    OBVIOUS
  <2>5. /\ Len(joined[m - 1]) <= Len(joined[m])
        /\ \A k \in 1..Len(joined[m - 1]) : k \in 1..Len(joined[m]) /\ joined[m][k] = joined[m - 1][k]
    <3>1. Len(joined[m - 1]) <= Len(joined[m]) /\ \A k \in 1..Len(joined[m - 1]) : k \in 1..Len(joined[m])
      BY <2>3, <2>4, <2>7
    <3> QED BY <3>1, <2>1, <1>3
  <2>8. Len(joined[m - 1]) <= Len(joined[N])
    <3>1. \A a, b, c \in Nat : a <= b /\ b <= c => a <= c
      OBVIOUS
    <3> QED BY <3>1, <2>2, <2>3, <2>5
  <2>6. Lies(m - 1)
    BY <2>2, <2>5, <2>8
  <2> QED BY <2>1, <2>6
<1> HIDE DEF S
<1>7. Nat \subseteq S
  BY <1>5, <1>6, Induct
<1>8. N - n \in S /\ N - n < N /\ N - (N - n) = n
  BY <1>7, <1>1 DEF N
<1>9. Lies(n)
  BY <1>8 DEF S
<1> QED BY <1>1, <1>9 DEF joined

(* A list of texts without commas, joined with commas, is the list again when it is cut at     *)
(* them.                                                                                       *)
LEMMA SplitUndoesJoin ==
  ASSUME NEW texts \in Seq(Strings), texts # <<>>,
         \A n \in 1..Len(texts) : \A k \in 1..Len(texts[n]) : texts[n][k] # Comma
  PROVE  Split(Join(texts)) = texts
<1> DEFINE N == Len(texts)
           joined == JoinedOf(texts)
           whole == Join(texts)
           pieces == PiecesOf(whole)
           S == {n \in Nat : n + 1 <= N => pieces[Len(joined[n + 1])] = SubSeq(texts, 1, n + 1)}
<1>1. N \in Nat \ {0} /\ \A n \in 1..N : texts[n] \in Strings
  OBVIOUS
<1>2. whole = joined[N] /\ whole \in Strings
  BY <1>1, JoinedIsDefined DEF Join
<1>3. joined[1] = texts[1]
  BY <1>1, JoinedIsDefined
<1>4. Len(whole) \in Nat /\ \A n \in 1..N : Len(joined[n]) \in Nat /\ Len(texts[n]) \in Nat
  <2>1. \A n \in 1..N : joined[n] \in Strings
    BY <1>1, JoinedIsDefined
  <2> QED BY <2>1, <1>1, <1>2 DEF Strings
<1>5. ASSUME NEW n \in 1..N
      PROVE  Len(joined[n]) <= Len(whole) /\ \A k \in 1..Len(joined[n]) : whole[k] = joined[n][k]
  BY JoinedLies
<1>6. ASSUME NEW n \in 2..N
      PROVE  /\ Len(joined[n]) = Len(joined[n - 1]) + 1 + Len(texts[n])
             /\ joined[n][Len(joined[n - 1]) + 1] = Comma
             /\ \A k \in 1..Len(texts[n]) : joined[n][Len(joined[n - 1]) + 1 + k] = texts[n][k]
  BY TextIsJoined
<1>7. /\ pieces[0] = << <<>> >>
      /\ \A n \in 1..Len(whole) : pieces[n] = Cut(pieces[n - 1], whole[n])
  BY <1>2, PiecesIsDefined
<1>8. <<>> \in Strings /\ <<>> \in Seq(Strings)
  BY DEF Strings
<1> HIDE DEF joined, whole
<1>9. ASSUME NEW at \in Nat, NEW n \in 1..N, at + Len(texts[n]) <= Len(whole),
             \A k \in 1..Len(texts[n]) : whole[at + k] = texts[n][k],
             NEW before \in Seq(Strings), pieces[at] = Append(before, <<>>)
      PROVE  pieces[at + Len(texts[n])] = Append(before, texts[n])
  BY <1>1, <1>2, <1>9, PieceIsCut
<1> HIDE DEF pieces, N
<1>10. 0 \in S
  <2> SUFFICES ASSUME 1 <= N PROVE pieces[Len(joined[1])] = SubSeq(texts, 1, 1)
    OBVIOUS
  <2>1. 1 \in 1..N /\ \A k \in 1..Len(texts[1]) : 0 + k = k
    BY <1>1, <1>4
  <2>2. 0 + Len(texts[1]) = Len(texts[1]) /\ Len(texts[1]) <= Len(whole)
    BY <2>1, <1>3, <1>4, <1>5
  <2>3. \A k \in 1..Len(texts[1]) : whole[0 + k] = texts[1][k]
    BY <2>1, <1>3, <1>5
  <2>4. pieces[0] = Append(<<>>, <<>>)
    BY <1>7
  <2>5. pieces[0 + Len(texts[1])] = Append(<<>>, texts[1])
    BY <2>1, <2>2, <2>3, <2>4, <1>8, <1>9
  <2>6. SubSeq(texts, 1, 1) = Append(<<>>, texts[1])
    <3>1. 0 \in 0..Len(texts) - 1 /\ 0 + 1 = 1
      BY <1>1 DEF N
    <3>2. SubSeq(texts, 1, 1) = Append(SubSeq(texts, 1, 0), texts[1])
      BY <3>1, OneMore
    <3>3. SubSeq(texts, 1, 0) = <<>>
      OBVIOUS
    <3> QED BY <3>2, <3>3
  <2> QED BY <2>2, <2>5, <2>6, <1>3
<1>11. ASSUME NEW m \in Nat, m \in S PROVE m + 1 \in S
  <2> SUFFICES ASSUME (m + 1) + 1 <= N
               PROVE  pieces[Len(joined[(m + 1) + 1])] = SubSeq(texts, 1, (m + 1) + 1)
    OBVIOUS
  <2> DEFINE n == (m + 1) + 1
             before == SubSeq(texts, 1, m + 1)
             s == Len(joined[n - 1])
  <2>1. n \in 2..N /\ n \in 1..N /\ n - 1 = m + 1 /\ n - 1 \in 1..N
    BY <1>1
  <2>2. pieces[s] = before
    BY <2>1, <1>1, <1>11
  <2>3. before \in Seq(Strings) /\ SubSeq(texts, 1, n) = Append(before, texts[n])
    <3>1. m + 1 \in 0..Len(texts) - 1
      BY <1>1 DEF N
    <3> QED BY <3>1, OneMore
  <2> HIDE DEF before, n
  <2>4. s \in Nat /\ Len(joined[n]) = s + 1 + Len(texts[n]) /\ Len(texts[n]) \in Nat
    BY <2>1, <1>4, <1>6
  <2>5. Len(joined[n]) <= Len(whole) /\ \A k \in 1..Len(joined[n]) : whole[k] = joined[n][k]
    BY <2>1, <1>5
  <2> HIDE DEF s
  <2>11. \A a, b, c, d \in Nat :
           c = a + 1 + b /\ c <= d =>
             /\ a + 1 \in Nat /\ (a + 1) + b <= d
             /\ a + 1 \in 1..d /\ a + 1 \in 1..c /\ (a + 1) - 1 = a /\ (a + 1) + b = c
             /\ \A k \in 1..b : (a + 1) + k \in 1..c /\ (a + 1) + k = a + 1 + k
    OBVIOUS
  <2>12. Len(joined[n]) \in Nat
    BY <2>1, <1>4
  <2>6. /\ s + 1 \in Nat /\ (s + 1) + Len(texts[n]) <= Len(whole)
        /\ s + 1 \in 1..Len(whole) /\ s + 1 \in 1..Len(joined[n]) /\ (s + 1) - 1 = s
        /\ (s + 1) + Len(texts[n]) = Len(joined[n])
        /\ \A k \in 1..Len(texts[n]) : (s + 1) + k \in 1..Len(joined[n]) /\ (s + 1) + k = s + 1 + k
    BY <2>4, <2>5, <2>11, <2>12, <1>4
  <2>7. whole[s + 1] = Comma
    BY <2>1, <2>5, <2>6, <1>6 DEF s
  <2>8. pieces[s + 1] = Append(before, <<>>)
    BY <2>2, <2>6, <2>7, <1>7 DEF Cut
  <2>9. \A k \in 1..Len(texts[n]) : whole[(s + 1) + k] = texts[n][k]
    <3> TAKE k \in 1..Len(texts[n])
    <3>1. (s + 1) + k \in 1..Len(joined[n]) /\ (s + 1) + k = s + 1 + k
      BY <2>6
    <3>2. joined[n][s + 1 + k] = texts[n][k]
      BY <2>1, <1>6 DEF s
    <3> QED BY <3>1, <3>2, <2>5
  <2>10. pieces[(s + 1) + Len(texts[n])] = Append(before, texts[n])
    BY <2>1, <2>3, <2>6, <2>8, <2>9, <1>9
  <2>13. pieces[Len(joined[n])] = SubSeq(texts, 1, n)
    BY <2>3, <2>6, <2>10
  <2> QED BY <2>13 DEF n
<1> HIDE DEF S
<1>12. Nat \subseteq S
  BY <1>10, <1>11, Induct
<1>13. N - 1 \in Nat /\ (N - 1) + 1 = N
  BY <1>1
<1>14. pieces[Len(joined[N])] = SubSeq(texts, 1, N)
  BY <1>12, <1>13 DEF S
<1>15. SubSeq(texts, 1, N) = texts
  BY DEF N
<1> QED BY <1>2, <1>14, <1>15 DEF Split, pieces, whole

----------------------------------------------------------------------------
(* Paths.                                                                   *)

(* The functions that are recursive over the tokens of a template exist.                          *)
LEMMA ReadIsDefined ==
  ASSUME NEW template, Len(template) \in Nat, NEW path
  PROVE  /\ TokensRead(template, path)[0] = Match(<<>>, 0)
         /\ \A n \in 1..Len(template) :
              TokensRead(template, path)[n] = MatchToken(path, TokensRead(template, path)[n - 1], template[n])
<1> DEFINE Reading(read, m) == read = [n \in 0..m |-> IF n = 0 THEN Match(<<>>, 0) ELSE MatchToken(path, read[n - 1], template[n])]
           S == {m \in Nat : \E read : Reading(read, m)}
<1>1. 0 \in S
  <2> DEFINE read == [n \in 0..0 |-> Match(<<>>, 0)]
  <2>1. Reading(read, 0)
    OBVIOUS
  <2> QED BY <2>1
<1>2. ASSUME NEW m \in Nat, m \in S PROVE m + 1 \in S
  <2>1. PICK read : Reading(read, m)
    BY <1>2
  <2> DEFINE next == [n \in 0..m + 1 |-> IF n = m + 1 THEN MatchToken(path, read[m], template[m + 1]) ELSE read[n]]
  <2>2. \A n \in 0..m : next[n] = read[n]
    OBVIOUS
  <2>3. next[m + 1] = MatchToken(path, next[(m + 1) - 1], template[m + 1])
    OBVIOUS
  <2>4. \A n \in 0..m : next[n] = IF n = 0 THEN Match(<<>>, 0) ELSE MatchToken(path, next[n - 1], template[n])
    BY <2>1, <2>2
  <2>5. next = [n \in 0..m + 1 |-> next[n]]
    OBVIOUS
  <2> HIDE DEF next
  <2>6. \A n \in 0..m + 1 : next[n] = IF n = 0 THEN Match(<<>>, 0) ELSE MatchToken(path, next[n - 1], template[n])
    <3> TAKE n \in 0..m + 1
    <3>1. CASE n \in 0..m
      BY <3>1, <2>4
    <3>2. CASE n = m + 1
      BY <3>2, <2>3
    <3> QED BY <3>1, <3>2
  <2>7. Reading(next, m + 1)
    BY <2>5, <2>6
  <2> QED BY <2>7
<1>3. Len(template) \in S
  <2> HIDE DEF S
  <2> QED BY <1>1, <1>2, Induct
<1>4. \E read : Reading(read, Len(template))
  BY <1>3
<1> DEFINE read == TokensRead(template, path)
<1>5. Reading(read, Len(template))
  BY <1>4 DEF TokensRead
<1> HIDE DEF read
<1>6. ASSUME NEW n \in 0..Len(template)
      PROVE  read[n] = IF n = 0 THEN Match(<<>>, 0) ELSE MatchToken(path, read[n - 1], template[n])
  BY <1>5
<1>7. read[0] = Match(<<>>, 0)
  BY <1>6
<1>8. \A n \in 1..Len(template) : read[n] = MatchToken(path, read[n - 1], template[n])
  BY <1>6
<1> QED BY <1>7, <1>8 DEF read

(* So does what a client writes of the first tokens of a template, and its values are texts.   *)
LEMMA WrittenIsDefined ==
  ASSUME NEW op, Len(Shape(op).path) \in Nat, NEW lang, NEW message
  PROVE  /\ TokensWritten(op, lang, message)[0] = <<>>
         /\ \A n \in 1..Len(Shape(op).path) :
              TokensWritten(op, lang, message)[n] =
                TokensWritten(op, lang, message)[n - 1] \o TokenText(op, lang, message, Shape(op).path[n])
<1> DEFINE Then(before, n) == before \o TokenText(op, lang, message, Shape(op).path[n])
           Writes(text, m) == text = [n \in 0..m |-> IF n = 0 THEN <<>> ELSE Then(text[n - 1], n)]
           S == {m \in Nat : \E text : Writes(text, m)}
<1>1. 0 \in S
  <2> DEFINE text == [n \in 0..0 |-> <<>>]
  <2>1. Writes(text, 0)
    OBVIOUS
  <2> QED BY <2>1
<1>2. ASSUME NEW m \in Nat, m \in S PROVE m + 1 \in S
  <2>1. PICK text : Writes(text, m)
    BY <1>2
  <2> HIDE DEF Then
  <2> DEFINE next == [n \in 0..m + 1 |-> IF n = m + 1 THEN Then(text[m], m + 1) ELSE text[n]]
  <2>2. \A n \in 0..m : next[n] = text[n]
    OBVIOUS
  <2>3. next[m + 1] = Then(next[(m + 1) - 1], m + 1)
    OBVIOUS
  <2>4. \A n \in 0..m : next[n] = IF n = 0 THEN <<>> ELSE Then(next[n - 1], n)
    BY <2>1, <2>2
  <2>5. next = [n \in 0..m + 1 |-> next[n]]
    OBVIOUS
  <2> HIDE DEF next
  <2>6. \A n \in 0..m + 1 : next[n] = IF n = 0 THEN <<>> ELSE Then(next[n - 1], n)
    <3> TAKE n \in 0..m + 1
    <3>1. CASE n \in 0..m
      BY <3>1, <2>4
    <3>2. CASE n = m + 1
      BY <3>2, <2>3
    <3> QED BY <3>1, <3>2
  <2>7. Writes(next, m + 1)
    BY <2>5, <2>6
  <2> QED BY <2>7
<1>3. Len(Shape(op).path) \in S
  <2> HIDE DEF S
  <2> QED BY <1>1, <1>2, Induct
<1>4. \E text : Writes(text, Len(Shape(op).path))
  BY <1>3
<1> DEFINE written == TokensWritten(op, lang, message)
<1>5. Writes(written, Len(Shape(op).path))
  BY <1>4 DEF TokensWritten
<1> HIDE DEF written, Then
<1>6. ASSUME NEW n \in 0..Len(Shape(op).path)
      PROVE  written[n] = IF n = 0 THEN <<>> ELSE Then(written[n - 1], n)
  BY <1>5
<1>7. written[0] = <<>>
  BY <1>6
<1>8. \A n \in 1..Len(Shape(op).path) : written[n] = Then(written[n - 1], n)
  BY <1>6
<1> QED BY <1>7, <1>8 DEF written, Then

----------------------------------------------------------------------------
(* How a path is laid out: which of its atoms were written for which token.  `s` says how many      *)
(* atoms the first n tokens take.                                                                *)
IsText(text) == \E n \in Nat : text = [k \in 1..n |-> text[k]]

LaidOut(written, path, s) ==
  /\ s \in [0..Len(path) -> Nat] /\ s[0] = 0
  /\ Len(written) = s[Len(path)]
  /\ \A n \in 1..Len(path) :
       /\ s[n - 1] < s[n]
       /\ path[n].is = "literal" => s[n] = s[n - 1] + 1 /\ written[s[n]] = path[n].of
       /\ path[n].is # "literal" => \A k \in s[n - 1] + 1..s[n] : written[k] # "/"

(* Which atoms they are: what was written for the token.                    *)
Spelled(written, s, texts) ==
  /\ written = [k \in 1..Len(written) |-> written[k]]
  /\ \A n \in DOMAIN texts :
       /\ Len(texts[n]) = s[n] - s[n - 1]
       /\ \A k \in s[n - 1] + 1..s[n] : written[k] = texts[n][k - s[n - 1]]

TextsOf(op, lang, message) ==
  [n \in 1..Len(Shape(op).path) |-> TokenText(op, lang, message, Shape(op).path[n])]

(* A function over 1..n is a text of that length.                                              *)
LEMMA LengthOfText ==
  ASSUME NEW n \in Nat, NEW text, text = [k \in 1..n |-> text[k]]
  PROVE  Len(text) = n /\ DOMAIN text = 1..n
OBVIOUS

(* Where the atoms of two texts lie in the one after the other.                                *)
LEMMA Concatenated ==
  ASSUME NEW m \in Nat, NEW n \in Nat, NEW one, NEW two,
         one = [k \in 1..m |-> one[k]], two = [k \in 1..n |-> two[k]]
  PROVE  one \o two = [k \in 1..m + n |-> IF k <= m THEN one[k] ELSE two[k - m]]
<1> DEFINE Either == {one[k] : k \in 1..m} \cup {two[k] : k \in 1..n}
<1>1. one \in Seq(Either) /\ two \in Seq(Either) /\ Len(one) = m /\ Len(two) = n
  <2>1. one \in [1..m -> Either] /\ two \in [1..n -> Either]
    OBVIOUS
  <2> QED BY <2>1
<1> HIDE DEF Either
<1>2. one \o two \in Seq(Either) /\ Len(one \o two) = m + n
  BY <1>1
<1>3. \A k \in 1..m + n : (one \o two)[k] = IF k <= m THEN one[k] ELSE two[k - m]
  BY <1>1
<1>4. one \o two = [k \in 1..m + n |-> (one \o two)[k]]
  BY <1>2
<1> QED BY <1>3, <1>4

(* What a placeholder is written with holds no slash.                       *)
LEMMA NoSlashIsLeft ==
  ASSUME NEW text, NEW k \in 1..Len(text)
  PROVE  PercentEncoded(text)[k] # "/"
<1>1. CASE \E e \in Escapes : e[1] = text[k]
  <2>1. PICK e \in Escapes : PercentEncoded(text)[k] = e[2]
    BY <1>1 DEF PercentEncoded
  <2>2. e = <<"/", "%2F">> \/ e = <<Comma, "%2C">> \/ e = <<" ", "%20">>
    BY <2>1 DEF Escapes
  <2>3. \A a, b : <<a, b>>[2] = b
    OBVIOUS
  <2>4. e[2] = "%2F" \/ e[2] = "%2C" \/ e[2] = "%20"
    BY <2>2, <2>3
  <2> QED BY <2>1, <2>4
<1>2. CASE ~ \E e \in Escapes : e[1] = text[k]
  <2>1. PercentEncoded(text)[k] = text[k]
    BY <1>2 DEF PercentEncoded
  <2>2. <<"/", "%2F">> \in Escapes /\ <<"/", "%2F">>[1] = "/"
    BY DEF Escapes
  <2> QED BY <2>1, <2>2, <1>2
<1> QED BY <1>1, <1>2

(* A token is written with at least one atom: a literal with its own, a filled placeholder with    *)
(* ones that are no slash.                                                                       *)
LEMMA TokenIsWritten ==
  ASSUME NEW op, Shape(op).path \in Templates, NEW lang, NEW given, Filled(op, lang, given),
         NEW n \in 1..Len(Shape(op).path)
  PROVE  LET token == Shape(op).path[n]
             text == TokenText(op, lang, MessageOf(op, given), token)
         IN  /\ Len(text) \in Nat \ {0} /\ text = [k \in 1..Len(text) |-> text[k]]
             /\ token.is = "literal" => Len(text) = 1 /\ text[1] = token.of
             /\ token.is # "literal" => \A k \in 1..Len(text) : text[k] # "/"
<1> DEFINE token == Shape(op).path[n]
           text == TokenText(op, lang, MessageOf(op, given), token)
           value == SegmentText(Clients[lang], PlaceholderValue(op, MessageOf(op, given), token.of))
<1>1. token.is \in {"literal", "placeholder"} /\ n \in DOMAIN Shape(op).path
  <2>1. token \in [is : {"literal", "placeholder"}, of : STRING]
    <3> DEFINE Tokens == [is : {"literal", "placeholder"}, of : STRING]
    <3>1. Shape(op).path \in Seq(Tokens)
      BY DEF Templates
    <3> HIDE DEF Tokens
    <3>2. Shape(op).path[n] \in Tokens
      BY <3>1
    <3> QED BY <3>2 DEF Tokens
  <2> QED BY <2>1 DEF Templates
<1>2. CASE token.is = "literal"
  <2>1. text = <<token.of>>
    BY <1>2 DEF TokenText
  <2> QED BY <2>1, <1>2
<1>3. CASE token.is # "literal"
  <2>1. Len(value) \in Nat \ {0}
    BY <1>1, <1>3 DEF Filled
  <2>2. text = PercentEncoded(value)
    BY <1>3 DEF TokenText
  <2> HIDE DEF value, text, token
  <2>3. Len(text) = Len(value) /\ text = [k \in 1..Len(value) |-> text[k]]
    <3>1. text = [k \in 1..Len(value) |-> text[k]]
      BY <2>2 DEF PercentEncoded
    <3> QED BY <3>1, <2>1, LengthOfText
  <2>4. \A k \in 1..Len(value) : text[k] # "/"
    BY <2>2, NoSlashIsLeft
  <2> QED BY <2>1, <2>3, <2>4, <1>3 DEF text, token
<1> QED BY <1>2, <1>3

(* Every path a client writes is laid out by the tokens of its template.                       *)
LEMMA PathIsLaidOut ==
  ASSUME NEW op, Shape(op).path \in Templates, NEW lang, NEW given, Filled(op, lang, given)
  PROVE  \E s : /\ LaidOut(PathOf(op, lang, MessageOf(op, given)), Shape(op).path, s)
                /\ Spelled(PathOf(op, lang, MessageOf(op, given)), s, TextsOf(op, lang, MessageOf(op, given)))
<1> DEFINE path == Shape(op).path
           N == Len(path)
           written == TokensWritten(op, lang, MessageOf(op, given))
           text(n) == TokenText(op, lang, MessageOf(op, given), path[n])
           s == [n \in 0..N |-> Len(written[n])]
<1>1. N \in Nat
  BY DEF Templates
<1>2. ASSUME NEW n \in 1..N
      PROVE  /\ Len(text(n)) \in Nat \ {0} /\ text(n) = [k \in 1..Len(text(n)) |-> text(n)[k]]
             /\ path[n].is = "literal" => Len(text(n)) = 1 /\ text(n)[1] = path[n].of
             /\ path[n].is # "literal" => \A k \in 1..Len(text(n)) : text(n)[k] # "/"
  BY TokenIsWritten
<1>3. /\ written[0] = <<>>
      /\ \A n \in 1..N : written[n] = written[n - 1] \o text(n)
  BY <1>1, WrittenIsDefined
<1>4. PathOf(op, lang, MessageOf(op, given)) = written[N]
  BY DEF PathOf
<1> HIDE DEF path, written, text, N
<1>5. \A n \in 0..N : Len(written[n]) \in Nat /\ written[n] = [k \in 1..Len(written[n]) |-> written[n][k]]
  <2> DEFINE S == {n \in Nat : n <= N => /\ Len(written[n]) \in Nat
                                         /\ written[n] = [k \in 1..Len(written[n]) |-> written[n][k]]}
  <2>1. 0 \in S
    <3>1. Len(<<>>) = 0 /\ <<>> = [k \in 1..0 |-> <<>>[k]]
      OBVIOUS
    <3> QED BY <3>1, <1>3
  <2>2. ASSUME NEW n \in Nat, n \in S PROVE n + 1 \in S
    <3> SUFFICES ASSUME n + 1 <= N
                 PROVE  /\ Len(written[n + 1]) \in Nat
                        /\ written[n + 1] = [k \in 1..Len(written[n + 1]) |-> written[n + 1][k]]
      OBVIOUS
    <3> DEFINE m == Len(written[n])
               l == Len(text(n + 1))
    <3>1. m \in Nat /\ written[n] = [k \in 1..m |-> written[n][k]]
      <4>1. n <= N
        BY <1>1
      <4> QED BY <4>1, <2>2
    <3>2. n + 1 \in 1..N /\ (n + 1) - 1 = n
      BY <1>1
    <3>3. l \in Nat /\ text(n + 1) = [k \in 1..l |-> text(n + 1)[k]]
      BY <3>2, <1>2
    <3>4. written[n + 1] = written[n] \o text(n + 1)
      BY <3>2, <1>3
    <3> HIDE DEF m, l
    <3>5. written[n + 1] = [k \in 1..m + l |-> written[n + 1][k]]
      BY <3>1, <3>3, <3>4, Concatenated
    <3>6. Len(written[n + 1]) = m + l /\ m + l \in Nat
      BY <3>1, <3>3, <3>5, LengthOfText
    <3> QED BY <3>5, <3>6
  <2> HIDE DEF S
  <2>3. Nat \subseteq S
    BY <2>1, <2>2, Induct
  <2> QED BY <2>3, <1>1 DEF S
<1>6. ASSUME NEW n \in 1..N
      PROVE  /\ s[n] = s[n - 1] + Len(text(n))
             /\ \A k \in 1..s[n - 1] : written[n][k] = written[n - 1][k]
             /\ \A k \in s[n - 1] + 1..s[n] : written[n][k] = text(n)[k - s[n - 1]]
  <2> DEFINE m == Len(written[n - 1])
             l == Len(text(n))
  <2>1. n - 1 \in 0..N /\ n \in 0..N
    BY <1>1
  <2>2. m \in Nat /\ written[n - 1] = [k \in 1..m |-> written[n - 1][k]]
    BY <2>1, <1>5
  <2>3. l \in Nat /\ text(n) = [k \in 1..l |-> text(n)[k]]
    BY <1>2
  <2>4. s[n] = Len(written[n]) /\ s[n - 1] = m
    BY <2>1
  <2>0. written[n] = written[n - 1] \o text(n)
    BY <1>3
  <2> HIDE DEF m, l, s
  <2>5. written[n] = [k \in 1..m + l |-> IF k <= m THEN written[n - 1][k] ELSE text(n)[k - m]]
    BY <2>2, <2>3, <2>0, Concatenated
  <2>6. Len(written[n]) = m + l
    BY <2>2, <2>3, <2>5, LengthOfText
  <2>7. \A k \in 1..m : k \in 1..m + l /\ k <= m
    BY <2>2, <2>3
  <2>8. \A k \in m + 1..m + l : k \in 1..m + l /\ ~(k <= m)
    BY <2>2, <2>3
  <2>9. \A k \in 1..m : written[n][k] = written[n - 1][k]
    BY <2>5, <2>7
  <2>10. \A k \in m + 1..m + l : written[n][k] = text(n)[k - m]
    BY <2>5, <2>8
  <2> QED BY <2>4, <2>6, <2>9, <2>10 DEF l
<1>7. s \in [0..N -> Nat] /\ s[0] = 0 /\ Len(written[N]) = s[N]
  <2>1. \A n \in 0..N : s[n] \in Nat
    BY <1>5
  <2>2. 0 \in 0..N /\ N \in 0..N
    BY <1>1
  <2> QED BY <2>1, <2>2, <1>3
<1>8. ASSUME NEW n \in 1..N PROVE s[n - 1] \in Nat /\ s[n] \in Nat /\ s[n - 1] < s[n]
  <2>1. n - 1 \in 0..N /\ n \in 0..N
    BY <1>1
  <2>2. s[n - 1] \in Nat /\ s[n] \in Nat
    BY <2>1, <1>7
  <2> HIDE DEF s
  <2> QED BY <2>2, <1>2, <1>6
<1> HIDE DEF s
<1>9. \A n \in 0..N : \A k \in 1..s[n] : written[N][k] = written[n][k]
  <2> DEFINE S == {d \in Nat : d <= N => \A k \in 1..s[N - d] : written[N][k] = written[N - d][k]}
  <2>1. 0 \in S
    BY <1>1
  <2>2. ASSUME NEW d \in Nat, d \in S PROVE d + 1 \in S
    <3> SUFFICES ASSUME d + 1 <= N, NEW k \in 1..s[N - (d + 1)]
                 PROVE  written[N][k] = written[N - (d + 1)][k]
      OBVIOUS
    <3> DEFINE n == N - d
    <3>1. n \in 1..N /\ n - 1 = N - (d + 1)
      BY <1>1
    <3> HIDE DEF n
    <3>2. s[n - 1] < s[n] /\ s[n - 1] \in Nat /\ s[n] \in Nat
      BY <3>1, <1>8
    <3>3. k \in 1..s[n - 1] /\ k \in 1..s[n]
      BY <3>1, <3>2
    <3>4. written[n][k] = written[n - 1][k]
      BY <3>1, <3>3, <1>6
    <3>5. written[N][k] = written[n][k]
      BY <3>3, <2>2, <1>1 DEF n
    <3> QED BY <3>1, <3>4, <3>5
  <2> HIDE DEF S
  <2>3. Nat \subseteq S
    BY <2>1, <2>2, Induct
  <2>4. ASSUME NEW n \in 0..N PROVE N - n \in S /\ N - (N - n) = n /\ N - n <= N
    BY <2>3, <1>1
  <2> QED BY <2>4 DEF S
<1>10. ASSUME NEW n \in 1..N, NEW k \in s[n - 1] + 1..s[n]
       PROVE  written[N][k] = text(n)[k - s[n - 1]] /\ k - s[n - 1] \in 1..Len(text(n))
  <2>1. k \in 1..s[n] /\ n \in 0..N
    BY <1>8, <1>1
  <2>2. k - s[n - 1] \in 1..Len(text(n))
    BY <1>8, <1>6, <1>2
  <2> QED BY <2>1, <2>2, <1>9, <1>6
<1>11. ASSUME NEW n \in 1..N, path[n].is = "literal"
       PROVE  s[n] = s[n - 1] + 1 /\ written[N][s[n]] = path[n].of
  <2>1. Len(text(n)) = 1 /\ text(n)[1] = path[n].of
    BY <1>11, <1>2
  <2>2. s[n] = s[n - 1] + 1
    BY <2>1, <1>6
  <2>3. s[n] \in s[n - 1] + 1..s[n] /\ s[n] - s[n - 1] = 1
    BY <2>2, <1>8
  <2> QED BY <2>1, <2>2, <2>3, <1>10
<1>12. ASSUME NEW n \in 1..N, path[n].is # "literal", NEW k \in s[n - 1] + 1..s[n]
       PROVE  written[N][k] # "/"
  BY <1>12, <1>10, <1>2
<1>13. LaidOut(written[N], path, s)
  BY <1>7, <1>8, <1>11, <1>12 DEF LaidOut, N
<1>14. Spelled(written[N], s, [n \in 1..N |-> text(n)])
  <2>1. \A n \in 1..N : Len(text(n)) = s[n] - s[n - 1]
    BY <1>2, <1>6, <1>8
  <2>2. written[N] = [k \in 1..Len(written[N]) |-> written[N][k]]
    BY <1>1, <1>5
  <2> QED BY <2>1, <2>2, <1>10 DEF Spelled
<1>15. [n \in 1..N |-> text(n)] = TextsOf(op, lang, MessageOf(op, given))
  BY DEF TextsOf, text, path, N
<1> QED BY <1>13, <1>14, <1>15, <1>4 DEF path

----------------------------------------------------------------------------
(* How a template reads such a path.                                        *)

(* Where a placeholder stops that reads on from the atom after `at`.         *)
EndOf(written, at) ==
  LET slashes == {j \in at + 1..Len(written) : written[j] = "/"}
  IN  IF slashes = {} THEN Len(written) ELSE Min(slashes) - 1

(* What each token of a template is.                                                           *)
LEMMA TokenOfTemplate ==
  ASSUME NEW path \in Templates, NEW n \in 1..Len(path)
  PROVE  /\ Len(path) \in Nat /\ n \in DOMAIN path
         /\ path[n].is \in {"literal", "placeholder"}
         /\ path[n].is = "literal" => (path[n] = Literal("/") <=> path[n].of = "/")
         /\ path[n].is # "literal" => path[n] # Literal("/")
<1> DEFINE Tokens == [is : {"literal", "placeholder"}, of : STRING]
<1>1. path \in Seq(Tokens)
  BY DEF Templates
<1> HIDE DEF Tokens
<1>2. path[n] \in Tokens /\ Len(path) \in Nat /\ n \in DOMAIN path
  BY <1>1
<1>3. path[n] = [is |-> path[n].is, of |-> path[n].of] /\ path[n].is \in {"literal", "placeholder"}
  BY <1>2 DEF Tokens
<1>4. Literal("/").is = "literal" /\ Literal("/").of = "/"
  BY DEF Literal
<1>5. path[n].is = "literal" /\ path[n].of = "/" => path[n] = Literal("/")
  BY <1>3 DEF Literal
<1> QED BY <1>2, <1>3, <1>4, <1>5

(* A literal is read where the path goes on with its text.                                     *)
LEMMA LiteralToken ==
  ASSUME NEW path \in Templates, NEW n \in 1..Len(path), path[n].is = "literal"
  PROVE  path[n] = [is |-> "literal", of |-> path[n].of]
<1> DEFINE Tokens == [is : {"literal", "placeholder"}, of : STRING]
<1>1. path \in Seq(Tokens)
  BY DEF Templates
<1> HIDE DEF Tokens
<1>2. path[n] \in Tokens
  BY <1>1
<1> QED BY <1>2 DEF Tokens

(* Token by token, a template by segments puts the slashes at the odd tokens and only there.      *)
LEMMA SlashesOfPath ==
  ASSUME NEW path \in Templates, Segmented(path), NEW written, NEW s, LaidOut(written, path, s),
         NEW n \in 1..Len(path)
  PROVE  /\ s[n] \in Nat /\ s[n - 1] \in Nat /\ s[n - 1] < s[n]
         /\ n % 2 = 1 => s[n] = s[n - 1] + 1 /\ written[s[n]] = "/"
         /\ n % 2 # 1 => \A k \in s[n - 1] + 1..s[n] : written[k] # "/"
<1>1. Len(path) \in Nat /\ n \in 0..Len(path) /\ n - 1 \in 0..Len(path) /\ n \in DOMAIN path
  BY TokenOfTemplate
<1>2. s[n] \in Nat /\ s[n - 1] \in Nat /\ s[n - 1] < s[n]
  BY <1>1 DEF LaidOut
<1>3. path[n] = Literal("/") <=> n % 2 = 1
  BY <1>1 DEF Segmented
<1>4. CASE path[n].is = "literal"
  <2>1. s[n] = s[n - 1] + 1 /\ written[s[n]] = path[n].of
    BY <1>4 DEF LaidOut
  <2>2. path[n] = Literal("/") <=> path[n].of = "/"
    BY <1>4, TokenOfTemplate
  <2>3. \A k \in s[n - 1] + 1..s[n] : k = s[n]
    BY <2>1, <1>2
  <2> QED BY <2>1, <2>2, <2>3, <1>2, <1>3
<1>5. CASE path[n].is # "literal"
  <2>1. \A k \in s[n - 1] + 1..s[n] : written[k] # "/"
    BY <1>5 DEF LaidOut
  <2>2. path[n] # Literal("/")
    BY <1>5, TokenOfTemplate
  <2> QED BY <2>1, <2>2, <1>2, <1>3
<1> QED BY <1>4, <1>5

(* The tokens take more and more atoms.                                     *)
LEMMA LaidOutInOrder ==
  ASSUME NEW path \in Templates, NEW written, NEW s, LaidOut(written, path, s)
  PROVE  \A m \in 0..Len(path) : \A n \in 0..m : s[n] <= s[m] /\ (n < m => s[n] < s[m])
<1>1. Len(path) \in Nat
  BY DEF Templates
<1> DEFINE S == {m \in Nat : m <= Len(path) => \A n \in 0..m : s[n] <= s[m] /\ (n < m => s[n] < s[m])}
<1>2. \A n \in 0..Len(path) : s[n] \in Nat
  BY DEF LaidOut
<1>3. 0 \in S
  BY <1>1, <1>2
<1>4. ASSUME NEW m \in Nat, m \in S PROVE m + 1 \in S
  <2> SUFFICES ASSUME m + 1 <= Len(path), NEW n \in 0..m + 1
               PROVE  s[n] <= s[m + 1] /\ (n < m + 1 => s[n] < s[m + 1])
    OBVIOUS
  <2>1. m + 1 \in 1..Len(path) /\ (m + 1) - 1 = m /\ m \in 0..Len(path) /\ m + 1 \in 0..Len(path)
    BY <1>1
  <2>2. s[m] < s[m + 1]
    BY <2>1 DEF LaidOut
  <2>3. CASE n = m + 1
    BY <2>3, <2>1, <1>2
  <2>4. CASE n \in 0..m
    <3>1. s[n] <= s[m] /\ n \in 0..Len(path)
      BY <2>4, <1>4, <1>1, <2>1
    <3> QED BY <3>1, <2>1, <2>2, <1>2
  <2> QED BY <2>3, <2>4
<1> HIDE DEF S
<1>5. Nat \subseteq S
  BY <1>3, <1>4, Induct
<1> QED BY <1>5, <1>1 DEF S

(* A placeholder that reads on from a slash reads to the end of the segment.                      *)
LEMMA EndOfSegment ==
  ASSUME NEW path \in Templates, Segmented(path), NEW written, NEW s, LaidOut(written, path, s),
         NEW n \in 1..Len(path), n % 2 # 1
  PROVE  EndOf(written, s[n - 1]) = s[n]
<1> DEFINE slashes == {j \in s[n - 1] + 1..Len(written) : written[j] = "/"}
<1>1. s[n] \in Nat /\ s[n - 1] \in Nat /\ s[n - 1] < s[n] /\ \A k \in s[n - 1] + 1..s[n] : written[k] # "/"
  BY SlashesOfPath
<1>2. Len(path) \in Nat /\ Len(written) = s[Len(path)]
  BY DEF LaidOut, Templates
<1>3. Len(written) \in Nat
  BY <1>2 DEF LaidOut
<1>4. CASE n = Len(path)
  <2>1. slashes = {}
    BY <1>4, <1>1, <1>2
  <2> QED BY <2>1, <1>2, <1>4 DEF EndOf
<1>5. CASE n # Len(path)
  <2>1. n + 1 \in 1..Len(path) /\ (n + 1) - 1 = n /\ (n + 1) % 2 = 1
    BY <1>5, <1>2
  <2>2. s[n + 1] = s[n] + 1 /\ written[s[n + 1]] = "/"
    BY <2>1, SlashesOfPath
  <2>3. s[n + 1] <= Len(written)
    BY <2>1, <1>2, LaidOutInOrder
  <2>4. s[n] + 1 \in slashes
    BY <2>2, <2>3, <1>1, <1>3
  <2>5. \A j \in slashes : j \in Nat /\ s[n] + 1 <= j
    BY <1>1, <1>3
  <2> HIDE DEF slashes
  <2>6. Min(slashes) = s[n] + 1
    BY <2>4, <2>5, <1>1 DEF Min
  <2> QED BY <2>4, <2>6, <1>1 DEF EndOf, slashes
<1> QED BY <1>4, <1>5

(* What one token makes of the path, once those before it have read on to `at`.                   *)
LEMMA TokenIsRead ==
  ASSUME NEW template \in Templates, NEW written, NEW n \in 1..Len(template)
  PROVE  LET before == TokensRead(template, written)[n - 1]
             after == TokensRead(template, written)[n]
             literal == template[n].is = "literal"
         IN  /\ after # NoMatch <=>
                  /\ before # NoMatch /\ before.at # Len(written)
                  /\ literal => written[before.at + 1] = template[n].of
                  /\ ~literal => EndOf(written, before.at) # before.at
             /\ after # NoMatch =>
                  after.at = IF literal THEN before.at + 1 ELSE EndOf(written, before.at)
<1> DEFINE before == TokensRead(template, written)[n - 1]
           after == TokensRead(template, written)[n]
           token == template[n]
<1>1. Len(template) \in Nat
  BY DEF Templates
<1>2. after = MatchToken(written, before, token)
  BY <1>1, ReadIsDefined
<1>3. \A captured, at : Match(captured, at) # NoMatch /\ Match(captured, at).at = at
  BY DEF Match, NoMatch
<1> HIDE DEF before, after, token
<1>4. MatchToken(written, before, token) =
        IF before = NoMatch \/ before.at = Len(written) THEN NoMatch
        ELSE IF token.is = "literal"
        THEN IF written[before.at + 1] = token.of THEN Match(before.captured, before.at + 1) ELSE NoMatch
        ELSE IF EndOf(written, before.at) = before.at THEN NoMatch
        ELSE Match(Append(before.captured, PercentDecoded(SubSeq(written, before.at + 1, EndOf(written, before.at)))),
                   EndOf(written, before.at))
  BY DEF MatchToken, EndOf
<1>5. CASE before = NoMatch \/ before.at = Len(written)
  BY <1>5, <1>2, <1>4 DEF before, after
<1>6. CASE ~(before = NoMatch \/ before.at = Len(written)) /\ token.is = "literal"
  BY <1>6, <1>2, <1>3, <1>4 DEF before, after, token
<1>7. CASE ~(before = NoMatch \/ before.at = Len(written)) /\ token.is # "literal"
  BY <1>7, <1>2, <1>3, <1>4 DEF before, after, token
<1> QED BY <1>5, <1>6, <1>7

(* The first token of a template is read at the start of the path.                             *)
LEMMA NothingReadAtFirst ==
  ASSUME NEW template \in Templates, NEW written
  PROVE  TokensRead(template, written)[0] # NoMatch /\ TokensRead(template, written)[0].at = 0
<1>1. TokensRead(template, written)[0] = Match(<<>>, 0)
  <2>1. Len(template) \in Nat
    BY DEF Templates
  <2> QED BY <2>1, ReadIsDefined
<1> QED BY <1>1 DEF Match, NoMatch

(* A path is read by the template it was written from, token for token.     *)
LEMMA ReadByItsOwn ==
  ASSUME NEW path \in Templates, Segmented(path), NEW written, NEW s, LaidOut(written, path, s)
  PROVE  /\ MatchPath(path, written) # NoMatch
         /\ \A n \in 0..Len(path) : TokensRead(path, written)[n] # NoMatch /\ TokensRead(path, written)[n].at = s[n]
<1> DEFINE read == TokensRead(path, written)
           S == {n \in Nat : n <= Len(path) => read[n] # NoMatch /\ read[n].at = s[n]}
<1>1. Len(path) \in Nat /\ Len(written) = s[Len(path)]
  BY DEF Templates, LaidOut
<1>2. 0 \in S
  BY NothingReadAtFirst DEF LaidOut
<1>3. ASSUME NEW m \in Nat, m \in S PROVE m + 1 \in S
  <2> SUFFICES ASSUME m + 1 <= Len(path)
               PROVE  read[m + 1] # NoMatch /\ read[m + 1].at = s[m + 1]
    OBVIOUS
  <2> DEFINE n == m + 1
  <2>1. n \in 1..Len(path) /\ n - 1 = m /\ m \in 0..Len(path) /\ n \in 0..Len(path)
    BY <1>1
  <2>2. read[m] # NoMatch /\ read[m].at = s[m]
    BY <1>3, <2>1
  <2> HIDE DEF n
  <2>3. s[n] \in Nat /\ s[m] \in Nat /\ s[m] < s[n]
    BY <2>1, SlashesOfPath
  <2>4. s[n] <= s[Len(path)]
    BY <2>1, <1>1, LaidOutInOrder
  <2>5. s[Len(path)] \in Nat
    BY <1>1 DEF LaidOut
  <2>6. read[m].at # Len(written)
    BY <2>2, <2>3, <2>4, <2>5, <1>1
  <2>7. CASE path[n].is = "literal"
    <3>1. s[n] = s[m] + 1 /\ written[s[n]] = path[n].of
      BY <2>1, <2>7 DEF LaidOut
    <3> HIDE DEF read
    <3>2. written[read[m].at + 1] = path[n].of
      BY <3>1, <2>2
    <3> QED BY <3>1, <3>2, <2>1, <2>2, <2>6, <2>7, TokenIsRead DEF read, n
  <2>8. CASE path[n].is # "literal"
    <3>1. path[n] # Literal("/") /\ n \in DOMAIN path
      BY <2>1, <2>8, TokenOfTemplate
    <3>2. n % 2 # 1
      BY <3>1 DEF Segmented
    <3>3. EndOf(written, s[m]) = s[n]
      BY <3>2, <2>1, EndOfSegment
    <3>4. EndOf(written, read[m].at) = s[n] /\ s[n] # read[m].at
      BY <3>3, <2>2, <2>3
    <3> HIDE DEF read
    <3> QED BY <3>4, <2>1, <2>2, <2>6, <2>8, TokenIsRead DEF read, n
  <2> QED BY <2>7, <2>8
<1> HIDE DEF S
<1>4. Nat \subseteq S
  BY <1>2, <1>3, Induct
<1>5. \A n \in 0..Len(path) : read[n] # NoMatch /\ read[n].at = s[n]
  BY <1>4, <1>1 DEF S
<1>6. read[Len(path)] # NoMatch /\ read[Len(path)].at = Len(written)
  BY <1>5, <1>1
<1> QED BY <1>5, <1>6 DEF MatchPath

(* A path that matches was matched by every token on the way.                                  *)
LEMMA EachTokenIsRead ==
  ASSUME NEW template \in Templates, NEW written, MatchPath(template, written) # NoMatch
  PROVE  /\ \A n \in 0..Len(template) : TokensRead(template, written)[n] # NoMatch
         /\ TokensRead(template, written)[Len(template)].at = Len(written)
<1> DEFINE read == TokensRead(template, written)
           N == Len(template)
           S == {d \in Nat : d <= N => read[N - d] # NoMatch}
<1>1. N \in Nat
  BY DEF Templates
<1>2. read[N] # NoMatch /\ read[N].at = Len(written)
  BY DEF MatchPath
<1>3. 0 \in S
  BY <1>1, <1>2
<1>4. ASSUME NEW d \in Nat, d \in S PROVE d + 1 \in S
  <2> SUFFICES ASSUME d + 1 <= N PROVE read[N - (d + 1)] # NoMatch
    OBVIOUS
  <2> DEFINE n == N - d
  <2>1. n \in 1..N /\ n - 1 = N - (d + 1) /\ d <= N
    BY <1>1
  <2>2. read[n] # NoMatch
    BY <1>4, <2>1
  <2> HIDE DEF n
  <2>3. read[n - 1] # NoMatch
    BY <2>1, <2>2, TokenIsRead
  <2> QED BY <2>1, <2>3
<1> HIDE DEF S
<1>5. Nat \subseteq S
  BY <1>3, <1>4, Induct
<1>6. ASSUME NEW n \in 0..N PROVE read[n] # NoMatch
  <2>1. N - n \in S /\ N - (N - n) = n /\ N - n <= N
    BY <1>5, <1>1
  <2> QED BY <2>1 DEF S
<1> QED BY <1>2, <1>6

(* Whatever template by segments reads the path, it is token for token one the path's own meets:    *)
(* the same literal, or a placeholder on one side or the other.                                  *)
Meets(one, other) ==
  \/ one = other
  \/ one # Literal("/") /\ other.is = "placeholder"
  \/ other # Literal("/") /\ one.is = "placeholder"

(* A template that reads what another wrote, both by segments, meets it token by token.        *)
LEMMA ReadByAnother ==
  ASSUME NEW path \in Templates, Segmented(path), NEW written, NEW s, LaidOut(written, path, s),
         NEW template \in Templates, Segmented(template), MatchPath(template, written) # NoMatch
  PROVE  Len(template) = Len(path) /\ \A i \in 1..Len(path) : Meets(template[i], path[i])
<1> DEFINE read == TokensRead(template, written)
           Reached(n) == /\ n <= Len(path)
                         /\ n = 0 => read[n].at = 0
                         /\ n % 2 = 1 => read[n].at = s[n]
                         /\ n # 0 /\ n % 2 # 1 => read[n].at \in s[n - 1] + 1..s[n]
                         /\ \A i \in 1..n : Meets(template[i], path[i])
           S == {n \in Nat : n <= Len(template) => Reached(n)}
<1>1. Len(path) \in Nat /\ Len(template) \in Nat /\ Len(written) = s[Len(path)] /\ s[0] = 0
  BY DEF Templates, LaidOut
<1>2. ASSUME NEW n \in 0..Len(path)
      PROVE  s[n] \in Nat /\ s[n] <= s[Len(path)] /\ (n < Len(path) => s[n] < s[Len(path)])
  <2>1. s[n] \in Nat
    BY DEF LaidOut
  <2>2. Len(path) \in 0..Len(path) /\ n \in 0..Len(path)
    BY <1>1
  <2> QED BY <2>1, <2>2, LaidOutInOrder
<1>3. /\ \A n \in 0..Len(template) : read[n] # NoMatch
      /\ read[Len(template)].at = Len(written)
  BY EachTokenIsRead
<1>4. ASSUME NEW n \in 1..Len(template)
      PROVE  /\ read[n - 1].at # Len(written)
             /\ template[n].is = "literal" =>
                  written[read[n - 1].at + 1] = template[n].of /\ read[n].at = read[n - 1].at + 1
             /\ template[n].is # "literal" => read[n].at = EndOf(written, read[n - 1].at)
  <2>1. read[n] # NoMatch
    BY <1>1, <1>3
  <2> QED BY <2>1, TokenIsRead
<1> HIDE DEF read
<1>5. 0 \in S
  <2>1. read[0].at = 0
    BY NothingReadAtFirst DEF read
  <2> QED BY <2>1, <1>1
<1>6. ASSUME NEW m \in Nat, m \in S PROVE m + 1 \in S
  <2> SUFFICES ASSUME m + 1 <= Len(template) PROVE Reached(m + 1)
    OBVIOUS
  <2> DEFINE n == m + 1
  <2>1. n \in 1..Len(template) /\ n - 1 = m /\ n \in Nat \ {0} /\ m <= Len(template) /\ n \in DOMAIN template
    BY <1>1, TokenOfTemplate
  <2>2. Reached(m)
    BY <1>6, <2>1
  <2>3. m \in 0..Len(path)
    BY <2>2, <1>1
  <2>4. s[m] \in Nat /\ s[m] <= Len(written) /\ (m < Len(path) => s[m] < Len(written))
    BY <2>3, <1>1, <1>2
  <2>5. read[m].at # Len(written)
    BY <2>1, <1>4
  <2>6. CASE n % 2 = 1
    <3>1. template[n] = Literal("/")
      BY <2>1, <2>6 DEF Segmented
    <3>2. template[n].is = "literal" /\ template[n].of = "/"
      BY <3>1 DEF Literal
    <3>3. written[read[m].at + 1] = "/" /\ read[n].at = read[m].at + 1
      BY <2>1, <3>2, <1>4
    <3>4. m % 2 # 1
      BY <2>6
    <3>5. read[m].at = s[m]
      <4>1. CASE m = 0
        BY <4>1, <2>2, <1>1
      <4>2. CASE m # 0
        <5>1. m \in 1..Len(path) /\ read[m].at \in s[m - 1] + 1..s[m]
          BY <4>2, <2>2, <2>3, <3>4
        <5>2. s[m - 1] \in Nat /\ \A k \in s[m - 1] + 1..s[m] : written[k] # "/"
          BY <5>1, <3>4, SlashesOfPath
        <5>3. read[m].at + 1 \notin s[m - 1] + 1..s[m]
          BY <5>2, <3>3
        <5> QED BY <5>1, <5>2, <5>3, <2>4
      <4> QED BY <4>1, <4>2
    <3>6. m # Len(path)
      BY <3>5, <2>5, <1>1
    <3>7. n \in 1..Len(path)
      BY <3>6, <2>3, <1>1
    <3>8. s[n] = s[m] + 1
      BY <3>7, <2>1, <2>6, SlashesOfPath
    <3>9. path[n] = template[n]
      <4>1. n \in DOMAIN path
        BY <3>7, TokenOfTemplate
      <4> QED BY <4>1, <2>6, <3>1 DEF Segmented
    <3>10. \A i \in 1..n : Meets(template[i], path[i])
      <4>1. \A i \in 1..n : i \in 1..m \/ i = n
        BY <2>1
      <4> QED BY <4>1, <2>2, <3>9 DEF Meets
    <3> QED BY <3>3, <3>5, <3>7, <3>8, <3>10, <2>6, <2>1
  <2>7. CASE n % 2 # 1
    <3>1. template[n] # Literal("/")
      BY <2>1, <2>7 DEF Segmented
    <3>2. m % 2 = 1
      BY <2>7
    <3>3. read[m].at = s[m]
      BY <3>2, <2>2
    <3>4. n \in 1..Len(path) /\ s[m] < Len(written)
      BY <3>3, <2>5, <2>3, <2>4, <1>1
    <3>5. /\ s[n] \in Nat /\ s[m] < s[n] /\ n \in DOMAIN path
          /\ path[n].is \in {"literal", "placeholder"}
      BY <3>4, <2>1, SlashesOfPath, TokenOfTemplate
    <3>6. path[n] # Literal("/")
      BY <3>5, <2>7 DEF Segmented
    <3>7. template[n].is \in {"literal", "placeholder"}
      BY <2>1, TokenOfTemplate
    <3>8. CASE template[n].is = "literal"
      <4>1. written[s[m] + 1] = template[n].of /\ read[n].at = s[m] + 1
        BY <3>3, <3>8, <2>1, <1>4
      <4>2. read[n].at \in s[m] + 1..s[n]
        BY <4>1, <3>5, <2>4
      <4>3. path[n].is = "literal" => path[n] = template[n]
        <5> SUFFICES ASSUME path[n].is = "literal" PROVE path[n] = template[n]
          OBVIOUS
        <5>1. written[s[m] + 1] = path[n].of
          BY <3>4, <2>1 DEF LaidOut
        <5>2. template[n] = [is |-> "literal", of |-> template[n].of] /\ path[n] = [is |-> "literal", of |-> path[n].of]
          BY <3>8, <3>4, <2>1, LiteralToken
        <5> QED BY <5>1, <5>2, <4>1
      <4>4. Meets(template[n], path[n])
        BY <4>3, <3>1, <3>5 DEF Meets
      <4>5. \A i \in 1..n : Meets(template[i], path[i])
        <5>1. \A i \in 1..n : i \in 1..m \/ i = n
          BY <2>1
        <5> QED BY <5>1, <2>2, <4>4
      <4> QED BY <4>2, <4>5, <3>4, <2>7, <2>1
    <3>9. CASE template[n].is # "literal"
      <4>1. EndOf(written, s[m]) = s[n]
        BY <3>4, <2>1, <2>7, EndOfSegment
      <4>2. read[n].at = s[n]
        BY <4>1, <3>3, <3>9, <2>1, <1>4
      <4>3. read[n].at \in s[m] + 1..s[n]
        BY <4>2, <3>5, <2>4
      <4>4. Meets(template[n], path[n])
        BY <3>6, <3>7, <3>9 DEF Meets
      <4>5. \A i \in 1..n : Meets(template[i], path[i])
        <5>1. \A i \in 1..n : i \in 1..m \/ i = n
          BY <2>1
        <5> QED BY <5>1, <2>2, <4>4
      <4> QED BY <4>3, <4>5, <3>4, <2>7, <2>1
    <3> QED BY <3>8, <3>9
  <2> QED BY <2>6, <2>7
<1> HIDE DEF S
<1>7. Reached(Len(template))
  <2>1. Len(template) \in S
    BY <1>1, <1>5, <1>6, Induct
  <2> QED BY <2>1, <1>1 DEF S
<1>8. Len(template) = Len(path)
  <2> DEFINE n == Len(template)
  <2>1. n \in 0..Len(path)
    BY <1>1, <1>7
  <2>2. read[n].at = s[Len(path)]
    BY <1>1, <1>3
  <2>3. s[n] \in Nat /\ s[Len(path)] \in Nat /\ (n < Len(path) => s[n] < s[Len(path)])
    BY <2>1, <1>1, <1>2
  <2>4. read[n].at = s[n] \/ (n \in 1..Len(path) /\ read[n].at \in s[n - 1] + 1..s[n])
    BY <2>1, <1>7, <1>1
  <2> HIDE DEF n
  <2>5. CASE read[n].at = s[n]
    BY <2>5, <2>1, <2>2, <2>3, <1>1 DEF n
  <2>6. CASE n \in 1..Len(path) /\ read[n].at \in s[n - 1] + 1..s[n]
    <3>1. s[n - 1] \in Nat
      BY <2>6, SlashesOfPath
    <3>2. s[Len(path)] <= s[n]
      BY <3>1, <2>6, <2>2, <2>3
    <3> QED BY <3>2, <2>1, <2>3, <1>1 DEF n
  <2> QED BY <2>4, <2>5, <2>6
<1> QED BY <1>7, <1>8

----------------------------------------------------------------------------
(* The routes of a service.                                                 *)

(* Two operations with no http(...) are told apart by their wire names.      *)
LEMMA DefaultRoutesDiffer ==
  ASSUME NEW op, Shape(op).path \in Templates, ~op.bound, NEW lang, NEW given, Filled(op, lang, given),
         NEW other, Shape(other).path \in Templates, ~other.bound, op.wire # other.wire
  PROVE  MatchPath(Shape(other).path, PathOf(op, lang, MessageOf(op, given))) = NoMatch
<1> DEFINE path == Shape(op).path
           template == Shape(other).path
           written == PathOf(op, lang, MessageOf(op, given))
<1>1. path = <<Literal("/"), Literal(op.wire)>> /\ template = <<Literal("/"), Literal(other.wire)>>
  BY DEF Shape
<1>2. PICK s : LaidOut(written, path, s)
  BY PathIsLaidOut
<1> SUFFICES ASSUME MatchPath(template, written) # NoMatch PROVE FALSE
  OBVIOUS
<1>3. /\ \A n \in 0..Len(template) : TokensRead(template, written)[n] # NoMatch
      /\ TokensRead(template, written)[0].at = 0
  BY EachTokenIsRead, NothingReadAtFirst
<1> HIDE DEF written
<1>4. Len(path) = 2 /\ Len(template) = 2 /\ template[1] = Literal("/") /\ template[2] = Literal(other.wire)
      /\ path[1] = Literal("/") /\ path[2] = Literal(op.wire)
  BY <1>1
<1> DEFINE read == TokensRead(template, written)
<1>5. /\ template[1].is = "literal" /\ template[2].is = "literal" /\ template[2].of = other.wire
      /\ path[1].is = "literal" /\ path[2].is = "literal" /\ path[2].of = op.wire
  BY <1>4 DEF Literal
<1> HIDE DEF path, template, read
<1>6. s[0] = 0 /\ s[1] = 1 /\ s[2] = 2 /\ written[s[2]] = op.wire
  <2>1. 1 \in 1..Len(path) /\ 2 \in 1..Len(path) /\ 1 - 1 = 0 /\ 2 - 1 = 1
    BY <1>4
  <2>2. s[1] = s[0] + 1 /\ s[2] = s[1] + 1 /\ s[0] = 0 /\ written[s[2]] = path[2].of
    BY <1>2, <1>5, <2>1 DEF LaidOut
  <2> QED BY <2>2, <1>5
<1>7. read[1] # NoMatch /\ read[1].at = 1
  <2>1. read[1] # NoMatch /\ read[0].at = 0
    BY <1>3, <1>4 DEF read
  <2>2. 1 \in 1..Len(template) /\ 1 - 1 = 0
    BY <1>4
  <2> QED BY <2>1, <2>2, <1>5, TokenIsRead DEF read, template
<1>8. written[2] = other.wire
  <2>1. read[2] # NoMatch
    BY <1>3, <1>4 DEF read
  <2>2. 2 \in 1..Len(template) /\ 2 - 1 = 1
    BY <1>4
  <2> QED BY <2>1, <2>2, <1>5, <1>7, TokenIsRead DEF read, template
<1> QED BY <1>6, <1>8

(* The route of a request is the first operation that answers it.                              *)
LEMMA FirstRoute ==
  ASSUME NEW operations, Len(operations) \in Nat, DOMAIN operations = 1..Len(operations),
         NEW req, NEW index \in DOMAIN operations,
         \A i \in 1..index :
           (Shape(operations[i]).method = req.method /\ MatchPath(Shape(operations[i]).path, req.path) # NoMatch)
             <=> i = index
  PROVE  RouteOf(Routes(operations), req) = index
<1> DEFINE routes == Routes(operations)
           Answers(i) == routes[i].method = req.method /\ MatchPath(routes[i].path, req.path) # NoMatch
           I == {i \in 1..Len(routes) : Answers(i)}
<1>1. routes = [i \in 1..Len(operations) |-> [method |-> Shape(operations[i]).method, path |-> Shape(operations[i]).path]]
  BY DEF Routes
<1>2. Len(routes) = Len(operations)
  <2>1. routes = [i \in 1..Len(operations) |-> routes[i]]
    BY <1>1
  <2> HIDE DEF routes
  <2> QED BY <2>1, LengthOfText
<1>3. \A i \in 1..index : i \in 1..Len(operations) /\ (Answers(i) <=> i = index)
  BY <1>1
<1>4. RouteOf(routes, req) = IF I # {} THEN Min(I) ELSE 0
  BY DEF RouteOf, SelectInSeq
<1> HIDE DEF routes, Answers
<1>5. index \in I
  BY <1>2, <1>3
<1>6. \A i \in I : index <= i
  BY <1>2, <1>3
<1> HIDE DEF I
<1>7. \A i \in I : i \in Nat
  BY <1>2 DEF I
<1>8. Min(I) = index
  BY <1>5, <1>6, <1>7 DEF Min
<1> QED BY <1>4, <1>5, <1>8 DEF routes

(* The request of a call is answered by the arm of its own operation, and not by the document.     *)
LEMMA RouteIsItsOwn ==
  ASSUME service \in Services, Accepted(service), called \in DOMAIN service.operations,
         Segmented(Shape(Op).path), Filled(Op, client, args), ~Shadowed(called)
  PROVE  LET req == RequestOf(Op, client, args)
         IN  /\ RouteOf(Routes(service.operations), req) = called
             /\ ~(req.method = "GET" /\ req.path = service.document)
<1> DEFINE operations == service.operations
           req == RequestOf(Op, client, args)
           written == PathOf(Op, client, MessageOf(Op, args))
<1>1. /\ Len(operations) \in Nat /\ DOMAIN operations = 1..Len(operations)
      /\ \A i \in DOMAIN operations : Shape(operations[i]).path \in Templates
  BY ServicesAreSequences
<1>2. req.method = Shape(Op).method /\ req.path = written
  BY DEF RequestOf
<1>3. PICK s : LaidOut(written, Shape(Op).path, s)
  BY <1>1, PathIsLaidOut DEF Op
<1> HIDE DEF req
<1>4. MatchPath(Shape(Op).path, written) # NoMatch
  BY <1>1, <1>3, ReadByItsOwn DEF Op
<1>5. ASSUME NEW i \in 1..called, i # called,
             Shape(operations[i]).method = Shape(Op).method,
             MatchPath(Shape(operations[i]).path, written) # NoMatch
      PROVE  FALSE
  <2>1. i \in 1..(called - 1) /\ i \in DOMAIN operations
    BY <1>1, <1>5
  <2>2. Shape(operations[i]).path \in Templates /\ Shape(Op).path \in Templates
    BY <1>1, <2>1 DEF Op
  <2>3. CASE ~operations[i].bound /\ ~Op.bound
    <3>1. operations[i].wire # Op.wire
      BY <2>1, <1>5 DEF Accepted, NamesAreDistinct, Op
    <3> HIDE DEF operations
    <3> QED BY <2>2, <2>3, <3>1, <1>5, DefaultRoutesDiffer
  <2>4. CASE operations[i].bound \/ Op.bound
    <3>1. Overlap(Shape(operations[i]), Shape(Op))
      <4> SUFFICES ASSUME Segmented(Shape(operations[i]).path)
                   PROVE  /\ Len(Shape(operations[i]).path) = Len(Shape(Op).path)
                          /\ \A k \in DOMAIN Shape(operations[i]).path :
                               Meets(Shape(operations[i]).path[k], Shape(Op).path[k])
        BY <1>5 DEF Overlap, Meets
      <4> HIDE DEF operations, written
      <4>1. /\ Len(Shape(operations[i]).path) = Len(Shape(Op).path)
            /\ \A k \in 1..Len(Shape(Op).path) : Meets(Shape(operations[i]).path[k], Shape(Op).path[k])
        BY <1>3, <1>5, <2>2, ReadByAnother
      <4>2. DOMAIN Shape(operations[i]).path = 1..Len(Shape(operations[i]).path)
        BY <2>2 DEF Templates
      <4> QED BY <4>1, <4>2
    <3> QED BY <2>1, <2>4, <3>1 DEF Shadowed, Op
  <2> QED BY <2>3, <2>4
<1>6. ASSUME NEW i \in 1..called
      PROVE  (Shape(operations[i]).method = req.method /\ MatchPath(Shape(operations[i]).path, req.path) # NoMatch)
               <=> i = called
  <2>1. CASE i = called
    BY <2>1, <1>2, <1>4 DEF Op
  <2>2. CASE i # called
    BY <2>2, <1>2, <1>5
  <2> QED BY <2>1, <2>2
<1>7. RouteOf(Routes(operations), req) = called
  <2> HIDE DEF operations
  <2> QED BY <1>1, <1>6, FirstRoute DEF operations
<1>8. ~(req.method = "GET" /\ req.path = service.document)
  BY <1>2, <1>4 DEF Accepted, DocumentIsAlone, Op
<1> QED BY <1>7, <1>8 DEF req

----------------------------------------------------------------------------
(* The exchange keeps to the route its request was given.                   *)

(* What ran, and whether the document was served, was settled by the request as it was written.    *)
Routed ==
  /\ service \in Services /\ Accepted(service) /\ called \in DOMAIN service.operations
  /\ phase = "sent" => request = RequestOf(Op, client, args)
  /\ ran # Nothing => ran.op = RouteOf(Routes(service.operations), RequestOf(Op, client, args))
  /\ response # Nothing /\ response.body.is = "document" =>
       /\ RequestOf(Op, client, args).method = "GET"
       /\ RequestOf(Op, client, args).path = service.document

(* No implementation answers with the OpenAPI document.                                        *)
LEMMA AnswersAreNoDocuments ==
  ASSUME NEW lang, NEW op, NEW answered
  PROVE  ResponseTo(lang, op, answered).body.is # "document"
<1>1. \A kind : FaultResponse(kind).body.is # "document"
  BY DEF FaultResponse, Fault
<1>2. ASSUME NEW status, NEW headers, NEW body, body.is # "document"
      PROVE  Checked(status, headers, body).body.is # "document"
  <2>1. CASE LegalHeaders(headers)
    BY <2>1, <1>2 DEF Checked
  <2>2. CASE ~LegalHeaders(headers)
    BY <2>2, <1>1 DEF Checked
  <2> QED BY <2>1, <2>2
<1>3. /\ Nothing.is # "document" /\ AnswerBody(op).is # "document"
      /\ ErrorBody(op, answered.variant).is # "document"
  BY DEF Nothing, AnswerBody, ErrorBody
<1>4. CASE answered.is = "panic"
  BY <1>4, <1>1 DEF ResponseTo
<1>5. CASE answered.is = "declared"
  BY <1>5, <1>2, <1>3 DEF ResponseTo
<1>6. CASE answered.is \notin {"panic", "declared"}
  BY <1>6, <1>2, <1>3 DEF ResponseTo
<1> QED BY <1>4, <1>5, <1>6

(* Nothing has been routed at first.                                                           *)
LEMMA RoutedAtFirst == Init => Routed
BY DEF Init, Routed, Nothing

(* No action leaves Routed.                                                                    *)
LEMMA RoutedIsKept ==
  ASSUME Routed, [Next]_vars PROVE Routed'
<1> DEFINE req == RequestOf(Op, client, args)
           route == RouteOf(Routes(service.operations), req)
           Settled == /\ phase = "sent" => request = req
                      /\ ran # Nothing => ran.op = route
                      /\ response # Nothing /\ response.body.is = "document" =>
                           req.method = "GET" /\ req.path = service.document
<1>0. Settled
  BY DEF Routed
<1>1. ASSUME UNCHANGED call,
             phase' = "sent" => request' = req,
             ran' # Nothing => ran'.op = route,
             response' # Nothing /\ response'.body.is = "document" => req.method = "GET" /\ req.path = service.document
      PROVE  Routed'
  <2>1. service' = service /\ client' = client /\ called' = called /\ args' = args
    BY <1>1 DEF call
  <2>2. Op' = Op
    BY <2>1 DEF Op
  <2>3. req' = req
    BY <2>1, <2>2
  <2>4. route' = route
    BY <2>1, <2>3
  <2>5. service' \in Services /\ Accepted(service') /\ called' \in DOMAIN service'.operations
    BY <2>1 DEF Routed
  <2> HIDE DEF req, route
  <2>6. Settled'
    BY <1>1, <2>1, <2>3, <2>4
  <2> QED BY <2>5, <2>6 DEF Routed, req, route
<1> HIDE DEF Settled
<1>2. CASE Call
  <2>1. UNCHANGED <<call, ran, response>> /\ (phase' = "sent" => request' = req)
    BY <1>2 DEF Call
  <2> HIDE DEF req, route
  <2> QED BY <2>1, <1>0, <1>1 DEF Settled
<1>3. CASE Dispatch
  <2> DEFINE reads(arm) == ArgumentsRead(server, service.operations[arm], request,
                                         MatchPath(Shape(service.operations[arm]).path, request.path).captured)
  <2>1. request = req /\ UNCHANGED call
    BY <1>3 DEF Dispatch, Routed
  <2>2. \A kind : FaultResponse(kind).body.is # "document"
    BY DEF FaultResponse, Fault
  <2>3. CASE req.method = "GET" /\ req.path = service.document
    <3>1. ran' = ran /\ phase' = "answered"
      BY <1>3, <2>1, <2>3 DEF Dispatch, Answer
    <3> HIDE DEF req, route
    <3> QED BY <3>1, <2>1, <2>3, <1>0, <1>1 DEF Settled
  <2>4. CASE ~(req.method = "GET" /\ req.path = service.document)
    <3>1. \/ ran' = ran /\ phase' = "answered" /\ \E kind : response' = FaultResponse(kind)
          \/ ran' = [is |-> "call", op |-> route, args |-> reads(route).of] /\ phase' = "handling" /\ response' = response
      BY <1>3, <2>1, <2>4 DEF Dispatch, Answer
    <3>2. ran' # Nothing => ran'.op = route
      BY <3>1, <1>0 DEF Settled
    <3>3. response' # Nothing /\ response'.body.is = "document" => req.method = "GET" /\ req.path = service.document
      BY <3>1, <2>2, <1>0 DEF Settled
    <3>4. phase' # "sent"
      BY <3>1
    <3> HIDE DEF req, route
    <3> QED BY <3>2, <3>3, <3>4, <2>1, <1>1
  <2> QED BY <2>3, <2>4
<1>4. CASE Handle
  <2>1. PICK answered \in Results(service.operations[ran.op]) :
          response' = ResponseTo(server, service.operations[ran.op], answered)
    BY <1>4 DEF Handle, Answer
  <2>2. response'.body.is # "document"
    BY <2>1, AnswersAreNoDocuments
  <2>3. UNCHANGED <<call, request, ran>> /\ phase' = "answered"
    BY <1>4 DEF Handle, Answer
  <2> HIDE DEF req, route
  <2> QED BY <2>2, <2>3, <1>0, <1>1 DEF Settled
<1>5. CASE Lose \/ TransportFails \/ Read \/ UNCHANGED vars
  <2>1. UNCHANGED <<call, request, ran, response>> /\ (phase' = "sent" => phase = "sent")
    BY <1>5 DEF Lose, TransportFails, Read, vars, call
  <2> HIDE DEF req, route
  <2> QED BY <2>1, <1>0, <1>1 DEF Settled
<1> QED BY <1>2, <1>3, <1>4, <1>5 DEF Next

(* The implementation that runs is the called operation's, and the document is never its answer,    *)
(* whatever the other routes of the service and whatever the texts in the arguments: slashes         *)
(* included, as long as each placeholder is written with something and no route above meets it.     *)
THEOREM RequestsFindTheirHandler == Spec => []RightHandler
<1>1. Routed => RightHandler
  BY RouteIsItsOwn DEF Routed, RightHandler
<1>2. Routed /\ [Next]_vars => Routed'
  BY RoutedIsKept
<1> QED BY <1>1, <1>2, RoutedAtFirst, PTL DEF Spec

----------------------------------------------------------------------------
(* What a server captures of a path is what was written there.              *)

(* What is joined of texts holds their atoms and commas.                                       *)
LEMMA JoinKeepsTo ==
  ASSUME NEW A \in SUBSET Atoms, Comma \in A, NEW texts \in Seq(Seq(A))
  PROVE  Join(texts) \in Seq(A)
<1> DEFINE N == Len(texts)
           joined == JoinedOf(texts)
           S == {n \in Nat : n <= N => joined[n] \in Seq(A)}
<1>1. N \in Nat /\ \A n \in 1..N : texts[n] \in Seq(A)
  OBVIOUS
<1>2. texts \in Seq(Strings)
  <2>1. \A n \in 1..N : texts[n] \in Strings
    <3> TAKE n \in 1..N
    <3>1. texts[n] \in [1..Len(texts[n]) -> A] /\ Len(texts[n]) \in Nat
      BY <1>1
    <3>2. texts[n] \in [1..Len(texts[n]) -> Atoms]
      BY <3>1
    <3> QED BY <3>1, <3>2 DEF Strings
  <2> DEFINE V == Strings
  <2>2. texts \in [1..N -> V] /\ N \in Nat /\ N = Len(texts)
    BY <2>1
  <2> HIDE DEF V, N
  <2>3. texts \in Seq(V)
    BY <2>2
  <2> QED BY <2>3 DEF V
<1>3. /\ joined[0] = <<>>
      /\ \A n \in 1..N : joined[n] = IF n = 1 THEN texts[1] ELSE joined[n - 1] \o <<Comma>> \o texts[n]
  BY <1>2, JoinedIsDefined
<1> HIDE DEF joined, N
<1>4. 0 \in S
  <2>1. <<>> \in Seq(A)
    OBVIOUS
  <2> QED BY <2>1, <1>3
<1>5. ASSUME NEW n \in Nat, n \in S PROVE n + 1 \in S
  <2> SUFFICES ASSUME n + 1 <= N PROVE joined[n + 1] \in Seq(A)
    OBVIOUS
  <2>1. n + 1 \in 1..N /\ (n + 1) - 1 = n /\ joined[n] \in Seq(A) /\ texts[n + 1] \in Seq(A)
    BY <1>1, <1>5
  <2>2. CASE n = 0
    <3>1. joined[n + 1] = texts[n + 1]
      BY <2>1, <2>2, <1>3
    <3> QED BY <2>1, <3>1
  <2>3. CASE n # 0
    <3> DEFINE comma == <<Comma>>
    <3>1. comma \in Seq(A)
      OBVIOUS
    <3>2. joined[n + 1] = joined[n] \o comma \o texts[n + 1]
      <4>1. n + 1 # 1
        BY <2>3
      <4> QED BY <2>1, <4>1, <1>3
    <3> HIDE DEF comma
    <3> QED BY <2>1, <3>1, <3>2
  <2> QED BY <2>2, <2>3
<1> HIDE DEF S
<1>6. Nat \subseteq S
  BY <1>4, <1>5, Induct
<1> QED BY <1>6, <1>1 DEF S, Join, joined, N

(* The atoms a caller's text may hold: any but the escapes of others.        *)
Codes == {e[2] : e \in Escapes}
Plain == Atoms \ Codes
Texted(text) == text \in Seq(Plain)

(* The comma and the slash and the blank are no escapes, and no two share one. *)
LEMMA EscapesAreApart ==
  /\ \A e, f \in Escapes : e[1] = f[1] => e = f
  /\ \A e, f \in Escapes : e[2] = f[2] => e = f
  /\ Comma \notin Codes
<1> DEFINE one == <<"/", "%2F">>
           two == <<Comma, "%2C">>
           three == <<" ", "%20">>
<1>1. Escapes = {one, two, three}
  BY DEF Escapes
<1>2. /\ one[1] = "/" /\ one[2] = "%2F" /\ two[1] = Comma /\ two[2] = "%2C" /\ three[1] = " " /\ three[2] = "%20"
  OBVIOUS
<1> HIDE DEF one, two, three
<1>3. Comma # "/" /\ Comma # " " /\ Comma # "%2F" /\ Comma # "%2C" /\ Comma # "%20"
  BY Zenon DEF Comma
<1>4. "/" # " " /\ "%2F" # "%2C" /\ "%2F" # "%20" /\ "%2C" # "%20"
  OBVIOUS
<1> QED BY <1>1, <1>2, <1>3, <1>4 DEF Codes

(* What was written as escapes is read as it was before.                                       *)
(* A text whose atoms are no escapes comes back from percent-encoding as it was.                *)
LEMMA UndoesEscapes ==
  ASSUME NEW text, Texted(text)
  PROVE  PercentDecoded(PercentEncoded(text)) = text
<1> DEFINE code(a) == IF \E e \in Escapes : e[1] = a THEN (CHOOSE e \in Escapes : e[1] = a)[2] ELSE a
           plain(a) == IF \E e \in Escapes : e[2] = a THEN (CHOOSE e \in Escapes : e[2] = a)[1] ELSE a
           encoded == PercentEncoded(text)
<1>1. text \in Seq(Plain) /\ Len(text) \in Nat /\ text = [i \in 1..Len(text) |-> text[i]]
  BY DEF Texted
<1>2. encoded = [i \in 1..Len(text) |-> code(text[i])]
  BY DEF PercentEncoded
<1>3. ASSUME NEW a \in Plain PROVE plain(code(a)) = a
  <2>1. \A e \in Escapes : e[2] # a
    BY <1>3 DEF Plain, Codes
  <2>2. CASE \E e \in Escapes : e[1] = a
    <3>1. PICK e \in Escapes : e[1] = a /\ code(a) = e[2]
      BY <2>2
    <3>2. plain(e[2]) = e[1]
      BY EscapesAreApart
    <3> QED BY <3>1, <3>2
  <2>3. CASE ~ \E e \in Escapes : e[1] = a
    <3>1. code(a) = a
      BY <2>3
    <3>2. plain(a) = a
      BY <2>1
    <3> QED BY <3>1, <3>2
  <2> QED BY <2>2, <2>3
<1>4. PercentDecoded(encoded) = [i \in DOMAIN encoded |-> plain(encoded[i])]
  BY DEF PercentDecoded
<1> HIDE DEF code, plain, encoded
<1>5. DOMAIN encoded = 1..Len(text) /\ \A i \in 1..Len(text) : encoded[i] = code(text[i]) /\ text[i] \in Plain
  BY <1>1, <1>2
<1>6. PercentDecoded(encoded) = [i \in 1..Len(text) |-> text[i]]
  BY <1>3, <1>4, <1>5
<1> QED BY <1>1, <1>6 DEF encoded

(* What a placeholder takes of the path is added to what those before it took.                   *)
LEMMA TokenIsTaken ==
  ASSUME NEW template \in Templates, NEW written, NEW n \in 1..Len(template),
         TokensRead(template, written)[n] # NoMatch
  PROVE  LET before == TokensRead(template, written)[n - 1]
             after == TokensRead(template, written)[n]
             end == EndOf(written, before.at)
         IN  after.captured =
               IF template[n].is = "literal" THEN before.captured
               ELSE Append(before.captured, PercentDecoded(SubSeq(written, before.at + 1, end)))
<1> DEFINE before == TokensRead(template, written)[n - 1]
           after == TokensRead(template, written)[n]
           token == template[n]
<1>1. Len(template) \in Nat
  BY DEF Templates
<1>2. after = MatchToken(written, before, token)
  BY <1>1, ReadIsDefined
<1>3. \A captured, at : Match(captured, at).captured = captured
  BY DEF Match
<1> HIDE DEF before, after, token
<1>4. MatchToken(written, before, token) =
        IF before = NoMatch \/ before.at = Len(written) THEN NoMatch
        ELSE IF token.is = "literal"
        THEN IF written[before.at + 1] = token.of THEN Match(before.captured, before.at + 1) ELSE NoMatch
        ELSE IF EndOf(written, before.at) = before.at THEN NoMatch
        ELSE Match(Append(before.captured, PercentDecoded(SubSeq(written, before.at + 1, EndOf(written, before.at)))),
                   EndOf(written, before.at))
  BY DEF MatchToken, EndOf
<1>5. after # NoMatch
  BY DEF after
<1>6. CASE token.is = "literal"
  BY <1>6, <1>2, <1>3, <1>4, <1>5 DEF before, after, token
<1>7. CASE token.is # "literal"
  BY <1>7, <1>2, <1>3, <1>4, <1>5 DEF before, after, token
<1> QED BY <1>6, <1>7

(* The placeholders of a template, and where each of them stands.                              *)
Holes(path) == {token \in ToSet(path) : token.is = "placeholder"}

(* What is captured are, in the order of the placeholders, the texts that were written for them.   *)
InTurn(captured, kept, path, text) ==
  /\ captured \in Seq({text[n] : n \in 1..Len(path)}) /\ Len(captured) = Len(kept)
  /\ \A i \in 1..Len(kept) :
       \E n \in 1..Len(path) : path[n].is # "literal" /\ kept[i] = path[n] /\ captured[i] = text[n]

(* Of a path that is laid out as its template, what is captured are the texts that were         *)
(* written, in turn.                                                                            *)
LEMMA TakenInTurn ==
  ASSUME NEW path \in Templates, Segmented(path), NEW written, NEW s, LaidOut(written, path, s), NEW text,
         \A n \in 1..Len(path) :
           path[n].is # "literal" => PercentDecoded(SubSeq(written, s[n - 1] + 1, s[n])) = text[n]
  PROVE  InTurn(MatchPath(path, written).captured, Only(path, Holes(path)), path, text)
<1> DEFINE N == Len(path)
           read == TokensRead(path, written)
           kept == KeptOf(path, Holes(path))
           V == {text[n] : n \in 1..N}
           Tokens == [is : {"literal", "placeholder"}, of : STRING]
           S == {n \in Nat : n <= N => kept[n] \in Seq(Tokens) /\ InTurn(read[n].captured, kept[n], path, text)}
<1>1. path \in Seq(Tokens) /\ N \in Nat
  BY DEF Templates
<1>2. /\ kept[0] = <<>>
      /\ \A n \in 1..N : kept[n] = IF path[n] \in Holes(path) THEN Append(kept[n - 1], path[n]) ELSE kept[n - 1]
  <2> HIDE DEF Tokens
  <2> QED BY <1>1, KeptIsDefined
<1>3. \A n \in 1..N : path[n] \in Tokens /\ (path[n] \in Holes(path) <=> path[n].is # "literal")
  <2> TAKE n \in 1..N
  <2>1. path[n] \in Tokens /\ n \in DOMAIN path
    <3> HIDE DEF Tokens
    <3> QED BY <1>1
  <2>2. path[n] \in ToSet(path)
    BY <2>1 DEF ToSet
  <2>3. path[n].is \in {"literal", "placeholder"}
    BY <2>1
  <2> QED BY <2>1, <2>2, <2>3 DEF Holes
<1>4. /\ MatchPath(path, written) # NoMatch
      /\ \A n \in 0..N : read[n] # NoMatch /\ read[n].at = s[n]
  BY ReadByItsOwn
<1>5. read[0] = Match(<<>>, 0)
  BY <1>1, ReadIsDefined
<1>6. MatchPath(path, written) = read[N]
  BY <1>4 DEF MatchPath
<1>7. ASSUME NEW n \in 1..N
      PROVE  read[n].captured = IF path[n].is = "literal" THEN read[n - 1].captured
                                ELSE Append(read[n - 1].captured, text[n])
  <2>1. read[n] # NoMatch /\ read[n - 1].at = s[n - 1]
    BY <1>1, <1>4
  <2>2. path[n].is # "literal" => EndOf(written, s[n - 1]) = s[n]
    <3> SUFFICES ASSUME path[n].is # "literal" PROVE EndOf(written, s[n - 1]) = s[n]
      OBVIOUS
    <3>1. path[n] # Literal("/") /\ n \in DOMAIN path
      BY TokenOfTemplate
    <3>2. n % 2 # 1
      BY <3>1 DEF Segmented
    <3> QED BY <3>2, EndOfSegment
  <2>3. read[n].captured =
          IF path[n].is = "literal" THEN read[n - 1].captured
          ELSE Append(read[n - 1].captured,
                      PercentDecoded(SubSeq(written, read[n - 1].at + 1, EndOf(written, read[n - 1].at))))
    BY <2>1, TokenIsTaken
  <2> HIDE DEF read
  <2> QED BY <2>1, <2>2, <2>3
<1> HIDE DEF read, kept, N, Tokens
<1>8. 0 \in S
  <2>1. read[0].captured = <<>>
    BY <1>5 DEF Match
  <2>2. (\A X : <<>> \in Seq(X)) /\ Len(<<>>) = 0
    OBVIOUS
  <2>3. InTurn(<<>>, <<>>, path, text)
    BY <2>2 DEF InTurn
  <2>4. kept[0] \in Seq(Tokens)
    BY <2>2, <1>2
  <2> QED BY <2>1, <2>3, <2>4, <1>2
<1>9. ASSUME NEW m \in Nat, m \in S PROVE m + 1 \in S
  <2> SUFFICES ASSUME m + 1 <= N
               PROVE  kept[m + 1] \in Seq(Tokens) /\ InTurn(read[m + 1].captured, kept[m + 1], path, text)
    OBVIOUS
  <2> DEFINE n == m + 1
  <2>1. n \in 1..N /\ n - 1 = m
    BY <1>1
  <2>2. kept[m] \in Seq(Tokens) /\ InTurn(read[m].captured, kept[m], path, text)
    BY <1>9, <1>1
  <2> HIDE DEF n
  <2>3. CASE path[n].is = "literal"
    <3>1. kept[n] = kept[m] /\ read[n].captured = read[m].captured
      BY <2>1, <2>3, <1>2, <1>3, <1>7
    <3> QED BY <3>1, <2>2 DEF n
  <2>4. CASE path[n].is # "literal"
    <3> DEFINE before == read[m].captured
               after == read[n].captured
               l == Len(kept[m])
    <3>1. kept[n] = Append(kept[m], path[n]) /\ after = Append(before, text[n])
      BY <2>1, <2>4, <1>2, <1>3, <1>7
    <3>2. /\ before \in Seq(V) /\ Len(before) = l
          /\ \A i \in 1..l : \E k \in 1..N : path[k].is # "literal" /\ kept[m][i] = path[k] /\ before[i] = text[k]
      BY <2>2 DEF InTurn, N
    <3> HIDE DEF before, after
    <3>3. text[n] \in V /\ path[n] \in Tokens /\ l \in Nat
      BY <2>1, <2>2, <1>3
    <3> HIDE DEF V
    <3>4. /\ kept[n] \in Seq(Tokens) /\ Len(kept[n]) = l + 1 /\ kept[n][l + 1] = path[n]
          /\ \A i \in 1..l : kept[n][i] = kept[m][i]
      BY <3>1, <3>3, <2>2
    <3> HIDE DEF l
    <3>5. /\ after \in Seq(V) /\ Len(after) = l + 1 /\ after[l + 1] = text[n]
          /\ \A i \in 1..l : after[i] = before[i]
      BY <3>1, <3>2, <3>3
    <3>6. ASSUME NEW i \in 1..l + 1
          PROVE  \E k \in 1..N : path[k].is # "literal" /\ kept[n][i] = path[k] /\ after[i] = text[k]
      <4>1. CASE i = l + 1
        BY <4>1, <3>4, <3>5, <2>1, <2>4
      <4>2. CASE i # l + 1
        <5>1. i \in 1..l
          BY <4>2, <3>3
        <5>2. PICK k \in 1..N : path[k].is # "literal" /\ kept[m][i] = path[k] /\ before[i] = text[k]
          BY <5>1, <3>2
        <5> QED BY <5>1, <5>2, <3>4, <3>5
      <4> QED BY <4>1, <4>2
    <3> QED BY <3>4, <3>5, <3>6 DEF InTurn, after, V, n, N
  <2> QED BY <2>3, <2>4
<1> HIDE DEF S
<1>10. Nat \subseteq S
  BY <1>8, <1>9, Induct
<1>11. InTurn(read[N].captured, kept[N], path, text)
  BY <1>10, <1>1 DEF S
<1> QED BY <1>6, <1>11 DEF Only, kept, N

(* The text of a placeholder, before it is escaped.                         *)
HoleText(op, lang, message, name) == SegmentText(Clients[lang], PlaceholderValue(op, message, name))

(* A function over 1..n is a sequence.                                      *)
LEMMA Sequence ==
  ASSUME NEW V, NEW n \in Nat, NEW f \in [1..n -> V]
  PROVE  f \in Seq(V)
OBVIOUS

(* Where the atoms of a piece of a sequence lie.                             *)
LEMMA PieceOfSequence ==
  ASSUME NEW V, NEW s \in Seq(V), NEW a \in Nat, NEW b \in Nat, a < b, b <= Len(s)
  PROVE  /\ SubSeq(s, a + 1, b) \in Seq(V) /\ Len(SubSeq(s, a + 1, b)) = b - a
         /\ \A k \in 1..b - a : SubSeq(s, a + 1, b)[k] = s[a + k]
<1>1. Len(s) \in Nat
  OBVIOUS
<1>2. \A i \in a + 1..b : s[i] \in V
  BY <1>1
<1>3. Len(SubSeq(s, a + 1, b)) = b - a
  BY <1>1
<1>4. SubSeq(s, a + 1, b) \in Seq(V)
  BY <1>2
<1>5. \A k \in 1..b - a : SubSeq(s, a + 1, b)[k] = s[a + k]
  BY <1>1
<1> QED BY <1>3, <1>4, <1>5

(* A piece of a path that was written as a text is that text.                                  *)
Stands(written, a, b, text) ==
  /\ a \in Nat /\ b \in Nat /\ a < b /\ b <= Len(written) /\ Len(written) \in Nat
  /\ written = [k \in 1..Len(written) |-> written[k]] /\ text = [k \in 1..b - a |-> text[k]]
  /\ \A k \in a + 1..b : written[k] = text[k - a]

(* Cutting the piece out gives the text.                                                        *)
LEMMA PieceOfPath ==
  ASSUME NEW written, NEW a, NEW b, NEW text, Stands(written, a, b, text)
  PROVE  SubSeq(written, a + 1, b) = text
<1> DEFINE L == Len(written)
           V == {written[k] : k \in 1..L}
           piece == SubSeq(written, a + 1, b)
<1>0. /\ a \in Nat /\ b \in Nat /\ a < b /\ b <= L /\ L \in Nat
      /\ written = [k \in 1..L |-> written[k]] /\ text = [k \in 1..b - a |-> text[k]]
      /\ \A k \in a + 1..b : written[k] = text[k - a]
  BY DEF Stands
<1> HIDE DEF L
<1>1. written \in Seq(V)
  <2>1. written \in [1..L -> V]
    BY <1>0
  <2> HIDE DEF V
  <2> QED BY <2>1, <1>0, Sequence
<1> HIDE DEF V
<1>2. piece \in Seq(V) /\ Len(piece) = b - a /\ \A k \in 1..b - a : piece[k] = written[a + k]
  BY <1>0, <1>1, PieceOfSequence DEF L
<1>3. \A k \in 1..b - a : a + k \in a + 1..b /\ (a + k) - a = k
  BY <1>0
<1> HIDE DEF piece
<1>4. \A k \in 1..b - a : piece[k] = text[k]
  BY <1>0, <1>2, <1>3
<1>5. piece = [k \in 1..b - a |-> piece[k]]
  BY <1>2
<1>6. [k \in 1..b - a |-> piece[k]] = [k \in 1..b - a |-> text[k]]
  BY <1>4
<1> QED BY <1>0, <1>5, <1>6 DEF piece

(* What is captured, for each placeholder, is the text that was written for it.                  *)
Caught(op, lang, message, captured) ==
  LET names == PlaceholderNames(Shape(op).path)
  IN  /\ Len(names) \in Nat /\ DOMAIN names = 1..Len(names)
      /\ \A i \in 1..Len(names) : captured[i] = HoleText(op, lang, message, names[i])

(* A request is read by its own template to the texts its placeholders were written from.       *)
LEMMA CapturedAsWritten ==
  ASSUME NEW op, Shape(op).path \in Templates, Segmented(Shape(op).path), NEW lang, NEW given,
         Filled(op, lang, given),
         \A n \in 1..Len(Shape(op).path) :
           Shape(op).path[n].is # "literal" => Texted(HoleText(op, lang, MessageOf(op, given), Shape(op).path[n].of))
  PROVE  Caught(op, lang, MessageOf(op, given),
                MatchPath(Shape(op).path, PathOf(op, lang, MessageOf(op, given))).captured)
<1> DEFINE path == Shape(op).path
           message == MessageOf(op, given)
           written == PathOf(op, lang, message)
           N == Len(path)
           T(n) == HoleText(op, lang, message, path[n].of)
           text == [n \in 1..N |-> T(n)]
           kept == Only(path, Holes(path))
           captured == MatchPath(path, written).captured
           names == PlaceholderNames(path)
<1>1. PICK s : LaidOut(written, path, s) /\ Spelled(written, s, TextsOf(op, lang, message))
  BY PathIsLaidOut
<1>2. N \in Nat
  BY DEF Templates
<1>3. ASSUME NEW n \in 1..N, path[n].is # "literal"
      PROVE  PercentDecoded(SubSeq(written, s[n - 1] + 1, s[n])) = text[n]
  <2> DEFINE encoded == PercentEncoded(T(n))
  <2>1. TextsOf(op, lang, message)[n] = encoded
    BY <1>3 DEF TextsOf, TokenText, HoleText
  <2>2. Texted(T(n)) /\ Len(T(n)) \in Nat
    BY <1>3 DEF Texted
  <2>3. PercentDecoded(encoded) = T(n)
    BY <2>2, UndoesEscapes
  <2>4. Len(encoded) = Len(T(n)) /\ encoded = [k \in 1..Len(T(n)) |-> encoded[k]]
    <3>1. encoded = [k \in 1..Len(T(n)) |-> encoded[k]]
      BY DEF PercentEncoded
    <3> HIDE DEF encoded, T
    <3> QED BY <3>1, <2>2, LengthOfText
  <2>5. n \in DOMAIN TextsOf(op, lang, message)
    BY DEF TextsOf
  <2> HIDE DEF encoded, T, written, message, path
  <2>6. /\ Len(encoded) = s[n] - s[n - 1]
        /\ \A k \in s[n - 1] + 1..s[n] : written[k] = encoded[k - s[n - 1]]
        /\ written = [k \in 1..Len(written) |-> written[k]]
    BY <1>1, <2>1, <2>5 DEF Spelled
  <2>7. s[n] \in Nat /\ s[n - 1] \in Nat /\ s[n - 1] < s[n] /\ s[n] <= Len(written) /\ Len(written) \in Nat
    <3>1. path \in Templates
      BY DEF path
    <3>2. N \in 0..N /\ n \in 0..N /\ n - 1 \in 0..N
      BY <1>2
    <3>3. /\ s[N] \in Nat /\ s[n] \in Nat /\ s[n - 1] \in Nat /\ s[n - 1] < s[n]
          /\ Len(written) = s[N]
      BY <1>1, <3>2 DEF LaidOut
    <3>4. s[n] <= s[N]
      BY <3>1, <3>2, <1>1, LaidOutInOrder
    <3> QED BY <3>3, <3>4
  <2>8. SubSeq(written, s[n - 1] + 1, s[n]) = encoded
    <3>1. Len(T(n)) = s[n] - s[n - 1]
      BY <2>4, <2>6
    <3>2. encoded = [k \in 1..s[n] - s[n - 1] |-> encoded[k]]
      BY <3>1, <2>4
    <3>3. Stands(written, s[n - 1], s[n], encoded)
      BY <3>2, <2>6, <2>7 DEF Stands
    <3> QED BY <3>3, PieceOfPath
  <2> QED BY <2>3, <2>8
<1>4. InTurn(captured, kept, path, text)
  <2> HIDE DEF text, written, path, message
  <2>1. path \in Templates /\ Segmented(path) /\ LaidOut(written, path, s)
    BY <1>1 DEF path
  <2> QED BY <2>1, <1>3, TakenInTurn
<1>5. names = [i \in DOMAIN kept |-> kept[i].of]
  BY DEF PlaceholderNames, Holes
<1>6. Len(kept) \in Nat /\ DOMAIN kept = 1..Len(kept)
  <2> DEFINE Tokens == [is : {"literal", "placeholder"}, of : STRING]
  <2>1. path \in Seq(Tokens)
    BY DEF Templates
  <2> HIDE DEF Tokens, path, kept
  <2>2. Keeps(kept, path, Holes(path))
    BY <2>1, OnlyKeeps DEF kept
  <2> QED BY <2>2 DEF Keeps
<1> HIDE DEF kept, captured, T, path, written, message
<1>7. names = [i \in 1..Len(kept) |-> kept[i].of]
  BY <1>5, <1>6
<1> HIDE DEF names
<1>8. Len(names) = Len(kept) /\ DOMAIN names = 1..Len(kept) /\ \A i \in 1..Len(kept) : names[i] = kept[i].of
  <2>1. names = [i \in 1..Len(kept) |-> names[i]]
    BY <1>7
  <2> QED BY <2>1, <1>6, <1>7, LengthOfText
<1>9. ASSUME NEW i \in 1..Len(kept) PROVE captured[i] = HoleText(op, lang, message, names[i])
  <2>1. PICK n \in 1..N : path[n].is # "literal" /\ kept[i] = path[n] /\ captured[i] = text[n]
    BY <1>4 DEF InTurn
  <2>2. text[n] = HoleText(op, lang, message, path[n].of)
    BY DEF T
  <2> QED BY <2>1, <2>2, <1>8
<1> QED BY <1>6, <1>8, <1>9 DEF Caught, names, captured, path, written, message

----------------------------------------------------------------------------
(* The faults that tell a caller its call did not run.                      *)
Refusals == {Fault("failed_validation"), Fault("unknown_operation")}

(* Where an exchange stands: nothing has run before the dispatcher is left, an outcome is final,  *)
(* and a refusal is only on its way to the client where nothing ran.                             *)
Standing ==
  /\ phase \in {"calling", "sent"} => ran = Nothing
  /\ phase = "calling" => outcome = Nothing
  /\ outcome \in Refusals => ran = Nothing /\ phase = "over"
  /\ phase = "answered" /\ response.body \in Refusals => ran = Nothing

----------------------------------------------------------------------------
(* A fault says what it is by its tag: no success, declared error or absent body is one.          *)
LEMMA RefusalTag ==
  ASSUME NEW r \in Refusals PROVE r.is = "fault"
BY DEF Refusals, Fault

(* Whatever an implementation answers, its response does not carry a refusal: not for an answer, *)
(* not for a panic and not for a header that cannot go out.                                      *)
LEMMA AnswersAreNoRefusals ==
  ASSUME NEW lang, NEW op, NEW answered
  PROVE  ResponseTo(lang, op, answered).body \notin Refusals
<1> DEFINE Panicked == FaultResponse("handler_panic")
<1>1. Panicked.body \notin Refusals
  BY DEF FaultResponse, Fault, Refusals
<1>2. ASSUME NEW status, NEW headers, NEW body, body.is # "fault"
      PROVE  Checked(status, headers, body).body \notin Refusals
  <2>1. CASE LegalHeaders(headers)
    <3>1. Checked(status, headers, body).body = body
      BY <2>1 DEF Checked
    <3> QED BY <3>1, <1>2, RefusalTag
  <2>2. CASE ~LegalHeaders(headers)
    BY <2>2, <1>1 DEF Checked
  <2> QED BY <2>1, <2>2
<1>3. Nothing.is # "fault"
  BY DEF Nothing
<1>4. AnswerBody(op).is # "fault"
  BY <1>3 DEF AnswerBody
<1>5. ErrorBody(op, answered.variant).is # "fault"
  BY DEF ErrorBody
<1>6. CASE answered.is = "panic"
  BY <1>6, <1>1 DEF ResponseTo
<1>7. CASE answered.is = "declared"
  <2>1. ResponseTo(lang, op, answered) =
          Checked(ErrorStatus(op, answered.variant),
                  HeadersPushed(lang, Shape(op).errorHeaderOut, answered.headers),
                  ErrorBody(op, answered.variant))
    BY <1>7 DEF ResponseTo
  <2> QED BY <2>1, <1>2, <1>5
<1>8. CASE answered.is \notin {"panic", "declared"}
  <2>1. CASE op.oneWay /\ answered.is = "ok"
    <3>1. ResponseTo(lang, op, answered) = Checked(Shape(op).ok, <<>>, Nothing)
      BY <1>8, <2>1 DEF ResponseTo
    <3> QED BY <3>1, <1>2, <1>3
  <2>2. CASE ~(op.oneWay /\ answered.is = "ok")
    <3>1. ResponseTo(lang, op, answered) =
            Checked(IF answered.range # <<>> THEN 206 ELSE Shape(op).ok,
                    OkHeaders(lang, op, answered), AnswerBody(op))
      BY <1>8, <2>2 DEF ResponseTo
    <3> QED BY <3>1, <1>2, <1>4
  <2> QED BY <2>1, <2>2
<1> QED BY <1>6, <1>7, <1>8

(* A client reads a refusal only off a response that carries one: its own faults are others.      *)
LEMMA RefusalsAreRead ==
  ASSUME NEW op, NEW reply, OutcomeOf(op, reply) \in Refusals
  PROVE  reply.body \in Refusals
<1>1. Fault("undeserializable_payload") \notin Refusals
  BY DEF Fault, Refusals
<1>2. ASSUME NEW partial PROVE SuccessRead(op, reply, partial) \notin Refusals
  BY <1>1, RefusalTag DEF SuccessRead
<1>3. DeclaredRead(op, reply) \notin Refusals
  BY <1>1, RefusalTag DEF DeclaredRead
<1>4. FaultRead(reply) \in Refusals => reply.body \in Refusals
  BY <1>1 DEF FaultRead
<1>5. OutcomeOf(op, reply) \in {SuccessRead(op, reply, TRUE), SuccessRead(op, reply, FALSE),
                               DeclaredRead(op, reply), FaultRead(reply),
                               Fault("undeserializable_payload")}
  BY DEF OutcomeOf
<1> QED BY <1>1, <1>2, <1>3, <1>4, <1>5

(* No action leaves Standing.                                               *)
LEMMA StandingStep ==
  ASSUME Standing, [Next]_vars PROVE Standing'
<1>1. CASE Call
  BY <1>1 DEF Call, Standing, Fault, Refusals
<1>2. CASE Dispatch
  <2>1. phase = "sent" /\ ran = Nothing /\ outcome \notin Refusals /\ outcome' = outcome
    BY <1>2 DEF Dispatch, Standing
  <2>2. \/ phase' = "answered" /\ ran' = ran
        \/ phase' = "handling"
    BY <1>2 DEF Dispatch, Answer
  <2> QED BY <2>1, <2>2 DEF Standing
<1>3. CASE Handle
  <2>1. phase = "handling" /\ outcome' = outcome /\ phase' = "answered"
    BY <1>3 DEF Handle, Answer
  <2>2. outcome \notin Refusals
    BY <2>1 DEF Standing
  <2>3. PICK answered \in Results(service.operations[ran.op]) :
          response' = ResponseTo(server, service.operations[ran.op], answered)
    BY <1>3 DEF Handle, Answer
  <2>4. response'.body \notin Refusals
    BY <2>3, AnswersAreNoRefusals
  <2> QED BY <2>1, <2>2, <2>4 DEF Standing
<1>4. CASE Lose
  BY <1>4 DEF Lose, Standing
<1>5. CASE TransportFails
  <2>1. outcome' \notin Refusals
    BY <1>5 DEF TransportFails, Fault, Refusals
  <2> QED BY <2>1, <1>5 DEF TransportFails, Standing
<1>6. CASE Read
  <2>1. outcome' \in Refusals => response.body \in Refusals
    BY <1>6, RefusalsAreRead DEF Read
  <2> QED BY <2>1, <1>6 DEF Read, Standing
<1>7. CASE UNCHANGED vars
  BY <1>7 DEF vars, Standing
<1> QED BY <1>1, <1>2, <1>3, <1>4, <1>5, <1>6, <1>7 DEF Next

(* A client told that its call is not valid, or that no route answers it, may call again: the     *)
(* implementation has not run, whatever the service declares and whatever the transport lost.     *)
THEOREM NotRun == Spec => []FaultMeansNotRun
<1>1. Init => Standing
  BY DEF Init, Standing, Nothing, Refusals, Fault
<1>2. Standing => FaultMeansNotRun
  BY DEF Standing, FaultMeansNotRun, Refusals
<1>3. Standing /\ [Next]_vars => Standing'
  BY StandingStep
<1> QED BY <1>1, <1>2, <1>3, PTL DEF Spec

----------------------------------------------------------------------------
(* Both messages of an exchange hold legal headers.                         *)
Judged ==
  /\ request # Nothing => LegalHeaders(request.headers)
  /\ response # Nothing => LegalHeaders(response.headers)

(* What an arm answers has been judged, and a refused answer has no headers. *)
LEMMA AnswersAreJudged ==
  ASSUME NEW lang, NEW op, NEW answered
  PROVE  LegalHeaders(ResponseTo(lang, op, answered).headers)
<1>1. ASSUME NEW kind PROVE LegalHeaders(FaultResponse(kind).headers)
  BY DEF FaultResponse, LegalHeaders
<1>2. ASSUME NEW status, NEW headers, NEW body PROVE LegalHeaders(Checked(status, headers, body).headers)
  <2>1. CASE LegalHeaders(headers)
    <3>1. Checked(status, headers, body).headers = headers
      BY <2>1 DEF Checked
    <3> QED BY <3>1, <2>1
  <2>2. CASE ~LegalHeaders(headers)
    BY <2>2, <1>1 DEF Checked
  <2> QED BY <2>1, <2>2
<1>3. \/ ResponseTo(lang, op, answered) = FaultResponse("handler_panic")
      \/ \E status, headers, body : ResponseTo(lang, op, answered) = Checked(status, headers, body)
  <2>1. CASE answered.is = "panic"
    BY <2>1 DEF ResponseTo
  <2>2. CASE answered.is = "declared"
    BY <2>2 DEF ResponseTo
  <2>3. CASE answered.is \notin {"panic", "declared"} /\ op.oneWay /\ answered.is = "ok"
    BY <2>3 DEF ResponseTo
  <2>4. CASE answered.is \notin {"panic", "declared"} /\ ~(op.oneWay /\ answered.is = "ok")
    BY <2>4 DEF ResponseTo
  <2> QED BY <2>1, <2>2, <2>3, <2>4
<1> QED BY <1>1, <1>2, <1>3

(* No action leaves Judged.                                                 *)
LEMMA JudgedStep ==
  ASSUME Judged, [Next]_vars PROVE Judged'
<1>1. CASE Call
  <2>1. CASE StopsItself(Op, client, args)
    BY <1>1, <2>1 DEF Call, Judged
  <2>2. CASE ~StopsItself(Op, client, args)
    <3>1. request' = RequestOf(Op, client, args) /\ response' = response
      BY <1>1, <2>2 DEF Call
    <3>2. LegalHeaders(HeadersOf(Op, client, args))
      BY <2>2 DEF StopsItself
    <3>3. RequestOf(Op, client, args).headers = HeadersOf(Op, client, args)
      BY DEF RequestOf
    <3> QED BY <3>1, <3>2, <3>3 DEF Judged
  <2> QED BY <2>1, <2>2
<1>2. CASE Dispatch
  <2>1. LegalHeaders(<<>>)
    BY DEF LegalHeaders
  <2>2. request' = request
    BY <1>2 DEF Dispatch
  <2>3. response' = response \/ response'.headers = <<>>
    BY <1>2 DEF Dispatch, Answer, FaultResponse
  <2> QED BY <2>1, <2>2, <2>3 DEF Judged
<1>3. CASE Handle
  BY <1>3, AnswersAreJudged DEF Handle, Answer, Judged
<1>4. CASE Lose \/ TransportFails \/ Read \/ UNCHANGED vars
  BY <1>4 DEF Lose, TransportFails, Read, vars, Judged
<1> QED BY <1>1, <1>2, <1>3, <1>4 DEF Next

(* No header goes out in either direction with a character no header may hold, whatever the       *)
(* caller and the implementation hold.                                                           *)
THEOREM LegalHeadersOnly == Spec => []HeadersAreLegal
<1>1. Init => Judged
  BY DEF Init, Judged
<1>2. Judged => HeadersAreLegal
  BY DEF Judged, HeadersAreLegal, LegalHeaders, LegalHeaderValue, ToSet
<1>3. Judged /\ [Next]_vars => Judged'
  BY JudgedStep
<1> QED BY <1>1, <1>2, <1>3, PTL DEF Spec

----------------------------------------------------------------------------
(* A value that travels as a text is read back as itself.                    *)
LEMMA StringsOfTexts ==
  ASSUME NEW text \in Seq(STRING) PROVE text \in Strings
<1>1. text \in [1..Len(text) -> STRING] /\ Len(text) \in Nat
  OBVIOUS
<1>2. text \in [1..Len(text) -> Atoms]
  BY <1>1 DEF Atoms
<1> QED BY <1>1, <1>2 DEF Strings

(* So is a list whose elements travel.                                                         *)
LEMMA ElementsTravel ==
  ASSUME NEW type, NEW of, NEW n \in Nat, n # 0, of = [i \in 1..n |-> of[i]],
         \A i \in 1..n : /\ Scalar(of[i]) \in Strings /\ Comma \notin ToSet(Scalar(of[i]))
                         /\ Coerced(type, Scalar(of[i])) = of[i],
         type.list
  PROVE  Decoded(type, JoinedList(of)) = ListValue(of)
<1> DEFINE texts == [i \in 1..n |-> Scalar(of[i])]
<1>1. texts \in Seq(Strings) /\ Len(texts) = n /\ DOMAIN of = 1..n
  OBVIOUS
<1>2. JoinedList(of) = Join(texts)
  BY <1>1 DEF JoinedList
<1>3. \A i \in 1..n : texts[i] = Scalar(of[i])
  OBVIOUS
<1>4. \A i \in 1..Len(texts) : \A k \in 1..Len(texts[i]) : texts[i][k] # Comma
  <2> TAKE i \in 1..Len(texts)
  <2> TAKE k \in 1..Len(texts[i])
  <2>1. texts[i] \in Strings /\ Comma \notin ToSet(texts[i])
    BY <1>1, <1>3
  <2> HIDE DEF texts
  <2>2. k \in DOMAIN texts[i]
    BY <2>1 DEF Strings
  <2> QED BY <2>1, <2>2 DEF ToSet
<1> HIDE DEF texts
<1>5. Split(Join(texts)) = texts
  BY <1>1, <1>4, SplitUndoesJoin
<1>6. [i \in DOMAIN texts |-> Coerced(type, texts[i])] = of
  BY <1>1, <1>3
<1> QED BY <1>2, <1>5, <1>6 DEF Decoded

(* What a placeholder, a query value, a header or a text part carries of a value, where it can     *)
(* travel, its reader reads back as the value.                                                   *)
LEMMA TravelsBack ==
  ASSUME NEW type, type.reads \in {"text", "number"}, NEW rule, NEW absent,
         NEW value \in Values(type), value # Null, TextTravels(rule, type, value)
  PROVE  Decoded(type, Rendered(rule, absent, value)) = value
<1>1. type.holds \in {"text", "number"} /\ type.reads = type.holds
  BY DEF TextTravels
<1>2. ASSUME NEW n \in Numerals PROVE Coerced(type, <<n>>) = IF type.reads = "number" THEN NumberValue(n) ELSE TextValue(<<n>>)
  BY <1>2 DEF Coerced
<1>3. ASSUME type.reads = "text", NEW text PROVE Coerced(type, text) = TextValue(text)
  BY <1>3 DEF Coerced
<1>4. /\ \A text : Scalar(TextValue(text)) = text /\ TextValue(text).is = "string"
      /\ \A n : Scalar(NumberValue(n)) = <<n>> /\ NumberValue(n).is = "number"
      /\ \A of : ListValue(of).is = "list" /\ ListValue(of).of = of
  BY DEF Scalar, TextValue, NumberValue, ListValue
<1>5. CASE type.list
  <2>1. value \in ListValues(type)
    BY <1>1, <1>5 DEF Values
  <2>2. PICK of : value = ListValue(of)
    BY <2>1 DEF ListValues
  <2>3. rule = "joined" /\ of # <<>> /\ \A i \in DOMAIN of : Comma \notin ToSet(Scalar(of[i]))
    BY <2>2, <1>4 DEF TextTravels, ListTravels
  <2>4. Rendered(rule, absent, value) = JoinedList(of)
    BY <2>2, <2>3, <1>4 DEF Rendered
  <2>5. CASE type.holds = "number"
    <3>1. PICK n \in Numerals : of = <<NumberValue(n), NumberValue(n)>>
      <4>1. value = ListValue(<<>>) \/ \E n \in Numerals : value = ListValue(<<NumberValue(n), NumberValue(n)>>)
        BY <2>1, <2>5 DEF ListValues
      <4>2. \A a, b : ListValue(a) = ListValue(b) => a = b
        BY <1>4
      <4>3. value # ListValue(<<>>)
        BY <4>2, <2>2, <2>3
      <4>4. PICK n \in Numerals : value = ListValue(<<NumberValue(n), NumberValue(n)>>)
        BY <4>1, <4>3
      <4> DEFINE pair == <<NumberValue(n), NumberValue(n)>>
      <4>5. of = pair
        <5> HIDE DEF pair
        <5> QED BY <4>2, <4>4, <2>2 DEF pair
      <4> QED BY <4>5
    <3> DEFINE one == NumberValue(n)
    <3>2. /\ of = [i \in 1..2 |-> of[i]] /\ DOMAIN of = 1..2
          /\ \A i \in 1..2 : of[i] = one
      BY <3>1
    <3>3. Scalar(one) = <<n>> /\ <<n>> \in Strings
      <4>1. n \in Atoms
        BY TextsAreSequences DEF Atoms
      <4> QED BY <4>1, <1>4 DEF Strings
    <3>4. Coerced(type, Scalar(one)) = one
      BY <3>3, <1>1, <1>2, <2>5
    <3> HIDE DEF one
    <3>5. Decoded(type, JoinedList(of)) = ListValue(of)
      <4> DEFINE n2 == 2
      <4>1. n2 \in Nat /\ n2 # 0
        OBVIOUS
      <4>2. of = [i \in 1..n2 |-> of[i]] /\ DOMAIN of = 1..n2 /\ \A i \in 1..n2 : of[i] = one
        BY <3>2
      <4> HIDE DEF n2
      <4>3. \A i \in 1..n2 : /\ Scalar(of[i]) \in Strings /\ Comma \notin ToSet(Scalar(of[i]))
                            /\ Coerced(type, Scalar(of[i])) = of[i]
        BY <4>2, <3>3, <3>4, <2>3
      <4> QED BY <4>1, <4>2, <4>3, <1>5, ElementsTravel
    <3> QED BY <3>5, <2>2, <2>4
  <2>6. CASE type.holds # "number"
    <3>1. PICK list \in Lists : of = [i \in DOMAIN list |-> TextValue(list[i])]
      <4>1. \E list \in Lists : value = ListValue([i \in DOMAIN list |-> TextValue(list[i])])
        BY <2>1, <2>6 DEF ListValues
      <4>2. \A a, b : ListValue(a) = ListValue(b) => a = b
        BY <1>4
      <4>3. PICK list \in Lists : value = ListValue([i \in DOMAIN list |-> TextValue(list[i])])
        BY <4>1
      <4> DEFINE texts == [i \in DOMAIN list |-> TextValue(list[i])]
      <4>4. of = texts
        <5> HIDE DEF texts
        <5> QED BY <4>2, <4>3, <2>2 DEF texts
      <4> QED BY <4>4
    <3>2. list \in Seq(Seq(STRING)) /\ DOMAIN list = 1..Len(list) /\ Len(list) \in Nat
      BY TextsAreSequences
    <3>3. /\ of = [i \in 1..Len(list) |-> of[i]] /\ DOMAIN of = 1..Len(list)
          /\ \A i \in 1..Len(list) : of[i] = TextValue(list[i])
      BY <3>1, <3>2
    <3>4. \A i \in 1..Len(list) : Scalar(of[i]) \in Strings /\ Coerced(type, Scalar(of[i])) = of[i]
      <4> TAKE i \in 1..Len(list)
      <4>1. Scalar(of[i]) = list[i] /\ list[i] \in Seq(STRING)
        BY <3>2, <3>3, <1>4
      <4> QED BY <4>1, <3>3, <1>1, <1>3, <2>6, StringsOfTexts
    <3>5. Len(list) # 0
      BY <2>3, <3>2, <3>3
    <3> DEFINE n == Len(list)
    <3> HIDE DEF n
    <3>6. Decoded(type, JoinedList(of)) = ListValue(of)
      <4>1. n \in Nat /\ n # 0 /\ of = [i \in 1..n |-> of[i]] /\ DOMAIN of = 1..n
        BY <3>2, <3>3, <3>5 DEF n
      <4>2. \A i \in 1..n : Scalar(of[i]) \in Strings /\ Coerced(type, Scalar(of[i])) = of[i]
        BY <3>4 DEF n
      <4> QED BY <4>1, <4>2, <2>3, <1>5, ElementsTravel
    <3> QED BY <3>6, <2>2, <2>4
  <2> QED BY <2>5, <2>6
<1>6. CASE ~type.list
  <2>1. value \in ScalarValues(type)
    BY <1>1, <1>6 DEF Values
  <2>2. CASE type.holds = "number"
    <3>1. PICK n \in Numerals : value = NumberValue(n)
      BY <2>1, <2>2 DEF ScalarValues
    <3>2. Rendered(rule, absent, value) = <<n>>
      BY <3>1, <1>4 DEF Rendered
    <3> QED BY <3>1, <3>2, <2>2, <1>1, <1>2, <1>6 DEF Decoded
  <2>3. CASE type.holds = "text"
    <3>1. PICK t \in Texts : value = TextValue(t)
      BY <2>1, <2>3 DEF ScalarValues
    <3>2. Rendered(rule, absent, value) = t
      BY <3>1, <1>4 DEF Rendered
    <3> QED BY <3>1, <3>2, <2>3, <1>1, <1>3, <1>6 DEF Decoded
  <2> QED BY <2>2, <2>3, <1>1
<1> QED BY <1>5, <1>6

(* Whatever a caller or an implementation holds of a type, the type's reader accepts.             *)
LEMMA HeldConforms ==
  ASSUME NEW type, type.holds \in {"text", "number"}, NEW value \in Values(type)
  PROVE  Conforms(type, value)
<1>1. /\ \A text : TextValue(text).is = "string"
      /\ \A n : NumberValue(n).is = "number"
      /\ \A of : ListValue(of).is = "list" /\ ListValue(of).of = of
  BY DEF TextValue, NumberValue, ListValue
<1>2. CASE type.optional /\ value = Null
  BY <1>2 DEF Conforms
<1>3. CASE ~(type.optional /\ value = Null) /\ type.list
  <2>1. value \in ListValues(type)
    BY <1>3 DEF Values
  <2>2. CASE type.holds = "number"
    <3>1. value = ListValue(<<>>) \/ \E n \in Numerals : value = ListValue(<<NumberValue(n), NumberValue(n)>>)
      BY <2>1, <2>2 DEF ListValues
    <3>2. CASE value = ListValue(<<>>)
      BY <3>2, <1>1, <1>3 DEF Conforms
    <3>3. CASE \E n \in Numerals : value = ListValue(<<NumberValue(n), NumberValue(n)>>)
      <4>1. PICK n \in Numerals : value = ListValue(<<NumberValue(n), NumberValue(n)>>)
        BY <3>3
      <4> DEFINE one == NumberValue(n)
                 of == <<one, one>>
      <4>2. \A i \in DOMAIN of : of[i] = one
        OBVIOUS
      <4>3. value.is = "list" /\ value.of = of /\ one.is = "number"
        BY <4>1, <1>1
      <4> HIDE DEF of, one
      <4> QED BY <4>2, <4>3, <1>3, <2>2 DEF Conforms
    <3> QED BY <3>1, <3>2, <3>3
  <2>3. CASE type.holds = "text"
    <3>1. PICK list \in Lists : value = ListValue([i \in DOMAIN list |-> TextValue(list[i])])
      BY <2>1, <2>3 DEF ListValues
    <3> DEFINE of == [i \in DOMAIN list |-> TextValue(list[i])]
    <3>2. \A i \in DOMAIN of : of[i].is = "string"
      BY <1>1
    <3>3. value.is = "list" /\ value.of = of
      BY <3>1, <1>1
    <3> HIDE DEF of
    <3> QED BY <3>2, <3>3, <1>3, <2>3 DEF Conforms
  <2> QED BY <2>2, <2>3
<1>4. CASE ~(type.optional /\ value = Null) /\ ~type.list
  <2>1. value \in ScalarValues(type)
    BY <1>4 DEF Values
  <2> QED BY <2>1, <1>1, <1>4 DEF ScalarValues, Conforms
<1> QED BY <1>2, <1>3, <1>4

----------------------------------------------------------------------------
(* Looking an entry up by its name.                                         *)

Tells(entries, name, of) ==
  /\ \E j \in 1..Len(entries) : entries[j].name = name
  /\ \A j \in 1..Len(entries) : entries[j].name = name => entries[j].of = of

(* What is found under a name is what every entry of that name holds.        *)
LEMMA FindsIt ==
  ASSUME NEW V, NEW entries \in Seq(V), NEW name, NEW of, Tells(entries, name, of)
  PROVE  Find(entries, name, 1) = of
<1>0. /\ \E j \in 1..Len(entries) : entries[j].name = name
      /\ \A j \in 1..Len(entries) : entries[j].name = name => entries[j].of = of
  BY DEF Tells
<1> DEFINE wanted == {entry \in ToSet(entries) : entry.name = name}
           those == Only(entries, wanted)
<1>1. Find(entries, name, 1) = IF 1 <= Len(those) THEN those[1].of ELSE Nothing
  BY DEF Find
<1>2. \A j \in 1..Len(entries) : entries[j] \in ToSet(entries)
  BY DEF ToSet
<1>3. \A entry : entry \in wanted => entry.name = name
  OBVIOUS
<1>4. \A j \in 1..Len(entries) : entries[j].name = name => entries[j] \in wanted
  BY <1>2
<1> HIDE DEF wanted
<1>10. Keeps(those, entries, wanted)
  BY OnlyKeeps
<1> HIDE DEF those
<1>5. /\ \E U : those \in Seq(U)
      /\ \A i \in 1..Len(those) : \E j \in 1..Len(entries) : those[i] = entries[j] /\ entries[j] \in wanted
  BY <1>10 DEF Keeps
<1>6. \A j \in 1..Len(entries) : entries[j] \in wanted => \E i \in 1..Len(those) : those[i] = entries[j]
  BY <1>10 DEF Keeps
<1>7. 1 \in 1..Len(those)
  <2>1. PICK i \in 1..Len(those) : TRUE
    BY <1>0, <1>4, <1>6
  <2>2. Len(those) \in Nat
    BY <1>5
  <2> QED BY <2>1, <2>2
<1>8. PICK j \in 1..Len(entries) : those[1] = entries[j] /\ entries[j] \in wanted
  BY <1>5, <1>7
<1>9. those[1].of = of
  BY <1>0, <1>3, <1>8
<1> QED BY <1>1, <1>5, <1>7, <1>9

(* Nothing is found under a name no entry has.                              *)
LEMMA FindsNothing ==
  ASSUME NEW V, NEW entries \in Seq(V), NEW name,
         \A j \in 1..Len(entries) : entries[j].name # name
  PROVE  Find(entries, name, 1) = Nothing
<1> DEFINE wanted == {entry \in ToSet(entries) : entry.name = name}
           those == Only(entries, wanted)
<1>1. Find(entries, name, 1) = IF 1 <= Len(those) THEN those[1].of ELSE Nothing
  BY DEF Find
<1>3. \A entry : entry \in wanted => entry.name = name
  OBVIOUS
<1> HIDE DEF wanted
<1>10. Keeps(those, entries, wanted)
  BY OnlyKeeps
<1> HIDE DEF those
<1>5. /\ \E U : those \in Seq(U)
      /\ \A i \in 1..Len(those) : \E j \in 1..Len(entries) : those[i] = entries[j] /\ entries[j] \in wanted
  BY <1>10 DEF Keeps
<1>7. ~(1 <= Len(those))
  <2> SUFFICES ASSUME 1 <= Len(those) PROVE FALSE
    OBVIOUS
  <2>1. 1 \in 1..Len(those)
    BY <1>5
  <2> QED BY <2>1, <1>3, <1>5
<1> QED BY <1>1, <1>7

----------------------------------------------------------------------------
(* The headers of an answer.                                                *)

RuleOf(lang) == IF lang = "rust" THEN RustClient.segment ELSE TsClient.segment

HeaderAt(lang, names, values, j) == TextEntry(names[j], Rendered(RuleOf(lang), <<>>, values[j]))

Pushes(lang, n, names, values, pushed) ==
  /\ \E H : pushed \in Seq(H)
  /\ \A i \in 1..Len(pushed) :
       \E j \in 1..n : values[j] # Null /\ pushed[i] = HeaderAt(lang, names, values, j)
  /\ \A j \in 1..n :
       values[j] # Null => \E i \in 1..Len(pushed) : pushed[i] = HeaderAt(lang, names, values, j)

(* What goes out is an entry for each element that is held, and nothing else. *)
LEMMA WhatIsPushed ==
  ASSUME NEW names, NEW n \in Nat, names = [i \in 1..n |-> names[i]], NEW values, NEW lang
  PROVE  Pushes(lang, n, names, values, HeadersPushed(lang, names, values))
<1> DEFINE pushed == HeadersPushed(lang, names, values)
           Text(j) == Rendered(RuleOf(lang), <<>>, values[j])
           Header(j) == TextEntry(names[j], Text(j))
           Each(j) == Entry(names[j], IF values[j] = Null THEN Nothing ELSE TextValue(Text(j)))
           all == [j \in 1..n |-> Each(j)]
           wanted == {header \in ToSet(all) : header.of # Nothing}
           V == {Each(j) : j \in 1..n}
<1>1. pushed = Only(all, wanted)
  <2>1. DOMAIN names = 1..n
    OBVIOUS
  <2> QED BY <2>1 DEF HeadersPushed, RuleOf
<1>2. \A text : TextValue(text) # Nothing
  BY DEF TextValue, Nothing
<1>3. \A name, of : Entry(name, of).of = of
  BY DEF Entry
<1>4. \A j \in 1..n : /\ values[j] # Null => Each(j) = Header(j) /\ Each(j).of # Nothing
                      /\ values[j] = Null => Each(j).of = Nothing
  BY <1>2, <1>3 DEF TextEntry
<1> HIDE DEF Text, Header, Each
<1>5. all \in Seq(V) /\ Len(all) = n /\ \A j \in 1..n : all[j] = Each(j)
  OBVIOUS
<1>6. \A j \in 1..n : all[j] \in wanted <=> values[j] # Null
  <2> TAKE j \in 1..n
  <2>1. all[j] \in ToSet(all)
    BY <1>5 DEF ToSet
  <2> QED BY <2>1, <1>4, <1>5
<1> HIDE DEF all, wanted, V
<1>7. Keeps(pushed, all, wanted)
  BY <1>1, <1>5, OnlyKeeps
<1> HIDE DEF pushed
<1>8. /\ \E H : pushed \in Seq(H)
      /\ \A i \in 1..Len(pushed) : \E j \in 1..Len(all) : pushed[i] = all[j] /\ all[j] \in wanted
      /\ \A j \in 1..Len(all) : all[j] \in wanted => \E i \in 1..Len(pushed) : pushed[i] = all[j]
  BY <1>7 DEF Keeps
<1>9. \A i \in 1..Len(pushed) : \E j \in 1..n : values[j] # Null /\ pushed[i] = Header(j)
  <2> TAKE i \in 1..Len(pushed)
  <2>1. PICK j \in 1..Len(all) : pushed[i] = all[j] /\ all[j] \in wanted
    BY <1>8
  <2>2. j \in 1..n
    BY <1>5
  <2>3. values[j] # Null
    BY <2>1, <2>2, <1>6
  <2>4. pushed[i] = Header(j)
    BY <2>1, <2>2, <2>3, <1>4, <1>5
  <2> QED BY <2>2, <2>3, <2>4
<1>10. \A j \in 1..n : values[j] # Null => \E i \in 1..Len(pushed) : pushed[i] = Header(j)
  BY <1>4, <1>5, <1>6, <1>8
<1> QED BY <1>8, <1>9, <1>10 DEF pushed, Header, Text, HeaderAt, Pushes

(* What two lists hold is what one after the other holds.                   *)
Holds(whole, s, t) ==
  /\ \E U : whole \in Seq(U)
  /\ \A k \in 1..Len(whole) : \/ \E i \in 1..Len(s) : whole[k] = s[i]
                             \/ \E j \in 1..Len(t) : whole[k] = t[j]
  /\ \A i \in 1..Len(s) : \E k \in 1..Len(whole) : whole[k] = s[i]
  /\ \A j \in 1..Len(t) : \E k \in 1..Len(whole) : whole[k] = t[j]

(* Where the elements of two sequences lie in the one after the other.                          *)
LEMMA OneAfterAnother ==
  ASSUME NEW V, NEW s \in Seq(V), NEW W, NEW t \in Seq(W)
  PROVE  Holds(s \o t, s, t)
<1> DEFINE U == V \cup W
<1>1. s \in Seq(U) /\ t \in Seq(U)
  OBVIOUS
<1> HIDE DEF U
<1>2. s \o t \in Seq(U) /\ Len(s \o t) = Len(s) + Len(t) /\ Len(s) \in Nat /\ Len(t) \in Nat
  BY <1>1
<1>3. /\ \A i \in 1..Len(s) : (s \o t)[i] = s[i]
      /\ \A j \in 1..Len(t) : (s \o t)[Len(s) + j] = t[j]
  BY <1>1
<1>4. \A k \in 1..Len(s \o t) : k \in 1..Len(s) \/ \E j \in 1..Len(t) : k = Len(s) + j
  <2> TAKE k \in 1..Len(s \o t)
  <2>1. CASE k > Len(s)
    <3>1. k - Len(s) \in 1..Len(t) /\ k = Len(s) + (k - Len(s))
      BY <2>1, <1>2
    <3> QED BY <3>1
  <2> QED BY <2>1, <1>2
<1>5. \A j \in 1..Len(t) : Len(s) + j \in 1..Len(s \o t)
  BY <1>2
<1>6. \A i \in 1..Len(s) : i \in 1..Len(s \o t)
  BY <1>2
<1> QED BY <1>2, <1>3, <1>4, <1>5, <1>6 DEF Holds

(* The headers of an answer are read back as they were written, beside the transport's own.       *)
LEMMA HeadersComeBack ==
  ASSUME NEW lang, NEW n \in Nat, NEW names, names = [i \in 1..n |-> names[i]],
         \A i, j \in 1..n : names[i] = names[j] => i = j,
         NEW types, DOMAIN types = 1..n, \A k \in 1..n : types[k].reads \in {"text", "number"},
         NEW values \in Tuples(types), HeadersTravel(lang, types, values),
         NEW V, NEW own \in Seq(V),
         \A i \in 1..Len(own) : \A j \in 1..n : own[i].name # names[j]
  PROVE  /\ HeadersRead(names, types, own \o HeadersPushed(lang, names, values)) = values
         /\ HeadersFit(types, values)
<1> DEFINE pushed == HeadersPushed(lang, names, values)
           headers == own \o pushed
           Text(j) == Rendered(RuleOf(lang), <<>>, values[j])
           Header(j) == HeaderAt(lang, names, values, j)
<1>1. values = [i \in 1..n |-> values[i]] /\ \A i \in 1..n : values[i] \in Values(types[i])
  BY DEF Tuples
<1>2. \A i \in 1..n : TextTravels(RuleOf(lang), types[i], values[i])
  BY <1>1 DEF HeadersTravel, RuleOf
<1>3. \A i \in 1..n : types[i].holds \in {"text", "number"}
  BY <1>2 DEF TextTravels
<1>4. HeadersFit(types, values)
  <2>1. \A i \in 1..n : Conforms(types[i], values[i])
    BY <1>1, <1>3, HeldConforms
  <2> QED BY <2>1, <1>1 DEF HeadersFit
<1>5. \A i \in 1..n : values[i] # Null => Decoded(types[i], Text(i)) = values[i]
  BY <1>1, <1>2, TravelsBack
<1>6. \A j \in 1..n : Header(j).name = names[j] /\ Header(j).of = TextValue(Text(j))
  BY DEF HeaderAt, TextEntry, Entry
<1>7. \A text : TextValue(text) # Nothing /\ TextValue(text).of = text
  BY DEF TextValue, Nothing
<1> HIDE DEF Text
<1>8. /\ \E H : pushed \in Seq(H)
      /\ \A i \in 1..Len(pushed) : \E j \in 1..n : values[j] # Null /\ pushed[i] = Header(j)
      /\ \A j \in 1..n : values[j] # Null => \E i \in 1..Len(pushed) : pushed[i] = Header(j)
  <2>1. Pushes(lang, n, names, values, pushed)
    BY WhatIsPushed
  <2> QED BY <2>1 DEF Pushes
<1> HIDE DEF pushed, Header
<1>12. PICK H : pushed \in Seq(H)
  BY <1>8
<1>9. /\ \E U : headers \in Seq(U)
      /\ \A k \in 1..Len(headers) : \/ \E i \in 1..Len(own) : headers[k] = own[i]
                                   \/ \E j \in 1..Len(pushed) : headers[k] = pushed[j]
      /\ \A j \in 1..Len(pushed) : \E k \in 1..Len(headers) : headers[k] = pushed[j]
  <2>1. Holds(headers, own, pushed)
    BY <1>12, OneAfterAnother
  <2> HIDE DEF headers
  <2> QED BY <2>1 DEF Holds
<1> HIDE DEF headers
<1>10. ASSUME NEW i \in 1..n PROVE HeaderValue(types[i], names[i], headers) = values[i]
  <2> DEFINE type == types[i]
             name == names[i]
  <2>1. \A k \in 1..Len(headers) : headers[k].name = name => values[i] # Null /\ headers[k].of = TextValue(Text(i))
    <3> TAKE k \in 1..Len(headers)
    <3>1. CASE \E o \in 1..Len(own) : headers[k] = own[o]
      BY <3>1
    <3>2. CASE \E o \in 1..Len(pushed) : headers[k] = pushed[o]
      <4>1. PICK j \in 1..n : values[j] # Null /\ headers[k] = Header(j)
        BY <3>2, <1>8
      <4>2. CASE headers[k].name = name
        <5>1. j = i
          BY <4>1, <4>2, <1>6
        <5> QED BY <5>1, <4>1, <1>6
      <4> QED BY <4>2
    <3> QED BY <3>1, <3>2, <1>9
  <2> HIDE DEF type, name
  <2>2. CASE values[i] = Null
    <3>1. \A k \in 1..Len(headers) : headers[k].name # name
      BY <2>1, <2>2
    <3>2. Find(headers, name, 1) = Nothing
      BY <3>1, <1>9, FindsNothing
    <3>3. HeaderValue(type, name, headers) = Null
      BY <3>2 DEF HeaderValue
    <3> QED BY <3>3, <2>2 DEF type, name
  <2>3. CASE values[i] # Null
    <3>1. \E k \in 1..Len(headers) : headers[k].name = name
      <4>1. PICK p \in 1..Len(pushed) : pushed[p] = Header(i)
        BY <2>3, <1>8
      <4>2. PICK k \in 1..Len(headers) : headers[k] = pushed[p]
        BY <1>9
      <4> QED BY <4>1, <4>2, <1>6 DEF name
    <3> DEFINE of == TextValue(Text(i))
    <3>2. Find(headers, name, 1) = of
      <4>1. \A k \in 1..Len(headers) : headers[k].name = name => headers[k].of = of
        BY <2>1
      <4> HIDE DEF of
      <4>2. Tells(headers, name, of)
        BY <3>1, <4>1 DEF Tells
      <4>3. PICK U : headers \in Seq(U)
        BY <1>9
      <4> QED BY <4>2, <4>3, FindsIt
    <3>3. HeaderValue(type, name, headers) = Decoded(type, Text(i))
      BY <3>2, <1>7 DEF HeaderValue
    <3> QED BY <3>3, <2>3, <1>5 DEF type, name
  <2> QED BY <2>2, <2>3
<1>11. HeadersRead(names, types, headers) = [i \in 1..n |-> values[i]]
  <2>1. DOMAIN names = 1..n
    OBVIOUS
  <2>2. HeadersRead(names, types, headers) = [i \in 1..n |-> HeaderValue(types[i], names[i], headers)]
    BY <2>1 DEF HeadersRead
  <2> QED BY <2>2, <1>10
<1> QED BY <1>1, <1>4, <1>11 DEF headers, pushed

----------------------------------------------------------------------------
(* What an accepted operation says of its answers' headers.                 *)
Fitting(n, names, types) ==
  /\ n \in Nat /\ names = [i \in 1..n |-> names[i]]
  /\ \A i, j \in 1..n : names[i] = names[j] => i = j
  /\ DOMAIN types = 1..n /\ \A k \in 1..n : types[k].reads \in {"text", "number"}

Typed(op) == Shape(op).body \in {"bytes", "stream"}

(* Names that differ, each beside its type, fit.                                               *)
LEMMA NamesFitTypes ==
  ASSUME NEW names \in Seq(STRING), IsInjective(names), NEW types,
         Len(types) \in Nat, DOMAIN types = 1..Len(types), Len(types) = Len(names),
         \A k \in DOMAIN types : types[k].reads \in {"text", "number"}
  PROVE  Fitting(Len(names), names, types)
BY DEF Fitting, IsInjective

(* An answer with no headers has none to fit.                                                  *)
LEMMA NoneFitsNone == Fitting(0, <<>>, <<>>)
BY DEF Fitting

(* The refusals of the macro make the headers of an answer fit the tuple of the signature,     *)
(* keep the transport's own names out, and leave a one-way call with none.                     *)
LEMMA HeadersOfAnOperation ==
  ASSUME NEW s \in Services, Accepted(s), NEW i \in DOMAIN s.operations
  PROVE  LET op == s.operations[i]
         IN  /\ \E n : /\ Fitting(n, Shape(op).headerOut, HeaderTypes(op)) /\ (op.oneWay => n = 0)
                       /\ \A j \in 1..n : /\ Shape(op).headerOut[j] # "content-type"
                                          /\ Shape(op).body = "stream" => Shape(op).headerOut[j] # "content-range"
             /\ ~op.oneWay => \E n : Fitting(n, Shape(op).errorHeaderOut, ErrorHeaderTypes(op))
             /\ op.oneWay => ~Typed(op)
<1> DEFINE op == s.operations[i]
<1>1. /\ Shape(op).headerOut \in Seq(STRING) /\ Shape(op).errorHeaderOut \in Seq(STRING)
      /\ \A types \in {op.success.extras, op.error.extras} :
           /\ Len(types) \in Nat /\ DOMAIN types = 1..Len(types)
           /\ \A k \in DOMAIN types : types[k].reads \in {"text", "number"}
  BY HeadersAreTyped
<1>2. AcceptedOperation(op)
  BY DEF Accepted
<1> HIDE DEF op
<1> DEFINE out == Shape(op).headerOut
           errorOut == Shape(op).errorHeaderOut
<1>3. CASE ~op.bound
  <2>1. out = <<>> /\ errorOut = <<>> /\ Shape(op).body = "json"
    BY <1>3 DEF Shape
  <2>2. HeaderTypes(op) = <<>> /\ ErrorHeaderTypes(op) = <<>>
    BY <2>1 DEF HeaderTypes, ErrorHeaderTypes
  <2>3. Fitting(0, out, HeaderTypes(op)) /\ Fitting(0, errorOut, ErrorHeaderTypes(op))
    BY <2>1, <2>2, NoneFitsNone
  <2>4. ~Typed(op)
    BY <2>1 DEF Typed
  <2> HIDE DEF out, errorOut
  <2> QED BY <2>3, <2>4 DEF op, out, errorOut
<1>4. CASE op.bound
  <2>1. out = op.headerOut /\ errorOut = op.errorHeaderOut /\ Shape(op).body = op.body
    BY <1>4 DEF Shape
  <2>2. HeadersOutFitTheTuple(op) /\ BodyFitsTheSuccess(op) /\ HeaderNamesAreSafe(op)
    BY <1>2, <1>4 DEF AcceptedOperation
  <2>3. IsInjective(out) /\ IsInjective(errorOut)
    BY <2>1, <2>2 DEF HeaderNamesAreSafe
  <2> HIDE DEF out, errorOut
  <2>4. Fitting(Len(out), out, HeaderTypes(op)) /\ (op.oneWay => Len(out) = 0)
    <3>1. CASE out = <<>>
      <4>1. HeaderTypes(op) = <<>> /\ Len(out) = 0
        BY <3>1 DEF HeaderTypes, out
      <4> QED BY <4>1, <3>1, NoneFitsNone
    <3>2. CASE out # <<>>
      <4>1. HeaderTypes(op) = op.success.extras
        BY <3>2 DEF HeaderTypes, out
      <4>2. ~op.oneWay /\ Len(out) = Len(op.success.extras)
        BY <3>2, <2>1, <2>2 DEF HeadersOutFitTheTuple
      <4> QED BY <4>1, <4>2, <2>3, <1>1, NamesFitTypes DEF out
    <3> QED BY <3>1, <3>2
  <2>5. ASSUME ~op.oneWay PROVE Fitting(Len(errorOut), errorOut, ErrorHeaderTypes(op))
    <3>1. CASE errorOut = <<>>
      <4>1. ErrorHeaderTypes(op) = <<>> /\ Len(errorOut) = 0
        BY <3>1 DEF ErrorHeaderTypes, errorOut
      <4> QED BY <4>1, <3>1, NoneFitsNone
    <3>2. CASE errorOut # <<>>
      <4>1. ErrorHeaderTypes(op) = op.error.extras
        BY <3>2 DEF ErrorHeaderTypes, errorOut
      <4>2. Len(errorOut) = Len(op.error.extras)
        BY <2>1, <2>2, <2>5 DEF HeadersOutFitTheTuple
      <4> QED BY <4>1, <4>2, <2>3, <1>1, NamesFitTypes DEF errorOut
    <3> QED BY <3>1, <3>2
  <2>6. \A j \in 1..Len(out) : /\ out[j] # "content-type"
                               /\ Shape(op).body = "stream" => out[j] # "content-range"
    <3> TAKE j \in 1..Len(out)
    <3>1. out[j] \in ToSet(out)
      <4>1. out \in Seq(STRING)
        BY <1>1 DEF out
      <4> QED BY <4>1 DEF ToSet
    <3>2. ~Reserved(op, out[j], FALSE)
      BY <3>1, <2>1, <2>2 DEF HeaderNamesAreSafe
    <3> QED BY <3>2, <2>1 DEF Reserved
  <2>7. op.oneWay => ~Typed(op)
    BY <2>1, <2>2 DEF BodyFitsTheSuccess, Typed
  <2> QED BY <2>4, <2>5, <2>6, <2>7 DEF op, out, errorOut
<1> QED BY <1>3, <1>4

----------------------------------------------------------------------------
(* The transport's own headers.                                             *)
TypeHeader(op, answered) == IF Typed(op) THEN <<TextEntry("content-type", answered.type)>> ELSE <<>>
RangeHeader(answered) ==
  IF answered.range # <<>> THEN <<TextEntry("content-range", answered.range)>> ELSE <<>>

OwnHeaders(op, answered, own) ==
  /\ \E V : own \in Seq(V)
  /\ \A k \in 1..Len(own) : \/ Typed(op) /\ own[k] = TextEntry("content-type", answered.type)
                            \/ answered.range # <<>> /\ own[k] = TextEntry("content-range", answered.range)
  /\ Typed(op) => \E k \in 1..Len(own) : own[k] = TextEntry("content-type", answered.type)
  /\ answered.range # <<>> => \E k \in 1..Len(own) : own[k] = TextEntry("content-range", answered.range)

(* The transport writes its own headers and no other.                                          *)
LEMMA WhatIsOwn ==
  ASSUME NEW op, NEW answered
  PROVE  OwnHeaders(op, answered, TypeHeader(op, answered) \o RangeHeader(answered))
<1> DEFINE t == TextEntry("content-type", answered.type)
           r == TextEntry("content-range", answered.range)
           a == TypeHeader(op, answered)
           b == RangeHeader(answered)
           own == a \o b
<1>1. a = IF Typed(op) THEN <<t>> ELSE <<>>
  BY DEF TypeHeader
<1>2. b = IF answered.range # <<>> THEN <<r>> ELSE <<>>
  BY DEF RangeHeader
<1> HIDE DEF t, r, a, b
<1>0. \A x : <<x>> \in Seq({x}) /\ <<>> \in Seq({x})
  OBVIOUS
<1>3. a \in Seq({t}) /\ b \in Seq({r})
  <2>1. a \in Seq({t})
    BY <1>0, <1>1
  <2>2. b \in Seq({r})
    BY <1>0, <1>2
  <2> QED BY <2>1, <2>2
<1>4. Holds(own, a, b)
  BY <1>3, OneAfterAnother
<1> HIDE DEF own
<1>5. /\ Typed(op) => 1 \in 1..Len(a) /\ a[1] = t
      /\ \A k \in 1..Len(a) : Typed(op) /\ a[k] = t
  BY <1>1
<1>6. /\ answered.range # <<>> => 1 \in 1..Len(b) /\ b[1] = r
      /\ \A k \in 1..Len(b) : answered.range # <<>> /\ b[k] = r
  BY <1>2
<1>7. /\ \E V : own \in Seq(V)
      /\ \A k \in 1..Len(own) : \/ Typed(op) /\ own[k] = t
                                \/ answered.range # <<>> /\ own[k] = r
  BY <1>4, <1>5, <1>6 DEF Holds
<1>8. Typed(op) => \E k \in 1..Len(own) : own[k] = t
  BY <1>4, <1>5 DEF Holds
<1>9. answered.range # <<>> => \E k \in 1..Len(own) : own[k] = r
  BY <1>4, <1>6 DEF Holds
<1> QED BY <1>7, <1>8, <1>9 DEF OwnHeaders, own, t, r, a, b

----------------------------------------------------------------------------
(* What goes out, and what comes of it.                                     *)
Legible(values) ==
  \A i \in DOMAIN values : values[i] # Null => LegalHeaderValue(Rendered("joined", <<>>, values[i]))

(* Two lists of headers are legal together where each is.                                      *)
LEMMA LegalOfBoth ==
  ASSUME NEW whole, NEW s, NEW V, s \in Seq(V), NEW t, NEW W, t \in Seq(W), Holds(whole, s, t)
  PROVE  LegalHeaders(whole) <=> LegalHeaders(s) /\ LegalHeaders(t)
<1>1. /\ \A list : (\E U : list \in Seq(U)) => DOMAIN list = 1..Len(list)
  OBVIOUS
<1>2. /\ DOMAIN whole = 1..Len(whole) /\ DOMAIN s = 1..Len(s) /\ DOMAIN t = 1..Len(t)
  BY <1>1 DEF Holds
<1> DEFINE Legal(header) == LegalHeaderValue(header.of.of)
<1>3. /\ LegalHeaders(whole) <=> \A k \in 1..Len(whole) : Legal(whole[k])
      /\ LegalHeaders(s) <=> \A k \in 1..Len(s) : Legal(s[k])
      /\ LegalHeaders(t) <=> \A k \in 1..Len(t) : Legal(t[k])
  BY <1>2 DEF LegalHeaders
<1> HIDE DEF Legal
<1> QED BY <1>3 DEF Holds

(* The headers that are pushed are legal where what they render is.                            *)
LEMMA HeadersAreJudged ==
  ASSUME NEW lang, NEW n, NEW names, NEW types, Fitting(n, names, types),
         NEW values \in Tuples(types), HeadersTravel(lang, types, values)
  PROVE  LegalHeaders(HeadersPushed(lang, names, values)) <=> Legible(values)
<1> DEFINE pushed == HeadersPushed(lang, names, values)
           Text(j) == Rendered("joined", <<>>, values[j])
<1>1. n \in Nat /\ names = [i \in 1..n |-> names[i]]
  BY DEF Fitting
<1>2. DOMAIN values = 1..n
  BY DEF Fitting, Tuples
<1>3. Pushes(lang, n, names, values, pushed)
  BY <1>1, WhatIsPushed
<1>4. \A j \in 1..n : HeaderAt(lang, names, values, j).of.of = Text(j)
  <2> TAKE j \in 1..n
  <2>1. HeaderAt(lang, names, values, j).of.of = Rendered(RuleOf(lang), <<>>, values[j])
    BY DEF HeaderAt, TextEntry, Entry, TextValue
  <2>2. values[j].is = "list" => RuleOf(lang) = "joined"
    BY <1>2 DEF HeadersTravel, TextTravels, ListTravels, RuleOf
  <2>3. Rendered(RuleOf(lang), <<>>, values[j]) = Text(j)
    BY <2>2 DEF Rendered
  <2> QED BY <2>1, <2>3
<1> HIDE DEF pushed, Text
<1>5. DOMAIN pushed = 1..Len(pushed)
  BY <1>3 DEF Pushes
<1>6. LegalHeaders(pushed) <=> \A i \in 1..Len(pushed) : LegalHeaderValue(pushed[i].of.of)
  BY <1>5 DEF LegalHeaders
<1>7. Legible(values) <=> \A j \in 1..n : values[j] # Null => LegalHeaderValue(Text(j))
  BY <1>2 DEF Legible, Text
<1>8. ASSUME \A i \in 1..Len(pushed) : LegalHeaderValue(pushed[i].of.of), NEW j \in 1..n, values[j] # Null
      PROVE  LegalHeaderValue(Text(j))
  BY <1>3, <1>4, <1>8 DEF Pushes
<1>9. ASSUME \A j \in 1..n : values[j] # Null => LegalHeaderValue(Text(j)), NEW i \in 1..Len(pushed)
      PROVE  LegalHeaderValue(pushed[i].of.of)
  BY <1>3, <1>4, <1>9 DEF Pushes
<1> QED BY <1>6, <1>7, <1>8, <1>9 DEF pushed

(* The transport's own headers are legal where the content type and the range are.             *)
LEMMA OwnAreJudged ==
  ASSUME NEW op, NEW answered, NEW own, OwnHeaders(op, answered, own),
         ~Typed(op) => answered.type = <<>>
  PROVE  LegalHeaders(own) <=> LegalHeaderValue(answered.type) /\ LegalHeaderValue(answered.range)
<1>1. LegalHeaderValue(<<>>)
  BY DEF LegalHeaderValue
<1>2. DOMAIN own = 1..Len(own)
  BY DEF OwnHeaders
<1>3. \A name, text : TextEntry(name, text).of.of = text
  BY DEF TextEntry, Entry, TextValue
<1>4. LegalHeaders(own) <=> \A k \in 1..Len(own) : LegalHeaderValue(own[k].of.of)
  BY <1>2 DEF LegalHeaders
<1>5. ASSUME \A k \in 1..Len(own) : LegalHeaderValue(own[k].of.of)
      PROVE  LegalHeaderValue(answered.type) /\ LegalHeaderValue(answered.range)
  BY <1>1, <1>3, <1>5 DEF OwnHeaders
<1>6. ASSUME LegalHeaderValue(answered.type), LegalHeaderValue(answered.range), NEW k \in 1..Len(own)
      PROVE  LegalHeaderValue(own[k].of.of)
  BY <1>3, <1>6 DEF OwnHeaders
<1> QED BY <1>4, <1>5, <1>6

(* A panic is read as one, wherever its status is not an answer's.           *)
PanicsShow(op) ==
  /\ 500 # Shape(op).ok /\ ~Declares(op, 500)

(* A panic is read as the fault it is, where the status does not say another thing.             *)
LEMMA PanicIsRead ==
  ASSUME NEW op, PanicsShow(op)
  PROVE  OutcomeOf(op, FaultResponse("handler_panic")) = Fault("handler_panic")
<1> DEFINE reply == FaultResponse("handler_panic")
<1>1. reply.status = 500 /\ reply.body = Fault("handler_panic") /\ reply.body.is = "fault"
  BY DEF FaultResponse, FaultStatus, Fault
<1> HIDE DEF reply
<1>2. FaultRead(reply) = Fault("handler_panic")
  BY <1>1 DEF FaultRead
<1>3. OutcomeOf(op, reply) = FaultRead(reply)
  BY <1>1 DEF OutcomeOf, PanicsShow
<1> QED BY <1>2, <1>3 DEF reply

(* A refusal of the server is read as a fault, whatever its kind.           *)
LEMMA FaultIsRead ==
  ASSUME NEW op, NEW kind, Shape(op).ok \notin {400, 404, 500}
  PROVE  OutcomeOf(op, FaultResponse(kind)).is = "fault"
<1> DEFINE reply == FaultResponse(kind)
<1>1. reply.status \in {400, 404, 500} /\ reply.body.is = "fault"
  BY DEF FaultResponse, FaultStatus, Fault
<1> HIDE DEF reply
<1>2. \A each : Fault(each).is = "fault"
  BY DEF Fault
<1>3. DeclaredRead(op, reply).is = "fault"
  BY <1>1, <1>2 DEF DeclaredRead
<1>4. FaultRead(reply).is = "fault"
  BY <1>1 DEF FaultRead
<1>5. OutcomeOf(op, reply) \in {DeclaredRead(op, reply), FaultRead(reply)}
  <2>1. reply.status # 206 /\ reply.status # Shape(op).ok
    BY <1>1
  <2>2. CASE Declares(op, reply.status)
    BY <2>1, <2>2 DEF OutcomeOf
  <2>3. CASE ~Declares(op, reply.status)
    BY <2>1, <2>3, <1>1 DEF OutcomeOf
  <2> QED BY <2>2, <2>3
<1> QED BY <1>3, <1>4, <1>5 DEF reply

----------------------------------------------------------------------------
(* A success comes back whole.                                              *)
Success(op, headers, type, range) ==
  [is |-> "ok", body |-> AnswerBody(op), headers |-> headers, type |-> type, range |-> range]

Sent(op, lang, answered, own) == own \o HeadersPushed(lang, Shape(op).headerOut, answered.headers)

(* An answer whose headers can travel, of an operation whose headers fit.    *)
Travels(op, lang, answered, n) ==
  /\ Fitting(n, Shape(op).headerOut, HeaderTypes(op))
  /\ \A j \in 1..n : /\ Shape(op).headerOut[j] # "content-type"
                     /\ Shape(op).body = "stream" => Shape(op).headerOut[j] # "content-range"
  /\ answered.headers \in Tuples(HeaderTypes(op)) /\ HeadersTravel(lang, HeaderTypes(op), answered.headers)
  /\ ~Typed(op) => answered.type = <<>>
  /\ answered.range # <<>> => Shape(op).body = "stream"
  /\ op.oneWay => ~Typed(op)

(* What goes out is the transport's own headers, and then the answer's.                        *)
LEMMA SentHolds ==
  ASSUME NEW op, NEW lang, NEW answered, NEW n, Travels(op, lang, answered, n),
         NEW own, OwnHeaders(op, answered, own)
  PROVE  LET pushed == HeadersPushed(lang, Shape(op).headerOut, answered.headers)
         IN  /\ Pushes(lang, n, Shape(op).headerOut, answered.headers, pushed)
             /\ Holds(Sent(op, lang, answered, own), own, pushed)
<1> DEFINE pushed == HeadersPushed(lang, Shape(op).headerOut, answered.headers)
<1>1. Pushes(lang, n, Shape(op).headerOut, answered.headers, pushed)
  <2>1. n \in Nat /\ Shape(op).headerOut = [i \in 1..n |-> Shape(op).headerOut[i]]
    BY DEF Travels, Fitting
  <2> QED BY <2>1, WhatIsPushed
<1>2. PICK V : own \in Seq(V)
  BY DEF OwnHeaders
<1> HIDE DEF pushed
<1>3. PICK W : pushed \in Seq(W)
  BY <1>1 DEF Pushes
<1>4. Holds(own \o pushed, own, pushed)
  BY <1>2, <1>3, OneAfterAnother
<1> QED BY <1>1, <1>4 DEF Sent, pushed

(* Each of the transport's own headers is found where it was written.       *)
LEMMA OwnIsFound ==
  ASSUME NEW op, NEW lang, NEW answered, NEW n, Travels(op, lang, answered, n),
         NEW own, OwnHeaders(op, answered, own)
  PROVE  /\ Typed(op) => HeaderText(Sent(op, lang, answered, own), "content-type") = answered.type
         /\ answered.range # <<>> =>
              HeaderText(Sent(op, lang, answered, own), "content-range") = answered.range
<1> DEFINE names == Shape(op).headerOut
           pushed == HeadersPushed(lang, names, answered.headers)
           headers == Sent(op, lang, answered, own)
           t == TextEntry("content-type", answered.type)
           r == TextEntry("content-range", answered.range)
<1>1. Pushes(lang, n, names, answered.headers, pushed) /\ Holds(headers, own, pushed)
  BY SentHolds
<1>2. /\ t.name = "content-type" /\ t.of = TextValue(answered.type)
      /\ r.name = "content-range" /\ r.of = TextValue(answered.range)
  BY DEF TextEntry, Entry
<1>3. \A j : HeaderAt(lang, names, answered.headers, j).name = names[j]
  BY DEF HeaderAt, TextEntry, Entry
<1>4. \A text : TextValue(text) # Nothing /\ TextValue(text).of = text
  BY DEF TextValue, Nothing
<1>5. /\ \A k \in 1..Len(own) : \/ Typed(op) /\ own[k] = t
                                \/ answered.range # <<>> /\ own[k] = r
      /\ Typed(op) => \E k \in 1..Len(own) : own[k] = t
      /\ answered.range # <<>> => \E k \in 1..Len(own) : own[k] = r
  BY DEF OwnHeaders
<1>6. \A j \in 1..n : names[j] # "content-type"
  BY DEF Travels
<1>14. \A j \in 1..n : Shape(op).body = "stream" => names[j] # "content-range"
  BY DEF Travels
<1>7. answered.range # <<>> => Shape(op).body = "stream"
  BY DEF Travels
<1> HIDE DEF t, r, pushed, headers, names
<1>8. PICK U : headers \in Seq(U)
  BY <1>1 DEF Holds
<1>9. \A k \in 1..Len(pushed) : \E j \in 1..n : pushed[k].name = names[j]
  BY <1>1, <1>3 DEF Pushes
<1>10. \A k \in 1..Len(headers) : \/ \E o \in 1..Len(own) : headers[k] = own[o]
                                  \/ \E o \in 1..Len(pushed) : headers[k] = pushed[o]
  BY <1>1 DEF Holds
<1>11. \A o \in 1..Len(own) : \E k \in 1..Len(headers) : headers[k] = own[o]
  BY <1>1 DEF Holds
<1>12. ASSUME Typed(op) PROVE HeaderText(headers, "content-type") = answered.type
  <2> DEFINE name == "content-type"
             of == TextValue(answered.type)
  <2>1. \E k \in 1..Len(headers) : headers[k].name = name
    BY <1>2, <1>5, <1>11, <1>12
  <2>2. ASSUME NEW k \in 1..Len(headers), headers[k].name = name PROVE headers[k].of = of
    <3>4. \A j \in 1..n : names[j] # name
      BY <1>6
    <3>1. ~\E o \in 1..Len(pushed) : headers[k] = pushed[o]
      BY <2>2, <3>4, <1>9
    <3>2. PICK o \in 1..Len(own) : headers[k] = own[o]
      BY <3>1, <1>10
    <3>3. own[o] = t \/ own[o] = r
      BY <1>5
    <3> QED BY <3>2, <3>3, <2>2, <1>2
  <2> HIDE DEF name, of
  <2>3. Tells(headers, name, of)
    BY <2>1, <2>2 DEF Tells
  <2>4. Find(headers, name, 1) = of
    BY <2>3, <1>8, FindsIt
  <2>5. HeaderText(headers, name) = answered.type
    BY <2>4, <1>4 DEF HeaderText, of
  <2> QED BY <2>5 DEF name
<1>13. ASSUME answered.range # <<>> PROVE HeaderText(headers, "content-range") = answered.range
  <2> DEFINE name == "content-range"
             of == TextValue(answered.range)
  <2>1. \E k \in 1..Len(headers) : headers[k].name = name
    BY <1>2, <1>5, <1>11, <1>13
  <2>2. ASSUME NEW k \in 1..Len(headers), headers[k].name = name PROVE headers[k].of = of
    <3>4. \A j \in 1..n : names[j] # name
      BY <1>14, <1>7, <1>13
    <3>1. ~\E o \in 1..Len(pushed) : headers[k] = pushed[o]
      BY <2>2, <3>4, <1>9
    <3>2. PICK o \in 1..Len(own) : headers[k] = own[o]
      BY <3>1, <1>10
    <3>3. own[o] = t \/ own[o] = r
      BY <1>5
    <3> QED BY <3>2, <3>3, <2>2, <1>2
  <2> HIDE DEF name, of
  <2>3. Tells(headers, name, of)
    BY <2>1, <2>2 DEF Tells
  <2>4. Find(headers, name, 1) = of
    BY <2>3, <1>8, FindsIt
  <2>5. HeaderText(headers, name) = answered.range
    BY <2>4, <1>4 DEF HeaderText, of
  <2> QED BY <2>5 DEF name
<1> QED BY <1>12, <1>13 DEF headers

(* The response to a success, as it goes out.                               *)
Carries(reply, op, lang, answered, n, own) ==
  /\ Travels(op, lang, answered, n) /\ OwnHeaders(op, answered, own)
  /\ reply.headers = Sent(op, lang, answered, own) /\ reply.body = AnswerBody(op)

(* A success is read as it was answered.                                                       *)
LEMMA SuccessIsRead ==
  ASSUME NEW op, NEW lang, NEW answered, NEW n, NEW own, NEW reply,
         Carries(reply, op, lang, answered, n, own),
         NEW partial \in BOOLEAN, partial <=> answered.range # <<>>
  PROVE  SuccessRead(op, reply, partial) = Success(op, answered.headers, answered.type, answered.range)
<1> DEFINE names == Shape(op).headerOut
           types == HeaderTypes(op)
           values == HeadersRead(names, types, reply.headers)
           pushed == HeadersPushed(lang, names, answered.headers)
<1>0. /\ Travels(op, lang, answered, n) /\ OwnHeaders(op, answered, own)
      /\ reply.headers = Sent(op, lang, answered, own) /\ reply.body = AnswerBody(op)
  BY DEF Carries
<1>1. values = answered.headers /\ HeadersFit(types, answered.headers)
  <2>1. Pushes(lang, n, names, answered.headers, pushed)
    BY <1>0, SentHolds
  <2>2. n \in Nat /\ names = [j \in 1..n |-> names[j]] /\ (\A i, j \in 1..n : names[i] = names[j] => i = j)
        /\ DOMAIN types = 1..n /\ \A k \in 1..n : types[k].reads \in {"text", "number"}
    BY <1>0 DEF Travels, Fitting
  <2>3. answered.headers \in Tuples(types) /\ HeadersTravel(lang, types, answered.headers)
    BY <1>0 DEF Travels
  <2>4. PICK V : own \in Seq(V)
    BY <1>0 DEF OwnHeaders
  <2>5. \A k \in 1..Len(own) : \A j \in 1..n : own[k].name # names[j]
    <3>1. \A text : TextEntry("content-type", text).name = "content-type"
                     /\ TextEntry("content-range", text).name = "content-range"
      BY DEF TextEntry, Entry
    <3> QED BY <1>0, <3>1 DEF OwnHeaders, Travels
  <2> HIDE DEF names, types
  <2>6. /\ HeadersRead(names, types, own \o HeadersPushed(lang, names, answered.headers)) = answered.headers
        /\ HeadersFit(types, answered.headers)
    BY <2>2, <2>3, <2>4, <2>5, HeadersComeBack
  <2> QED BY <1>0, <2>6 DEF names, Sent
<1>2. /\ Typed(op) => HeaderText(reply.headers, "content-type") = answered.type
      /\ answered.range # <<>> => HeaderText(reply.headers, "content-range") = answered.range
  BY <1>0, OwnIsFound
<1>3. /\ ~Typed(op) => answered.type = <<>>
      /\ op.oneWay => ~Typed(op)
  BY <1>0 DEF Travels
<1> DEFINE kind == IF Typed(op) THEN HeaderText(reply.headers, "content-type") ELSE <<>>
           range == IF partial THEN HeaderText(reply.headers, "content-range") ELSE <<>>
           body == IF op.oneWay \/ IsUnit(op) THEN Nothing ELSE reply.body
<1>4. SuccessRead(op, reply, partial) =
        [is |-> "ok", body |-> body, headers |-> values, type |-> kind, range |-> range]
  <2>1. HeadersFit(HeaderTypes(op), values)
    BY <1>1
  <2> HIDE DEF values
  <2> QED BY <1>0, <2>1 DEF SuccessRead, Typed, values
<1>5. kind = answered.type
  BY <1>2, <1>3
<1>6. range = answered.range
  BY <1>2
<1>7. body = AnswerBody(op)
  BY <1>0 DEF AnswerBody
<1> HIDE DEF kind, range, body, values
<1> QED BY <1>1, <1>4, <1>5, <1>6, <1>7 DEF Success

----------------------------------------------------------------------------
(* What an operation may answer.                                            *)
MayAnswer(op) ==
  \E n : /\ Fitting(n, Shape(op).headerOut, HeaderTypes(op)) /\ (op.oneWay => n = 0)
         /\ \A j \in 1..n : /\ Shape(op).headerOut[j] # "content-type"
                            /\ Shape(op).body = "stream" => Shape(op).headerOut[j] # "content-range"
MayDecline(op) == \E n : Fitting(n, Shape(op).errorHeaderOut, ErrorHeaderTypes(op))

(* An answer is a panic, a one-way answer, a success or a declared error.                      *)
LEMMA AnswersAre ==
  ASSUME NEW op, NEW answered \in Results(op)
  PROVE  \/ answered = [is |-> "panic"]
         \/ op.oneWay /\ answered = [is |-> "ok", headers |-> <<>>, type |-> <<>>, range |-> <<>>]
         \/ /\ ~op.oneWay /\ answered.is = "ok" /\ answered.headers \in Tuples(HeaderTypes(op))
            /\ ~Typed(op) => answered.type = <<>>
            /\ answered.range # <<>> => Shape(op).body = "stream"
         \/ /\ ~op.oneWay /\ answered.headers \in Tuples(ErrorHeaderTypes(op))
            /\ answered = [is |-> "declared", variant |-> answered.variant, headers |-> answered.headers]
            /\ Shape(op).errors # <<>> => answered.variant \in DOMAIN Shape(op).errors
<1> DEFINE types == IF Shape(op).body \in {"bytes", "stream"} THEN HeaderTexts ELSE {<<>>}
           ranges == {<<>>} \cup (IF Shape(op).body = "stream" THEN HeaderTexts ELSE {})
           variants == IF Shape(op).errors = <<>> THEN {1} ELSE DOMAIN Shape(op).errors
           Ok == [is : {"ok"}, headers : Tuples(HeaderTypes(op)), type : types, range : ranges]
           Declared == [is : {"declared"}, variant : variants, headers : Tuples(ErrorHeaderTypes(op))]
<1>1. \/ answered = [is |-> "panic"]
      \/ op.oneWay /\ answered = [is |-> "ok", headers |-> <<>>, type |-> <<>>, range |-> <<>>]
      \/ ~op.oneWay /\ answered \in Ok
      \/ ~op.oneWay /\ answered \in Declared
  BY DEF Results
<1>2. ASSUME answered \in Ok
      PROVE  /\ answered.is = "ok" /\ answered.headers \in Tuples(HeaderTypes(op))
             /\ answered.type \in types /\ answered.range \in ranges
  <2> HIDE DEF types, ranges
  <2> QED BY <1>2
<1>3. ASSUME answered \in Declared
      PROVE  /\ answered.headers \in Tuples(ErrorHeaderTypes(op)) /\ answered.variant \in variants
             /\ answered = [is |-> "declared", variant |-> answered.variant, headers |-> answered.headers]
  <2> HIDE DEF variants
  <2> QED BY <1>3
<1>4. ASSUME answered.type \in types, ~Typed(op) PROVE answered.type = <<>>
  BY <1>4 DEF Typed
<1>5. ASSUME answered.range \in ranges, answered.range # <<>> PROVE Shape(op).body = "stream"
  BY <1>5
<1>6. ASSUME answered.variant \in variants, Shape(op).errors # <<>> PROVE answered.variant \in DOMAIN Shape(op).errors
  BY <1>6
<1> HIDE DEF types, ranges, variants, Ok, Declared
<1> QED BY <1>1, <1>2, <1>3, <1>4, <1>5, <1>6

----------------------------------------------------------------------------
(* The client is owed what it reads.                                        *)

(* A success is read as what the client is owed for it, a header that may not go out           *)
(* included.                                                                                   *)
LEMMA OkIsOwed ==
  ASSUME NEW op, NEW lang, NEW answered, answered.is = "ok",
         NEW n, Travels(op, lang, answered, n),
         PanicsShow(op), Shape(op).body = "stream" /\ answered.range = <<>> => Shape(op).ok # 206,
         NEW status, status = (IF answered.range # <<>> THEN 206 ELSE Shape(op).ok),
         NEW own, OwnHeaders(op, answered, own)
  PROVE  OutcomeOf(op, Checked(status, Sent(op, lang, answered, own), AnswerBody(op))) = Owed(op, lang, answered)
<1> DEFINE headers == Sent(op, lang, answered, own)
           pushed == HeadersPushed(lang, Shape(op).headerOut, answered.headers)
           reply == Checked(status, headers, AnswerBody(op))
           legal == LegalHeaderValue(answered.type) /\ LegalHeaderValue(answered.range) /\ Legible(answered.headers)
           success == Success(op, answered.headers, answered.type, answered.range)
<1>1. LegalHeaders(headers) <=> legal
  <2>1. Pushes(lang, n, Shape(op).headerOut, answered.headers, pushed) /\ Holds(headers, own, pushed)
    BY SentHolds
  <2>2. PICK V : own \in Seq(V)
    BY DEF OwnHeaders
  <2>3. PICK W : pushed \in Seq(W)
    BY <2>1 DEF Pushes
  <2>4. LegalHeaders(pushed) <=> Legible(answered.headers)
    BY HeadersAreJudged DEF Travels
  <2>5. LegalHeaders(own) <=> LegalHeaderValue(answered.type) /\ LegalHeaderValue(answered.range)
    <3>1. ~Typed(op) => answered.type = <<>>
      BY DEF Travels
    <3> QED BY <3>1, OwnAreJudged
  <2> HIDE DEF headers, pushed
  <2>6. LegalHeaders(headers) <=> LegalHeaders(own) /\ LegalHeaders(pushed)
    BY <2>1, <2>2, <2>3, LegalOfBoth
  <2> QED BY <2>4, <2>5, <2>6
<1>2. Owed(op, lang, answered) = IF legal THEN success ELSE Fault("handler_panic")
  BY DEF Owed, Legible, Success
<1>3. CASE legal
  <2>1. reply = [status |-> status, headers |-> headers, body |-> AnswerBody(op)]
    BY <1>1, <1>3 DEF Checked
  <2>2. reply.status = status /\ reply.headers = headers /\ reply.body = AnswerBody(op)
    BY <2>1
  <2>5. Carries(reply, op, lang, answered, n, own)
    BY <2>2 DEF Carries
  <2> HIDE DEF reply, legal, success
  <2>3. CASE answered.range # <<>>
    <3>1. Shape(op).body = "stream" /\ reply.status = 206
      BY <2>2, <2>3 DEF Travels
    <3>2. OutcomeOf(op, reply) = SuccessRead(op, reply, TRUE)
      BY <3>1 DEF OutcomeOf
    <3>3. SuccessRead(op, reply, TRUE) = success
      BY <2>3, <2>5, SuccessIsRead DEF success
    <3> QED BY <3>2, <3>3, <1>2, <1>3 DEF reply
  <2>4. CASE answered.range = <<>>
    <3>1. reply.status = Shape(op).ok /\ ~(Shape(op).body = "stream" /\ reply.status = 206)
      BY <2>2, <2>4
    <3>2. OutcomeOf(op, reply) = SuccessRead(op, reply, FALSE)
      BY <3>1 DEF OutcomeOf
    <3>3. SuccessRead(op, reply, FALSE) = success
      BY <2>4, <2>5, SuccessIsRead DEF success
    <3> QED BY <3>2, <3>3, <1>2, <1>3 DEF reply
  <2> QED BY <2>3, <2>4
<1>4. CASE ~legal
  <2>1. reply = FaultResponse("handler_panic")
    BY <1>1, <1>4 DEF Checked
  <2> QED BY <2>1, <1>2, <1>4, PanicIsRead
<1> QED BY <1>3, <1>4

(* So is a declared error.                                                                     *)
LEMMA DeclaredIsOwed ==
  ASSUME NEW op, NEW lang, NEW answered, ~op.oneWay,
         answered = [is |-> "declared", variant |-> answered.variant, headers |-> answered.headers],
         Shape(op).errors # <<>> => answered.variant \in DOMAIN Shape(op).errors,
         MayDecline(op), answered.headers \in Tuples(ErrorHeaderTypes(op)),
         HeadersTravel(lang, ErrorHeaderTypes(op), answered.headers),
         Unambiguous(op, answered), PanicsShow(op)
  PROVE  OutcomeOf(op, ResponseTo(lang, op, answered)) = Owed(op, lang, answered)
<1> DEFINE status == ErrorStatus(op, answered.variant)
           names == Shape(op).errorHeaderOut
           types == ErrorHeaderTypes(op)
           headers == HeadersPushed(lang, names, answered.headers)
           body == ErrorBody(op, answered.variant)
           reply == Checked(status, headers, body)
<1>1. answered.is = "declared"
  OBVIOUS
<1>2. ResponseTo(lang, op, answered) = reply
  BY <1>1 DEF ResponseTo
<1>3. status # Shape(op).ok /\ (Shape(op).body = "stream" => status # 206)
  BY <1>1 DEF Unambiguous
<1>4. Declares(op, status)
  <2>1. CASE Shape(op).errors = <<>>
    BY <2>1 DEF Declares, ErrorStatus
  <2>2. CASE Shape(op).errors # <<>>
    BY <2>2 DEF Declares, ErrorStatus, ToSet
  <2> QED BY <2>1, <2>2
<1>5. PICK n : Fitting(n, names, types)
  BY DEF MayDecline
<1>6. LegalHeaders(headers) <=> Legible(answered.headers)
  <2> HIDE DEF names, types
  <2> QED BY <1>5, HeadersAreJudged DEF types
<1>7. Owed(op, lang, answered) = IF Legible(answered.headers) THEN answered ELSE Fault("handler_panic")
  BY <1>1 DEF Owed, Legible
<1>8. HeadersRead(names, types, headers) = answered.headers /\ HeadersFit(types, answered.headers)
  <2> DEFINE own == <<>>
  <2>1. (\E V : own \in Seq(V)) /\ Len(own) = 0
    OBVIOUS
  <2>2. n \in Nat /\ names = [j \in 1..n |-> names[j]] /\ (\A i, j \in 1..n : names[i] = names[j] => i = j)
        /\ DOMAIN types = 1..n /\ \A k \in 1..n : types[k].reads \in {"text", "number"}
    BY <1>5 DEF Fitting
  <2>3. \A k \in 1..Len(own) : \A j \in 1..n : own[k].name # names[j]
    BY <2>1
  <2>4. Pushes(lang, n, names, answered.headers, headers)
    BY <2>2, WhatIsPushed
  <2>5. \A W : \A list \in Seq(W) : <<>> \o list = list
    OBVIOUS
  <2>6. own \o headers = headers
    BY <2>4, <2>5 DEF Pushes
  <2>8. answered.headers \in Tuples(types) /\ HeadersTravel(lang, types, answered.headers)
    OBVIOUS
  <2> HIDE DEF own, names, types
  <2>9. PICK V : own \in Seq(V)
    BY <2>1
  <2>7. /\ HeadersRead(names, types, own \o HeadersPushed(lang, names, answered.headers)) = answered.headers
        /\ HeadersFit(types, answered.headers)
    BY <2>2, <2>3, <2>8, <2>9, HeadersComeBack
  <2> QED BY <2>6, <2>7
<1>9. CASE Legible(answered.headers)
  <2>1. reply = [status |-> status, headers |-> headers, body |-> body]
    BY <1>6, <1>9 DEF Checked
  <2>2. reply.status = status /\ reply.headers = headers /\ reply.body = body
    BY <2>1
  <2>3. body.is = "error" /\ body.of = op.wire /\ body.variant = answered.variant
    BY DEF ErrorBody
  <2> HIDE DEF reply, body
  <2>4. OutcomeOf(op, reply) = DeclaredRead(op, reply)
    BY <2>2, <1>3, <1>4 DEF OutcomeOf
  <2>5. DeclaredRead(op, reply) = [is |-> "declared", variant |-> answered.variant, headers |-> answered.headers]
    <3> HIDE DEF names, types, headers
    <3> QED BY <2>2, <2>3, <1>8 DEF DeclaredRead, names, types
  <2> QED BY <2>4, <2>5, <1>2, <1>7, <1>9 DEF reply
<1>10. CASE ~Legible(answered.headers)
  <2>1. reply = FaultResponse("handler_panic")
    BY <1>6, <1>10 DEF Checked
  <2> QED BY <2>1, <1>2, <1>7, <1>10, PanicIsRead
<1> QED BY <1>9, <1>10

(* The response to a success is the one its client reads so.                                   *)
LEMMA OkComesBack ==
  ASSUME NEW op, NEW lang, NEW answered, MayAnswer(op), op.oneWay => ~Typed(op),
         Unambiguous(op, answered), PanicsShow(op),
         answered.is = "ok", HeadersTravel(lang, HeaderTypes(op), answered.headers),
         \/ op.oneWay /\ answered = [is |-> "ok", headers |-> <<>>, type |-> <<>>, range |-> <<>>]
         \/ /\ ~op.oneWay /\ answered.headers \in Tuples(HeaderTypes(op))
            /\ ~Typed(op) => answered.type = <<>>
            /\ answered.range # <<>> => Shape(op).body = "stream"
  PROVE  OutcomeOf(op, ResponseTo(lang, op, answered)) = Owed(op, lang, answered)
<1> DEFINE own == TypeHeader(op, answered) \o RangeHeader(answered)
           status == IF answered.range # <<>> THEN 206 ELSE Shape(op).ok
<1>1. PICK n : /\ Fitting(n, Shape(op).headerOut, HeaderTypes(op)) /\ (op.oneWay => n = 0)
               /\ \A j \in 1..n : /\ Shape(op).headerOut[j] # "content-type"
                                  /\ Shape(op).body = "stream" => Shape(op).headerOut[j] # "content-range"
  BY DEF MayAnswer
<1>2. OwnHeaders(op, answered, own)
  BY WhatIsOwn
<1>3. Travels(op, lang, answered, n)
  <2>1. CASE op.oneWay
    <3>1. answered.headers = <<>> /\ answered.type = <<>> /\ answered.range = <<>>
      BY <2>1
    <3>2. DOMAIN HeaderTypes(op) = {}
      BY <2>1, <1>1 DEF Fitting
    <3>3. <<>> \in Tuples(HeaderTypes(op))
      BY <3>2 DEF Tuples
    <3> QED BY <3>1, <3>3, <1>1 DEF Travels
  <2>2. CASE ~op.oneWay
    BY <2>2, <1>1 DEF Travels
  <2> QED BY <2>1, <2>2
<1>4. Shape(op).body = "stream" /\ answered.range = <<>> => Shape(op).ok # 206
  BY DEF Unambiguous
<1>5. ResponseTo(lang, op, answered) = Checked(status, Sent(op, lang, answered, own), AnswerBody(op))
  <2>1. CASE op.oneWay
    <3>1. answered.range = <<>>
      BY <2>1
    <3>2. Holds(Sent(op, lang, answered, own), own, HeadersPushed(lang, Shape(op).headerOut, answered.headers))
          /\ Pushes(lang, n, Shape(op).headerOut, answered.headers, HeadersPushed(lang, Shape(op).headerOut, answered.headers))
      BY <1>2, <1>3, SentHolds
    <3> DEFINE sent == Sent(op, lang, answered, own)
               pushed == HeadersPushed(lang, Shape(op).headerOut, answered.headers)
    <3> HIDE DEF sent, pushed, own
    <3>3. \A k : k \notin 1..Len(own)
      BY <3>1, <2>1, <1>2 DEF OwnHeaders
    <3>4. n = 0
      BY <2>1, <1>1
    <3>5. \A k : k \notin 1..Len(pushed)
      BY <3>2, <3>4 DEF Pushes, pushed
    <3>6. \A k : k \notin 1..Len(sent)
      BY <3>2, <3>3, <3>5 DEF Holds, sent, pushed
    <3>7. sent = <<>>
      <4>1. PICK U : sent \in Seq(U)
        BY <3>2 DEF Holds, sent
      <4>2. Len(sent) = 0
        <5>1. Len(sent) \in Nat
          BY <4>1
        <5>2. Len(sent) \notin 1..Len(sent)
          BY <3>6
        <5> QED BY <5>1, <5>2
      <4> QED BY <4>1, <4>2
    <3>8. ResponseTo(lang, op, answered) = Checked(Shape(op).ok, <<>>, Nothing)
      BY <2>1 DEF ResponseTo
    <3>9. AnswerBody(op) = Nothing
      BY <2>1 DEF AnswerBody
    <3> QED BY <3>1, <3>7, <3>8, <3>9 DEF sent
  <2>2. CASE ~op.oneWay
    <3>1. ResponseTo(lang, op, answered) = Checked(status, OkHeaders(lang, op, answered), AnswerBody(op))
      BY <2>2 DEF ResponseTo
    <3>2. OkHeaders(lang, op, answered) = Sent(op, lang, answered, own)
      BY DEF OkHeaders, Sent, TypeHeader, RangeHeader, Typed
    <3> HIDE DEF status, own
    <3> QED BY <3>1, <3>2
  <2> QED BY <2>1, <2>2
<1> HIDE DEF own
<1>6. OutcomeOf(op, Checked(status, Sent(op, lang, answered, own), AnswerBody(op))) = Owed(op, lang, answered)
  BY <1>2, <1>3, <1>4, OkIsOwed
<1> QED BY <1>5, <1>6

(* Whatever the implementation answers, its client reads what it is owed.                      *)
LEMMA AnswerComesBack ==
  ASSUME NEW op, NEW lang, NEW answered \in Results(op),
         MayAnswer(op), ~op.oneWay => MayDecline(op), op.oneWay => ~Typed(op),
         Unambiguous(op, answered),
         answered.is # "panic" =>
           HeadersTravel(lang, IF answered.is = "ok" THEN HeaderTypes(op) ELSE ErrorHeaderTypes(op), answered.headers)
  PROVE  OutcomeOf(op, ResponseTo(lang, op, answered)) = Owed(op, lang, answered)
<1>1. PanicsShow(op)
  BY DEF Unambiguous, PanicsShow
<1>2. CASE answered = [is |-> "panic"]
  <2>1. answered.is = "panic"
    BY <1>2
  <2>2. ResponseTo(lang, op, answered) = FaultResponse("handler_panic") /\ Owed(op, lang, answered) = Fault("handler_panic")
    BY <2>1 DEF ResponseTo, Owed
  <2> QED BY <2>2, <1>1, PanicIsRead
<1>3. CASE \/ op.oneWay /\ answered = [is |-> "ok", headers |-> <<>>, type |-> <<>>, range |-> <<>>]
           \/ /\ ~op.oneWay /\ answered.is = "ok" /\ answered.headers \in Tuples(HeaderTypes(op))
              /\ ~Typed(op) => answered.type = <<>>
              /\ answered.range # <<>> => Shape(op).body = "stream"
  <2>1. answered.is = "ok"
    BY <1>3
  <2>2. HeadersTravel(lang, HeaderTypes(op), answered.headers)
    BY <2>1
  <2> QED BY <2>1, <2>2, <1>1, <1>3, OkComesBack
<1>4. CASE /\ ~op.oneWay /\ answered.headers \in Tuples(ErrorHeaderTypes(op))
           /\ answered = [is |-> "declared", variant |-> answered.variant, headers |-> answered.headers]
           /\ Shape(op).errors # <<>> => answered.variant \in DOMAIN Shape(op).errors
  <2>1. answered.is = "declared"
    BY <1>4
  <2>2. HeadersTravel(lang, ErrorHeaderTypes(op), answered.headers)
    BY <2>1
  <2> QED BY <2>2, <1>1, <1>4, DeclaredIsOwed
<1> QED BY <1>2, <1>3, <1>4, AnswersAre

----------------------------------------------------------------------------
(* The exchange answers as its implementation did.                          *)

(* What is behind the response: a fault or the document where nothing was answered, and otherwise *)
(* what the arm of the operation that ran makes of the answer.                                   *)
Behind ==
  IF result = Nothing
  THEN response.body.is = "document" \/ \E kind : response = FaultResponse(kind)
  ELSE /\ ran # Nothing /\ result \in Results(service.operations[ran.op])
       /\ response = ResponseTo(server, service.operations[ran.op], result)

Settled == outcome \notin {Nothing, Fault("transport_failure")}

Replied ==
  /\ service \in Services /\ Accepted(service) /\ called \in DOMAIN service.operations
  /\ phase \in {"calling", "sent", "handling"} => result = Nothing
  /\ phase = "handling" => ran # Nothing
  /\ phase = "calling" => outcome = Nothing
  /\ phase = "answered" => response # Nothing /\ Behind
  /\ Settled => phase = "over" /\ OutcomeIsTheHandlers

(* Nothing has been answered at first.                                                         *)
LEMMA RepliedAtFirst == Init => Replied
BY DEF Init, Replied, Settled

(* The outcome a client reads is the one it is owed.                        *)
LEMMA ReadIsOwed ==
  ASSUME Replied, phase = "answered", ItsOwnAnswer
  PROVE  IF result = Nothing
         THEN Shape(Op).ok \notin {400, 404, 500} => OutcomeOf(Op, response).is = "fault"
         ELSE /\ Unambiguous(Op, result)
              /\ result.is # "panic" =>
                   HeadersTravel(server, IF result.is = "ok" THEN HeaderTypes(Op) ELSE ErrorHeaderTypes(Op),
                                 result.headers)
              => OutcomeOf(Op, response) = Owed(Op, server, result)
<1>1. response # Nothing /\ Behind
  BY DEF Replied
<1>2. CASE result = Nothing
  <2>1. PICK kind : response = FaultResponse(kind)
    BY <1>1, <1>2 DEF Behind, ItsOwnAnswer
  <2> QED BY <2>1, <1>2, FaultIsRead
<1>3. CASE result # Nothing
  <2>1. ran.op = called /\ result \in Results(Op) /\ response = ResponseTo(server, Op, result)
    BY <1>1, <1>3 DEF Behind, ItsOwnAnswer, Op
  <2>2. /\ MayAnswer(Op) /\ (~Op.oneWay => MayDecline(Op)) /\ (Op.oneWay => ~Typed(Op))
    BY HeadersOfAnOperation DEF Replied, Op, MayAnswer, MayDecline
  <2> QED BY <2>1, <2>2, <1>3, AnswerComesBack
<1> QED BY <1>2, <1>3

(* No action leaves Replied.                                                *)
LEMMA RepliedIsKept ==
  ASSUME Replied, [Next]_vars PROVE Replied'
<1>1. ASSUME UNCHANGED call
      PROVE  service' \in Services /\ Accepted(service') /\ called' \in DOMAIN service'.operations
  BY <1>1 DEF call, Replied
<1>2. ASSUME phase # "over", outcome' = outcome PROVE ~Settled'
  BY <1>2 DEF Replied, Settled
<1>3. \A kind : FaultResponse(kind) # Nothing
  BY DEF FaultResponse, Nothing
<1>4. CASE Call
  <2>1. UNCHANGED <<call, ran, result, response>> /\ phase = "calling" /\ phase' \in {"sent", "over"}
    BY <1>4 DEF Call
  <2>2. CASE StopsItself(Op, client, args)
    <3>1. phase' = "over" /\ outcome' = Fault("failed_validation") /\ result' = Nothing
      BY <1>4, <2>1, <2>2 DEF Call, Replied
    <3>2. outcome'.is = "fault"
      BY <3>1 DEF Fault
    <3>3. OutcomeIsTheHandlers'
      BY <3>1, <3>2 DEF OutcomeIsTheHandlers
    <3> QED BY <3>1, <3>3, <2>1, <1>1 DEF Replied
  <2>3. CASE ~StopsItself(Op, client, args)
    <3>1. phase' = "sent" /\ outcome' = outcome
      BY <1>4, <2>3 DEF Call
    <3> QED BY <3>1, <2>1, <1>1, <1>2 DEF Replied
  <2> QED BY <2>2, <2>3
<1>5. CASE Dispatch
  <2>1. phase = "sent" /\ UNCHANGED <<call, result, outcome>> /\ result = Nothing
    BY <1>5 DEF Dispatch, Replied
  <2> DEFINE document == [status |-> 200, headers |-> <<>>, body |-> [is |-> "document"]]
  <2>2. \/ phase' = "answered" /\ (response' = document \/ \E kind : response' = FaultResponse(kind))
        \/ phase' = "handling" /\ \E arm, given : ran' = [is |-> "call", op |-> arm, args |-> given]
    BY <1>5 DEF Dispatch, Answer
  <2>3. CASE phase' = "answered" /\ (response' = document \/ \E kind : response' = FaultResponse(kind))
    <3>1. document # Nothing /\ document.body.is = "document"
      BY DEF Nothing
    <3> HIDE DEF document
    <3>2. response' # Nothing /\ Behind'
      BY <2>1, <2>3, <3>1, <1>3 DEF Behind
    <3> QED BY <2>1, <2>3, <3>2, <1>1, <1>2 DEF Replied
  <2>4. CASE phase' = "handling" /\ \E arm, given : ran' = [is |-> "call", op |-> arm, args |-> given]
    <3>1. ran' # Nothing
      BY <2>4 DEF Nothing
    <3> QED BY <2>1, <2>4, <3>1, <1>1, <1>2 DEF Replied
  <2> QED BY <2>2, <2>3, <2>4
<1>6. CASE Handle
  <2>1. phase = "handling" /\ phase' = "answered" /\ UNCHANGED <<call, ran, outcome>> /\ ran # Nothing
    BY <1>6 DEF Handle, Answer, Replied
  <2>2. /\ result' \in Results(service.operations[ran.op])
        /\ response' = ResponseTo(server, service.operations[ran.op], result')
    BY <1>6 DEF Handle, Answer
  <2>3. result' # Nothing
    BY <2>2, AnswersAre DEF Nothing
  <2>4. response' # Nothing
    <3>1. \A status, headers, body : Checked(status, headers, body) # Nothing
      BY <1>3 DEF Checked, Nothing
    <3> QED BY <2>2, <3>1, <1>3 DEF ResponseTo
  <2>5. Behind'
    BY <2>1, <2>2, <2>3 DEF Behind, call
  <2> QED BY <2>1, <2>4, <2>5, <1>1, <1>2 DEF Replied
<1>7. CASE Lose
  <2>1. phase # "over" /\ phase' = "over" /\ UNCHANGED <<call, request, ran, result, response, outcome>>
    BY <1>7 DEF Lose
  <2> QED BY <2>1, <1>1, <1>2 DEF Replied
<1>8. CASE TransportFails
  <2>1. /\ phase # "calling" /\ outcome' = Fault("transport_failure")
        /\ UNCHANGED <<call, phase, request, ran, result, response>>
    BY <1>8 DEF TransportFails
  <2>2. ~Settled'
    BY <2>1 DEF Settled
  <2>3. Behind => Behind'
    BY <2>1 DEF Behind, call
  <2> QED BY <2>1, <2>2, <2>3, <1>1 DEF Replied
<1>9. CASE Read
  <2>1. /\ phase = "answered" /\ phase' = "over" /\ outcome' = OutcomeOf(Op, response)
        /\ UNCHANGED <<call, request, ran, result, response>>
    BY <1>9 DEF Read
  <2>2. Op' = Op /\ server' = server
    BY <2>1 DEF Op, call
  <2>3. ItsOwnAnswer' => ItsOwnAnswer
    BY <2>1 DEF ItsOwnAnswer, call
  <2>4. OutcomeIsTheHandlers'
    <3> SUFFICES ASSUME ItsOwnAnswer'
                 PROVE  IF result' = Nothing
                        THEN Shape(Op').ok \notin {400, 404, 500} => outcome'.is = "fault"
                        ELSE /\ Unambiguous(Op', result')
                             /\ result'.is # "panic" =>
                                  HeadersTravel(server', IF result'.is = "ok" THEN HeaderTypes(Op')
                                                         ELSE ErrorHeaderTypes(Op'), result'.headers)
                             => outcome' = Owed(Op', server', result')
      BY DEF OutcomeIsTheHandlers
    <3> HIDE DEF Op
    <3> QED BY <2>1, <2>2, <2>3, ReadIsOwed
  <2> QED BY <2>1, <2>4, <1>1 DEF Replied
<1>10. CASE UNCHANGED vars
  <2>1. Behind => Behind'
    BY <1>10 DEF Behind, vars
  <2>2. OutcomeIsTheHandlers => OutcomeIsTheHandlers'
    BY <1>10 DEF OutcomeIsTheHandlers, ItsOwnAnswer, Op, vars
  <2>3. Settled' => Settled
    BY <1>10 DEF Settled, vars
  <2> QED BY <2>1, <2>2, <2>3, <1>10 DEF Replied, vars
<1> QED BY <1>4, <1>5, <1>6, <1>7, <1>8, <1>9, <1>10 DEF Next

(* The client's outcome is the implementation's answer, for every accepted service, every pair of  *)
(* languages and every answer whose status says which answer it is and whose headers can travel.  *)
THEOREM OutcomesAreTheHandlers == Spec => []OutcomeIsTheHandlers
<1>1. Replied => OutcomeIsTheHandlers
  BY DEF Replied, OutcomeIsTheHandlers, Settled
<1>2. Replied /\ [Next]_vars => Replied'
  BY RepliedIsKept
<1> QED BY <1>1, <1>2, RepliedAtFirst, PTL DEF Spec

----------------------------------------------------------------------------
(* The texts of a caller, and what a client writes of them.                 *)

(* A caller's text is one that escapes and comes back.                      *)
LEMMA TextsAreTexted ==
  /\ \A t \in Texts : Texted(t)
  /\ \A n \in Numerals : Texted(<<n>>)
  /\ \A list \in Lists : \A i \in 1..Len(list) : Texted(list[i])
<1>1. ASSUME NEW t \in Seq(STRING), ToSet(t) \cap Codes = {} PROVE Texted(t)
  <2>1. t \in [1..Len(t) -> STRING] /\ Len(t) \in Nat /\ DOMAIN t = 1..Len(t)
    OBVIOUS
  <2>2. \A i \in 1..Len(t) : t[i] \in Plain
    BY <1>1, <2>1 DEF ToSet, Plain, Atoms
  <2>3. t \in [1..Len(t) -> Plain]
    BY <2>1, <2>2
  <2> QED BY <2>1, <2>3, Sequence DEF Texted
<1>2. /\ Numerals \cap Codes = {}
      /\ \A text \in Texts \cup UNION {ToSet(list) : list \in Lists} : ToSet(text) \cap Codes = {}
  BY TextsAreUnescaped DEF Codes
<1>3. \A t \in Texts : Texted(t)
  BY <1>1, <1>2, TextsAreSequences
<1>4. ASSUME NEW n \in Numerals PROVE Texted(<<n>>)
  <2>1. n \in Plain
    BY <1>2, TextsAreSequences DEF Plain, Atoms
  <2> QED BY <2>1 DEF Texted
<1>5. ASSUME NEW list \in Lists, NEW i \in 1..Len(list) PROVE Texted(list[i])
  <2>1. list \in Seq(Seq(STRING))
    BY TextsAreSequences
  <2>2. list[i] \in Seq(STRING) /\ i \in DOMAIN list
    BY <2>1
  <2>3. list[i] \in UNION {ToSet(l) : l \in Lists}
    BY <2>2 DEF ToSet
  <2> QED BY <1>1, <1>2, <2>2, <2>3
<1> QED BY <1>3, <1>4, <1>5

(* The lists a caller may hold, as functions of their elements.                                *)
LEMMA JoinedIsText ==
  ASSUME NEW of, NEW n \in Nat, DOMAIN of = 1..n, \A i \in 1..n : Texted(Scalar(of[i]))
  PROVE  Texted(JoinedList(of))
<1> DEFINE texts == [i \in 1..n |-> Scalar(of[i])]
           V == Seq(Plain)
<1>1. JoinedList(of) = Join(texts)
  BY DEF JoinedList
<1>2. texts \in [1..n -> V]
  BY DEF Texted
<1> HIDE DEF texts
<1>3. texts \in Seq(V)
  <2> HIDE DEF V
  <2> QED BY <1>2, Sequence
<1>4. Comma \in Plain /\ Plain \subseteq Atoms
  BY EscapesAreApart DEF Plain, Atoms
<1>5. Join(texts) \in Seq(Plain)
  <2> DEFINE A == Plain
  <2>1. A \in SUBSET Atoms /\ Comma \in A /\ texts \in Seq(Seq(A))
    BY <1>3, <1>4
  <2> HIDE DEF A
  <2>2. Join(texts) \in Seq(A)
    BY <2>1, JoinKeepsTo
  <2> QED BY <2>2 DEF A
<1> QED BY <1>1, <1>5 DEF Texted

(* What a value that can travel is written as is a text that escapes and comes back.             *)
LEMMA WrittenIsText ==
  ASSUME NEW type, type.reads \in {"text", "number"}, NEW rule, NEW absent,
         NEW value \in Values(type), value # Null, TextTravels(rule, type, value)
  PROVE  Texted(Rendered(rule, absent, value))
<1>1. type.holds \in {"text", "number"} /\ type.reads = type.holds
  BY DEF TextTravels
<1>4. /\ \A text : Scalar(TextValue(text)) = text /\ TextValue(text).is = "string"
      /\ \A n : Scalar(NumberValue(n)) = <<n>> /\ NumberValue(n).is = "number"
      /\ \A of : ListValue(of).is = "list" /\ ListValue(of).of = of
  BY DEF Scalar, TextValue, NumberValue, ListValue
<1>5. CASE type.list
  <2>1. value \in ListValues(type)
    BY <1>1, <1>5 DEF Values
  <2>2. value.is = "list"
    BY <2>1, <1>4 DEF ListValues
  <2>3. rule = "joined"
    BY <2>2 DEF TextTravels, ListTravels
  <2>4. Rendered(rule, absent, value) = JoinedList(value.of)
    BY <2>2, <2>3 DEF Rendered
  <2>5. \E n \in Nat : DOMAIN value.of = 1..n /\ \A i \in 1..n : Texted(Scalar(value.of[i]))
    <3>1. CASE type.holds = "number" /\ value = ListValue(<<>>)
      <4>1. value.of = <<>>
        BY <3>1, <1>4
      <4>2. DOMAIN value.of = 1..0 /\ 0 \in Nat
        BY <4>1
      <4> QED BY <4>2
    <3>2. CASE type.holds = "number" /\ value # ListValue(<<>>)
      <4>1. PICK n \in Numerals : value = ListValue(<<NumberValue(n), NumberValue(n)>>)
        BY <2>1, <3>2 DEF ListValues
      <4> DEFINE one == NumberValue(n)
                 pair == <<one, one>>
      <4>2. DOMAIN pair = 1..2 /\ \A i \in 1..2 : pair[i] = one
        OBVIOUS
      <4>3. value.of = pair /\ Texted(Scalar(one))
        BY <4>1, <1>4, TextsAreTexted
      <4> HIDE DEF one, pair
      <4> QED BY <4>2, <4>3
    <3>3. CASE type.holds # "number"
      <4>1. PICK list \in Lists : value = ListValue([i \in DOMAIN list |-> TextValue(list[i])])
        BY <2>1, <3>3 DEF ListValues
      <4>2. DOMAIN list = 1..Len(list) /\ Len(list) \in Nat
        BY TextsAreSequences
      <4> DEFINE texts == [i \in DOMAIN list |-> TextValue(list[i])]
      <4>3. DOMAIN texts = 1..Len(list) /\ \A i \in 1..Len(list) : texts[i] = TextValue(list[i])
        BY <4>2
      <4>4. value.of = texts
        BY <4>1, <1>4
      <4> HIDE DEF texts
      <4>5. \A i \in 1..Len(list) : Texted(Scalar(value.of[i]))
        BY <4>3, <4>4, <1>4, TextsAreTexted
      <4> QED BY <4>2, <4>3, <4>4, <4>5
    <3> QED BY <3>1, <3>2, <3>3
  <2> QED BY <2>4, <2>5, JoinedIsText
<1>6. CASE ~type.list
  <2>1. value \in ScalarValues(type)
    BY <1>1, <1>6 DEF Values
  <2>2. CASE type.holds = "number"
    <3>1. PICK n \in Numerals : value = NumberValue(n)
      BY <2>1, <2>2 DEF ScalarValues
    <3>2. Rendered(rule, absent, value) = <<n>>
      BY <3>1, <1>4 DEF Rendered
    <3> QED BY <3>1, <3>2, TextsAreTexted
  <2>3. CASE type.holds = "text"
    <3>1. PICK t \in Texts : value = TextValue(t)
      BY <2>1, <2>3 DEF ScalarValues
    <3>2. Rendered(rule, absent, value) = t
      BY <3>1, <1>4 DEF Rendered
    <3> QED BY <3>1, <3>2, TextsAreTexted
  <2> QED BY <2>2, <2>3, <1>1
<1> QED BY <1>5, <1>6

(* What a declared operation is known to be.                                *)
SoundType(type) ==
  /\ type.holds \in {"text", "number", "file", "object"}
  /\ type.reads \in {"text", "number"}
  /\ type.list => type.holds \in {"text", "number"}
  /\ IsInjective([m \in DOMAIN type.fields |-> type.fields[m].name])

Declared(op) ==
  /\ AcceptedOperation(op) /\ Shape(op).path \in Templates
  /\ \A list \in {op.args, Shape(op).headerIn, Shape(op).parts} : list \in Seq(ToSet(list))
  /\ IsInjective([k \in DOMAIN op.args |-> op.args[k].name])
  /\ \A arg \in ToSet(op.args) : SoundType(arg.type)

(* The operations of an accepted service are declared.                      *)
LEMMA OperationsAreDeclared ==
  ASSUME NEW s \in Services, Accepted(s), NEW i \in DOMAIN s.operations
  PROVE  Declared(s.operations[i])
<1>1. AcceptedOperation(s.operations[i])
  BY DEF Accepted
<1>2. Shape(s.operations[i]).path \in Templates
  BY ServicesAreSequences
<1> QED BY <1>1, <1>2, ArgumentsAreTyped DEF Declared, SoundType

(* The arguments a binding of http(...) takes from the message.             *)
Claimed(op) == Named(Shape(op).headerIn) \cup Named(Shape(op).parts)

(* An argument is of the type its name has.                                 *)
LEMMA ArgumentsHaveTypes ==
  ASSUME NEW op, Declared(op)
  PROVE  /\ \A arg \in ToSet(op.args) : arg.name \in ArgumentNames(op) /\ TypeOfArgument(op, arg.name) = arg.type
         /\ \A name \in ArgumentNames(op) :
              SoundType(TypeOfArgument(op, name)) /\ \E arg \in ToSet(op.args) : arg.name = name
<1>1. /\ IsInjective([k \in DOMAIN op.args |-> op.args[k].name])
      /\ \A arg \in ToSet(op.args) : SoundType(arg.type)
  BY DEF Declared
<1> DEFINE Name(k) == op.args[k].name
<1>2. \A k, l \in DOMAIN op.args : Name(k) = Name(l) => k = l
  BY <1>1 DEF IsInjective
<1>3. ASSUME NEW k \in DOMAIN op.args PROVE TypeOfArgument(op, Name(k)) = op.args[k].type /\ Name(k) \in ArgumentNames(op)
  BY <1>2 DEF TypeOfArgument, ArgumentNames
<1>4. \A arg \in ToSet(op.args) : \E k \in DOMAIN op.args : arg = op.args[k]
  BY DEF ToSet
<1>5. \A name \in ArgumentNames(op) : \E k \in DOMAIN op.args : name = Name(k) /\ op.args[k] \in ToSet(op.args)
  BY DEF ArgumentNames, ToSet
<1> QED BY <1>1, <1>3, <1>4, <1>5

(* The message has the arguments no binding claims.                         *)
LEMMA ArgumentsOfTheMessage ==
  ASSUME NEW op, Declared(op)
  PROVE  /\ \E V : MessageArguments(op) \in Seq(V)
         /\ \A i \in 1..Len(MessageArguments(op)) :
              MessageArguments(op)[i] \in ToSet(op.args) /\ MessageArguments(op)[i].name \notin Claimed(op)
         /\ MessageFields(op) = ArgumentNames(op) \ Claimed(op)
         /\ ToSet(MessageArguments(op)) = {arg \in ToSet(op.args) : arg.name \notin Claimed(op)}
<1> DEFINE claimed == IF op.bound THEN Named(op.headerIn) \cup Named(op.parts) ELSE {}
           wanted == {arg \in ToSet(op.args) : arg.name \notin claimed}
           only == MessageArguments(op)
<1>1. claimed = Claimed(op)
  <2>1. CASE op.bound
    <3>1. Shape(op).headerIn = op.headerIn /\ Shape(op).parts = op.parts
      BY <2>1 DEF Shape
    <3> QED BY <2>1, <3>1 DEF Claimed
  <2>2. CASE ~op.bound
    <3>1. Shape(op).headerIn = <<>> /\ Shape(op).parts = <<>>
      BY <2>2 DEF Shape
    <3>2. Named(<<>>) = {}
      BY DEF Named
    <3> QED BY <2>2, <3>1, <3>2 DEF Claimed
  <2> QED BY <2>1, <2>2
<1>2. op.args \in Seq(ToSet(op.args))
  BY DEF Declared
<1>3. only = Only(op.args, wanted)
  BY DEF MessageArguments
<1>4. \A x : x \in wanted <=> x \in ToSet(op.args) /\ x.name \notin Claimed(op)
  BY <1>1
<1> HIDE DEF claimed, wanted, only
<1>5. Keeps(only, op.args, wanted)
  BY <1>2, <1>3, OnlyKeeps
<1>6. /\ \E V : only \in Seq(V)
      /\ \A i \in 1..Len(only) : \E j \in 1..Len(op.args) : only[i] = op.args[j] /\ op.args[j] \in wanted
      /\ \A j \in 1..Len(op.args) : op.args[j] \in wanted => \E i \in 1..Len(only) : only[i] = op.args[j]
  BY <1>5 DEF Keeps
<1>7. \A i \in 1..Len(only) : only[i] \in ToSet(op.args) /\ only[i].name \notin Claimed(op)
  BY <1>4, <1>6
<1>8. DOMAIN only = 1..Len(only) /\ DOMAIN op.args = 1..Len(op.args)
  BY <1>2, <1>6
<1>9. ToSet(only) = {arg \in ToSet(op.args) : arg.name \notin Claimed(op)}
  <2>1. \A x \in ToSet(only) : x \in ToSet(op.args) /\ x.name \notin Claimed(op)
    BY <1>7, <1>8 DEF ToSet
  <2>2. ASSUME NEW x \in ToSet(op.args), x.name \notin Claimed(op) PROVE x \in ToSet(only)
    <3>1. PICK j \in 1..Len(op.args) : x = op.args[j]
      BY <1>8 DEF ToSet
    <3>2. PICK i \in 1..Len(only) : only[i] = x
      BY <3>1, <2>2, <1>4, <1>6
    <3> QED BY <3>2, <1>8 DEF ToSet
  <2> QED BY <2>1, <2>2
<1>10. MessageFields(op) = {arg.name : arg \in ToSet(only)}
  BY DEF MessageFields, ToSet, only
<1>11. ArgumentNames(op) = {arg.name : arg \in ToSet(op.args)}
  BY DEF ArgumentNames, ToSet
<1>12. MessageFields(op) = ArgumentNames(op) \ Claimed(op)
  <2>1. \A x \in MessageFields(op) : x \in ArgumentNames(op) \ Claimed(op)
    BY <1>9, <1>10, <1>11
  <2>2. \A x \in ArgumentNames(op) \ Claimed(op) : x \in MessageFields(op)
    BY <1>9, <1>10, <1>11
  <2> QED BY <2>1, <2>2
<1> QED BY <1>6, <1>7, <1>9, <1>12 DEF only

----------------------------------------------------------------------------
(* Lists of entries, as the sets of what they hold.                         *)
Catalogue(entries, all) ==
  /\ \E V : entries \in Seq(V)
  /\ \A k \in 1..Len(entries) : entries[k] \in all
  /\ \A e \in all : \E k \in 1..Len(entries) : entries[k] = e

(* What is made of each wanted element of a list.                           *)
LEMMA MadeOfTheWanted ==
  ASSUME NEW V, NEW seq \in Seq(V), NEW wanted, NEW make
  PROVE  Catalogue([i \in DOMAIN Only(seq, wanted) |-> make[Only(seq, wanted)[i]]],
               {make[x] : x \in ToSet(seq) \cap wanted})
<1> DEFINE only == Only(seq, wanted)
           entries == [i \in DOMAIN only |-> make[only[i]]]
           W == {make[only[i]] : i \in 1..Len(only)}
<1>1. Keeps(only, seq, wanted)
  BY OnlyKeeps
<1> HIDE DEF only
<1>2. /\ \E U : only \in Seq(U)
      /\ \A i \in 1..Len(only) : \E j \in 1..Len(seq) : only[i] = seq[j] /\ seq[j] \in wanted
      /\ \A j \in 1..Len(seq) : seq[j] \in wanted => \E i \in 1..Len(only) : only[i] = seq[j]
  BY <1>1 DEF Keeps
<1>3. DOMAIN only = 1..Len(only) /\ Len(only) \in Nat /\ DOMAIN seq = 1..Len(seq)
  BY <1>2
<1>4. entries \in [1..Len(only) -> W] /\ \A i \in 1..Len(only) : entries[i] = make[only[i]]
  BY <1>3
<1> HIDE DEF W
<1>5. entries \in Seq(W) /\ Len(entries) = Len(only)
  <2> HIDE DEF entries
  <2>1. entries \in Seq(W)
    BY <1>3, <1>4, Sequence
  <2>2. entries = [i \in 1..Len(only) |-> entries[i]]
    BY <1>4
  <2> QED BY <2>1, <2>2, <1>3, LengthOfText
<1>6. \A i \in 1..Len(only) : only[i] \in ToSet(seq) \cap wanted
  BY <1>2, <1>3 DEF ToSet
<1>7. \A x \in ToSet(seq) \cap wanted : \E i \in 1..Len(only) : only[i] = x
  BY <1>2, <1>3 DEF ToSet
<1> HIDE DEF entries
<1>8. \A k \in 1..Len(entries) : entries[k] \in {make[x] : x \in ToSet(seq) \cap wanted}
  BY <1>4, <1>5, <1>6
<1>9. ASSUME NEW e \in {make[x] : x \in ToSet(seq) \cap wanted} PROVE \E k \in 1..Len(entries) : entries[k] = e
  <2>1. PICK x \in ToSet(seq) \cap wanted : e = make[x]
    OBVIOUS
  <2>2. PICK i \in 1..Len(only) : only[i] = x
    BY <1>7
  <2> QED BY <2>1, <2>2, <1>4, <1>5
<1> QED BY <1>5, <1>8, <1>9 DEF Catalogue, entries, only

(* What one list after another holds.                                       *)
LEMMA ListsTogether ==
  ASSUME NEW s, NEW all, Catalogue(s, all), NEW t, NEW more, Catalogue(t, more)
  PROVE  Catalogue(s \o t, all \cup more)
<1>1. PICK V : s \in Seq(V)
  BY DEF Catalogue
<1>2. PICK W : t \in Seq(W)
  BY DEF Catalogue
<1>3. Holds(s \o t, s, t)
  BY <1>1, <1>2, OneAfterAnother
<1> DEFINE whole == s \o t
<1> HIDE DEF whole
<1>4. /\ \E U : whole \in Seq(U)
      /\ \A k \in 1..Len(whole) : \/ \E i \in 1..Len(s) : whole[k] = s[i]
                                 \/ \E j \in 1..Len(t) : whole[k] = t[j]
      /\ \A i \in 1..Len(s) : \E k \in 1..Len(whole) : whole[k] = s[i]
      /\ \A j \in 1..Len(t) : \E k \in 1..Len(whole) : whole[k] = t[j]
  BY <1>3 DEF Holds, whole
<1>5. /\ \A i \in 1..Len(s) : s[i] \in all
      /\ \A e \in all : \E i \in 1..Len(s) : s[i] = e
      /\ \A j \in 1..Len(t) : t[j] \in more
      /\ \A e \in more : \E j \in 1..Len(t) : t[j] = e
  BY DEF Catalogue
<1>6. \A k \in 1..Len(whole) : whole[k] \in all \cup more
  BY <1>4, <1>5
<1>7. ASSUME NEW e \in all \cup more PROVE \E k \in 1..Len(whole) : whole[k] = e
  <2>1. CASE e \in all
    <3>1. PICK i \in 1..Len(s) : s[i] = e
      BY <2>1, <1>5
    <3> QED BY <3>1, <1>4
  <2>2. CASE e \in more
    <3>1. PICK j \in 1..Len(t) : t[j] = e
      BY <2>2, <1>5
    <3> QED BY <3>1, <1>4
  <2> QED BY <2>1, <2>2
<1> QED BY <1>4, <1>6, <1>7 DEF Catalogue, whole

(* What is found under a name: what the entries of that name hold, or nothing.                   *)
LEMMA FoundInList ==
  ASSUME NEW entries, NEW all, Catalogue(entries, all), NEW e \in all,
         \A f \in all : f.name = e.name => f.of = e.of
  PROVE  Find(entries, e.name, 1) = e.of
<1>1. PICK V : entries \in Seq(V)
  BY DEF Catalogue
<1>2. /\ \A k \in 1..Len(entries) : entries[k] \in all
      /\ \E k \in 1..Len(entries) : entries[k] = e
  BY DEF Catalogue
<1>3. Tells(entries, e.name, e.of)
  BY <1>2 DEF Tells
<1> QED BY <1>1, <1>3, FindsIt

(* Nothing is found under a name no entry has.                                                  *)
LEMMA NotFoundInList ==
  ASSUME NEW entries, NEW all, Catalogue(entries, all), NEW name, \A f \in all : f.name # name
  PROVE  Find(entries, name, 1) = Nothing
<1>1. PICK V : entries \in Seq(V)
  BY DEF Catalogue
<1>2. \A k \in 1..Len(entries) : entries[k].name # name
  BY DEF Catalogue
<1> QED BY <1>1, <1>2, FindsNothing

----------------------------------------------------------------------------
(* The arguments of a call, where each travels, and what is read of it.     *)

(* The arguments of a call of an operation.                                 *)
GivenTo(op, given) ==
  /\ given = [name \in ArgumentNames(op) |-> given[name]]
  /\ \A name \in ArgumentNames(op) : given[name] \in Values(TypeOfArgument(op, name))

(* A message of a type of its own holds each of its members, of the member's type.               *)
HasMembers(type, f) ==
  /\ DOMAIN f = {type.fields[i].name : i \in DOMAIN type.fields}
  /\ \A i \in DOMAIN type.fields : Conforms(type.fields[i].type, f[type.fields[i].name])
  /\ \A m \in DOMAIN f : \E i \in DOMAIN type.fields : f[m] \in ScalarValues(type.fields[i].type)

(* Every message of a type of its own is an object of those members.                            *)
LEMMA MessagesHaveMembers ==
  ASSUME NEW type, SoundType(type), NEW value \in MessageValues(type)
  PROVE  \E f : value = ObjectValue(f) /\ f = [m \in DOMAIN f |-> f[m]] /\ HasMembers(type, f)
<1> DEFINE members == {type.fields[i].name : i \in DOMAIN type.fields}
           Type(m) == type.fields[CHOOSE i \in DOMAIN type.fields : type.fields[i].name = m].type
           held == UNION {ScalarValues(Type(m)) : m \in members}
           fitting == {f \in [members -> held] : \A m \in members : Conforms(Type(m), f[m])}
<1>1. MessageValues(type) = {ObjectValue(f) : f \in fitting}
  BY DEF MessageValues
<1>2. \A i, j \in DOMAIN type.fields : type.fields[i].name = type.fields[j].name => i = j
  BY DEF SoundType, IsInjective
<1>3. \A i \in DOMAIN type.fields : Type(type.fields[i].name) = type.fields[i].type
  BY <1>2
<1>4. \A m \in members : \E i \in DOMAIN type.fields : m = type.fields[i].name
  OBVIOUS
<1>5. \A i \in DOMAIN type.fields : type.fields[i].name \in members
  OBVIOUS
<1>6. PICK f \in fitting : value = ObjectValue(f)
  <2> HIDE DEF fitting
  <2> QED BY <1>1
<1>7. f \in [members -> held] /\ \A m \in members : Conforms(Type(m), f[m])
  BY <1>6
<1> HIDE DEF Type, members, fitting
<1>8. \A x \in held : \E m \in members : x \in ScalarValues(Type(m))
  OBVIOUS
<1> HIDE DEF held
<1>9. DOMAIN f = members /\ f = [m \in DOMAIN f |-> f[m]] /\ \A m \in members : f[m] \in held
  BY <1>7
<1>10. \A m \in DOMAIN f : \E i \in DOMAIN type.fields : f[m] \in ScalarValues(type.fields[i].type)
  <2> TAKE m \in DOMAIN f
  <2>1. PICK l \in members : f[m] \in ScalarValues(Type(l))
    BY <1>8, <1>9
  <2> QED BY <2>1, <1>3, <1>4
<1>11. \A i \in DOMAIN type.fields : Conforms(type.fields[i].type, f[type.fields[i].name])
  BY <1>3, <1>5, <1>7
<1>12. HasMembers(type, f)
  BY <1>9, <1>10, <1>11 DEF HasMembers, members
<1> QED BY <1>6, <1>9, <1>12

(* Whatever an argument holds, its type takes.                              *)
LEMMA EveryHeldConforms ==
  ASSUME NEW type, SoundType(type), NEW value \in Values(type)
  PROVE  Conforms(type, value)
<1>1. CASE type.holds \in {"text", "number"}
  BY <1>1, HeldConforms
<1>2. CASE type.holds \notin {"text", "number"} /\ type.optional /\ value = Null
  BY <1>2 DEF Conforms
<1>3. CASE type.holds \notin {"text", "number"} /\ ~(type.optional /\ value = Null)
  <2>1. ~type.list
    BY <1>3 DEF SoundType
  <2>2. CASE type.holds = "object"
    <3>1. value \in MessageValues(type)
      BY <1>3, <2>1, <2>2 DEF Values
    <3>2. value.is = "object"
      BY <3>1, MessagesHaveMembers DEF ObjectValue
    <3> QED BY <2>1, <2>2, <3>2 DEF Conforms
  <2>3. CASE type.holds = "file"
    <3>1. value \in ScalarValues(type)
      BY <1>3, <2>1, <2>3 DEF Values
    <3>2. value.is = "file"
      BY <3>1, <2>3 DEF ScalarValues, FileValue
    <3> QED BY <2>1, <2>3, <3>2 DEF Conforms
  <2> QED BY <1>3, <2>2, <2>3 DEF SoundType
<1> QED BY <1>1, <1>2, <1>3

(* Header bindings name arguments, each under a name of its own.            *)
LEMMA HeaderBindings ==
  ASSUME NEW op, Declared(op)
  PROVE  /\ Shape(op).headerIn \in Seq(ToSet(Shape(op).headerIn))
         /\ DOMAIN Shape(op).headerIn = 1..Len(Shape(op).headerIn)
         /\ \A h \in ToSet(Shape(op).headerIn) : h.parameter \in ArgumentNames(op)
         /\ \A h, k \in ToSet(Shape(op).headerIn) : h.name = k.name => h = k
<1> DEFINE bindings == Shape(op).headerIn
<1>1. bindings \in Seq(ToSet(bindings))
  BY DEF Declared
<1>2. DOMAIN bindings = 1..Len(bindings)
  BY <1>1
<1>3. CASE ~op.bound
  <2>1. bindings = <<>>
    BY <1>3 DEF Shape
  <2>2. ToSet(bindings) = {}
    BY <2>1 DEF ToSet
  <2> HIDE DEF bindings
  <2> QED BY <2>2, <1>1, <1>2 DEF bindings
<1>4. CASE op.bound
  <2>1. bindings = op.headerIn /\ HeadersNameArguments(op) /\ HeaderNamesAreSafe(op)
    BY <1>4 DEF Shape, Declared, AcceptedOperation
  <2> HIDE DEF bindings
  <2>2. \A i \in DOMAIN bindings : bindings[i].parameter \in ArgumentNames(op)
    BY <2>1 DEF HeadersNameArguments, Named
  <2>3. \A i, j \in DOMAIN bindings : bindings[i].name = bindings[j].name => i = j
    BY <2>1 DEF HeaderNamesAreSafe, IsInjective
  <2>4. \A h \in ToSet(bindings) : \E i \in DOMAIN bindings : h = bindings[i]
    BY DEF ToSet
  <2>5. \A h \in ToSet(bindings) : h.parameter \in ArgumentNames(op)
    BY <2>2, <2>4
  <2>6. \A h, k \in ToSet(bindings) : h.name = k.name => h = k
    BY <2>3, <2>4
  <2> QED BY <2>5, <2>6, <1>1, <1>2 DEF bindings
<1> QED BY <1>3, <1>4

(* A header is read back as the argument it was written for.                *)
LEMMA HeadersArrive ==
  ASSUME NEW op, Declared(op), NEW lang, NEW given, GivenTo(op, given), Carried(op, lang, given),
         NEW h \in ToSet(Shape(op).headerIn)
  PROVE  HeaderValue(TypeOfArgument(op, h.parameter), h.name, HeadersOf(op, lang, given)) = given[h.parameter]
<1> DEFINE bindings == Shape(op).headerIn
           wanted == {b \in ToSet(bindings) : given[b.parameter] # Null}
           Text(b) == SegmentText(Clients[lang], given[b.parameter])
           make == [b \in ToSet(bindings) |-> TextEntry(b.name, Text(b))]
           only == Only(bindings, wanted)
           headers == HeadersOf(op, lang, given)
           all == {make[b] : b \in ToSet(bindings) \cap wanted}
           type == TypeOfArgument(op, h.parameter)
<1>1. /\ bindings \in Seq(ToSet(bindings)) /\ DOMAIN bindings = 1..Len(bindings)
      /\ \A b \in ToSet(bindings) : b.parameter \in ArgumentNames(op)
      /\ \A b, c \in ToSet(bindings) : b.name = c.name => b = c
  BY HeaderBindings
<1>2. headers = [i \in DOMAIN only |-> make[only[i]]]
  <2>1. headers = [i \in DOMAIN only |-> TextEntry(only[i].name, Text(only[i]))]
    BY DEF HeadersOf
  <2>2. \A i \in DOMAIN only : only[i] \in ToSet(bindings)
    <3> HIDE DEF wanted
    <3>1. Keeps(only, bindings, wanted)
      BY <1>1, OnlyKeeps
    <3> HIDE DEF only, bindings
    <3>2. (\E V : only \in Seq(V)) /\ \A i \in 1..Len(only) : \E j \in 1..Len(bindings) : only[i] = bindings[j]
      BY <3>1 DEF Keeps
    <3>3. DOMAIN only = 1..Len(only)
      BY <3>2
    <3> QED BY <3>2, <3>3, <1>1 DEF ToSet
  <2> HIDE DEF only, Text, bindings
  <2> QED BY <2>1, <2>2
<1>3. Catalogue(headers, all)
  <2> DEFINE V == ToSet(bindings)
  <2>1. bindings \in Seq(V)
    BY <1>1
  <2> HIDE DEF make, wanted, bindings, V
  <2>2. Catalogue([i \in DOMAIN Only(bindings, wanted) |-> make[Only(bindings, wanted)[i]]],
                  {make[x] : x \in ToSet(bindings) \cap wanted})
    BY <2>1, MadeOfTheWanted
  <2> QED BY <2>2, <1>2
<1>4. \A b \in ToSet(bindings) : make[b].name = b.name /\ make[b].of = TextValue(Text(b))
  <2> HIDE DEF Text
  <2> QED BY DEF TextEntry, Entry
<1>5. \A text : TextValue(text) # Nothing /\ TextValue(text).of = text
  BY DEF TextValue, Nothing
<1>6. CASE given[h.parameter] = Null
  <2>1. ASSUME NEW f \in all PROVE f.name # h.name
    <3>1. PICK b \in ToSet(bindings) : f = make[b] /\ given[b.parameter] # Null
      OBVIOUS
    <3> QED BY <3>1, <1>1, <1>4, <1>6
  <2> HIDE DEF headers, all, type
  <2>2. Find(headers, h.name, 1) = Nothing
    BY <1>3, <2>1, NotFoundInList
  <2>3. HeaderValue(type, h.name, headers) = Null
    BY <2>2 DEF HeaderValue
  <2> QED BY <2>3, <1>6 DEF headers, type
<1>7. CASE given[h.parameter] # Null
  <2> DEFINE e == make[h]
  <2>1. e \in all
    BY <1>7
  <2>2. ASSUME NEW f \in all, f.name = e.name PROVE f.of = e.of
    <3>1. PICK b \in ToSet(bindings) : f = make[b]
      OBVIOUS
    <3>2. b = h
      BY <3>1, <2>2, <1>1, <1>4
    <3> QED BY <3>1, <3>2
  <2>3. e.name = h.name /\ e.of = TextValue(Text(h))
    BY <1>4
  <2>4. SoundType(type) /\ given[h.parameter] \in Values(type)
    BY <1>1, ArgumentsHaveTypes DEF GivenTo
  <2>5. TextTravels(Clients[lang].segment, type, given[h.parameter])
    <3>1. PICK i \in DOMAIN bindings : h = bindings[i]
      BY DEF ToSet
    <3> QED BY <3>1 DEF Carried
  <2> HIDE DEF headers, all, e, type
  <2>6. Find(headers, h.name, 1) = TextValue(Text(h))
    <3>1. Find(headers, e.name, 1) = e.of
      BY <1>3, <2>1, <2>2, FoundInList
    <3> QED BY <3>1, <2>3
  <2>7. HeaderValue(type, h.name, headers) = Decoded(type, Text(h))
    BY <2>6, <1>5 DEF HeaderValue
  <2>8. Decoded(type, Text(h)) = given[h.parameter]
    BY <2>4, <2>5, <1>7, TravelsBack DEF SegmentText, SoundType
  <2> QED BY <2>7, <2>8 DEF headers, type
<1> QED BY <1>6, <1>7

(* What is made of each element of a list.                                  *)
LEMMA MadeOfAll ==
  ASSUME NEW V, NEW seq \in Seq(V), NEW make
  PROVE  Catalogue([i \in DOMAIN seq |-> make[seq[i]]], {make[x] : x \in ToSet(seq)})
<1> DEFINE entries == [i \in DOMAIN seq |-> make[seq[i]]]
           W == {make[seq[i]] : i \in 1..Len(seq)}
<1>1. DOMAIN seq = 1..Len(seq) /\ Len(seq) \in Nat
  OBVIOUS
<1>2. entries \in [1..Len(seq) -> W] /\ \A i \in 1..Len(seq) : entries[i] = make[seq[i]]
  BY <1>1
<1> HIDE DEF W, entries
<1>3. entries \in Seq(W)
  BY <1>1, <1>2, Sequence
<1>4. Len(entries) = Len(seq)
  <2>1. entries = [i \in 1..Len(seq) |-> entries[i]]
    BY <1>2
  <2> QED BY <2>1, <1>1, LengthOfText
<1>5. \A k \in 1..Len(entries) : entries[k] \in {make[x] : x \in ToSet(seq)}
  BY <1>1, <1>2, <1>4 DEF ToSet
<1>6. \A e \in {make[x] : x \in ToSet(seq)} : \E k \in 1..Len(entries) : entries[k] = e
  BY <1>1, <1>2, <1>4 DEF ToSet
<1> QED BY <1>3, <1>5, <1>6 DEF Catalogue, entries

(* The fields of a message that are held and that no placeholder binds.     *)
LooseNames(op, given) ==
  {n \in MessageFields(op) : n \notin ToSet(PlaceholderNames(Shape(op).path)) /\ given[n] # Null}

LooseTexts(op, given, text) ==
  [i \in DOMAIN Loose(op, given) |-> TextEntry(Loose(op, given)[i].name, text[Loose(op, given)[i].name])]

TextEntries(op, given, text) == {TextEntry(n, text[n]) : n \in LooseNames(op, given)}

(* Each of them has an entry in what is written of them, and nothing else has.                   *)
LEMMA LooseAreListed ==
  ASSUME NEW op, Declared(op), NEW given, NEW text
  PROVE  /\ Catalogue(LooseTexts(op, given, text), TextEntries(op, given, text))
         /\ \A i \in DOMAIN Loose(op, given) : Loose(op, given)[i].name \in LooseNames(op, given)
<1> DEFINE seq == MessageArguments(op)
           holes == ToSet(PlaceholderNames(Shape(op).path))
           wanted == {arg \in ToSet(seq) : arg.name \notin holes /\ given[arg.name] # Null}
           only == Only(seq, wanted)
           make == [arg \in ToSet(seq) |-> TextEntry(arg.name, text[arg.name])]
           all == {make[x] : x \in ToSet(seq) \cap wanted}
<1>1. PICK V : seq \in Seq(V)
  BY ArgumentsOfTheMessage
<1>2. only = Loose(op, given)
  BY DEF Loose
<1>3. MessageFields(op) = {arg.name : arg \in ToSet(seq)}
  BY DEF MessageFields, ToSet
<1>4. ToSet(seq) \cap wanted = wanted /\ \A x : x \in wanted <=> x \in ToSet(seq) /\ x.name \in LooseNames(op, given)
  <2> HIDE DEF seq, holes
  <2>1. \A x \in ToSet(seq) : x.name \in MessageFields(op)
    BY <1>3
  <2> QED BY <2>1 DEF LooseNames, holes
<1>5. \A n \in LooseNames(op, given) : \E x \in wanted : x.name = n
  <2> TAKE n \in LooseNames(op, given)
  <2>1. n \in MessageFields(op)
    BY DEF LooseNames
  <2>2. PICK x \in ToSet(seq) : x.name = n
    BY <2>1, <1>3
  <2> QED BY <2>2, <1>4
<1>6. all = {TextEntry(n, text[n]) : n \in LooseNames(op, given)}
  <2> HIDE DEF seq, wanted
  <2>1. \A x \in wanted : make[x] = TextEntry(x.name, text[x.name]) /\ x.name \in LooseNames(op, given)
    BY <1>4
  <2> HIDE DEF make
  <2>2. \A e : e \in all <=> \E x \in wanted : e = make[x]
    BY <1>4
  <2>3. \A e \in all : e \in {TextEntry(n, text[n]) : n \in LooseNames(op, given)}
    BY <2>1, <2>2
  <2>4. ASSUME NEW e \in {TextEntry(n, text[n]) : n \in LooseNames(op, given)} PROVE e \in all
    <3>1. PICK n \in LooseNames(op, given) : e = TextEntry(n, text[n])
      OBVIOUS
    <3>2. PICK x \in wanted : x.name = n
      BY <1>5
    <3>3. e = make[x]
      BY <3>1, <3>2, <2>1
    <3> QED BY <3>3, <2>2
  <2> HIDE DEF all
  <2> QED BY <2>3, <2>4
<1>7. Catalogue([i \in DOMAIN only |-> make[only[i]]], all)
  <2> HIDE DEF seq, wanted, make
  <2> QED BY <1>1, MadeOfTheWanted
<1>8. \A i \in DOMAIN only : only[i] \in wanted
  <2> HIDE DEF seq, wanted, only
  <2>1. Keeps(only, seq, wanted)
    BY <1>1, OnlyKeeps DEF only
  <2>2. (\E U : only \in Seq(U)) /\ \A i \in 1..Len(only) : only[i] \in wanted
    BY <2>1 DEF Keeps
  <2>3. DOMAIN only = 1..Len(only)
    BY <2>2
  <2> QED BY <2>2, <2>3
<1> HIDE DEF only, all
<1>9. [i \in DOMAIN only |-> make[only[i]]] = LooseTexts(op, given, text)
  <2>1. \A i \in DOMAIN only : make[only[i]] = TextEntry(only[i].name, text[only[i].name])
    <3> HIDE DEF seq, wanted
    <3> QED BY <1>4, <1>8
  <2> HIDE DEF make, seq, wanted
  <2>2. [i \in DOMAIN only |-> make[only[i]]] = [i \in DOMAIN only |-> TextEntry(only[i].name, text[only[i].name])]
    BY <2>1
  <2> QED BY <2>2, <1>2 DEF LooseTexts
<1>10. \A i \in DOMAIN only : only[i].name \in LooseNames(op, given)
  <2> HIDE DEF seq, wanted
  <2> QED BY <1>4, <1>8
<1> QED BY <1>2, <1>6, <1>7, <1>9, <1>10 DEF TextEntries

(* A list with an entry for each held field, and others of other names.                         *)
EntersFields(entries, op, given, text, name) ==
  \E others : Catalogue(entries, TextEntries(op, given, text) \cup others) /\ \A f \in others : f.name # name

Shows(entries, given, text, name) ==
  Find(entries, name, 1) = IF given[name] = Null THEN Nothing ELSE TextValue(text[name])

(* Under the name of a field is found what was written of it, or nothing where it was not.        *)
LEMMA FieldIsFound ==
  ASSUME NEW op, Declared(op), NEW given, NEW text, NEW name \in MessageFields(op),
         name \notin ToSet(PlaceholderNames(Shape(op).path)),
         NEW entries, EntersFields(entries, op, given, text, name)
  PROVE  Shows(entries, given, text, name)
<1>0. PICK others : Catalogue(entries, TextEntries(op, given, text) \cup others) /\ \A f \in others : f.name # name
  BY DEF EntersFields
<1> DEFINE names == LooseNames(op, given)
           all == {TextEntry(n, text[n]) : n \in names} \cup others
<1>1. \A n : TextEntry(n, text[n]).name = n /\ TextEntry(n, text[n]).of = TextValue(text[n])
  BY DEF TextEntry, Entry
<1>2. name \in names <=> given[name] # Null
  BY DEF LooseNames
<1> HIDE DEF names
<1>3. \A f \in all : f.name = name => name \in names /\ f = TextEntry(name, text[name])
  <2> TAKE f \in all
  <2>1. CASE f \in others
    BY <2>1, <1>0
  <2>2. CASE f \in {TextEntry(n, text[n]) : n \in names}
    BY <2>2, <1>1
  <2> QED BY <2>1, <2>2
<1>4. Catalogue(entries, all)
  BY <1>0 DEF names, TextEntries
<1>5. name \in names => TextEntry(name, text[name]) \in all
  OBVIOUS
<1> HIDE DEF all
<1>6. CASE name \notin names
  <2>1. Find(entries, name, 1) = Nothing
    BY <1>3, <1>4, <1>6, NotFoundInList
  <2> QED BY <2>1, <1>2, <1>6 DEF Shows
<1>7. CASE name \in names
  <2> DEFINE e == TextEntry(name, text[name])
  <2>1. e \in all /\ e.name = name /\ e.of = TextValue(text[name]) /\ \A f \in all : f.name = name => f = e
    BY <1>1, <1>3, <1>5, <1>7
  <2> HIDE DEF e
  <2>2. Find(entries, e.name, 1) = e.of
    BY <2>1, <1>4, FoundInList
  <2> QED BY <2>1, <2>2, <1>2, <1>7 DEF Shows
<1> QED BY <1>6, <1>7 DEF Shows

(* Part bindings name arguments, and an operation with none has no such argument.                *)
LEMMA PartBindings ==
  ASSUME NEW op, Declared(op)
  PROVE  /\ Shape(op).parts \in Seq(ToSet(Shape(op).parts))
         /\ DOMAIN Shape(op).parts = 1..Len(Shape(op).parts)
         /\ \A p \in ToSet(Shape(op).parts) : p.parameter \in ArgumentNames(op)
<1> DEFINE bindings == Shape(op).parts
<1>1. bindings \in Seq(ToSet(bindings))
  BY DEF Declared
<1>2. DOMAIN bindings = 1..Len(bindings)
  BY <1>1
<1>3. CASE ~op.bound
  <2>1. bindings = <<>>
    BY <1>3 DEF Shape
  <2>2. ToSet(bindings) = {}
    BY <2>1 DEF ToSet
  <2> HIDE DEF bindings
  <2> QED BY <2>2, <1>1, <1>2 DEF bindings
<1>4. CASE op.bound
  <2>1. bindings = op.parts /\ MultipartIsReadable(op)
    BY <1>4 DEF Shape, Declared, AcceptedOperation
  <2> HIDE DEF bindings
  <2>2. \A i \in DOMAIN bindings : bindings[i].parameter \in ArgumentNames(op)
    BY <2>1 DEF MultipartIsReadable, Named
  <2>3. \A p \in ToSet(bindings) : p.parameter \in ArgumentNames(op)
    BY <2>2 DEF ToSet
  <2> QED BY <2>3, <1>1, <1>2 DEF bindings
<1> QED BY <1>3, <1>4

(* What a client writes of each field of a message.                         *)
FieldTexts(op, lang, given) == [n \in MessageFields(op) |-> FieldText(Clients[lang], given[n])]

PartEntries(op, given) == {Entry(p.name, given[p.parameter]) : p \in ToSet(Shape(op).parts)}

(* A text for each of the held fields, in the order of the arguments.                           *)
LEMMA LooseAreWritten ==
  ASSUME NEW op, Declared(op), NEW lang, NEW given
  PROVE  LooseTexts(op, given, FieldTexts(op, lang, given)) =
           [i \in DOMAIN Loose(op, given) |->
              TextEntry(Loose(op, given)[i].name, FieldText(Clients[lang], given[Loose(op, given)[i].name]))]
<1> DEFINE loose == Loose(op, given)
           text == FieldTexts(op, lang, given)
<1>1. \A i \in DOMAIN loose : loose[i].name \in MessageFields(op)
  BY LooseAreListed DEF LooseNames
<1> HIDE DEF loose
<1>2. \A i \in DOMAIN loose : text[loose[i].name] = FieldText(Clients[lang], given[loose[i].name])
  BY <1>1 DEF FieldTexts
<1> QED BY <1>2 DEF LooseTexts, loose

(* The parts of a request are a text for each held field and a file for each binding.            *)
LEMMA PartsAreListed ==
  ASSUME NEW op, Declared(op), Shape(op).body = "multipart", NEW lang, NEW given
  PROVE  Catalogue(PartsOf(op, lang, given),
           TextEntries(op, given, FieldTexts(op, lang, given)) \cup PartEntries(op, given))
<1> DEFINE bindings == Shape(op).parts
           text == FieldTexts(op, lang, given)
           texts == TextEntries(op, given, text)
           make == [p \in ToSet(bindings) |-> Entry(p.name, given[p.parameter])]
           files == [i \in DOMAIN bindings |-> Entry(bindings[i].name, given[bindings[i].parameter])]
           loose == LooseTexts(op, given, text)
<1>1. PartsOf(op, lang, given) = loose \o files
  <2>1. loose = [i \in DOMAIN Loose(op, given) |->
              TextEntry(Loose(op, given)[i].name, FieldText(Clients[lang], given[Loose(op, given)[i].name]))]
    BY LooseAreWritten
  <2> HIDE DEF loose
  <2> QED BY <2>1 DEF PartsOf
<1>2. Catalogue(loose, texts)
  BY LooseAreListed
<1>3. Catalogue(files, PartEntries(op, given))
  <2> DEFINE V == ToSet(bindings)
             files2 == [i \in DOMAIN bindings |-> make[bindings[i]]]
  <2>1. bindings \in Seq(V)
    BY PartBindings
  <2>2. \A i \in DOMAIN bindings : bindings[i] \in V
    BY DEF ToSet
  <2>3. files = files2
    <3> HIDE DEF V, bindings
    <3> QED BY <2>2 DEF V
  <2>4. {make[x] : x \in V} = PartEntries(op, given)
    BY DEF PartEntries
  <2>5. Catalogue(files2, {make[x] : x \in V})
    <3> HIDE DEF V, make, bindings
    <3> QED BY <2>1, MadeOfAll DEF V
  <2> HIDE DEF files, files2, V
  <2> QED BY <2>3, <2>4, <2>5
<1> HIDE DEF loose, files, texts
<1>4. Catalogue(loose \o files, texts \cup PartEntries(op, given))
  BY <1>2, <1>3, ListsTogether
<1> QED BY <1>1, <1>4 DEF texts

(* The names of parts under Carried.                                        *)
LEMMA PartNames ==
  ASSUME NEW op, NEW lang, NEW given, Carried(op, lang, given)
  PROVE  /\ \A i, j \in DOMAIN Shape(op).parts : Shape(op).parts[i].name = Shape(op).parts[j].name => i = j
         /\ \A p \in ToSet(Shape(op).parts) : p.name \notin MessageFields(op) /\ given[p.parameter].is = "file"
         /\ \A p, q \in ToSet(Shape(op).parts) : p.name = q.name => p = q
         /\ Shape(op).parts # <<>> => Shape(op).body = "multipart"
<1> DEFINE parts == Shape(op).parts
<1>1. /\ IsInjective([i \in DOMAIN parts |-> parts[i].name])
      /\ \A i \in DOMAIN parts : parts[i].name \notin MessageFields(op) /\ given[parts[i].parameter].is = "file"
      /\ parts # <<>> => Shape(op).body = "multipart"
  BY DEF Carried
<1> HIDE DEF parts
<1>2. \A i, j \in DOMAIN parts : parts[i].name = parts[j].name => i = j
  BY <1>1 DEF IsInjective
<1>3. \A p \in ToSet(parts) : \E i \in DOMAIN parts : p = parts[i]
  BY DEF ToSet
<1> QED BY <1>1, <1>2, <1>3 DEF parts

(* A file arrives in its part, whichever way the server counts the readers of a name.            *)
LEMMA PartArrives ==
  ASSUME NEW op, Declared(op), NEW lang, NEW given, Carried(op, lang, given),
         NEW reader, NEW i \in DOMAIN Shape(op).parts
  PROVE  PartValue(reader, op, i, PartsOf(op, lang, given)) = given[Shape(op).parts[i].parameter]
<1> DEFINE parts == Shape(op).parts
           entries == PartsOf(op, lang, given)
           text == FieldTexts(op, lang, given)
           all == TextEntries(op, given, text) \cup PartEntries(op, given)
           e == Entry(parts[i].name, given[parts[i].parameter])
           earlier == {j \in 1..(i - 1) : parts[j].name = parts[i].name}
<1>1. /\ \A k, j \in DOMAIN parts : parts[k].name = parts[j].name => k = j
      /\ \A p \in ToSet(parts) : p.name \notin MessageFields(op)
      /\ \A p, q \in ToSet(parts) : p.name = q.name => p = q
      /\ parts # <<>> => Shape(op).body = "multipart"
  BY PartNames
<1>2. DOMAIN parts = 1..Len(parts) /\ Len(parts) \in Nat /\ parts[i] \in ToSet(parts)
  BY PartBindings DEF ToSet
<1>3. parts # <<>>
  OBVIOUS
<1>4. Catalogue(entries, all)
  BY <1>1, <1>3, PartsAreListed
<1>5. e \in all /\ e.name = parts[i].name /\ e.of = given[parts[i].parameter]
  BY <1>2 DEF PartEntries, Entry
<1>6. ASSUME NEW f \in all, f.name = e.name PROVE f.of = e.of
  <2>1. CASE f \in PartEntries(op, given)
    <3>1. PICK p \in ToSet(parts) : f = Entry(p.name, given[p.parameter])
      BY <2>1 DEF PartEntries
    <3>2. f.name = p.name
      BY <3>1 DEF Entry
    <3>3. p = parts[i]
      BY <3>2, <1>1, <1>2, <1>5, <1>6
    <3> QED BY <3>1, <3>3
  <2>2. CASE f \in TextEntries(op, given, text)
    <3>1. PICK n \in LooseNames(op, given) : f = TextEntry(n, text[n])
      BY <2>2 DEF TextEntries
    <3>2. f.name = n /\ n \in MessageFields(op)
      BY <3>1 DEF TextEntry, Entry, LooseNames
    <3> QED BY <3>2, <1>1, <1>2, <1>5, <1>6
  <2> QED BY <2>1, <2>2
<1> HIDE DEF e, all, entries, parts
<1>7. Find(entries, parts[i].name, 1) = given[parts[i].parameter]
  BY <1>4, <1>5, <1>6, FoundInList
<1>8. earlier = {}
  <2>1. \A j \in 1..(i - 1) : j \in DOMAIN parts /\ j # i
    BY <1>2 DEF parts
  <2>2. i \in DOMAIN parts
    BY DEF parts
  <2> QED BY <1>1, <2>1, <2>2
<1>9. Cardinality(earlier) + 1 = 1
  <2> HIDE DEF earlier
  <2> QED BY <1>8, FS_EmptySet
<1> HIDE DEF earlier
<1>10. PartValue(reader, op, i, entries) = Find(entries, parts[i].name, 1)
  BY <1>9 DEF PartValue, parts, earlier
<1> QED BY <1>7, <1>10 DEF entries, parts

(* A field arrives in its part: absent where it was null.                   *)
LEMMA FieldArrivesInPart ==
  ASSUME NEW op, Declared(op), NEW lang, NEW given, GivenTo(op, given), Carried(op, lang, given),
         Shape(op).body = "multipart", Inputs(op) # "named", NEW reader, NEW name \in MessageFields(op),
         name \notin ToSet(PlaceholderNames(Shape(op).path))
  PROVE  LET part == FieldPart(reader, op, name, PartsOf(op, lang, given))
         IN  (IF part.is = "string" THEN Decoded(TypeOfArgument(op, name), part.of) ELSE Null) = given[name]
<1> DEFINE parts == Shape(op).parts
           entries == PartsOf(op, lang, given)
           text == FieldTexts(op, lang, given)
           type == TypeOfArgument(op, name)
           others == PartEntries(op, given)
           bindings == {j \in DOMAIN parts : parts[j].name = name}
           part == FieldPart(reader, op, name, entries)
<1>1. \A p \in ToSet(parts) : p.name \notin MessageFields(op)
  BY PartNames
<1>2. \A f \in others : f.name # name
  BY <1>1 DEF PartEntries, Entry
<1>3. Catalogue(entries, TextEntries(op, given, text) \cup others)
  BY PartsAreListed
<1>4. Find(entries, name, 1) = IF given[name] = Null THEN Nothing ELSE TextValue(text[name])
  <2> HIDE DEF entries, text, others
  <2>1. EntersFields(entries, op, given, text, name)
    BY <1>2, <1>3 DEF EntersFields
  <2>2. Shows(entries, given, text, name)
    BY <2>1, FieldIsFound
  <2> QED BY <2>2 DEF Shows
<1>5. text[name] = FieldText(Clients[lang], given[name])
  BY DEF FieldTexts
<1>6. bindings = {}
  BY <1>1 DEF ToSet
<1>7. Cardinality(bindings) + 1 = 1
  <2> HIDE DEF bindings
  <2> QED BY <1>6, FS_EmptySet
<1>8. part = Find(entries, name, 1)
  <2> HIDE DEF bindings, entries
  <2> QED BY <1>7 DEF FieldPart, bindings
<1>9. SoundType(type) /\ given[name] \in Values(type)
  BY ArgumentsOfTheMessage, ArgumentsHaveTypes DEF GivenTo
<1>10. TextTravels(Clients[lang].value, type, given[name])
  BY DEF Carried
<1> HIDE DEF part, entries, text, type
<1>11. CASE given[name] = Null
  <2>1. part.is # "string"
    BY <1>4, <1>8, <1>11 DEF Nothing
  <2> QED BY <2>1, <1>11 DEF part, entries, type
<1>12. CASE given[name] # Null
  <2>1. part.is = "string" /\ part.of = FieldText(Clients[lang], given[name])
    BY <1>4, <1>5, <1>8, <1>12 DEF TextValue
  <2>2. Decoded(type, FieldText(Clients[lang], given[name])) = given[name]
    BY <1>9, <1>10, <1>12, TravelsBack DEF FieldText, SoundType
  <2> QED BY <2>1, <2>2 DEF part, entries, type
<1> QED BY <1>11, <1>12

(* A field arrives in the query: absent where it was null.                  *)
LEMMA FieldArrivesInQuery ==
  ASSUME NEW op, Declared(op), NEW lang, NEW given, GivenTo(op, given), Carried(op, lang, given),
         ~CarriesABody(Shape(op).method), Inputs(op) = "generated", NEW name \in MessageFields(op),
         name \notin ToSet(PlaceholderNames(Shape(op).path))
  PROVE  LET query == Find(QueryOf(op, lang, given), name, 1)
         IN  (IF query = Nothing THEN Null ELSE Decoded(TypeOfArgument(op, name), PercentDecoded(query.of))) = given[name]
<1> DEFINE Text(n) == PercentEncoded(FieldText(Clients[lang], given[n]))
           text == [n \in MessageFields(op) |-> Text(n)]
           entries == QueryOf(op, lang, given)
           type == TypeOfArgument(op, name)
           loose == Loose(op, given)
           query == Find(entries, name, 1)
<1>1. \A i \in DOMAIN loose : loose[i].name \in MessageFields(op)
  BY LooseAreListed DEF LooseNames
<1>2. entries = [i \in DOMAIN loose |-> TextEntry(loose[i].name, Text(loose[i].name))]
  BY DEF QueryOf
<1>3. entries = LooseTexts(op, given, text)
  <2> HIDE DEF entries, loose, Text
  <2>1. \A i \in DOMAIN loose : text[loose[i].name] = Text(loose[i].name)
    BY <1>1
  <2> HIDE DEF text
  <2>2. LooseTexts(op, given, text) = [i \in DOMAIN loose |-> TextEntry(loose[i].name, text[loose[i].name])]
    BY DEF LooseTexts, loose
  <2> QED BY <1>2, <2>1, <2>2
<1>4. Catalogue(entries, TextEntries(op, given, text) \cup {})
  <2> HIDE DEF entries, text
  <2> QED BY <1>3, LooseAreListed
<1>5. query = IF given[name] = Null THEN Nothing ELSE TextValue(text[name])
  <2> DEFINE others == {}
  <2>1. \A f \in others : f.name # name
    OBVIOUS
  <2> HIDE DEF entries, text, others
  <2>2. Catalogue(entries, TextEntries(op, given, text) \cup others)
    BY <1>4 DEF others
  <2>3. EntersFields(entries, op, given, text, name)
    BY <2>1, <2>2 DEF EntersFields
  <2>4. Shows(entries, given, text, name)
    BY <2>3, FieldIsFound
  <2> QED BY <2>4 DEF Shows, query
<1>6. SoundType(type) /\ given[name] \in Values(type)
  BY ArgumentsOfTheMessage, ArgumentsHaveTypes DEF GivenTo
<1>7. TextTravels(Clients[lang].value, type, given[name])
  BY DEF Carried
<1>8. text[name] = Text(name)
  OBVIOUS
<1> HIDE DEF query, entries, text, type
<1>9. CASE given[name] = Null
  <2>1. query = Nothing
    BY <1>5, <1>9
  <2> QED BY <2>1, <1>9 DEF query, entries
<1>10. CASE given[name] # Null
  <2> DEFINE plain == FieldText(Clients[lang], given[name])
  <2>1. query = TextValue(text[name]) /\ text[name] = PercentEncoded(plain)
    BY <1>5, <1>8, <1>10
  <2>2. Texted(plain) /\ Decoded(type, plain) = given[name]
    BY <1>6, <1>7, <1>10, WrittenIsText, TravelsBack DEF FieldText, SoundType
  <2> HIDE DEF plain
  <2>3. PercentDecoded(PercentEncoded(plain)) = plain
    BY <2>2, UndoesEscapes
  <2>4. query # Nothing /\ query.of = PercentEncoded(plain)
    BY <2>1 DEF TextValue, Nothing
  <2> QED BY <2>2, <2>3, <2>4 DEF query, entries, type
<1> QED BY <1>9, <1>10

(* The least of a set of numbers is one of them.                            *)
LEMMA MinIsLeast ==
  ASSUME NEW S, S \subseteq Nat, S # {}
  PROVE  Min(S) \in S /\ \A n \in S : Min(S) <= n
<1>1. PICK m \in S : \A n \in S : m <= n
  BY Least
<1> QED BY <1>1 DEF Min

(* The names of the placeholders of a template, and only they.                                  *)
HoleNames(path, names) ==
  /\ Len(names) \in Nat /\ names = [i \in 1..Len(names) |-> names[i]]
  /\ \A n \in 1..Len(path) : path[n].is # "literal" => path[n].of \in ToSet(names)
  /\ \A name \in ToSet(names) : \E n \in 1..Len(path) : path[n].is # "literal" /\ path[n].of = name

(* PlaceholderNames names the placeholders of every template.                                   *)
LEMMA NamesOfHoles ==
  ASSUME NEW path \in Templates
  PROVE  HoleNames(path, PlaceholderNames(path))
<1> DEFINE Tokens == [is : {"literal", "placeholder"}, of : STRING]
           wanted == {token \in ToSet(path) : token.is = "placeholder"}
           kept == Only(path, wanted)
           names == PlaceholderNames(path)
<1>1. path \in Seq(Tokens)
  BY DEF Templates
<1>2. names = [i \in DOMAIN kept |-> kept[i].of]
  BY DEF PlaceholderNames
<1>3. DOMAIN path = 1..Len(path) /\ \A n \in 1..Len(path) : path[n] \in ToSet(path) /\ path[n].is \in {"literal", "placeholder"}
  <2>1. DOMAIN path = 1..Len(path) /\ \A n \in 1..Len(path) : path[n] \in Tokens
    <3> HIDE DEF Tokens
    <3> QED BY <1>1
  <2>2. \A token \in Tokens : token.is \in {"literal", "placeholder"}
    OBVIOUS
  <2> QED BY <2>1, <2>2 DEF ToSet
<1>4. Keeps(kept, path, wanted)
  <2> HIDE DEF Tokens, wanted
  <2> QED BY <1>1, OnlyKeeps
<1> HIDE DEF kept, names, Tokens
<1>5. /\ \E V : kept \in Seq(V)
      /\ \A i \in 1..Len(kept) : \E j \in 1..Len(path) : kept[i] = path[j] /\ path[j].is = "placeholder"
      /\ \A j \in 1..Len(path) : path[j] \in wanted => \E i \in 1..Len(kept) : kept[i] = path[j]
  BY <1>4 DEF Keeps
<1>6. \A n \in 1..Len(path) : path[n] \in wanted <=> path[n].is # "literal"
  BY <1>3
<1>7. Len(kept) \in Nat /\ DOMAIN kept = 1..Len(kept)
  BY <1>5
<1>8. names = [i \in 1..Len(kept) |-> kept[i].of] /\ names = [i \in 1..Len(kept) |-> names[i]]
  BY <1>2, <1>7
<1>9. Len(names) = Len(kept) /\ DOMAIN names = 1..Len(kept)
  BY <1>7, <1>8, LengthOfText
<1>10. \A i \in 1..Len(kept) : names[i] = kept[i].of
  BY <1>8
<1>11. ASSUME NEW n \in 1..Len(path), path[n].is # "literal" PROVE path[n].of \in ToSet(names)
  <2>1. PICK i \in 1..Len(kept) : kept[i] = path[n]
    BY <1>5, <1>6, <1>11
  <2>2. names[i] = path[n].of /\ i \in DOMAIN names
    BY <2>1, <1>9, <1>10
  <2> QED BY <2>2 DEF ToSet
<1>12. ASSUME NEW name \in ToSet(names) PROVE \E n \in 1..Len(path) : path[n].is # "literal" /\ path[n].of = name
  <2>1. PICK i \in 1..Len(kept) : names[i] = name
    BY <1>9 DEF ToSet
  <2>2. PICK j \in 1..Len(path) : kept[i] = path[j] /\ path[j].is = "placeholder"
    BY <1>5
  <2> QED BY <2>1, <2>2, <1>10
<1> QED BY <1>7, <1>8, <1>9, <1>11, <1>12 DEF HoleNames, names

(* An operation with no http(...) has no placeholder, and those of a generated message are fields of it. *)
LEMMA HolesAreFields ==
  ASSUME NEW op, Declared(op)
  PROVE  /\ ~op.bound => ToSet(PlaceholderNames(Shape(op).path)) = {}
         /\ Inputs(op) # "named" => ToSet(PlaceholderNames(Shape(op).path)) \subseteq MessageFields(op)
<1> DEFINE names == PlaceholderNames(Shape(op).path)
<1>1. CASE ~op.bound
  <2>1. Shape(op).path = <<Literal("/"), Literal(op.wire)>>
    BY <1>1 DEF Shape
  <2> DEFINE path == Shape(op).path
  <2>2. Len(path) = 2 /\ \A n \in 1..2 : path[n].is = "literal"
    BY <2>1 DEF Literal
  <2>3. HoleNames(path, names)
    BY NamesOfHoles DEF Declared
  <2> HIDE DEF names, path
  <2>4. ToSet(names) = {}
    BY <2>2, <2>3 DEF HoleNames
  <2> QED BY <2>4 DEF names
<1>2. CASE op.bound
  <2>1. Shape(op).path = op.path /\ PlaceholdersBindFields(op)
    BY <1>2 DEF Shape, Declared, AcceptedOperation
  <2> QED BY <2>1, <1>2 DEF PlaceholdersBindFields, MessageFields
<1> QED BY <1>1, <1>2

(* The one argument a named message is.                                     *)
IsTheMessage(op, arg) ==
  /\ arg \in ToSet(op.args) /\ Head(MessageArguments(op)) = arg /\ MessageFields(op) = {arg.name}
  /\ TypeOfArgument(op, arg.name) = arg.type /\ SoundType(arg.type) /\ arg.name \in ArgumentNames(op)

(* A message of a type of its own is one argument, which names it.                              *)
LEMMA TheMessage ==
  ASSUME NEW op, Declared(op), Inputs(op) = "named"
  PROVE  \E arg : IsTheMessage(op, arg)
<1> DEFINE seq == MessageArguments(op)
           arg == Head(seq)
<1>1. PICK V : seq \in Seq(V)
  BY ArgumentsOfTheMessage
<1>2. Len(seq) = 1 /\ seq # <<>>
  BY DEF Inputs
<1>3. \A i \in 1..Len(seq) : seq[i] \in ToSet(op.args)
  BY ArgumentsOfTheMessage
<1>4. MessageFields(op) = {seq[i].name : i \in DOMAIN seq}
  BY DEF MessageFields
<1> HIDE DEF seq
<1>5. arg = seq[1] /\ DOMAIN seq = 1..1 /\ 1 \in 1..Len(seq)
  BY <1>1, <1>2
<1>6. arg \in ToSet(op.args)
  BY <1>3, <1>5
<1>7. MessageFields(op) = {arg.name}
  BY <1>4, <1>5
<1> HIDE DEF arg
<1>8. TypeOfArgument(op, arg.name) = arg.type /\ SoundType(arg.type) /\ arg.name \in ArgumentNames(op)
  BY <1>6, ArgumentsHaveTypes DEF Declared
<1> QED BY <1>6, <1>7, <1>8 DEF IsTheMessage, arg, seq

(* An object a caller holds is a message of a type of its own.              *)
LEMMA ObjectsAreMessages ==
  ASSUME NEW type, SoundType(type), NEW value \in Values(type), value.is = "object"
  PROVE  value \in MessageValues(type)
<1>1. value # Null
  BY DEF Null
<1>2. value \notin ListValues(type)
  BY DEF ListValues, ListValue
<1>3. value \notin ScalarValues(type)
  BY DEF ScalarValues, TextValue, NumberValue, FileValue
<1> QED BY <1>1, <1>2, <1>3 DEF Values

(* The text of each placeholder, as it is written, is one that escapes and comes back; that of a  *)
(* member of the message is the member itself.                                                   *)
HoleIsText(op, lang, given, name) ==
  LET message == MessageOf(op, given)
      text == HoleText(op, lang, message, name)
  IN  /\ Texted(text)
      /\ Inputs(op) = "named" /\ ~BoundWhole(op) =>
           /\ message.is = "object" /\ name \in DOMAIN message.of /\ message.of[name] = TextValue(text)
      /\ Inputs(op) = "named" /\ BoundWhole(op) => Decoded(Head(MessageArguments(op)).type, text) = message
      /\ Inputs(op) # "named" => name \in MessageFields(op) /\ Decoded(TypeOfArgument(op, name), text) = given[name]

(* It is so for every placeholder of a call whose arguments can travel.                         *)
LEMMA HolesAreTexts ==
  ASSUME NEW op, Declared(op), NEW lang, NEW given, GivenTo(op, given), Carried(op, lang, given),
         NEW name \in ToSet(PlaceholderNames(Shape(op).path))
  PROVE  HoleIsText(op, lang, given, name)
<1> DEFINE message == MessageOf(op, given)
           text == HoleText(op, lang, message, name)
           rule == Clients[lang].segment
           absent == Clients[lang].absent
<1>1. text = Rendered(rule, absent, PlaceholderValue(op, message, name))
  BY DEF HoleText, SegmentText
<1>2. CASE Inputs(op) # "named"
  <2> DEFINE type == TypeOfArgument(op, name)
  <2>1. name \in MessageFields(op)
    BY <1>2, HolesAreFields
  <2>2. given[name] # Null /\ TextTravels(rule, type, given[name])
    BY <1>2, <2>1 DEF Carried
  <2>3. SoundType(type) /\ given[name] \in Values(type)
    BY <2>1, ArgumentsOfTheMessage, ArgumentsHaveTypes DEF GivenTo
  <2>4. PlaceholderValue(op, message, name) = given[name]
    <3>1. ~BoundWhole(op)
      BY <1>2 DEF BoundWhole, IsScalarMessage
    <3>2. message.of[name] = given[name]
      BY <1>2, <2>1 DEF MessageOf, ObjectValue
    <3> QED BY <3>1, <3>2 DEF PlaceholderValue
  <2> HIDE DEF type, message, text, rule, absent
  <2>5. text = Rendered(rule, absent, given[name])
    BY <1>1, <2>4
  <2>6. type.reads \in {"text", "number"}
    BY <2>3 DEF SoundType
  <2>7. Texted(text)
    BY <2>2, <2>3, <2>5, <2>6, WrittenIsText
  <2>8. Decoded(type, text) = given[name]
    BY <2>2, <2>3, <2>5, <2>6, TravelsBack
  <2> QED BY <2>1, <2>7, <2>8, <1>2 DEF HoleIsText, type, text, message
<1>3. CASE Inputs(op) = "named"
  <2>1. PICK arg : IsTheMessage(op, arg)
    BY <1>3, TheMessage
  <2> DEFINE type == arg.type
  <2>2. Head(MessageArguments(op)) = arg /\ SoundType(type) /\ message \in Values(type) /\ message = given[arg.name]
    BY <2>1, <1>3 DEF IsTheMessage, GivenTo, MessageOf
  <2>3. CASE BoundWhole(op)
    <3>1. type.holds \in {"text", "number"} /\ ~type.list /\ ~type.optional
      BY <2>2, <2>3 DEF BoundWhole, IsScalarMessage
    <3>2. message \in ScalarValues(type)
      BY <2>2, <3>1 DEF Values
    <3>3. message # Null
      BY <3>1, <3>2 DEF ScalarValues, TextValue, NumberValue, Null
    <3>4. TextTravels(rule, type, message)
      BY <1>3, <2>2, <2>3 DEF Carried
    <3>5. PlaceholderValue(op, message, name) = message
      BY <2>3 DEF PlaceholderValue
    <3> HIDE DEF type, message, text, rule, absent
    <3>6. type.reads \in {"text", "number"} /\ text = Rendered(rule, absent, message)
      BY <2>2, <3>5, <1>1 DEF SoundType
    <3>7. Texted(text)
      BY <2>2, <3>3, <3>4, <3>6, WrittenIsText
    <3>8. Decoded(type, text) = message
      BY <2>2, <3>3, <3>4, <3>6, TravelsBack
    <3> QED BY <3>7, <3>8, <2>2, <2>3, <1>3 DEF HoleIsText, type, text, message
  <2>4. CASE ~BoundWhole(op)
    <3>1. message.is = "object" /\ name \in DOMAIN message.of /\ message.of[name].is = "string"
      BY <1>3, <2>4 DEF Carried
    <3> HIDE DEF type, message, text, rule, absent
    <3>2. message \in MessageValues(type)
      BY <2>2, <3>1, ObjectsAreMessages
    <3>3. PICK f : message = ObjectValue(f) /\ f = [m \in DOMAIN f |-> f[m]] /\ HasMembers(type, f)
      BY <2>2, <3>2, MessagesHaveMembers
    <3>4. message.of = f
      BY <3>3 DEF ObjectValue
    <3>5. PICK i \in DOMAIN type.fields : f[name] \in ScalarValues(type.fields[i].type)
      BY <3>1, <3>3, <3>4 DEF HasMembers
    <3>6. PICK t \in Texts : f[name] = TextValue(t)
      BY <3>1, <3>4, <3>5 DEF ScalarValues, NumberValue, FileValue
    <3>7. PlaceholderValue(op, message, name) = TextValue(t)
      BY <2>4, <3>4, <3>6 DEF PlaceholderValue
    <3>8. text = t
      BY <1>1, <3>7 DEF Rendered, TextValue, Scalar
    <3>9. Texted(text)
      BY <3>8, TextsAreTexted
    <3> QED BY <3>1, <3>4, <3>6, <3>8, <3>9, <2>4, <1>3 DEF HoleIsText, text, message
  <2> QED BY <2>3, <2>4
<1> QED BY <1>2, <1>3

(* What a server captures of the path of a request is what was written there.                    *)
LEMMA PathArrives ==
  ASSUME NEW op, Declared(op), NEW lang, NEW given, GivenTo(op, given), Carried(op, lang, given)
  PROVE  Caught(op, lang, MessageOf(op, given),
                MatchPath(Shape(op).path, PathOf(op, lang, MessageOf(op, given))).captured)
<1> DEFINE path == Shape(op).path
<1>1. path \in Templates /\ Segmented(path) /\ Filled(op, lang, given)
  BY DEF Declared, Carried
<1>2. ASSUME NEW n \in 1..Len(path), path[n].is # "literal"
      PROVE  Texted(HoleText(op, lang, MessageOf(op, given), path[n].of))
  <2>1. HoleNames(path, PlaceholderNames(path))
    BY <1>1, NamesOfHoles
  <2>2. path[n].of \in ToSet(PlaceholderNames(path))
    BY <2>1, <1>2 DEF HoleNames
  <2>3. HoleIsText(op, lang, given, path[n].of)
    BY <2>2, HolesAreTexts
  <2> QED BY <2>3 DEF HoleIsText
<1> QED BY <1>1, <1>2, CapturedAsWritten

(* Under the name of a placeholder is captured what was written for it.                         *)
LEMMA TextIsCaptured ==
  ASSUME NEW op, NEW lang, NEW message, NEW captured, Caught(op, lang, message, captured),
         NEW name \in ToSet(PlaceholderNames(Shape(op).path))
  PROVE  CapturedText(op, name, captured) = HoleText(op, lang, message, name)
<1> DEFINE names == PlaceholderNames(Shape(op).path)
           I == {i \in 1..Len(names) : names[i] = name}
<1>1. /\ Len(names) \in Nat /\ DOMAIN names = 1..Len(names)
      /\ \A i \in 1..Len(names) : captured[i] = HoleText(op, lang, message, names[i])
  BY DEF Caught
<1>2. CapturedText(op, name, captured) = captured[IF I # {} THEN Min(I) ELSE 0]
  BY DEF CapturedText, SelectInSeq
<1> HIDE DEF names
<1>3. I # {} /\ I \subseteq Nat
  BY <1>1 DEF ToSet, names
<1>4. Min(I) \in I
  <2> HIDE DEF I
  <2> QED BY <1>3, MinIsLeast
<1> QED BY <1>1, <1>2, <1>3, <1>4

(* A named message travels in the body, unless it is the one placeholder of its path.           *)
LEMMA NamedTravelsInTheBody ==
  ASSUME NEW op, Declared(op), Inputs(op) = "named", ~BoundWhole(op)
  PROVE  CarriesABody(Shape(op).method) /\ Shape(op).body # "multipart"
<1>1. CASE ~op.bound
  BY <1>1 DEF Shape, CarriesABody
<1>2. CASE op.bound
  <2>1. /\ Shape(op).path = op.path /\ Shape(op).body = op.body /\ Shape(op).method = op.method
        /\ BodylessSingleIsThePath(op) /\ MultipartIsReadable(op)
    BY <1>2 DEF Shape, Declared, AcceptedOperation
  <2>2. Shape(op).body # "multipart"
    BY <2>1 DEF MultipartIsReadable
  <2>3. SUFFICES ASSUME ~CarriesABody(op.method) PROVE FALSE
    BY <2>1, <2>2
  <2>4. IsScalarMessage(op) /\ PlaceholderNames(op.path) = <<Head(MessageArguments(op)).name>>
    BY <2>1, <2>3 DEF BodylessSingleIsThePath
  <2> DEFINE one == Head(MessageArguments(op)).name
  <2> HIDE DEF one
  <2>5. Len(<<one>>) = 1
    OBVIOUS
  <2>6. Len(PlaceholderNames(Shape(op).path)) = 1
    BY <2>1, <2>4, <2>5 DEF one
  <2> QED BY <2>4, <2>6 DEF BoundWhole
<1> QED BY <1>1, <1>2

(* The names of the placeholders are in their list, and there is one where the list is not      *)
(* empty.                                                                                       *)
LEMMA NamesAreListed ==
  ASSUME NEW op, Declared(op)
  PROVE  LET names == PlaceholderNames(Shape(op).path)
         IN  /\ \A i \in 1..Len(names) : names[i] \in ToSet(names)
             /\ names # <<>> => \E name : name \in ToSet(names)
<1> DEFINE names == PlaceholderNames(Shape(op).path)
<1>1. Len(names) \in Nat /\ names = [i \in 1..Len(names) |-> names[i]]
  BY NamesOfHoles DEF Declared, HoleNames
<1> HIDE DEF names
<1>2. DOMAIN names = 1..Len(names)
  BY <1>1
<1>3. \A i \in 1..Len(names) : names[i] \in ToSet(names)
  BY <1>2 DEF ToSet
<1>4. ASSUME names # <<>> PROVE \E name : name \in ToSet(names)
  <2>1. Len(names) # 0
    <3>1. ASSUME Len(names) = 0 PROVE names = <<>>
      <4>1. names = [i \in 1..0 |-> names[i]]
        BY <1>1, <3>1
      <4> QED BY <4>1
    <3> QED BY <3>1, <1>4
  <2>2. 1 \in 1..Len(names)
    BY <2>1, <1>1
  <2> QED BY <2>2, <1>3
<1> QED BY <1>3, <1>4 DEF names

(* A named message is read as it was sent: the body, the placeholder, or the body with what each   *)
(* placeholder captured over the member it names.                                                *)
LEMMA NamedArrives ==
  ASSUME NEW op, Declared(op), NEW lang, NEW given, GivenTo(op, given), Carried(op, lang, given),
         Inputs(op) = "named", NEW captured, Caught(op, lang, MessageOf(op, given), captured)
  PROVE  NamedValue(op, RequestOf(op, lang, given), captured) = MessageOf(op, given)
<1> DEFINE message == MessageOf(op, given)
           req == RequestOf(op, lang, given)
           names == PlaceholderNames(Shape(op).path)
           base == IF req.body.is = "object" THEN req.body.of ELSE <<>>
           overlay == [n \in DOMAIN base \cup ToSet(names) |->
                         IF n \in ToSet(names) THEN TextValue(CapturedText(op, n, captured)) ELSE base[n]]
<1>1. ~BoundWhole(op) => req.body = message
  BY NamedTravelsInTheBody DEF RequestOf, BodyOf
<1>2. BoundWhole(op) => names # <<>> /\ Len(names) = 1
  BY DEF BoundWhole
<1>3. NamedValue(op, req, captured) =
        IF names = <<>> THEN req.body
        ELSE IF BoundWhole(op) THEN Decoded(Head(MessageArguments(op)).type, captured[1])
        ELSE ObjectValue(overlay)
  BY DEF NamedValue
<1> HIDE DEF req, overlay, message
<1>4. CASE names = <<>>
  BY <1>1, <1>2, <1>3, <1>4 DEF req, message
<1>5. CASE names # <<>> /\ BoundWhole(op)
  <2>1. 1 \in 1..Len(names)
    BY <1>2, <1>5
  <2>2. names[1] \in ToSet(names)
    BY <2>1, NamesAreListed
  <2>3. captured[1] = HoleText(op, lang, message, names[1])
    BY <2>1 DEF Caught, message
  <2>4. HoleIsText(op, lang, given, names[1])
    BY <2>2, HolesAreTexts
  <2>5. Decoded(Head(MessageArguments(op)).type, captured[1]) = message
    BY <2>3, <2>4, <1>5 DEF HoleIsText, message
  <2> QED BY <2>5, <1>3, <1>5 DEF req, message
<1>6. CASE names # <<>> /\ ~BoundWhole(op)
  <2>1. \A n \in ToSet(names) : /\ message.is = "object" /\ n \in DOMAIN message.of
                                /\ message.of[n] = TextValue(CapturedText(op, n, captured))
    <3> TAKE n \in ToSet(names)
    <3>1. HoleIsText(op, lang, given, n)
      BY HolesAreTexts
    <3>2. CapturedText(op, n, captured) = HoleText(op, lang, message, n)
      BY TextIsCaptured DEF message
    <3> QED BY <3>1, <3>2, <1>6 DEF HoleIsText, message
  <2>2. message.is = "object"
    BY <2>1, <1>6, NamesAreListed
  <2>3. PICK arg : IsTheMessage(op, arg)
    BY TheMessage
  <2>4. SoundType(arg.type) /\ message \in Values(arg.type)
    BY <2>3 DEF IsTheMessage, GivenTo, MessageOf, message
  <2>5. message \in MessageValues(arg.type)
    BY <2>2, <2>4, ObjectsAreMessages
  <2>6. PICK f : message = ObjectValue(f) /\ f = [m \in DOMAIN f |-> f[m]]
    BY <2>4, <2>5, MessagesHaveMembers
  <2>7. message.of = f
    BY <2>6 DEF ObjectValue
  <2>8. req.body = message
    BY <1>1, <1>6
  <2>9. base = f
    BY <2>2, <2>7, <2>8
  <2>10. DOMAIN base \cup ToSet(names) = DOMAIN f
    BY <2>1, <2>7, <2>9
  <2> HIDE DEF base, names
  <2>11. overlay = [n \in DOMAIN f |-> IF n \in ToSet(names) THEN TextValue(CapturedText(op, n, captured)) ELSE f[n]]
    BY <2>9, <2>10 DEF overlay
  <2>12. \A n \in DOMAIN f : (IF n \in ToSet(names) THEN TextValue(CapturedText(op, n, captured)) ELSE f[n]) = f[n]
    BY <2>1, <2>7
  <2>13. overlay = [n \in DOMAIN f |-> f[n]]
    BY <2>11, <2>12
  <2>14. overlay = f
    BY <2>6, <2>13
  <2>15. NamedValue(op, req, captured) = message
    BY <1>3, <1>6, <2>6, <2>14
  <2> QED BY <2>15 DEF req, message
<1> QED BY <1>4, <1>5, <1>6

(* A field of a generated message is read as it was sent, wherever it travelled.                 *)
LEMMA FieldArrives ==
  ASSUME NEW op, Declared(op), NEW lang, NEW given, GivenTo(op, given), Carried(op, lang, given),
         Inputs(op) = "generated", NEW captured, Caught(op, lang, MessageOf(op, given), captured),
         NEW reader, NEW name \in MessageFields(op)
  PROVE  GeneratedField(reader, op, RequestOf(op, lang, given), captured, name) = given[name]
<1> DEFINE message == MessageOf(op, given)
           req == RequestOf(op, lang, given)
           holes == ToSet(PlaceholderNames(Shape(op).path))
           type == TypeOfArgument(op, name)
           part == FieldPart(reader, op, name, PartsOf(op, lang, given))
           query == Find(QueryOf(op, lang, given), name, 1)
<1>1. GeneratedField(reader, op, req, captured, name) =
        IF name \in holes THEN Decoded(type, CapturedText(op, name, captured))
        ELSE IF Shape(op).body = "multipart"
        THEN IF part.is = "string" THEN Decoded(type, part.of) ELSE Null
        ELSE IF CarriesABody(Shape(op).method)
        THEN IF req.body.is = "object" /\ name \in DOMAIN req.body.of THEN req.body.of[name] ELSE Null
        ELSE IF query = Nothing THEN Null ELSE Decoded(type, PercentDecoded(query.of))
  BY DEF GeneratedField, RequestOf
<1> HIDE DEF type, part, query, req, holes
<1>2. CASE name \in holes
  <2>1. HoleIsText(op, lang, given, name)
    BY <1>2, HolesAreTexts DEF holes
  <2>2. CapturedText(op, name, captured) = HoleText(op, lang, message, name)
    BY <1>2, TextIsCaptured DEF holes
  <2>3. Decoded(type, CapturedText(op, name, captured)) = given[name]
    BY <2>1, <2>2 DEF HoleIsText, type
  <2> QED BY <2>3, <1>1, <1>2 DEF req
<1>3. CASE name \notin holes /\ Shape(op).body = "multipart"
  <2>1. (IF part.is = "string" THEN Decoded(type, part.of) ELSE Null) = given[name]
    BY <1>3, FieldArrivesInPart DEF holes, part, type
  <2> QED BY <2>1, <1>1, <1>3 DEF req
<1>4. CASE name \notin holes /\ Shape(op).body # "multipart" /\ CarriesABody(Shape(op).method)
  <2>1. req.body = message
    BY <1>4 DEF req, RequestOf, BodyOf
  <2>2. message.is = "object" /\ name \in DOMAIN message.of /\ message.of[name] = given[name]
    BY DEF MessageOf, ObjectValue
  <2> QED BY <2>1, <2>2, <1>1, <1>4 DEF req
<1>5. CASE name \notin holes /\ Shape(op).body # "multipart" /\ ~CarriesABody(Shape(op).method)
  <2>1. (IF query = Nothing THEN Null ELSE Decoded(type, PercentDecoded(query.of))) = given[name]
    BY <1>5, FieldArrivesInQuery DEF holes, query, type
  <2> QED BY <2>1, <1>1, <1>5 DEF req
<1> QED BY <1>2, <1>3, <1>4, <1>5

(* The message is read as it was sent.                                      *)
LEMMA MessageArrives ==
  ASSUME NEW op, Declared(op), NEW lang, NEW given, GivenTo(op, given), Carried(op, lang, given),
         NEW captured, Caught(op, lang, MessageOf(op, given), captured), NEW reader
  PROVE  MessageRead(reader, op, RequestOf(op, lang, given), captured) = MessageOf(op, given)
<1> DEFINE message == MessageOf(op, given)
           req == RequestOf(op, lang, given)
           read == MessageRead(reader, op, req, captured)
<1>0. Inputs(op) \in {"empty", "named", "generated"}
  BY DEF Inputs
<1>1. CASE Inputs(op) = "empty"
  <2>1. MessageArguments(op) = <<>>
    BY <1>1 DEF Inputs
  <2>2. MessageFields(op) = {}
    BY <2>1 DEF MessageFields
  <2>3. message = ObjectValue([name \in {} |-> given[name]])
    BY <1>1, <2>2 DEF MessageOf
  <2>4. [name \in {} |-> given[name]] = [name \in {} |-> Null]
    OBVIOUS
  <2>5. message = ObjectValue([name \in {} |-> Null])
    BY <2>3, <2>4
  <2> HIDE DEF message
  <2>6. read = IF CarriesABody(Shape(op).method) /\ Shape(op).body # "multipart" THEN req.body
               ELSE ObjectValue([n \in {} |-> Null])
    BY <1>1 DEF MessageRead
  <2>7. CarriesABody(Shape(op).method) /\ Shape(op).body # "multipart" => req.body = message
    BY DEF RequestOf, BodyOf, message
  <2> QED BY <2>5, <2>6, <2>7 DEF message
<1>2. CASE Inputs(op) = "named"
  <2>1. read = NamedValue(op, req, captured)
    BY <1>2 DEF MessageRead
  <2>2. NamedValue(op, req, captured) = message
    BY <1>2, NamedArrives
  <2> QED BY <2>1, <2>2
<1>3. CASE Inputs(op) = "generated"
  <2>1. read = ObjectValue([n \in MessageFields(op) |-> GeneratedField(reader, op, req, captured, n)])
    BY <1>3 DEF MessageRead
  <2>2. \A n \in MessageFields(op) : GeneratedField(reader, op, req, captured, n) = given[n]
    BY <1>3, FieldArrives
  <2>3. message = ObjectValue([n \in MessageFields(op) |-> given[n]])
    BY <1>3 DEF MessageOf
  <2> HIDE DEF read, message, req
  <2>4. [n \in MessageFields(op) |-> GeneratedField(reader, op, req, captured, n)]
          = [n \in MessageFields(op) |-> given[n]]
    BY <2>2
  <2> QED BY <2>1, <2>3, <2>4 DEF read, message, req
<1> QED BY <1>0, <1>1, <1>2, <1>3

----------------------------------------------------------------------------
(* What an arm makes of a request, and the theorems.                        *)

(* A message is not nothing, and its own reader takes it.                   *)
LEMMA MessageIsRead ==
  ASSUME NEW op, Declared(op), NEW given, GivenTo(op, given)
  PROVE  MessageOf(op, given) # Nothing /\ Reads(op, MessageOf(op, given))
<1> DEFINE message == MessageOf(op, given)
<1>1. CASE Inputs(op) = "named"
  <2>1. PICK arg : IsTheMessage(op, arg)
    BY <1>1, TheMessage
  <2> DEFINE type == arg.type
  <2>2. Head(MessageArguments(op)) = arg /\ SoundType(type) /\ message \in Values(type)
    BY <2>1, <1>1 DEF IsTheMessage, GivenTo, MessageOf
  <2>3. Conforms(type, message)
    BY <2>2, EveryHeldConforms
  <2> HIDE DEF message
  <2>4. message.is \in {"null", "string", "number", "file", "list", "object"}
    <3>1. Null.is = "null"
      BY DEF Null
    <3>2. \A value \in ListValues(type) : value.is = "list"
      BY DEF ListValues, ListValue
    <3>3. \A value \in ScalarValues(type) : value.is \in {"string", "number", "file"}
      BY DEF ScalarValues, TextValue, NumberValue, FileValue
    <3>4. \A value \in MessageValues(type) : value.is = "object"
      BY <2>2, MessagesHaveMembers DEF ObjectValue
    <3> HIDE DEF type
    <3> QED BY <2>2, <3>1, <3>2, <3>3, <3>4 DEF Values
  <2>5. message # Nothing
    BY <2>4 DEF Nothing
  <2>6. Reads(op, message)
    <3>1. CASE type.holds # "object"
      BY <1>1, <2>2, <2>3, <3>1 DEF Reads
    <3>2. CASE type.holds = "object" /\ message = Null
      <4>1. type.optional
        BY <2>3, <3>2 DEF Conforms, Null
      <4> QED BY <4>1, <1>1, <2>2, <3>2 DEF Reads
    <3>3. CASE type.holds = "object" /\ message # Null
      <4>0. ~type.list
        BY <2>2, <3>3 DEF SoundType
      <4>5. message.is = "object"
        BY <2>3, <3>3, <4>0 DEF Conforms
      <4>1. message \in MessageValues(type)
        BY <2>2, <4>5, ObjectsAreMessages
      <4>2. PICK f : message = ObjectValue(f) /\ HasMembers(type, f)
        BY <2>2, <4>1, MessagesHaveMembers
      <4>3. message.is = "object" /\ message.of = f
        BY <4>2 DEF ObjectValue
      <4>4. \A i \in DOMAIN type.fields : /\ type.fields[i].name \in DOMAIN message.of
                                          /\ Conforms(type.fields[i].type, message.of[type.fields[i].name])
        BY <4>2, <4>3 DEF HasMembers
      <4> QED BY <4>3, <4>4, <1>1, <2>2, <3>3 DEF Reads
    <3> QED BY <3>1, <3>2, <3>3
  <2> QED BY <2>5, <2>6 DEF message
<1>2. CASE Inputs(op) # "named"
  <2>1. message = ObjectValue([name \in MessageFields(op) |-> given[name]])
    BY <1>2 DEF MessageOf
  <2>2. message # Nothing /\ message.is = "object" /\ \A name \in MessageFields(op) : message.of[name] = given[name]
    BY <2>1 DEF ObjectValue, Nothing
  <2>3. \A name \in MessageFields(op) : Conforms(TypeOfArgument(op, name), given[name])
    <3> TAKE name \in MessageFields(op)
    <3>1. SoundType(TypeOfArgument(op, name)) /\ given[name] \in Values(TypeOfArgument(op, name))
      BY ArgumentsOfTheMessage, ArgumentsHaveTypes DEF GivenTo
    <3> QED BY <3>1, EveryHeldConforms
  <2> HIDE DEF message
  <2>4. Reads(op, message)
    BY <1>2, <2>2, <2>3 DEF Reads
  <2> QED BY <2>2, <2>4 DEF message
<1> QED BY <1>1, <1>2

(* The binding a name is read by.                                           *)
BindingOf(bindings, name) == SelectInSeq(bindings, LAMBDA b : b.parameter = name)

(* No binding is found exactly for a name none of them claims.                                  *)
LEMMA BindingIsFound ==
  ASSUME NEW bindings, bindings \in Seq(ToSet(bindings)), NEW name
  PROVE  LET i == BindingOf(bindings, name)
         IN  IF i = 0 THEN name \notin Named(bindings)
             ELSE i \in DOMAIN bindings /\ bindings[i].parameter = name
<1> DEFINE I == {i \in 1..Len(bindings) : bindings[i].parameter = name}
<1>1. DOMAIN bindings = 1..Len(bindings) /\ Len(bindings) \in Nat
  OBVIOUS
<1>2. BindingOf(bindings, name) = IF I # {} THEN Min(I) ELSE 0
  BY DEF BindingOf, SelectInSeq
<1>3. I \subseteq Nat
  BY <1>1
<1>4. CASE I = {}
  BY <1>1, <1>2, <1>4 DEF Named
<1>5. CASE I # {}
  <2>1. Min(I) \in I
    <3> HIDE DEF I
    <3> QED BY <1>3, <1>5, MinIsLeast
  <2>2. Min(I) # 0
    BY <2>1, <1>1
  <2> QED BY <1>1, <1>2, <1>5, <2>1, <2>2
<1> QED BY <1>4, <1>5

(* What an arm reads of a request, part by part.                            *)
HeadersGot(op, req) ==
  [i \in DOMAIN Shape(op).headerIn |->
     HeaderValue(TypeOfArgument(op, Shape(op).headerIn[i].parameter), Shape(op).headerIn[i].name, req.headers)]

PartsGot(reader, op, req) == [i \in DOMAIN Shape(op).parts |-> PartValue(reader, op, i, req.parts)]

Fits(op, header, i) == Conforms(TypeOfArgument(op, Shape(op).headerIn[i].parameter), header[i])

Gathered(op, header, part, message) ==
  [name \in ArgumentNames(op) |->
     IF BindingOf(Shape(op).headerIn, name) # 0 THEN header[BindingOf(Shape(op).headerIn, name)]
     ELSE IF BindingOf(Shape(op).parts, name) # 0 THEN part[BindingOf(Shape(op).parts, name)]
     ELSE IF Inputs(op) = "named" THEN message
     ELSE message.of[name]]

RefusalsOf(reader, op, header, part, message) ==
  LET unread == IF reader = "rust" THEN "undeserializable_payload" ELSE "failed_validation"
  IN  << [if |-> message = Nothing, kind |-> "undeserializable_payload"],
         [if |-> \E i \in DOMAIN header : ~Fits(op, header, i) /\ header[i] = Null, kind |-> "failed_validation"],
         [if |-> \E i \in DOMAIN header : ~Fits(op, header, i), kind |-> unread],
         [if |-> \E i \in DOMAIN part :
                   IF reader = "rust" THEN part[i].is # "file" ELSE part[i] = Nothing,
          kind |-> "failed_validation"],
         [if |-> ~Reads(op, message), kind |-> unread],
         [if |-> ~Valid(message), kind |-> "failed_validation"] >>

FirstOf(refusals) == SelectInSeq(refusals, LAMBDA refusal : refusal.if)

(* ArgumentsRead, in those parts: the first refusal that applies, or what is gathered.          *)
LEMMA WhatIsRead ==
  ASSUME NEW reader, NEW op, NEW req, NEW captured
  PROVE  LET header == HeadersGot(op, req)
             part == PartsGot(reader, op, req)
             message == MessageRead(reader, op, req, captured)
             refusals == RefusalsOf(reader, op, header, part, message)
         IN  ArgumentsRead(reader, op, req, captured) =
               IF FirstOf(refusals) # 0 THEN Fault(refusals[FirstOf(refusals)].kind)
               ELSE [is |-> "arguments", of |-> Gathered(op, header, part, message)]
BY DEF ArgumentsRead, HeadersGot, PartsGot, Fits, Gathered, RefusalsOf, FirstOf, BindingOf

(* What is gathered of a request are the arguments it was made of.          *)
LEMMA GatheredIsGiven ==
  ASSUME NEW op, Declared(op), NEW lang, NEW given, GivenTo(op, given), Carried(op, lang, given), NEW reader
  PROVE  LET req == RequestOf(op, lang, given)
             header == HeadersGot(op, req)
             part == PartsGot(reader, op, req)
         IN  /\ \A i \in DOMAIN Shape(op).headerIn : header[i] = given[Shape(op).headerIn[i].parameter]
             /\ \A i \in DOMAIN Shape(op).parts : part[i] = given[Shape(op).parts[i].parameter]
             /\ Gathered(op, header, part, MessageOf(op, given)) = given
<1> DEFINE req == RequestOf(op, lang, given)
           header == HeadersGot(op, req)
           part == PartsGot(reader, op, req)
           message == MessageOf(op, given)
           heads == Shape(op).headerIn
           parts == Shape(op).parts
           gathered == Gathered(op, header, part, message)
<1>1. req.headers = HeadersOf(op, lang, given) /\ req.parts = PartsOf(op, lang, given)
  BY DEF RequestOf
<1> HIDE DEF req
<1>2. ASSUME NEW i \in DOMAIN heads PROVE header[i] = given[heads[i].parameter]
  <2>1. heads[i] \in ToSet(heads)
    BY DEF ToSet
  <2>2. HeaderValue(TypeOfArgument(op, heads[i].parameter), heads[i].name, HeadersOf(op, lang, given)) = given[heads[i].parameter]
    BY <2>1, HeadersArrive
  <2> QED BY <2>2, <1>1 DEF HeadersGot
<1>3. ASSUME NEW i \in DOMAIN parts PROVE part[i] = given[parts[i].parameter]
  <2>1. PartValue(reader, op, i, PartsOf(op, lang, given)) = given[parts[i].parameter]
    BY PartArrives
  <2> QED BY <2>1, <1>1 DEF PartsGot
<1> HIDE DEF header, part
<1>4. ASSUME NEW name \in ArgumentNames(op) PROVE gathered[name] = given[name]
  <2> DEFINE h == BindingOf(heads, name)
             p == BindingOf(parts, name)
  <2>1. gathered[name] = IF h # 0 THEN header[h] ELSE IF p # 0 THEN part[p]
                         ELSE IF Inputs(op) = "named" THEN message ELSE message.of[name]
    BY DEF Gathered
  <2>2. heads \in Seq(ToSet(heads)) /\ parts \in Seq(ToSet(parts))
    BY DEF Declared
  <2> HIDE DEF gathered, heads, parts
  <2>3. /\ IF h = 0 THEN name \notin Named(heads) ELSE h \in DOMAIN heads /\ heads[h].parameter = name
        /\ IF p = 0 THEN name \notin Named(parts) ELSE p \in DOMAIN parts /\ parts[p].parameter = name
    BY <2>2, BindingIsFound
  <2> HIDE DEF h, p
  <2>4. CASE h # 0
    BY <2>1, <2>3, <2>4, <1>2
  <2>5. CASE h = 0 /\ p # 0
    BY <2>1, <2>3, <2>5, <1>3
  <2>6. CASE h = 0 /\ p = 0
    <3>1. name \notin Claimed(op)
      BY <2>3, <2>6 DEF Claimed, heads, parts
    <3>2. name \in MessageFields(op)
      BY <3>1, ArgumentsOfTheMessage
    <3>3. CASE Inputs(op) = "named"
      <4>1. PICK arg : IsTheMessage(op, arg)
        BY <3>3, TheMessage
      <4>2. message = given[name]
        BY <4>1, <3>2, <3>3 DEF IsTheMessage, MessageOf
      <4> QED BY <4>2, <2>1, <2>6, <3>3
    <3>4. CASE Inputs(op) # "named"
      <4>1. message.of[name] = given[name]
        BY <3>2, <3>4 DEF MessageOf, ObjectValue
      <4> QED BY <4>1, <2>1, <2>6, <3>4
    <3> QED BY <3>3, <3>4
  <2> QED BY <2>4, <2>5, <2>6
<1>5. gathered = [name \in ArgumentNames(op) |-> gathered[name]]
  BY DEF Gathered
<1>6. given = [name \in ArgumentNames(op) |-> given[name]]
  BY DEF GivenTo
<1> HIDE DEF gathered
<1>7. gathered = given
  <2>1. [name \in ArgumentNames(op) |-> gathered[name]] = [name \in ArgumentNames(op) |-> given[name]]
    BY <1>4
  <2> QED BY <2>1, <1>5, <1>6
<1> QED BY <1>2, <1>3, <1>7 DEF gathered, header, part, req

(* No refusal applies to a request whose message is valid.                  *)
LEMMA NothingIsRefused ==
  ASSUME NEW op, Declared(op), NEW given, GivenTo(op, given), NEW lang, Carried(op, lang, given), Valid(MessageOf(op, given)),
         NEW header, DOMAIN header = DOMAIN Shape(op).headerIn,
         \A i \in DOMAIN Shape(op).headerIn : header[i] = given[Shape(op).headerIn[i].parameter],
         NEW part, DOMAIN part = DOMAIN Shape(op).parts,
         \A i \in DOMAIN Shape(op).parts : part[i] = given[Shape(op).parts[i].parameter], NEW reader
  PROVE  FirstOf(RefusalsOf(reader, op, header, part, MessageOf(op, given))) = 0
<1> DEFINE message == MessageOf(op, given)
           refusals == RefusalsOf(reader, op, header, part, message)
           P1 == message = Nothing
           P2 == \E i \in DOMAIN header : ~Fits(op, header, i) /\ header[i] = Null
           P3 == \E i \in DOMAIN header : ~Fits(op, header, i)
           P4 == \E i \in DOMAIN part : IF reader = "rust" THEN part[i].is # "file" ELSE part[i] = Nothing
           P5 == ~Reads(op, message)
           P6 == ~Valid(message)
           I == {i \in 1..Len(refusals) : refusals[i].if}
<1>1. ~P1 /\ ~P5 /\ ~P6
  BY MessageIsRead
<1>2. ~P2 /\ ~P3
  <2>1. ASSUME NEW i \in DOMAIN header PROVE Fits(op, header, i)
    <3> DEFINE h == Shape(op).headerIn[i]
    <3>1. h \in ToSet(Shape(op).headerIn)
      BY DEF ToSet
    <3>2. SoundType(TypeOfArgument(op, h.parameter)) /\ given[h.parameter] \in Values(TypeOfArgument(op, h.parameter))
      BY <3>1, HeaderBindings, ArgumentsHaveTypes DEF GivenTo
    <3>3. Conforms(TypeOfArgument(op, h.parameter), given[h.parameter])
      BY <3>2, EveryHeldConforms
    <3> QED BY <3>3 DEF Fits
  <2> QED BY <2>1
<1>3. ~P4
  <2>1. ASSUME NEW i \in DOMAIN part PROVE part[i].is = "file"
    <3>1. Shape(op).parts[i] \in ToSet(Shape(op).parts)
      BY DEF ToSet
    <3> QED BY <3>1, PartNames
  <2> QED BY <2>1 DEF Nothing
<1>4. Len(refusals) = 6
  BY DEF RefusalsOf
<1>5. /\ refusals[1].if = P1 /\ refusals[2].if = P2 /\ refusals[3].if = P3
      /\ refusals[4].if = P4 /\ refusals[5].if = P5 /\ refusals[6].if = P6
  BY DEF RefusalsOf
<1> HIDE DEF refusals, P1, P2, P3, P4, P5, P6
<1>6. \A i \in 1..6 : ~refusals[i].if
  BY <1>1, <1>2, <1>3, <1>5
<1>7. I = {}
  BY <1>4, <1>6
<1>8. FirstOf(refusals) = IF I # {} THEN Min(I) ELSE 0
  BY DEF FirstOf, SelectInSeq
<1> QED BY <1>7, <1>8 DEF refusals

(* What an arm makes of a request made for it: the arguments of the caller, or, where the message  *)
(* is not valid, a refusal.                                                                      *)
IsRead(read, op, given) ==
  /\ read.is # "fault" => read = [is |-> "arguments", of |-> given]
  /\ Valid(MessageOf(op, given)) => read.is # "fault"

(* It is so of every request whose arguments can travel, in both server languages.              *)
LEMMA CallArrives ==
  ASSUME NEW op, Declared(op), NEW lang, NEW given, GivenTo(op, given), Carried(op, lang, given), NEW reader
  PROVE  LET req == RequestOf(op, lang, given)
         IN  IsRead(ArgumentsRead(reader, op, req, MatchPath(Shape(op).path, req.path).captured), op, given)
<1> DEFINE req == RequestOf(op, lang, given)
           captured == MatchPath(Shape(op).path, req.path).captured
           message == MessageOf(op, given)
           header == HeadersGot(op, req)
           part == PartsGot(reader, op, req)
           first == FirstOf(RefusalsOf(reader, op, header, part, message))
           refused == Fault(RefusalsOf(reader, op, header, part, message)[first].kind)
           read == ArgumentsRead(reader, op, req, captured)
<1>1. req.path = PathOf(op, lang, message)
  BY DEF RequestOf
<1>2. Caught(op, lang, message, captured)
  BY <1>1, PathArrives
<1>3. MessageRead(reader, op, req, captured) = message
  <2> HIDE DEF captured
  <2> QED BY <1>2, MessageArrives
<1>4. read = IF first # 0 THEN refused ELSE [is |-> "arguments", of |-> Gathered(op, header, part, message)]
  <2> HIDE DEF req, captured
  <2> QED BY <1>3, WhatIsRead
<1>5. /\ \A i \in DOMAIN Shape(op).headerIn : header[i] = given[Shape(op).headerIn[i].parameter]
      /\ \A i \in DOMAIN Shape(op).parts : part[i] = given[Shape(op).parts[i].parameter]
      /\ Gathered(op, header, part, message) = given
  BY GatheredIsGiven
<1>6. DOMAIN header = DOMAIN Shape(op).headerIn /\ DOMAIN part = DOMAIN Shape(op).parts
  BY DEF HeadersGot, PartsGot
<1> HIDE DEF header, part, req, captured
<1>7. Valid(message) => first = 0
  BY <1>5, <1>6, NothingIsRefused
<1>8. refused.is = "fault"
  BY DEF Fault
<1> HIDE DEF first, refused, read, message
<1>9. first = 0 => read = [is |-> "arguments", of |-> given] /\ read.is # "fault"
  BY <1>4, <1>5
<1>10. first # 0 => read.is = "fault"
  BY <1>4, <1>8
<1>11. IsRead(read, op, given)
  BY <1>7, <1>9, <1>10 DEF IsRead, message
<1> QED BY <1>11 DEF read, req, captured

(* A call as it was made, and what has come of it.                          *)
Made ==
  /\ service \in Services /\ Accepted(service) /\ called \in DOMAIN service.operations
  /\ GivenTo(Op, args)

Delivered ==
  /\ Made
  /\ phase = "sent" => request = RequestOf(Op, client, args)
  /\ phase \in {"calling", "sent"} => ran = Nothing
  /\ phase = "handling" => ran # Nothing
  /\ ArgumentsArrive /\ ReachesTheHandler

(* Nothing has come of a call that is not made yet.                                             *)
LEMMA DeliveredAtFirst == Init => Delivered
<1> SUFFICES ASSUME Init PROVE Delivered
  OBVIOUS
<1>1. service \in Services /\ Accepted(service) /\ called \in DOMAIN service.operations
  BY DEF Init
<1>2. phase = "calling" /\ ran = Nothing
  BY DEF Init
<1>3. GivenTo(Op, args)
  <2> DEFINE held == UNION {Values(Op.args[i].type) : i \in DOMAIN Op.args}
  <2>1. args \in [ArgumentNames(Op) -> held] /\ \A name \in ArgumentNames(Op) : args[name] \in Values(TypeOfArgument(Op, name))
    BY DEF Init
  <2> HIDE DEF held
  <2>2. args = [name \in ArgumentNames(Op) |-> args[name]]
    BY <2>1
  <2> QED BY <2>1, <2>2 DEF GivenTo
<1> QED BY <1>1, <1>2, <1>3 DEF Delivered, Made, ArgumentsArrive, ReachesTheHandler

(* The server answers or runs as it should.                                 *)
LEMMA DispatchDelivers ==
  ASSUME Delivered, Dispatch, Carried(Op, client, args)
  PROVE  /\ ran' # Nothing /\ ran'.op = called => ran'.args = args
         /\ phase' = "answered" /\ ran' = Nothing /\ Valid(MessageOf(Op, args)) => Shadowed(called)
<1> DEFINE req == RequestOf(Op, client, args)
           operations == service.operations
           arm == RouteOf(Routes(operations), request)
           captured(n) == MatchPath(Shape(operations[n]).path, request.path).captured
           reads(n) == ArgumentsRead(server, operations[n], request, captured(n))
<1>1. phase = "sent" /\ request = req /\ ran = Nothing
  BY DEF Dispatch, Delivered
<1>2. Declared(Op) /\ GivenTo(Op, args)
  <2>1. service \in Services /\ Accepted(service) /\ called \in DOMAIN service.operations /\ GivenTo(Op, args)
    BY DEF Delivered, Made
  <2> QED BY <2>1, OperationsAreDeclared DEF Op
<1>3. IsRead(reads(called), Op, args)
  <2>1. IsRead(ArgumentsRead(server, Op, req, MatchPath(Shape(Op).path, req.path).captured), Op, args)
    BY <1>2, CallArrives
  <2> QED BY <2>1, <1>1 DEF Op
<1>4. \/ request.method = "GET" /\ request.path = service.document /\ ran' = ran
      \/ arm = 0 /\ ran' = ran
      \/ reads(arm).is = "fault" /\ ran' = ran
      \/ reads(arm).is # "fault" /\ phase' = "handling" /\ ran' = [is |-> "call", op |-> arm, args |-> reads(arm).of]
  BY DEF Dispatch, Answer
<1>5. ASSUME ran' # Nothing, ran'.op = called PROVE ran'.args = args
  <2> HIDE DEF arm, reads
  <2>1. reads(arm).is # "fault" /\ ran' = [is |-> "call", op |-> arm, args |-> reads(arm).of]
    BY <1>1, <1>4, <1>5
  <2>2. arm = called
    BY <2>1, <1>5
  <2>3. reads(called) = [is |-> "arguments", of |-> args]
    BY <2>1, <2>2, <1>3 DEF IsRead
  <2> QED BY <2>1, <2>2, <2>3
<1>6. ASSUME phase' = "answered", ran' = Nothing, Valid(MessageOf(Op, args)), ~Shadowed(called) PROVE FALSE
  <2>1. arm = called /\ ~(request.method = "GET" /\ request.path = service.document)
    <3>1. service \in Services /\ Accepted(service) /\ called \in DOMAIN service.operations
      BY DEF Delivered, Made
    <3>2. Segmented(Shape(Op).path) /\ Filled(Op, client, args)
      BY DEF Carried
    <3> QED BY <3>1, <3>2, <1>1, <1>6, RouteIsItsOwn
  <2>2. called # 0
    <3>1. called \in 1..Len(operations) /\ Len(operations) \in Nat
      BY ServicesAreSequences DEF Delivered, Made
    <3> QED BY <3>1
  <2>3. reads(called).is # "fault"
    BY <1>3, <1>6 DEF IsRead
  <2> HIDE DEF arm, reads
  <2> QED BY <2>1, <2>2, <2>3, <1>4, <1>6
<1> QED BY <1>5, <1>6

(* No action leaves Delivered.                                              *)
LEMMA DeliveredIsKept ==
  ASSUME Delivered, [Next]_vars PROVE Delivered'
<1> DEFINE ours == Carried(Op, client, args)
           fine == Valid(MessageOf(Op, args))
           req == RequestOf(Op, client, args)
<1>0. /\ Made
      /\ phase = "sent" => request = req
      /\ phase \in {"calling", "sent"} => ran = Nothing
      /\ phase = "handling" => ran # Nothing
      /\ ran # Nothing /\ ran.op = called /\ ours => ran.args = args
      /\ phase = "answered" /\ ran = Nothing /\ ours /\ fine => Shadowed(called)
  BY DEF Delivered, ArgumentsArrive, ReachesTheHandler
<1>1. ASSUME UNCHANGED call,
             phase' = "sent" => request' = req,
             phase' \in {"calling", "sent"} => ran' = Nothing,
             phase' = "handling" => ran' # Nothing,
             ran' # Nothing /\ ran'.op = called /\ ours => ran'.args = args,
             phase' = "answered" /\ ran' = Nothing /\ ours /\ fine => Shadowed(called)
      PROVE  Delivered'
  <2>1. service' = service /\ client' = client /\ called' = called /\ args' = args
    BY <1>1 DEF call
  <2>2. Op' = Op
    BY <2>1 DEF Op
  <2>3. req' = req /\ (ours' <=> ours) /\ (fine' <=> fine)
    BY <2>1, <2>2
  <2>4. Made'
    BY <1>0, <2>1, <2>2 DEF Made
  <2>5. Shadowed(called)' <=> Shadowed(called)
    BY <2>1 DEF Shadowed
  <2> HIDE DEF req, ours, fine
  <2>6. /\ phase' = "sent" => request' = req'
        /\ ran' # Nothing /\ ran'.op = called' /\ ours' => ran'.args = args'
        /\ phase' = "answered" /\ ran' = Nothing /\ ours' /\ fine' => Shadowed(called)'
    BY <1>1, <2>1, <2>3, <2>5
  <2> QED BY <1>1, <2>4, <2>6 DEF Delivered, ArgumentsArrive, ReachesTheHandler, req, ours, fine
<1>2. CASE Call
  <2>1. /\ UNCHANGED <<call, ran>> /\ phase = "calling" /\ phase' \in {"over", "sent"}
        /\ phase' = "sent" => request' = req
    BY <1>2 DEF Call
  <2> HIDE DEF req, ours, fine
  <2> QED BY <2>1, <1>0, <1>1
<1>3. CASE Dispatch
  <2>1. UNCHANGED call /\ phase' \in {"answered", "handling"} /\ (phase' = "handling" => ran' # Nothing)
    BY <1>3 DEF Dispatch, Answer, Nothing
  <2>2. ours => /\ ran' # Nothing /\ ran'.op = called => ran'.args = args
                /\ phase' = "answered" /\ ran' = Nothing /\ fine => Shadowed(called)
    BY <1>3, DispatchDelivers
  <2> HIDE DEF req, ours, fine
  <2> QED BY <2>1, <2>2, <1>1
<1>4. CASE Handle
  <2>1. UNCHANGED <<call, ran>> /\ phase = "handling" /\ phase' = "answered"
    BY <1>4 DEF Handle, Answer
  <2> HIDE DEF req, ours, fine
  <2> QED BY <2>1, <1>0, <1>1
<1>5. CASE Lose \/ Read
  <2>1. UNCHANGED <<call, ran>> /\ phase' = "over"
    BY <1>5 DEF Lose, Read
  <2> HIDE DEF req, ours, fine
  <2> QED BY <2>1, <1>0, <1>1
<1>6. CASE TransportFails \/ UNCHANGED vars
  <2>1. UNCHANGED <<call, phase, request, ran>>
    BY <1>6 DEF TransportFails, vars, call
  <2> HIDE DEF req, ours, fine
  <2> QED BY <2>1, <1>0, <1>1
<1> QED BY <1>2, <1>3, <1>4, <1>5, <1>6 DEF Next

(* Delivered holds of every exchange.                                                           *)
LEMMA CallsAreDelivered == Spec => []Delivered
<1>1. Delivered /\ [Next]_vars => Delivered'
  BY DeliveredIsKept
<1> QED BY DeliveredAtFirst, <1>1, PTL DEF Spec

(* The implementation is called with the caller's own arguments, for every accepted service,    *)
(* every pair of languages and all arguments that can travel: from the path, where each         *)
(* placeholder captures what was escaped into it; from the query, a header and a text part,     *)
(* where a comma-joined list is cut again; from a file part and from the body.                  *)
THEOREM ArgumentsComeBack == Spec => []ArgumentsArrive
<1>1. Delivered => ArgumentsArrive
  BY DEF Delivered
<1> QED BY CallsAreDelivered, <1>1, PTL

(* A call whose arguments can travel and whose message is valid is refused by no server: unless *)
(* an operation above answers the same paths, the implementation is called, or the request is   *)
(* lost.                                                                                        *)
THEOREM CallsReachTheirHandler == Spec => []ReachesTheHandler
<1>1. Delivered => ReachesTheHandler
  BY DEF Delivered
<1> QED BY CallsAreDelivered, <1>1, PTL
=============================================================================
