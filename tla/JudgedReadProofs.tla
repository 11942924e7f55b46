--------------------------- MODULE JudgedReadProofs --------------------------
(* What any of the four reads accepts breaks no rule: of any declared types and any payloads. By   *)
(* induction on how deep a type nests: a read is sound where what it read judged breaks nothing,    *)
(* and what it read unjudged breaks nothing of which the walk of validate() says nothing. Where     *)
(* that walk goes is no matter of the proof: a model it does not reach was judged as it was read.   *)
EXTENDS JudgedRead, WellFoundedInduction, TLAPS

(* Every nonempty set of naturals has a least member, so what holds of 0 and of each next number    *)
(* holds of all.                                                                                 *)
LEMMA Least ==
  ASSUME NEW S, S \subseteq Nat, S # {}
  PROVE  \E n \in S : \A m \in S : n <= m
<1> DEFINE Less == {pair \in Nat \X Nat : pair[1] < pair[2]}
<1>1. IsWellFoundedOn(Less, Nat)
  BY NatLessThanWellFounded DEF OpToRel
<1>2. PICK n \in S : \A m \in S : <<m, n>> \notin Less
  <2> HIDE DEF Less
  <2> QED BY <1>1, WFMin
<1>3. ASSUME NEW m \in S PROVE n <= m
  <2>1. n \in Nat /\ m \in Nat /\ ~(m < n)
    BY <1>2
  <2> QED BY <2>1
<1> QED BY <1>3

(* What holds of 0 and of each next number holds of all.                                       *)
LEMMA Induct ==
  ASSUME NEW S, 0 \in S, \A n \in Nat : n \in S => n + 1 \in S
  PROVE  Nat \subseteq S
<1> SUFFICES ASSUME Nat \ S # {} PROVE FALSE
  OBVIOUS
<1>1. PICK n \in Nat \ S : \A m \in Nat \ S : n <= m
  BY Least
<1>2. n # 0 /\ n - 1 \in Nat
  BY <1>1
<1>3. n - 1 \in S
  BY <1>1, <1>2
<1> QED BY <1>1, <1>2, <1>3

(* A function that is recursive over 0..N exists, and its values are those of its steps.          *)
Stays(N, V, step) == \A n \in 1..N : \A v \in V : step[n][v] \in V
Recurs(N, V, first, step, f) ==
  f \in [0..N -> V] /\ f[0] = first /\ \A n \in 1..N : f[n] = step[n][f[n - 1]]
(* A function that recurs over 0..N exists, and is what the recursion says.                     *)
LEMMA RecursionIsDefined ==
  ASSUME NEW N \in Nat, NEW V, NEW first \in V,
         NEW step, Stays(N, V, step)
  PROVE  \E f : Recurs(N, V, first, step, f)
<1> DEFINE Runs(f, m) == f[0] = first /\ \A n \in 1..m : f[n] = step[n][f[n - 1]]
           S == {m \in Nat : m <= N => \E f \in [0..m -> V] : Runs(f, m)}
<1>1. 0 \in S
  <2> DEFINE f == [n \in 0..0 |-> first]
  <2>1. f \in [0..0 -> V] /\ Runs(f, 0)
    OBVIOUS
  <2> QED BY <2>1
<1>2. ASSUME NEW m \in Nat, m \in S PROVE m + 1 \in S
  <2> SUFFICES ASSUME m + 1 <= N PROVE \E f \in [0..m + 1 -> V] : Runs(f, m + 1)
    OBVIOUS
  <2>1. PICK f \in [0..m -> V] : Runs(f, m)
    BY <1>2
  <2> DEFINE next == [n \in 0..m + 1 |-> IF n = m + 1 THEN step[m + 1][f[m]] ELSE f[n]]
  <2>2. f[m] \in V /\ m + 1 \in 1..N
    OBVIOUS
  <2>3. step[m + 1][f[m]] \in V
    BY <2>2 DEF Stays
  <2>4. \A n \in 0..m : next[n] = f[n] /\ f[n] \in V
    OBVIOUS
  <2>5. next[m + 1] = step[m + 1][f[m]]
    OBVIOUS
  <2>6. next \in [0..m + 1 -> V]
    BY <2>3
  <2> HIDE DEF next
  <2>7. ASSUME NEW n \in 1..m + 1 PROVE next[n] = step[n][next[n - 1]]
    <3>1. CASE n \in 1..m
      BY <3>1, <2>1, <2>4
    <3>2. CASE n = m + 1
      BY <3>2, <2>4, <2>5
    <3> QED BY <3>1, <3>2
  <2>8. next[0] = first
    BY <2>1, <2>4
  <2> QED BY <2>6, <2>7, <2>8
<1> HIDE DEF S
<1>3. N \in S
  BY <1>1, <1>2, Induct
<1> QED BY <1>3 DEF S, Recurs

(* A list of lists in one: its items are theirs, and it is empty where each of them is.           *)
LEMMA Flattened ==
  ASSUME NEW S, NEW seqs \in Seq(Seq(S))
  PROVE  /\ FlattenSeq(seqs) \in Seq(S)
         /\ FlattenSeq(seqs) = <<>> => \A i \in DOMAIN seqs : seqs[i] = <<>>
         /\ (\A i \in DOMAIN seqs : seqs[i] = <<>>) => FlattenSeq(seqs) = <<>>
<1> DEFINE N == Len(seqs)
           V == Seq(S)
           step == [n \in 1..N |-> [before \in V |-> before \o seqs[n]]]
           Flat(f) == f = [i \in 1..N |-> IF i = 1 THEN seqs[i] ELSE f[i - 1] \o seqs[i]]
<1>1. N \in Nat /\ (\A n \in 1..N : seqs[n] \in V) /\ <<>> \in V /\ DOMAIN seqs = 1..N
  OBVIOUS
<1>2. CASE N = 0
  <2>1. seqs = <<>> /\ FlattenSeq(seqs) = seqs
    BY <1>2 DEF FlattenSeq
  <2>2. FlattenSeq(seqs) \in Seq(S)
    <3>1. <<>> \in Seq(S)
      OBVIOUS
    <3> QED BY <2>1, <3>1
  <2>3. DOMAIN seqs = {}
    BY <1>1, <1>2
  <2> QED BY <2>1, <2>2, <2>3
<1>3. CASE N # 0
  <2>1. \A n \in 1..N : \A before \in V : step[n][before] = before \o seqs[n] /\ before \o seqs[n] \in V
    BY <1>1
  <2>2. PICK f : Recurs(N, V, <<>>, step, f)
    <3>1. Stays(N, V, step)
      BY <2>1 DEF Stays
    <3> DEFINE start == <<>>
    <3>2. start \in V
      BY <1>1
    <3> HIDE DEF V, N, step, start
    <3>3. \E f : Recurs(N, V, start, step, f)
      BY <3>1, <3>2, <1>1, RecursionIsDefined
    <3> QED BY <3>3 DEF start
  <2>3. f \in [0..N -> V] /\ f[0] = <<>> /\ \A n \in 1..N : f[n] = f[n - 1] \o seqs[n]
    <3>1. f \in [0..N -> V] /\ f[0] = <<>> /\ \A n \in 1..N : f[n] = step[n][f[n - 1]]
      BY <2>2 DEF Recurs
    <3>2. \A n \in 1..N : f[n - 1] \in V
      <4> TAKE n \in 1..N
      <4>1. n - 1 \in 0..N
        BY <1>1
      <4> HIDE DEF V
      <4> QED BY <4>1, <3>1
    <3> HIDE DEF step
    <3> QED BY <3>1, <3>2, <2>1
  <2> DEFINE g == [i \in 1..N |-> f[i]]
  <2>4. Flat(g)
    <3>1. \A i \in 1..N : g[i] = IF i = 1 THEN seqs[i] ELSE g[i - 1] \o seqs[i]
      <4> TAKE i \in 1..N
      <4>1. CASE i = 1
        <5> HIDE DEF N, V, step
        <5>1. f[1] = <<>> \o seqs[1]
          <6>1. f[1] = f[1 - 1] \o seqs[1]
            BY <4>1, <2>3
          <6>2. f[1 - 1] = f[0] /\ f[0] = <<>>
            BY <2>3
          <6> QED BY <6>1, <6>2
        <5>2. <<>> \o seqs[1] = seqs[1]
          <6>1. seqs[1] \in Seq(S)
            BY <4>1, <1>1 DEF V
          <6> HIDE DEF g
          <6> QED BY <6>1
        <5> QED BY <4>1, <5>1, <5>2
      <4>2. CASE i # 1
        <5>1. i - 1 \in 1..N
          BY <4>2, <1>1
        <5> QED BY <5>1, <2>3, <4>2
      <4> QED BY <4>1, <4>2
    <3> QED BY <3>1
  <2> DEFINE h == CHOOSE f_1 : Flat(f_1)
  <2>5. Flat(h)
    BY <2>4
  <2>6. FlattenSeq(seqs) = h[N]
    BY <1>3 DEF FlattenSeq
  <2> HIDE DEF h, g
  <2>7. \A i \in 1..N : h[i] = IF i = 1 THEN seqs[i] ELSE h[i - 1] \o seqs[i]
    BY <2>5
  <2>12. \A i \in 1..N : i # 1 => h[i] = h[i - 1] \o seqs[i]
    BY <2>7
  <2> DEFINE Empty(n) == \A i \in 1..n : seqs[i] = <<>>
             T == {n \in Nat : n + 1 <= N => h[n + 1] \in V /\ (h[n + 1] = <<>> <=> Empty(n + 1))}
  <2>8. 0 \in T
    <3>1. h[1] = seqs[1] /\ seqs[1] \in V
      BY <2>7, <1>1, <1>3
    <3> QED BY <3>1
  <2>9. ASSUME NEW n \in Nat, n \in T PROVE n + 1 \in T
    <3> SUFFICES ASSUME n + 2 <= N PROVE h[n + 2] \in V /\ (h[n + 2] = <<>> <=> Empty(n + 2))
      OBVIOUS
    <3>1. h[n + 1] \in V /\ (h[n + 1] = <<>> <=> Empty(n + 1))
      BY <2>9
    <3>2. n + 2 \in 1..N /\ n + 2 # 1 /\ n + 2 - 1 = n + 1
      BY <1>1
    <3>3. h[n + 2] = h[n + 1] \o seqs[n + 2] /\ seqs[n + 2] \in V
      <4>1. h[n + 2] = h[n + 1] \o seqs[n + 2]
        <5>1. PICK k \in 1..N : k = n + 2 /\ k # 1 /\ k - 1 = n + 1
          BY <3>2
        <5> HIDE DEF N
        <5>2. h[k] = h[k - 1] \o seqs[k]
          BY <5>1, <2>12
        <5> QED BY <5>1, <5>2
      <4>2. seqs[n + 2] \in V
        BY <3>2, <1>1
      <4> QED BY <4>1, <4>2, <3>2
    <3>4. h[n + 2] \in V /\ Len(h[n + 2]) = Len(h[n + 1]) + Len(seqs[n + 2])
      BY <3>1, <3>3
    <3>5. h[n + 2] = <<>> <=> h[n + 1] = <<>> /\ seqs[n + 2] = <<>>
      BY <3>1, <3>3, <3>4
    <3>6. Empty(n + 2) <=> Empty(n + 1) /\ seqs[n + 2] = <<>>
      <4>1. 1..n + 2 = (1..n + 1) \cup {n + 2}
        OBVIOUS
      <4> QED BY <4>1
    <3> QED BY <3>1, <3>4, <3>5, <3>6
  <2> HIDE DEF T
  <2>10. N - 1 \in T
    <3>1. N - 1 \in Nat
      BY <1>1, <1>3
    <3> QED BY <3>1, <2>8, <2>9, Induct
  <2>11. h[N] \in V /\ (h[N] = <<>> <=> Empty(N))
    <3>1. N - 1 + 1 = N /\ N <= N
      BY <1>1
    <3> QED BY <2>10, <3>1 DEF T
  <2> QED BY <2>6, <2>11, <1>1
<1> QED BY <1>2, <1>3

(* A list, of whatever items.                                                                   *)
LEMMA Listing ==
  ASSUME NEW S, NEW s \in Seq(S)
  PROVE  IsListed(s)
BY DEF IsListed, Range

(* Two lists, one after the other.                                                              *)
LEMMA Appended ==
  ASSUME NEW s, NEW t, IsListed(s), IsListed(t)
  PROVE  IsListed(s \o t) /\ (s \o t = <<>> <=> s = <<>> /\ t = <<>>)
<1> DEFINE S == Range(s) \cup Range(t)
<1>1. s \in Seq(S) /\ t \in Seq(S)
  BY DEF IsListed
<1> HIDE DEF S
<1>2. s \o t \in Seq(S) /\ Len(s \o t) = Len(s) + Len(t)
  BY <1>1
<1>3. IsListed(s \o t)
  BY <1>2, Listing
<1> QED BY <1>1, <1>2, <1>3

(* Lists of whatever items, one after the other.                                                *)
LEMMA AllAppended ==
  ASSUME NEW N \in Nat, NEW seqs, seqs = [i \in 1..N |-> seqs[i]], \A i \in 1..N : IsListed(seqs[i])
  PROVE  /\ IsListed(FlattenSeq(seqs))
         /\ FlattenSeq(seqs) = <<>> <=> \A i \in 1..N : seqs[i] = <<>>
<1> DEFINE S == UNION {Range(seqs[i]) : i \in 1..N}
<1>1. \A i \in 1..N : seqs[i] \in Seq(S)
  <2> TAKE i \in 1..N
  <2>1. Range(seqs[i]) \subseteq S
    OBVIOUS
  <2>2. seqs[i] \in Seq(Range(seqs[i]))
    BY DEF IsListed
  <2> HIDE DEF S
  <2> QED BY <2>1, <2>2
<1> HIDE DEF S
<1>2. seqs \in Seq(Seq(S)) /\ DOMAIN seqs = 1..N
  BY <1>1
<1> QED BY <1>2, Flattened, Listing

(* What is said of a place, said of it as part of what holds it.                                *)
LEMMA PutUnder ==
  ASSUME NEW at, NEW said, IsListed(said)
  PROVE  IsListed(Under(at, said)) /\ (Under(at, said) = <<>> <=> said = <<>>)
<1>1. said \in Seq(Range(said))
  BY DEF IsListed
<1>2. PICK n \in Nat : DOMAIN said = 1..n
  BY <1>1
<1> DEFINE S == {Said(at \o said[i].at, said[i].rule) : i \in 1..n}
<1>3. Under(at, said) = [i \in 1..n |-> Said(at \o said[i].at, said[i].rule)]
  BY <1>2 DEF Under
<1>4. Under(at, said) \in Seq(S)
  BY <1>3
<1>5. IsListed(Under(at, said))
  BY <1>4, Listing
<1>6. Len(Under(at, said)) = n /\ Len(said) = n
  BY <1>1, <1>2, <1>3
<1> QED BY <1>1, <1>4, <1>5, <1>6

----------------------------------------------------------------------------

(* Where a payload comes from: the values of JSON, with what is taken out of one and what the        *)
(* declared functions make of one.                                                               *)
AreJson(Json) ==
  /\ Null \in Json
  /\ \A json \in Json :
       /\ json.kind = "list" => json.items \in Seq(Json)
       /\ json.kind = "object" =>
            /\ \A key \in DOMAIN json.entries : json.entries[key] \in Json
            /\ Object(Without(json.entries, {TagKey})) \in Json
       /\ CorrectedBy(TRUE, json) \in Json
  /\ \A given \in DOMAIN Payloads : Payloads[given] \subseteq Json

(* The keys an object lists are its own.                                                        *)
LEMMA ListedAreItsOwn ==
  ASSUME NEW entries
  PROVE  Listed(entries) \in Seq(DOMAIN entries)
<1> DEFINE D == DOMAIN entries
           Of(i) == IF KeyOrder[i] \in D THEN <<KeyOrder[i]>> ELSE <<>>
           seqs == [i \in DOMAIN KeyOrder |-> Of(i)]
<1>1. PICK n \in Nat : DOMAIN KeyOrder = 1..n
  BY KeysAreListed DEF IsListed
<1>2. \A i \in 1..n : Of(i) \in Seq(D)
  <2> TAKE i \in 1..n
  <2>1. \A x \in D : <<x>> \in Seq(D)
    OBVIOUS
  <2>2. <<>> \in Seq(D)
    OBVIOUS
  <2> QED BY <2>1, <2>2
<1> HIDE DEF Of, D
<1>3. seqs \in Seq(Seq(D))
  BY <1>1, <1>2
<1>4. Listed(entries) = FlattenSeq(seqs)
  BY DEF Listed, Of, D
<1> HIDE DEF seqs
<1>5. FlattenSeq(seqs) \in Seq(D)
  BY <1>3, Flattened
<1> QED BY <1>4, <1>5 DEF D

(* What a type is written over is read, and nests less deep.                                    *)
LEMMA OverAreTypes ==
  ASSUME NEW ty \in Types, ty.t # "model", NEW of \in Over(ty)
  PROVE  of \in Types /\ Depth[of] \in Nat /\ Depth[ty] \in Nat /\ Depth[of] < Depth[ty]
BY TypesAreNested DEF Within

(* The places of each wrapper.                                                                  *)
LEMMA PlacesOf ==
  ASSUME NEW ty, NEW held
  PROVE  /\ ty.t = "option" => Places(ty, held) = IF held = Null THEN <<>> ELSE <<Place(ty.of, held, <<>>)>>
         /\ ty.t = "list" => Places(ty, held) = [i \in DOMAIN held.items |-> Place(ty.of, held.items[i], <<Index(i - 1)>>)]
         /\ ty.t = "map" => Places(ty, held) = [i \in DOMAIN Listed(held.entries) |->
                              Place(ty.of, held.entries[Listed(held.entries)[i]], <<Key(Listed(held.entries)[i])>>)]
         /\ ty.t = "tuple" => Places(ty, held) = [i \in DOMAIN held.items |-> Place(ty.slots[i], held.items[i], <<Index(i - 1)>>)]
         /\ ty.t = "range" => Places(ty, held) = [i \in 1 .. 2 |-> Place(ty.of, held.entries[Bounds[i]], <<Key(Bounds[i])>>)]
<1>1. ty.t = "option" => Places(ty, held) = IF held = Null THEN <<>> ELSE <<Place(ty.of, held, <<>>)>>
  BY DEF Places
<1>2. ty.t = "list" => Places(ty, held) = [i \in DOMAIN held.items |-> Place(ty.of, held.items[i], <<Index(i - 1)>>)]
  BY DEF Places
<1>3. ty.t = "map" => Places(ty, held) = [i \in DOMAIN Listed(held.entries) |->
                        Place(ty.of, held.entries[Listed(held.entries)[i]], <<Key(Listed(held.entries)[i])>>)]
  BY DEF Places
<1>4. ty.t = "tuple" => Places(ty, held) = [i \in DOMAIN held.items |-> Place(ty.slots[i], held.items[i], <<Index(i - 1)>>)]
  BY DEF Places
<1>5. ty.t = "range" => Places(ty, held) = [i \in 1 .. 2 |-> Place(ty.of, held.entries[Bounds[i]], <<Key(Bounds[i])>>)]
  BY DEF Places
<1> QED BY <1>1, <1>2, <1>3, <1>4, <1>5

(* What a result holds is in one place, under the key of its arm.                                 *)
LEMMA PlaceOfAnArm ==
  ASSUME NEW ty, NEW held, NEW arm, arm = (CHOOSE i \in 1 .. 2 : Arms[i] \in DOMAIN held.entries), ty.t = "result"
  PROVE  Places(ty, held) = <<Place(ty.slots[arm], held.entries[Arms[arm]], <<Key(Arms[arm])>>)>>
BY DEF Places

(* The arm of a result that holds one.                                                          *)
LEMMA OneArm ==
  ASSUME NEW entries, NEW key \in {"Ok", "Err"}, DOMAIN entries = {key}
  PROVE  \E arm \in 1..2 : /\ arm = (CHOOSE i \in 1 .. 2 : Arms[i] \in DOMAIN entries)
                           /\ Arms[arm] = key
<1>1. \E i \in 1..2 : Arms[i] = key
  <2>1. Arms[1] = "Ok" /\ Arms[2] = "Err"
    BY DEF Arms
  <2> QED BY <2>1
<1> DEFINE arm == CHOOSE i \in 1 .. 2 : Arms[i] \in DOMAIN entries
<1>2. arm \in 1..2 /\ Arms[arm] \in DOMAIN entries
  BY <1>1
<1> QED BY <1>2

(* The places of a payload that has its type's form hold payloads.                              *)
LEMMA PlacesHold ==
  ASSUME NEW Json, AreJson(Json), NEW ty \in Types, ty.t \in Wrappers, NEW json \in Json, Fits(ty, json)
  PROVE  \E n \in Nat :
           /\ DOMAIN Places(ty, json) = 1..n
           /\ \A i \in 1..n : Places(ty, json)[i].ty \in Over(ty) /\ Places(ty, json)[i].held \in Json
<1>1. CASE ty.t = "option"
  <2>1. Over(ty) = {ty.of}
    BY <1>1 DEF Over
  <2>2. CASE json = Null
    <3>1. Places(ty, json) = <<>>
      BY <1>1, <2>2, PlacesOf
    <3> QED BY <3>1
  <2>3. CASE json # Null
    <3>1. Places(ty, json) = <<Place(ty.of, json, <<>>)>>
      BY <1>1, <2>3, PlacesOf
    <3>2. DOMAIN Places(ty, json) = 1..1 /\ Places(ty, json)[1].ty = ty.of /\ Places(ty, json)[1].held = json
      BY <3>1 DEF Place
    <3> QED BY <2>1, <3>2
  <2> QED BY <2>2, <2>3
<1>2. CASE ty.t = "list"
  <2>1. Over(ty) = {ty.of}
    BY <1>2 DEF Over
  <2>2. json.items \in Seq(Json)
    BY <1>2 DEF Fits, AreJson
  <2>3. Places(ty, json) = [i \in DOMAIN json.items |-> Place(ty.of, json.items[i], <<Index(i - 1)>>)]
    BY <1>2, PlacesOf
  <2>4. PICK n \in Nat : DOMAIN json.items = 1..n /\ \A i \in 1..n : json.items[i] \in Json
    BY <2>2
  <2> QED BY <2>1, <2>3, <2>4 DEF Place
<1>3. CASE ty.t = "map"
  <2>1. Over(ty) = {ty.of}
    BY <1>3 DEF Over
  <2>2. \A key \in DOMAIN json.entries : json.entries[key] \in Json
    BY <1>3 DEF Fits, AreJson
  <2> DEFINE keys == Listed(json.entries)
  <2>3. keys \in Seq(DOMAIN json.entries)
    BY ListedAreItsOwn
  <2>4. Places(ty, json) = [i \in DOMAIN keys |-> Place(ty.of, json.entries[keys[i]], <<Key(keys[i])>>)]
    BY <1>3, PlacesOf
  <2> HIDE DEF keys
  <2>5. PICK n \in Nat : DOMAIN keys = 1..n /\ \A i \in 1..n : keys[i] \in DOMAIN json.entries
    BY <2>3
  <2> QED BY <2>1, <2>2, <2>4, <2>5 DEF Place
<1>4. CASE ty.t = "tuple"
  <2>1. Over(ty) = Range(ty.slots) /\ ty.slots \in Seq(Types)
    BY <1>4, TypesAreNested DEF Over
  <2>2. json.items \in Seq(Json) /\ Len(json.items) = Len(ty.slots)
    BY <1>4 DEF Fits, AreJson
  <2>3. Places(ty, json) = [i \in DOMAIN json.items |-> Place(ty.slots[i], json.items[i], <<Index(i - 1)>>)]
    BY <1>4, PlacesOf
  <2>4. PICK n \in Nat : DOMAIN json.items = 1..n /\ (\A i \in 1..n : json.items[i] \in Json) /\ DOMAIN ty.slots = 1..n
    BY <2>1, <2>2
  <2>5. \A i \in 1..n : ty.slots[i] \in Over(ty)
    BY <2>1, <2>4 DEF Range
  <2> QED BY <2>3, <2>4, <2>5 DEF Place
<1>5. CASE ty.t = "range"
  <2>1. Over(ty) = {ty.of}
    BY <1>5 DEF Over
  <2>2. \A i \in 1..2 : Bounds[i] \in {"start", "end"}
    BY DEF Bounds
  <2>3. \A i \in 1..2 : json.entries[Bounds[i]] \in Json
    BY <1>5, <2>2 DEF Fits, AreJson
  <2>4. Places(ty, json) = [i \in 1 .. 2 |-> Place(ty.of, json.entries[Bounds[i]], <<Key(Bounds[i])>>)]
    BY <1>5, PlacesOf
  <2> QED BY <2>1, <2>3, <2>4 DEF Place
<1>6. CASE ty.t = "result"
  <2>1. Over(ty) = Range(ty.slots) /\ ty.slots \in Seq(Types) /\ Len(ty.slots) = 2
    BY <1>6, TypesAreNested DEF Over
  <2>2. json.kind = "object"
    BY <1>6 DEF Fits
  <2>3. PICK key \in {"Ok", "Err"} : DOMAIN json.entries = {key}
    BY <1>6 DEF Fits
  <2>4. PICK arm \in 1..2 : arm = (CHOOSE i \in 1 .. 2 : Arms[i] \in DOMAIN json.entries) /\ Arms[arm] = key
    BY <2>3, OneArm
  <2>5. Places(ty, json) = <<Place(ty.slots[arm], json.entries[Arms[arm]], <<Key(Arms[arm])>>)>>
    BY <1>6, <2>4, PlaceOfAnArm
  <2>6. ty.slots[arm] \in Over(ty)
    BY <2>1 DEF Range
  <2>7. json.entries[Arms[arm]] \in Json
    BY <2>2, <2>3, <2>4 DEF AreJson
  <2>8. DOMAIN Places(ty, json) = 1..1 /\ Places(ty, json)[1].ty = ty.slots[arm] /\ Places(ty, json)[1].held = json.entries[Arms[arm]]
    BY <2>5 DEF Place
  <2> QED BY <2>6, <2>7, <2>8
<1> QED BY <1>1, <1>2, <1>3, <1>4, <1>5, <1>6 DEF Wrappers

(* The places of what was rebuilt hold just the values that were read, of the types they were.     *)
HoldsJust(rebuilt, places, n, values) ==
  \E m \in Nat : /\ DOMAIN rebuilt = 1..m
                 /\ \A i \in 1..m : \E j \in 1..n : rebuilt[i].ty = places[j].ty /\ rebuilt[i].held = values[j]

(* What is rebuilt of what was read of each place holds just what was read, and of a list is one.  *)
LEMMA RebuiltPlaces ==
  ASSUME NEW Json, AreJson(Json), NEW ty \in Types, ty.t \in Wrappers, NEW json \in Json, Fits(ty, json),
         NEW n \in Nat, DOMAIN Places(ty, json) = 1..n,
         NEW values, DOMAIN values = 1..n
  PROVE  HoldsJust(Places(ty, Rebuilt(ty, json, values)), Places(ty, json), n, values)
<1> DEFINE places == Places(ty, json)
           new == Rebuilt(ty, json, values)
           rebuilt == Places(ty, new)
           Holds(m) == /\ DOMAIN rebuilt = 1..m
                       /\ \A i \in 1..m : \E j \in 1..n : rebuilt[i].ty = places[j].ty /\ rebuilt[i].held = values[j]
<1> SUFFICES \E m \in Nat : Holds(m)
  BY DEF HoldsJust
<1>1. CASE ty.t = "option"
  <2>1. CASE new = Null
    <3>1. rebuilt = <<>>
      BY <1>1, <2>1, PlacesOf
    <3>2. Holds(0)
      BY <3>1
    <3> QED BY <3>2
  <2>2. CASE new # Null
    <3>1. new = values[1] /\ json # Null
      BY <1>1, <2>2 DEF Rebuilt
    <3>2. rebuilt = <<Place(ty.of, new, <<>>)>>
      BY <1>1, <2>2, PlacesOf
    <3>3. places = <<Place(ty.of, json, <<>>)>>
      BY <1>1, <3>1, PlacesOf
    <3>4. n = 1
      BY <3>3
    <3>5. DOMAIN rebuilt = 1..1 /\ rebuilt[1].ty = ty.of /\ rebuilt[1].held = new /\ places[1].ty = ty.of
      BY <3>2, <3>3 DEF Place
    <3>6. Holds(1)
      BY <3>1, <3>4, <3>5
    <3> QED BY <3>6
  <2> QED BY <2>1, <2>2
<1>2. CASE ty.t = "list"
  <2>1. new = List(values)
    BY <1>2 DEF Rebuilt
  <2>2. new.items = values
    BY <2>1 DEF List
  <2> HIDE DEF new
  <2>3. rebuilt = [i \in DOMAIN values |-> Place(ty.of, values[i], <<Index(i - 1)>>)]
    BY <1>2, <2>2, PlacesOf
  <2>4. places = [i \in 1..n |-> Place(ty.of, json.items[i], <<Index(i - 1)>>)]
    <3>1. places = [i \in DOMAIN json.items |-> Place(ty.of, json.items[i], <<Index(i - 1)>>)]
      BY <1>2, PlacesOf
    <3> QED BY <3>1
  <2>5. DOMAIN values = 1..n
    OBVIOUS
  <2> HIDE DEF places, rebuilt
  <2>6. DOMAIN rebuilt = 1..n /\ \A i \in 1..n : rebuilt[i].ty = places[i].ty /\ rebuilt[i].held = values[i]
    BY <2>3, <2>4, <2>5 DEF Place
  <2> QED BY <2>6
<1>3. CASE ty.t = "tuple"
  <2>1. new = List(values)
    BY <1>3 DEF Rebuilt
  <2>2. new.items = values
    BY <2>1 DEF List
  <2> HIDE DEF new
  <2>3. rebuilt = [i \in DOMAIN values |-> Place(ty.slots[i], values[i], <<Index(i - 1)>>)]
    BY <1>3, <2>2, PlacesOf
  <2>4. places = [i \in 1..n |-> Place(ty.slots[i], json.items[i], <<Index(i - 1)>>)]
    <3>1. places = [i \in DOMAIN json.items |-> Place(ty.slots[i], json.items[i], <<Index(i - 1)>>)]
      BY <1>3, PlacesOf
    <3> QED BY <3>1
  <2>5. DOMAIN values = 1..n
    OBVIOUS
  <2> HIDE DEF places, rebuilt
  <2>6. DOMAIN rebuilt = 1..n /\ \A i \in 1..n : rebuilt[i].ty = places[i].ty /\ rebuilt[i].held = values[i]
    BY <2>3, <2>4, <2>5 DEF Place
  <2> QED BY <2>6
<1>4. CASE ty.t \in {"map", "range", "result"}
  <2> DEFINE KeyOf(i) == places[i].at[1].key
             Of(key) == values[CHOOSE i \in 1..n : KeyOf(i) = key]
             entries == [key \in {KeyOf(i) : i \in 1..n} |-> Of(key)]
  <2>1. new = Object(entries)
    BY <1>4 DEF Rebuilt
  <2> HIDE DEF new, entries
  <2>2. new.entries = entries
    BY <2>1 DEF Object
  <2> USE DEF entries
  <2>3. \A key \in {KeyOf(i) : i \in 1..n} : \E j \in 1..n : entries[key] = values[j] /\ KeyOf(j) = key
    <3> HIDE DEF KeyOf
    <3> TAKE key \in {KeyOf(i) : i \in 1..n}
    <3>1. \E j \in 1..n : j = (CHOOSE i \in 1..n : KeyOf(i) = key) /\ KeyOf(j) = key
      OBVIOUS
    <3>2. entries[key] = Of(key)
      OBVIOUS
    <3> QED BY <3>1, <3>2
  <2>4. DOMAIN entries = {KeyOf(i) : i \in 1..n}
    OBVIOUS
  <2> HIDE DEF entries
  <2>5. CASE ty.t = "map"
    <3> DEFINE before == Listed(json.entries)
               after == Listed(entries)
    <3>1. places = [i \in DOMAIN before |-> Place(ty.of, json.entries[before[i]], <<Key(before[i])>>)]
      BY <2>5, PlacesOf
    <3>2. rebuilt = [i \in DOMAIN after |-> Place(ty.of, entries[after[i]], <<Key(after[i])>>)]
      BY <2>5, <2>2, PlacesOf
    <3>3. after \in Seq(DOMAIN entries)
      BY ListedAreItsOwn
    <3> HIDE DEF before, after
    <3>4. PICK m \in Nat : DOMAIN after = 1..m /\ \A i \in 1..m : after[i] \in DOMAIN entries
      BY <3>3
    <3>5. \A i \in 1..m : \E j \in 1..n : entries[after[i]] = values[j]
      <4> HIDE DEF KeyOf
      <4> QED BY <2>3, <2>4, <3>4
    <3>6. \A i \in 1..m : rebuilt[i].ty = ty.of /\ rebuilt[i].held = entries[after[i]]
      BY <3>2, <3>4 DEF Place
    <3>7. \A j \in 1..n : places[j].ty = ty.of
      BY <3>1 DEF Place
    <3>8. DOMAIN rebuilt = 1..m
      BY <3>2, <3>4
    <3> HIDE DEF places, rebuilt
    <3>9. Holds(m)
      BY <3>5, <3>6, <3>7, <3>8
    <3> QED BY <3>9
  <2>6. CASE ty.t = "range"
    <3>1. places = [i \in 1 .. 2 |-> Place(ty.of, json.entries[Bounds[i]], <<Key(Bounds[i])>>)]
      BY <2>6, PlacesOf
    <3>2. rebuilt = [i \in 1 .. 2 |-> Place(ty.of, entries[Bounds[i]], <<Key(Bounds[i])>>)]
      BY <2>6, <2>2, PlacesOf
    <3>3. n = 2
      BY <3>1
    <3>4. \A i \in 1..2 : places[i].ty = ty.of /\ places[i].at = <<Key(Bounds[i])>>
      BY <3>1 DEF Place
    <3>5. \A i \in 1..2 : KeyOf(i) = Bounds[i]
      BY <3>4 DEF Key
    <3>6. \A i \in 1..2 : \E j \in 1..n : entries[Bounds[i]] = values[j]
      <4> HIDE DEF KeyOf
      <4> QED BY <2>3, <3>3, <3>5
    <3>7. DOMAIN rebuilt = 1..2 /\ \A i \in 1..2 : rebuilt[i].ty = ty.of /\ rebuilt[i].held = entries[Bounds[i]]
      BY <3>2 DEF Place
    <3> HIDE DEF places, rebuilt, KeyOf
    <3>8. Holds(2)
      BY <3>3, <3>4, <3>6, <3>7
    <3> QED BY <3>8
  <2>7. CASE ty.t = "result"
    <3> HIDE DEF KeyOf
    <3>1. PICK key \in {"Ok", "Err"} : DOMAIN json.entries = {key}
      BY <2>7 DEF Fits
    <3>2. PICK arm \in 1..2 : arm = (CHOOSE i \in 1 .. 2 : Arms[i] \in DOMAIN json.entries) /\ Arms[arm] = key
      BY <3>1, OneArm
    <3>3. places = <<Place(ty.slots[arm], json.entries[Arms[arm]], <<Key(Arms[arm])>>)>>
      <4> HIDE DEF entries, KeyOf
      <4>1. ty.t = "result" /\ arm = (CHOOSE i \in 1 .. 2 : Arms[i] \in DOMAIN json.entries)
        BY <2>7, <3>2
      <4>2. Places(ty, json) = <<Place(ty.slots[arm], json.entries[Arms[arm]], <<Key(Arms[arm])>>)>>
        BY <4>1, PlaceOfAnArm
      <4> QED BY <4>2
    <3>4. n = 1
      BY <3>3
    <3>5. places[1].at = <<Key(key)>> /\ places[1].ty = ty.slots[arm]
      BY <3>2, <3>3 DEF Place
    <3>6. KeyOf(1) = key
      BY <3>5 DEF Key, KeyOf
    <3>7. DOMAIN entries = {key}
      <4> HIDE DEF KeyOf
      <4> QED BY <2>4, <3>4, <3>6
    <3>8. entries[key] = values[1]
      <4> HIDE DEF KeyOf
      <4> QED BY <2>3, <3>4, <3>6
    <3>9. arm = (CHOOSE i \in 1 .. 2 : Arms[i] \in DOMAIN new.entries)
      BY <3>1, <3>2, <3>7, <2>2
    <3>10. rebuilt = <<Place(ty.slots[arm], entries[Arms[arm]], <<Key(Arms[arm])>>)>>
      BY <2>7, <2>2, <3>9, PlaceOfAnArm
    <3>11. DOMAIN rebuilt = 1..1 /\ rebuilt[1].ty = ty.slots[arm] /\ rebuilt[1].held = values[1]
      BY <3>2, <3>8, <3>10 DEF Place
    <3> HIDE DEF places, rebuilt
    <3>12. Holds(1)
      BY <3>4, <3>5, <3>11
    <3> QED BY <3>12
  <2> QED BY <1>4, <2>5, <2>6, <2>7
<1> QED BY <1>1, <1>2, <1>3, <1>4 DEF Wrappers

----------------------------------------------------------------------------

(* What a read answers of a type is sound: where the read judged it, or nothing is said of it, it    *)
(* breaks no rule. A bound is of a text or a list, and these are read as one.                      *)
Sound(ty, value, says, judged) ==
  /\ IsListed(says)
  /\ judged \/ says = <<>> => BrokenInBelow(ty, value) = {}
  /\ ty.t \in {"text", "list"} => value.kind = ty.t

(* BrokenIn calls itself.                                                                       *)
BrokenInIsItself == \A ty \in Types : \A value : BrokenInBelow(ty, value) = BrokenIn(ty, value)

(* Lists in which each item is put under its place.                                             *)
LEMMA AllPutUnder ==
  ASSUME NEW m \in Nat, NEW at, NEW says, \A i \in 1..m : IsListed(says[i])
  PROVE  LET all == FlattenSeq([i \in 1..m |-> Under(at[i], says[i])])
         IN IsListed(all) /\ (all = <<>> => \A i \in 1..m : says[i] = <<>>)
<1> DEFINE seqs == [i \in 1..m |-> Under(at[i], says[i])]
<1>1. \A i \in 1..m : seqs[i] = Under(at[i], says[i])
  OBVIOUS
<1>2. \A i \in 1..m : IsListed(seqs[i]) /\ (seqs[i] = <<>> <=> says[i] = <<>>)
  BY <1>1, PutUnder
<1>3. seqs = [i \in 1..m |-> seqs[i]]
  OBVIOUS
<1> HIDE DEF seqs
<1>4. IsListed(FlattenSeq(seqs)) /\ (FlattenSeq(seqs) = <<>> <=> \A i \in 1..m : seqs[i] = <<>>)
  BY <1>2, <1>3, AllAppended
<1> QED BY <1>2, <1>4 DEF seqs

(* A wrapper is sound where each place it holds is.                                              *)
LEMMA WrapperIsSound ==
  ASSUME NEW Json, AreJson(Json), BrokenInIsItself,
         NEW ty \in Types, ty.t \in Wrappers, NEW json \in Json, Fits(ty, json),
         NEW n \in Nat, DOMAIN Places(ty, json) = 1..n,
         NEW reads, DOMAIN reads = 1..n, NEW judged \in BOOLEAN, NEW says,
         LET read == Gathered(ty, json, reads)
             held == Places(ty, read.value)
         IN /\ read.ok
            /\ \A i \in DOMAIN held : \A j \in 1..n :
                 held[i].ty = Places(ty, json)[j].ty /\ held[i].held = reads[j].value /\ reads[j].ok
                 => Sound(held[i].ty, held[i].held, says[i], judged)
  PROVE  LET value == Gathered(ty, json, reads).value
             held == Places(ty, value)
         IN Sound(ty, value, FlattenSeq([i \in DOMAIN held |-> Under(held[i].at, says[i])]), judged)
<1> DEFINE values == [i \in 1..n |-> reads[i].value]
           value == Rebuilt(ty, json, values)
           held == Places(ty, value)
<1>1. AllRead(reads) /\ Gathered(ty, json, reads) = Ok(value)
  BY DEF Gathered, Ended, Refused
<1>2. Gathered(ty, json, reads).value = value
  BY <1>1 DEF Ok
<1>3. \A i \in 1..n : reads[i].ok
  BY <1>1 DEF AllRead
<1>4. PICK m \in Nat : /\ DOMAIN held = 1..m
                       /\ \A i \in 1..m : \E j \in 1..n : held[i].ty = Places(ty, json)[j].ty /\ held[i].held = reads[j].value
  <2>1. DOMAIN values = 1..n /\ \A j \in 1..n : values[j] = reads[j].value
    OBVIOUS
  <2> HIDE DEF values
  <2>2. \E m \in Nat : /\ DOMAIN held = 1..m
                       /\ \A i \in 1..m : \E j \in 1..n : held[i].ty = Places(ty, json)[j].ty /\ held[i].held = values[j]
    <3>1. value = Rebuilt(ty, json, values)
      OBVIOUS
    <3> HIDE DEF value
    <3>2. held = Places(ty, Rebuilt(ty, json, values))
      BY <3>1
    <3> HIDE DEF held
    <3>3. HoldsJust(Places(ty, Rebuilt(ty, json, values)), Places(ty, json), n, values)
      BY <2>1, RebuiltPlaces
    <3> QED BY <3>2, <3>3 DEF HoldsJust
  <2> HIDE DEF held, value
  <2>3. PICK m \in Nat : /\ DOMAIN held = 1..m
                         /\ \A i \in 1..m : \E j \in 1..n : held[i].ty = Places(ty, json)[j].ty /\ held[i].held = values[j]
    BY <2>2
  <2>4. \A i \in 1..m : \E j \in 1..n : held[i].ty = Places(ty, json)[j].ty /\ held[i].held = reads[j].value
    BY <2>1, <2>3
  <2> QED BY <2>3, <2>4
<1> HIDE DEF held, value
<1>5. \A i \in DOMAIN held : \A j \in 1..n :
        held[i].ty = Places(ty, json)[j].ty /\ held[i].held = reads[j].value /\ reads[j].ok
        => Sound(held[i].ty, held[i].held, says[i], judged)
  BY <1>2 DEF held
<1>6. \A i \in 1..m : Sound(held[i].ty, held[i].held, says[i], judged)
  BY <1>3, <1>4, <1>5
<1> DEFINE all == FlattenSeq([i \in 1..m |-> Under(held[i].at, says[i])])
<1>7. IsListed(all) /\ (all = <<>> => \A i \in 1..m : says[i] = <<>>)
  <2> DEFINE at == [i \in 1..m |-> held[i].at]
  <2>1. \A i \in 1..m : IsListed(says[i])
    BY <1>6 DEF Sound
  <2>2. all = FlattenSeq([i \in 1..m |-> Under(at[i], says[i])])
    OBVIOUS
  <2> HIDE DEF at, all
  <2> QED BY <2>1, <2>2, AllPutUnder
<1> HIDE DEF all
<1>8. judged \/ all = <<>> => BrokenInBelow(ty, value) = {}
  <2> SUFFICES ASSUME judged \/ all = <<>> PROVE BrokenInBelow(ty, value) = {}
    OBVIOUS
  <2>1. \A i \in 1..m : BrokenInBelow(held[i].ty, held[i].held) = {}
    BY <1>6, <1>7 DEF Sound
  <2>2. ty.t \notin {"text", "filled", "model"}
    BY DEF Wrappers
  <2>3. ty.t # "text" /\ ty.t # "filled" /\ ty.t # "model"
    BY <2>2
  <2>4. BrokenIn(ty, value) = UNION {{Said(held[i].at \o one.at, one.rule) : one \in BrokenInBelow(held[i].ty, held[i].held)} : i \in DOMAIN held}
    BY <2>3 DEF BrokenIn, held
  <2>5. BrokenIn(ty, value) = {}
    BY <1>4, <2>1, <2>4
  <2> QED BY <2>5 DEF BrokenInIsItself
<1>9. ty.t \in {"text", "list"} => value.kind = ty.t
  BY DEF Wrappers, value, Rebuilt, List
<1>10. all = FlattenSeq([i \in DOMAIN held |-> Under(held[i].at, says[i])])
  BY <1>4 DEF all
<1>11. Sound(ty, value, all, judged)
  BY <1>7, <1>8, <1>9 DEF Sound
<1> QED BY <1>2, <1>10, <1>11 DEF held

(* The first of what reads.                                                                     *)
LEMMA FirstIsOne ==
  ASSUME NEW n \in Nat, NEW reads, DOMAIN reads = 1..n, FirstRead(reads).ok
  PROVE  \E i \in 1..n : reads[i].ok /\ FirstRead(reads) = Ok(Value(i, reads[i].value))
<1> DEFINE S == {i \in 1..n : reads[i].ok}
           IsFirst(i) == reads[i].ok /\ \A j \in 1 .. i - 1 : ~reads[j].ok
           first == CHOOSE i \in DOMAIN reads : IsFirst(i)
<1>1. S # {} /\ S \subseteq Nat
  BY DEF FirstRead, Ended, Refused
<1>2. PICK i \in S : \A j \in S : i <= j
  <2> HIDE DEF S
  <2> QED BY <1>1, Least
<1>3. IsFirst(i) /\ i \in DOMAIN reads
  BY <1>2
<1>4. first \in DOMAIN reads /\ IsFirst(first)
  <2> HIDE DEF IsFirst
  <2> QED BY <1>3
<1>5. FirstRead(reads) = Ok(Value(first, reads[first].value))
  <2>1. ~\A k \in DOMAIN reads : ~reads[k].ok
    BY <1>3
  <2> QED BY <2>1 DEF FirstRead
<1> HIDE DEF first
<1> QED BY <1>4, <1>5

(* The members of what reads are read.                                                          *)
MembersOfReads(content, handed, reads, n) ==
  [i \in 1..n |-> IF PayloadOf(content.members[i], handed) = {} THEN {} ELSE {reads[i].value}]
(* Where the members of a content are read, each of them was, and the value holds what each read. *)
LEMMA MembersAreRead ==
  ASSUME NEW content, NEW handed, NEW reads, NEW n, DOMAIN reads = 1..n, MembersRead(content, handed, reads).ok
  PROVE  /\ \A i \in 1..n : reads[i].ok
         /\ MembersRead(content, handed, reads) = Ok(MembersOfReads(content, handed, reads, n))
<1>1. AllRead(reads) /\ \E form \in handed : Formed(content, form)
  BY DEF MembersRead, Ended, Refused
<1> QED BY <1>1 DEF MembersRead, AllRead, MembersOfReads

----------------------------------------------------------------------------

(* What is at the path of no step, and of one.                                                  *)
LEMMA AtNoStep ==
  ASSUME NEW value
  PROVE  At(value, <<>>) = {value}
<1> DEFINE None == <<>>
           Folds(f) == f = [s \in SUBSET {} |-> IF s = {} THEN {value}
                                                ELSE LET x == Max(s) IN UNION {Child(slot, None[x]) : slot \in f[s \ {x}]}]
           one == [s \in SUBSET {} |-> {value}]
           folded == CHOOSE f : Folds(f)
<1>1. DOMAIN None = {}
  OBVIOUS
<1>2. At(value, None) = folded[{}]
  BY <1>1 DEF At, FoldLeft, MapThenFoldSet
<1>3. \A s \in SUBSET {} : s = {}
  OBVIOUS
<1>4. Folds(one)
  BY <1>3
<1>5. Folds(folded)
  <2> HIDE DEF Folds, one
  <2> QED BY <1>4
<1> HIDE DEF folded
<1> QED BY <1>2, <1>5

(* A path of one step leads where that step leads.                                                *)
LEMMA AtOneStep ==
  ASSUME NEW value, NEW step
  PROVE  At(value, <<step>>) = Child(value, step)
<1> DEFINE path == <<step>>
           Folds(f) == f = [s \in SUBSET {1} |-> IF s = {} THEN {value}
                                                 ELSE LET x == Max(s) IN UNION {Child(slot, path[x]) : slot \in f[s \ {x}]}]
           one == [s \in SUBSET {1} |-> IF s = {} THEN {value} ELSE Child(value, step)]
           folded == CHOOSE f : Folds(f)
<1>1. DOMAIN path = {1}
  OBVIOUS
<1>2. At(value, path) = folded[{1}]
  BY <1>1 DEF At, FoldLeft, MapThenFoldSet
<1>3. \A s \in SUBSET {1} : s = {} \/ s = {1}
  OBVIOUS
<1>4. Max({1}) = 1
  BY DEF Max
<1>5. {1} \ {1} = {} /\ path[1] = step /\ UNION {Child(slot, step) : slot \in {value}} = Child(value, step)
  OBVIOUS
<1>6. Folds(one)
  <2>1. ASSUME NEW s \in SUBSET {1}
        PROVE  one[s] = IF s = {} THEN {value} ELSE LET x == Max(s) IN UNION {Child(slot, path[x]) : slot \in one[s \ {x}]}
    <3>1. CASE s = {}
      BY <3>1
    <3>2. CASE s = {1}
      <4>1. one[{}] = {value} /\ one[{1}] = Child(value, step)
        OBVIOUS
      <4> HIDE DEF one, path
      <4>2. UNION {Child(slot, path[1]) : slot \in one[{1} \ {1}]} = Child(value, step)
        BY <4>1, <1>5
      <4> QED BY <3>2, <4>1, <4>2, <1>4
    <3> QED BY <1>3, <3>1, <3>2
  <2> QED BY <2>1
<1>7. Folds(folded)
  <2> HIDE DEF Folds, one
  <2> QED BY <1>6
<1> HIDE DEF folded
<1>8. folded[{1}] = UNION {Child(slot, path[1]) : slot \in folded[{}]} /\ folded[{}] = {value}
  <2>1. \A s \in SUBSET {1} : folded[s] = IF s = {} THEN {value} ELSE LET x == Max(s) IN UNION {Child(slot, path[x]) : slot \in folded[s \ {x}]}
    BY <1>7
  <2>2. {1} \in SUBSET {1} /\ {1} # {} /\ {} \in SUBSET {1}
    OBVIOUS
  <2> HIDE DEF path, Folds
  <2>3. folded[{}] = {value}
    BY <2>1, <2>2
  <2>4. folded[{1}] = LET x == Max({1}) IN UNION {Child(slot, path[x]) : slot \in folded[{1} \ {x}]}
    BY <2>1, <2>2
  <2> QED BY <2>3, <2>4, <1>4, <1>5
<1> QED BY <1>2, <1>5, <1>8

(* What a payload holds is one.                                                                 *)
LEMMA ChildIsJson ==
  ASSUME NEW Json, AreJson(Json), NEW json \in Json, NEW step, IsKey(step) \/ step.index \in Nat
  PROVE  Child(json, step) \subseteq Json
<1>1. CASE IsKey(step)
  BY <1>1 DEF Child, AreJson
<1>2. CASE ~IsKey(step)
  <2>1. SUFFICES ASSUME json.kind = "list", step.index < Len(json.items) PROVE json.items[step.index + 1] \in Json
    BY <1>2 DEF Child
  <2>2. json.items \in Seq(Json)
    BY <2>1 DEF AreJson
  <2> QED BY <1>2, <2>1, <2>2
<1> QED BY <1>1, <1>2

(* What is handed to a member of payloads is a payload.                                           *)
LEMMA PayloadIsJson ==
  ASSUME NEW Json, AreJson(Json), NEW handed, handed \subseteq Json, NEW member, IsDeclared(member)
  PROVE  PayloadOf(member, handed) \subseteq Json
<1>1. \A json \in handed : At(json, member.at) \subseteq Json
  <2> TAKE json \in handed
  <2>1. CASE member.at = <<>>
    BY <2>1, AtNoStep
  <2>2. ASSUME NEW step, member.at = <<step>>, IsKey(step) \/ step.index \in Nat PROVE At(json, member.at) \subseteq Json
    <3>1. At(json, member.at) = Child(json, step)
      BY <2>2, AtOneStep
    <3>2. Child(json, step) \subseteq Json
      BY <2>2, ChildIsJson
    <3> QED BY <3>1, <3>2
  <2> QED BY <2>1, <2>2 DEF IsDeclared
<1> QED BY <1>1 DEF PayloadOf

(* A function makes a payload of one, and no function leaves it as it is.                        *)
LEMMA CorrectedIsJson ==
  ASSUME NEW Json, AreJson(Json), NEW json \in Json, NEW named \in BOOLEAN
  PROVE  CorrectedBy(named, json) \in Json
<1>1. CASE named = TRUE
  BY <1>1 DEF AreJson
<1>2. CASE named = FALSE
  BY <1>2 DEF CorrectedBy
<1> QED BY <1>1, <1>2

(* What a variant is handed is a payload.                                                       *)
LEMMA HandedIsJson ==
  ASSUME NEW Json, AreJson(Json), NEW json \in Json, NEW content
  PROVE  /\ EntryOf(content, json) \subseteq Json
         /\ BesideTag(content, json) \subseteq Json
         /\ ContentOf(content, json) \subseteq Json
         /\ TagAlone(content, json) \subseteq Json
<1>1. Null \in Json
  BY DEF AreJson
<1>2. EntryOf(content, json) \subseteq Json
  BY DEF EntryOf, AreJson
<1>3. \A key : At(json, <<Key(key)>>) = Child(json, Key(key))
  BY AtOneStep
<1>4. \A key : IsKey(Key(key))
  BY DEF IsKey, Key
<1>5. BesideTag(content, json) \subseteq Json
  <2>1. IsTagged(content, json) => json.kind = "object"
    BY <1>3, <1>4 DEF IsTagged, Child
  <2>2. json.kind = "object" => Object(Without(json.entries, {TagKey})) \in Json
    BY DEF AreJson
  <2> QED BY <1>1, <2>1, <2>2 DEF BesideTag
<1>6. ContentOf(content, json) \subseteq Json
  <2>1. Child(json, Key(ContentKey)) \subseteq Json
    BY <1>4, ChildIsJson
  <2> QED BY <1>3, <2>1 DEF ContentOf
<1>7. TagAlone(content, json) \subseteq Json
  BY <1>1 DEF TagAlone
<1> QED BY <1>2, <1>5, <1>6, <1>7

(* What a declared type is written as, and the members of each.                                  *)
LEMMA ContentsAreListed ==
  ASSUME NEW ty \in Types, ty.t = "model"
  PROVE  \E n \in Nat : DOMAIN Contents(Models[ty.name]) = 1..n
<1>1. Models[ty.name] \in Range(Models)
  BY TypesAreNested DEF Range
<1> DEFINE contents == Contents(Models[ty.name])
<1>2. contents \in Seq(Range(contents))
  BY <1>1, ModelsAreDeclared DEF IsListed
<1> HIDE DEF contents
<1>3. \E n \in Nat : DOMAIN contents = 1..n
  BY <1>2
<1> QED BY <1>3 DEF contents

(* The members of a model are listed, declared, and each of a type that nests less deep.          *)
LEMMA MembersAreDeclared ==
  ASSUME NEW ty \in Types, ty.t = "model", NEW variant \in DOMAIN Contents(Models[ty.name])
  PROVE  LET members == Contents(Models[ty.name])[variant].members
         IN \E n \in Nat : /\ DOMAIN members = 1..n
                           /\ \A i \in 1..n : /\ IsDeclared(members[i])
                                              /\ members[i].ty \in Types /\ Depth[members[i].ty] < Depth[ty]
<1> DEFINE model == Models[ty.name]
           content == Contents(model)[variant]
           members == content.members
<1>1. model \in Range(Models)
  BY TypesAreNested DEF Range
<1>2. content \in Range(Contents(model))
  BY DEF Range
<1>3. members \in Seq(Range(members))
  BY <1>1, <1>2, ModelsAreDeclared DEF IsListed
<1>4. \A i \in DOMAIN members : members[i] \in MembersOf(model)
  <2>1. \A i \in DOMAIN members : members[i] \in Range(content.members)
    BY DEF Range
  <2> HIDE DEF content, model
  <2> QED BY <2>1, <1>2 DEF MembersOf
<1> HIDE DEF members
<1>5. PICK n \in Nat : DOMAIN members = 1..n
  BY <1>3
<1>6. \A i \in 1..n : members[i].ty \in Within(ty)
  BY <1>4, <1>5 DEF Within
<1>7. \A i \in 1..n : members[i].ty \in Types /\ Depth[members[i].ty] < Depth[ty]
  BY <1>6, TypesAreNested
<1>8. \A i \in 1..n : IsDeclared(members[i])
  BY <1>1, <1>4, <1>5, ModelsAreDeclared
<1>9. \E k \in Nat : DOMAIN members = 1..k /\ \A i \in 1..k : IsDeclared(members[i]) /\ members[i].ty \in Types /\ Depth[members[i].ty] < Depth[ty]
  BY <1>5, <1>7, <1>8
<1> QED BY <1>9 DEF members

(* A brand is one member, bounded where it is a text or a list, and checked as a brand alone.     *)
LEMMA BrandsAreDeclared ==
  ASSUME NEW ty \in Types, ty.t = "model", Models[ty.name].shape = "brand"
  PROVE  LET model == Models[ty.name]
         IN /\ Contents(model) = <<model>>
            /\ DOMAIN model.members = 1..1
            /\ ~model.members[1].check
            /\ model.members[1].bound => model.members[1].ty.t \in {"text", "list"}
<1> DEFINE model == Models[ty.name]
<1>1. model \in Range(Models)
  BY TypesAreNested DEF Range
<1>2. /\ "variants" \notin DOMAIN model /\ Len(model.members) = 1
      /\ \A brand \in Range(model.members) : ~brand.check /\ (brand.bound => brand.ty.t \in {"text", "list"})
  BY <1>1, ModelsAreDeclared
<1>3. Contents(model) = <<model>>
  BY <1>2 DEF Contents
<1>4. model \in Range(Contents(model))
  <2> HIDE DEF model
  <2>1. 1 \in DOMAIN Contents(model) /\ Contents(model)[1] = model
    BY <1>3
  <2> QED BY <2>1 DEF Range
<1>5. model.members \in Seq(Range(model.members))
  BY <1>1, <1>4, ModelsAreDeclared DEF IsListed
<1> HIDE DEF model
<1>6. DOMAIN model.members = 1..1
  BY <1>2, <1>5
<1>7. model.members[1] \in Range(model.members)
  BY <1>6 DEF Range
<1> QED BY <1>2, <1>3, <1>6, <1>7 DEF model

----------------------------------------------------------------------------

(* What each of the four says of a member, and of a type that is no brand: said is what the models   *)
(* each member holds report.                                                                     *)
Rule(broken, rule) == IF broken THEN <<Said(<<>>, rule)>> ELSE <<>>
BoundRule(bound, value) == Rule(bound /\ value # Null /\ Broken(value), "bound")
CheckRule(check, value) == Rule(check /\ value # Null /\ Fails(value), "check")
MemberSaid(member, value, said) ==
  Under(member.at, said \o BoundRule(member.bound, value) \o CheckRule(member.check, value))
HeldSaid(member, held, said) == IF held = {} THEN <<>> ELSE MemberSaid(member, CHOOSE value \in held : TRUE, said)
ModelSaid(model, variant, members, said) ==
  Under(Steps(model, Contents(model)[variant]),
        FlattenSeq([i \in DOMAIN members |-> HeldSaid(Contents(model)[variant].members[i], members[i], said[i])]))
  \o CheckRule(model.check, Value(variant, members))

(* What is said of one rule is a list, empty exactly where the rule is kept.                      *)
LEMMA RuleIsListed ==
  ASSUME NEW broken, NEW rule
  PROVE  IsListed(Rule(broken, rule)) /\ (Rule(broken, rule) = <<>> <=> ~broken)
<1>1. CASE broken
  <2>1. Rule(broken, rule) = <<Said(<<>>, rule)>>
    BY <1>1 DEF Rule
  <2> DEFINE said == Said(<<>>, rule)
  <2> HIDE DEF said
  <2>2. <<said>> \in Seq({said}) /\ <<said>> # <<>>
    OBVIOUS
  <2>3. IsListed(<<said>>)
    BY <2>2, Listing
  <2> QED BY <1>1, <2>1, <2>2, <2>3 DEF said
<1>2. CASE ~broken
  <2>1. Rule(broken, rule) = <<>>
    BY <1>2 DEF Rule
  <2>2. <<>> \in Seq({})
    OBVIOUS
  <2>3. IsListed(<<>>)
    BY <2>2, Listing
  <2> QED BY <1>2, <2>1, <2>3
<1> QED BY <1>1, <1>2

(* A member of which nothing is said breaks nothing.                                             *)
LEMMA MemberSaidIsListed ==
  ASSUME NEW member, NEW value, NEW said, IsListed(said)
  PROVE  /\ IsListed(MemberSaid(member, value, said))
         /\ MemberSaid(member, value, said) = <<>> =>
              /\ said = <<>>
              /\ ~(member.bound /\ value # Null /\ Broken(value))
              /\ ~(member.check /\ value # Null /\ Fails(value))
<1> DEFINE bound == BoundRule(member.bound, value)
           check == CheckRule(member.check, value)
<1>1. IsListed(bound) /\ (bound = <<>> <=> ~(member.bound /\ value # Null /\ Broken(value)))
  BY RuleIsListed DEF BoundRule
<1>2. IsListed(check) /\ (check = <<>> <=> ~(member.check /\ value # Null /\ Fails(value)))
  BY RuleIsListed DEF CheckRule
<1> HIDE DEF bound, check
<1>3. IsListed(said \o bound) /\ (said \o bound = <<>> <=> said = <<>> /\ bound = <<>>)
  BY <1>1, Appended
<1>4. IsListed(said \o bound \o check) /\ (said \o bound \o check = <<>> <=> said \o bound = <<>> /\ check = <<>>)
  BY <1>2, <1>3, Appended
<1>5. MemberSaid(member, value, said) = Under(member.at, said \o bound \o check)
  BY DEF MemberSaid, bound, check
<1>6. /\ IsListed(Under(member.at, said \o bound \o check))
      /\ Under(member.at, said \o bound \o check) = <<>> <=> said \o bound \o check = <<>>
  BY <1>4, PutUnder
<1> QED BY <1>1, <1>2, <1>3, <1>4, <1>5, <1>6

(* A type that is no brand is sound where each of its members is.                                *)
LEMMA ModelIsSound ==
  ASSUME BrokenInIsItself, NEW ty \in Types, ty.t = "model",
         NEW variant, NEW n \in Nat, NEW members, DOMAIN members = 1..n, NEW said,
         \A i \in 1..n : \A held \in members[i] :
           members[i] = {held} /\ Sound(Contents(Models[ty.name])[variant].members[i].ty, held, said[i], FALSE)
  PROVE  Sound(ty, Value(variant, members), ModelSaid(Models[ty.name], variant, members, said), FALSE)
<1> DEFINE model == Models[ty.name]
           content == Contents(model)[variant]
           value == Value(variant, members)
           OfMember(i) == HeldSaid(content.members[i], members[i], said[i])
           seqs == [i \in 1..n |-> OfMember(i)]
           all == FlattenSeq(seqs)
           check == CheckRule(model.check, value)
           says == Under(Steps(model, content), all) \o check
<1>1. ModelSaid(model, variant, members, said) = says
  BY DEF ModelSaid
<1>2. ASSUME NEW i \in 1..n
      PROVE  /\ IsListed(OfMember(i))
             /\ OfMember(i) = <<>> => \A held \in members[i] :
                  /\ BrokenInBelow(content.members[i].ty, held) = {}
                  /\ ~(content.members[i].bound /\ held # Null /\ Broken(held))
                  /\ ~(content.members[i].check /\ held # Null /\ Fails(held))
  <2>1. CASE members[i] = {}
    <3>1. OfMember(i) = Rule(FALSE, "bound")
      BY <2>1 DEF HeldSaid, Rule
    <3> HIDE DEF OfMember
    <3> QED BY <2>1, <3>1, RuleIsListed
  <2>2. CASE members[i] # {}
    <3>1. PICK held : members[i] = {held}
      BY <2>2
    <3>2. Sound(content.members[i].ty, held, said[i], FALSE)
      BY <3>1
    <3>3. held = CHOOSE v \in members[i] : TRUE
      BY <3>1
    <3>4. OfMember(i) = MemberSaid(content.members[i], held, said[i])
      BY <2>2, <3>3 DEF HeldSaid
    <3>5. IsListed(said[i]) /\ (said[i] = <<>> => BrokenInBelow(content.members[i].ty, held) = {})
      BY <3>2 DEF Sound
    <3> HIDE DEF OfMember, content
    <3> QED BY <3>1, <3>4, <3>5, MemberSaidIsListed
  <2> QED BY <2>1, <2>2
<1>3. IsListed(all) /\ (all = <<>> => \A i \in 1..n : OfMember(i) = <<>>)
  <2>1. seqs = [i \in 1..n |-> seqs[i]] /\ \A i \in 1..n : seqs[i] = OfMember(i)
    OBVIOUS
  <2> HIDE DEF seqs, OfMember
  <2>2. \A i \in 1..n : IsListed(seqs[i])
    BY <1>2, <2>1
  <2> QED BY <2>1, <2>2, AllAppended
<1>4. IsListed(check) /\ (check = <<>> <=> ~(model.check /\ value # Null /\ Fails(value)))
  BY RuleIsListed DEF CheckRule
<1>5. IsListed(says) /\ (says = <<>> => all = <<>> /\ check = <<>>)
  <2> HIDE DEF all, check
  <2>1. IsListed(Under(Steps(model, content), all)) /\ (Under(Steps(model, content), all) = <<>> <=> all = <<>>)
    BY <1>3, PutUnder
  <2> QED BY <1>4, <2>1, Appended
<1>6. ASSUME says = <<>> PROVE BrokenInBelow(ty, value) = {}
  <2>1. ~(model.check /\ Fails(value))
    <3>1. value # Null
      BY DEF Value, Null
    <3> HIDE DEF check, value
    <3> QED BY <1>4, <1>5, <1>6, <3>1
  <2>2. ASSUME NEW i \in 1..n, NEW held \in members[i]
        PROVE  /\ BrokenInBelow(content.members[i].ty, held) = {}
               /\ ~(content.members[i].bound /\ held # Null /\ Broken(held))
               /\ ~(content.members[i].check /\ held # Null /\ Fails(held))
    <3> HIDE DEF OfMember, all, check, content
    <3> QED BY <1>2, <1>3, <1>5, <1>6
  <2>3. value.variant = variant /\ value.members = members
    BY DEF Value
  <2> HIDE DEF value, says, seqs, check, OfMember, all
  <2>4. BrokenIn(ty, value) = {}
    <3> DEFINE Where(broken, rule) == IF broken THEN {Said(<<>>, rule)} ELSE {}
               Breaks(i, held) ==
                 BrokenInBelow(content.members[i].ty, held)
                 \cup Where(content.members[i].bound /\ held # Null /\ Broken(held), "bound")
                 \cup Where(content.members[i].check /\ held # Null /\ Fails(held), "check")
               Placed(i, held) == {Said(Steps(model, content) \o content.members[i].at \o one.at, one.rule) : one \in Breaks(i, held)}
    <3>1. ty.t # "text" /\ ty.t # "filled"
      OBVIOUS
    <3>2. BrokenIn(ty, value) = Where(model.check /\ Fails(value), "check")
                                \cup UNION {UNION {Placed(i, held) : held \in members[i]} : i \in DOMAIN members}
      BY <2>3, <3>1 DEF BrokenIn
    <3>3. \A i \in 1..n : \A held \in members[i] : Breaks(i, held) = {}
      <4> HIDE DEF content
      <4> QED BY <2>2
    <3> HIDE DEF Breaks
    <3>4. \A i \in 1..n : \A held \in members[i] : Placed(i, held) = {}
      <4> HIDE DEF content
      <4> QED BY <3>3
    <3> HIDE DEF Placed
    <3>5. UNION {UNION {Placed(i, held) : held \in members[i]} : i \in DOMAIN members} = {}
      BY <3>4
    <3> QED BY <2>1, <3>2, <3>5
  <2> QED BY <2>4 DEF BrokenInIsItself
<1> HIDE DEF says, value
<1>7. Sound(ty, value, says, FALSE)
  BY <1>5, <1>6 DEF Sound
<1> QED BY <1>1, <1>7 DEF value

(* A brand is sound where what it holds was judged as it was read.                               *)
LEMMA BrandIsSound ==
  ASSUME BrokenInIsItself, NEW ty \in Types, ty.t = "model", Models[ty.name].shape = "brand",
         NEW members, DOMAIN members = 1..1, NEW bound, IsListed(bound),
         LET member == Models[ty.name].members[1]
         IN \A held \in members[1] :
              /\ BrokenInBelow(member.ty, held) = {}
              /\ bound = <<>> => ~(member.bound /\ held # Null /\ Broken(held))
  PROVE  LET value == Value(1, members)
         IN Sound(ty, value, bound \o CheckRule(Models[ty.name].check, value), FALSE)
<1> DEFINE model == Models[ty.name]
           member == model.members[1]
           value == Value(1, members)
           check == CheckRule(model.check, value)
<1>1. IsListed(check) /\ (check = <<>> <=> ~(model.check /\ value # Null /\ Fails(value)))
  BY RuleIsListed DEF CheckRule
<1>2. Contents(model)[1] = model /\ DOMAIN model.members = 1..1 /\ ~member.check
  BY BrandsAreDeclared
<1>3. IsListed(bound \o check) /\ (bound \o check = <<>> => bound = <<>> /\ check = <<>>)
  <2> HIDE DEF check
  <2> QED BY <1>1, Appended
<1>4. ASSUME bound \o check = <<>> PROVE BrokenInBelow(ty, value) = {}
  <2>1. ~(model.check /\ Fails(value))
    <3>1. value # Null
      BY DEF Value, Null
    <3> HIDE DEF check, value
    <3> QED BY <1>1, <1>3, <1>4, <3>1
  <2>2. \A held \in members[1] : BrokenInBelow(member.ty, held) = {} /\ ~(member.bound /\ held # Null /\ Broken(held)) /\ ~member.check
    <3> HIDE DEF check
    <3> QED BY <1>2, <1>3, <1>4
  <2>3. value.variant = 1 /\ value.members = members
    BY DEF Value
  <2> HIDE DEF value, check
  <2>4. BrokenIn(ty, value) = {}
    BY <1>2, <2>1, <2>2, <2>3 DEF BrokenIn
  <2> QED BY <2>4 DEF BrokenInIsItself
<1> HIDE DEF check, value
<1>5. Sound(ty, value, bound \o check, FALSE)
  BY <1>3, <1>4 DEF Sound
<1> QED BY <1>5 DEF check, value

(* What holds of a type where it holds of each that nests less deep, holds of all.                *)
LEMMA TypesNest ==
  ASSUME NEW S, S \subseteq Types,
         \A ty \in Types : (\A of \in Types : Depth[of] < Depth[ty] => of \in S) => ty \in S
  PROVE  S = Types
<1> DEFINE T == {d \in Nat : \A ty \in Types : Depth[ty] < d => ty \in S}
<1>1. \A ty \in Types : Depth[ty] \in Nat
  BY TypesAreNested
<1>2. 0 \in T
  BY <1>1
<1>3. ASSUME NEW d \in Nat, d \in T PROVE d + 1 \in T
  <2>1. ASSUME NEW ty \in Types, Depth[ty] < d + 1 PROVE ty \in S
    <3>1. \A of \in Types : Depth[of] < Depth[ty] => Depth[of] < d
      BY <1>1, <2>1
    <3> QED BY <1>3, <3>1
  <2> QED BY <2>1
<1> HIDE DEF T
<1>4. Nat \subseteq T
  BY <1>2, <1>3, Induct
<1>5. ASSUME NEW ty \in Types PROVE ty \in S
  <2>1. Depth[ty] + 1 \in T /\ Depth[ty] < Depth[ty] + 1
    BY <1>1, <1>4
  <2> QED BY <2>1 DEF T
<1> QED BY <1>5

(* Nothing is broken in a text, nor in what was judged as it was read.                           *)
LEMMA TextIsSound ==
  ASSUME BrokenInIsItself, NEW ty \in Types, ty.t = "text", NEW value, value.kind = "text", NEW judged \in BOOLEAN
  PROVE  Sound(ty, value, <<>>, judged)
<1>1. BrokenInBelow(ty, value) = {}
  BY DEF BrokenInIsItself, BrokenIn
<1>2. IsListed(<<>>)
  <2>1. <<>> \in Seq({})
    OBVIOUS
  <2> QED BY <2>1, Listing
<1> QED BY <1>1, <1>2 DEF Sound

(* A read of a type parameter is sound as the read of what fills it was, if that one was judged.  *)
LEMMA FilledIsSound ==
  ASSUME BrokenInIsItself, NEW ty \in Types, ty.t = "filled", NEW value, NEW says, Sound(ty.of, value, says, TRUE), NEW judged \in BOOLEAN
  PROVE  Sound(ty, value, <<>>, judged)
<1>1. BrokenInBelow(ty.of, value) = {}
  BY DEF Sound
<1>2. BrokenInBelow(ty, value) = {}
  BY <1>1 DEF BrokenInIsItself, BrokenIn
<1>3. IsListed(<<>>)
  <2>1. <<>> \in Seq({})
    OBVIOUS
  <2> QED BY <2>1, Listing
<1> QED BY <1>2, <1>3 DEF Sound

(* A value of which nothing is said is as sound as one that was judged.                          *)
LEMMA NothingSaidIsJudged ==
  ASSUME NEW ty, NEW value, NEW says, Sound(ty, value, says, FALSE), says = <<>>, NEW judged \in BOOLEAN
  PROVE  Sound(ty, value, says, judged)
BY DEF Sound

(* A report that says nothing is the read itself.                                               *)
LEMMA ReportedIsRead ==
  ASSUME NEW read, NEW says, Reported(read, says).ok
  PROVE  read.ok /\ says = <<>> /\ Reported(read, says) = read
<1>1. ~Refused(says).ok
  BY DEF Refused
<1> QED BY <1>1 DEF Reported

(* A brand breaks the bound that the text or the list it holds breaks.                           *)
LEMMA BrandBreaksItsBound ==
  ASSUME NEW members, NEW held \in members[1], held.kind \in {"text", "list"}, Broken(held)
  PROVE  Broken(Value(1, members)) /\ Value(1, members) # Null
<1>1. held \in {Text("low"), List(<<>>)}
  BY DEF Broken
<1>2. Value(1, members).kind = "model" /\ Value(1, members).members = members
  BY DEF Value
<1>3. {Text("low"), List(<<>>)} \intersect members[1] # {}
  BY <1>1
<1>4. Value(1, members) # Null
  BY <1>2 DEF Null
<1> QED BY <1>2, <1>3, <1>4 DEF Broken

----------------------------------------------------------------------------

(* Rust: its definitions call themselves, and what it reads of a type is sound.                   *)
RustIsItself ==
  \A ty \in Types :
    /\ \A value : HeldSaysBelow(ty, value) = HeldSays(ty, value)
    /\ \A json, how : ReadAsBelow(ty, json, how) = ReadAs(ty, json, how)
RustIsSound(Json, ty) ==
  \A json \in Json : \A how \in {"own", "unjudged", "choosing"} :
    LET read == ReadAsBelow(ty, json, how)
    IN read.ok => Sound(ty, read.value, HeldSaysBelow(ty, read.value), how = "own")

(* The read of a member in Rust is sound where the reads of its type are: judged or not as its hook says.*)
LEMMA RustMemberIsSound ==
  ASSUME NEW Json, AreJson(Json), NEW member, IsDeclared(member), RustIsSound(Json, member.ty),
         NEW json \in Json, NEW hook \in {"own", "unjudged", "choosing", "bound"}, MemberRead(member, json, hook).ok
  PROVE  LET value == MemberRead(member, json, hook).value
         IN Sound(member.ty, value, HeldSaysBelow(member.ty, value), hook \in {"own", "bound"})
<1> DEFINE corrected == CorrectedBy(member.pre, json)
           how == IF hook = "bound" THEN "own" ELSE hook
           read == ReadAsBelow(member.ty, corrected, how)
<1>1. read.ok /\ MemberRead(member, json, hook) = read
  <2>1. MemberRead(member, json, hook) = Reported(read, BoundSays(hook = "bound", read.value))
    BY DEF MemberRead, HeldTo
  <2> HIDE DEF read
  <2> QED BY <2>1, ReportedIsRead
<1>2. corrected \in Json
  <2>1. member.pre \in BOOLEAN
    BY DEF IsDeclared
  <2> QED BY <2>1, CorrectedIsJson
<1>3. how \in {"own", "unjudged", "choosing"} /\ (how = "own" <=> hook \in {"own", "bound"})
  OBVIOUS
<1> HIDE DEF corrected, how
<1>4. Sound(member.ty, read.value, HeldSaysBelow(member.ty, read.value), how = "own")
  BY <1>1, <1>2, <1>3 DEF RustIsSound
<1> HIDE DEF read
<1> QED BY <1>1, <1>3, <1>4 DEF Sound

(* What each variant is handed in Rust is a payload.                                            *)
LEMMA RustHandedIsJson ==
  ASSUME NEW Json, AreJson(Json), NEW json \in Json, NEW model, NEW content
  PROVE  Handed(model, content, json) \subseteq Json
<1>1. {Null} \subseteq Json
  BY DEF AreJson
<1> QED BY <1>1, HandedIsJson DEF Handed

(* The read of a type alone is sound, for what validate() says of it.                            *)
LEMMA RustModelIsSound ==
  ASSUME NEW Json, AreJson(Json), BrokenInIsItself, NEW ty \in Types, ty.t = "model",
         \A of \in Types : Depth[of] < Depth[ty] => RustIsSound(Json, of),
         NEW json \in Json, ReadAlone(ty.name, json).ok
  PROVE  LET value == ReadAlone(ty.name, json).value
         IN Sound(ty, value, Validated(ty.name, value), FALSE)
<1> DEFINE model == Models[ty.name]
           contents == Contents(model)
           corrected == CorrectedBy(model.pre, json)
           how == IF model.shape = "untagged" THEN "choosing" ELSE "unjudged"
           reads == [i \in DOMAIN contents |-> ContentRead(contents[i], Handed(model, contents[i], corrected), how)]
<1>1. corrected \in Json
  <2>1. model \in Range(Models)
    BY TypesAreNested DEF Range
  <2>2. model.pre \in BOOLEAN
    BY <2>1, ModelsAreDeclared
  <2> QED BY <2>2, CorrectedIsJson
<1>2. PICK k \in Nat : DOMAIN contents = 1..k
  BY ContentsAreListed
<1>3. ReadAlone(ty.name, json) = FirstRead(reads)
  BY DEF ReadAlone, RustVariantRead
<1>4. PICK variant \in 1..k : reads[variant].ok /\ FirstRead(reads) = Ok(Value(variant, reads[variant].value))
  <2>1. DOMAIN reads = 1..k
    BY <1>2
  <2> HIDE DEF reads
  <2> QED BY <1>3, <2>1, FirstIsOne
<1> DEFINE content == contents[variant]
           handed == Handed(model, content, corrected)
           Held(i) == PayloadOf(content.members[i], handed)
           Hook(i) == HookOf(content, content.members[i], how)
           ReadOf(i) == IF Held(i) # {} THEN MemberRead(content.members[i], CHOOSE one \in Held(i) : TRUE, Hook(i))
                        ELSE IF content.members[i].ty.t = "option" THEN Ok(Null) ELSE Ended
           memberReads == [i \in DOMAIN content.members |-> ReadOf(i)]
<1>5. PICK n \in Nat : /\ DOMAIN content.members = 1..n
                       /\ \A i \in 1..n : /\ IsDeclared(content.members[i])
                                          /\ content.members[i].ty \in Types /\ Depth[content.members[i].ty] < Depth[ty]
  BY <1>2, MembersAreDeclared
<1>6. reads[variant] = MembersRead(content, handed, memberReads)
  BY <1>2 DEF ContentRead
<1> DEFINE members == [i \in 1..n |-> IF Held(i) = {} THEN {} ELSE {ReadOf(i).value}]
           value == Value(variant, members)
           said == [i \in 1..n |-> HeldSaysBelow(content.members[i].ty, CHOOSE v \in members[i] : TRUE)]
<1>7. (\A i \in 1..n : ReadOf(i).ok) /\ ReadAlone(ty.name, json).value = value
  <2>1. DOMAIN memberReads = 1..n /\ \A i \in 1..n : memberReads[i] = ReadOf(i)
    BY <1>5
  <2> HIDE DEF memberReads, reads, ReadOf
  <2>2. (\A i \in 1..n : memberReads[i].ok) /\ reads[variant] = Ok([i \in 1..n |-> IF Held(i) = {} THEN {} ELSE {memberReads[i].value}])
    <3> HIDE DEF content, handed
    <3>1. MembersRead(content, handed, memberReads).ok
      BY <1>4, <1>6
    <3>2. MembersRead(content, handed, memberReads) = Ok(MembersOfReads(content, handed, memberReads, n))
      BY <2>1, <3>1, MembersAreRead
    <3>3. \A i \in 1..n : memberReads[i].ok
      BY <2>1, <3>1, MembersAreRead
    <3> QED BY <1>6, <3>2, <3>3 DEF MembersOfReads
  <2>3. reads[variant] = Ok(members)
    BY <2>1, <2>2
  <2>4. reads[variant].value = members
    BY <2>3 DEF Ok
  <2>5. ReadAlone(ty.name, json).value = Value(variant, reads[variant].value)
    BY <1>3, <1>4 DEF Ok
  <2>6. \A i \in 1..n : ReadOf(i).ok
    BY <2>1, <2>2
  <2> QED BY <2>4, <2>5, <2>6
<1>8. ASSUME NEW i \in 1..n, NEW held \in members[i]
      PROVE  /\ members[i] = {held} /\ held = CHOOSE v \in members[i] : TRUE
             /\ Sound(content.members[i].ty, held, HeldSaysBelow(content.members[i].ty, held), Hook(i) \in {"own", "bound"})
  <2>1. Held(i) # {} /\ members[i] = {ReadOf(i).value}
    OBVIOUS
  <2>2. \E one : one = (CHOOSE x \in Held(i) : TRUE) /\ one \in Held(i)
    BY <2>1
  <2>3. Held(i) \subseteq Json
    <3>1. handed \subseteq Json
      BY <1>1, RustHandedIsJson
    <3> HIDE DEF handed, content
    <3> QED BY <1>5, <3>1, PayloadIsJson
  <2>4. PICK one \in Json : ReadOf(i) = MemberRead(content.members[i], one, Hook(i))
    BY <2>1, <2>2, <2>3
  <2>5. Hook(i) \in {"own", "unjudged", "choosing", "bound"}
    BY DEF HookOf
  <2>6. ReadOf(i).ok /\ RustIsSound(Json, content.members[i].ty)
    <3>1. ReadOf(i).ok
      BY <1>7
    <3> HIDE DEF ReadOf, content
    <3> QED BY <1>5, <3>1
  <2>7. held = ReadOf(i).value
    BY <2>1
  <2> HIDE DEF ReadOf, Hook, content, members, Held
  <2>8. Sound(content.members[i].ty, held, HeldSaysBelow(content.members[i].ty, held), Hook(i) \in {"own", "bound"})
    BY <1>5, <2>4, <2>5, <2>6, <2>7, RustMemberIsSound
  <2> QED BY <2>1, <2>7, <2>8
<1> HIDE DEF reads, memberReads, ReadOf, Held, handed
<1>9. CASE model.shape # "brand"
  <2>1. Validated(ty.name, value) = ModelSaid(model, variant, members, said)
    <3>1. value.variant = variant /\ value.members = members
      BY DEF Value
    <3>2. DOMAIN members = 1..n
      OBVIOUS
    <3> DEFINE OfMember(member, held) == IF held = {} THEN <<>> ELSE MemberSays(member, CHOOSE v \in held : TRUE)
    <3>3. Validated(ty.name, value)
          = Under(Steps(model, content), FlattenSeq([i \in DOMAIN members |-> OfMember(content.members[i], members[i])]))
            \o ChecksSay(model.check, value)
      <4> HIDE DEF members, value
      <4>1. Validated(ty.name, value) = ContentSays(model, content, members) \o ChecksSay(model.check, value)
        BY <1>9, <3>1 DEF Validated
      <4> HIDE DEF content
      <4>2. ContentSays(model, content, members)
            = Under(Steps(model, content), FlattenSeq([i \in DOMAIN members |-> OfMember(content.members[i], members[i])]))
        BY DEF ContentSays
      <4> QED BY <4>1, <4>2
    <3>4. \A i \in 1..n : OfMember(content.members[i], members[i]) = HeldSaid(content.members[i], members[i], said[i])
      <4> TAKE i \in 1..n
      <4>1. said[i] = HeldSaysBelow(content.members[i].ty, CHOOSE v \in members[i] : TRUE)
        OBVIOUS
      <4> HIDE DEF said, members, content
      <4> QED BY <4>1 DEF HeldSaid, MemberSaid, MemberSays, BoundSays, ChecksSay, BoundRule, CheckRule, Rule
    <3>5. ChecksSay(model.check, value) = CheckRule(model.check, value)
      BY DEF ChecksSay, CheckRule, Rule
    <3> HIDE DEF OfMember, members, said
    <3>6. [i \in DOMAIN members |-> OfMember(content.members[i], members[i])]
          = [i \in DOMAIN members |-> HeldSaid(content.members[i], members[i], said[i])]
      BY <3>2, <3>4
    <3> QED BY <3>3, <3>5, <3>6 DEF ModelSaid
  <2>2. \A i \in 1..n : \A held \in members[i] : members[i] = {held} /\ Sound(content.members[i].ty, held, said[i], FALSE)
    <3> TAKE i \in 1..n
    <3> TAKE held \in members[i]
    <3>1. said[i] = HeldSaysBelow(content.members[i].ty, held)
      BY <1>8
    <3> HIDE DEF said, members, content, Hook
    <3> QED BY <1>8, <3>1 DEF Sound
  <2>3. DOMAIN members = 1..n
    OBVIOUS
  <2> HIDE DEF members, said
  <2>4. Sound(ty, value, ModelSaid(model, variant, members, said), FALSE)
    BY <2>2, <2>3, ModelIsSound
  <2> HIDE DEF value
  <2> QED BY <1>7, <2>1, <2>4
<1>10. CASE model.shape = "brand"
  <2>1. contents = <<model>> /\ DOMAIN model.members = 1..1 /\ ~model.members[1].check
        /\ (model.members[1].bound => model.members[1].ty.t \in {"text", "list"})
    BY <1>10, BrandsAreDeclared
  <2>2. variant = 1 /\ n = 1 /\ content = model
    BY <1>2, <1>5, <2>1
  <2>3. Hook(1) = "own"
    BY <1>10, <2>2 DEF HookOf
  <2> DEFINE bound == BoundSays(model.members[1].bound, value)
  <2>4. bound = BoundRule(model.members[1].bound, value)
    BY DEF BoundSays, BoundRule, Rule
  <2>5. IsListed(bound) /\ (bound = <<>> <=> ~(model.members[1].bound /\ value # Null /\ Broken(value)))
    BY <2>4, RuleIsListed DEF BoundRule
  <2>6. ASSUME NEW held \in members[1]
        PROVE  /\ BrokenInBelow(model.members[1].ty, held) = {}
               /\ bound = <<>> => ~(model.members[1].bound /\ held # Null /\ Broken(held))
    <3>1. Sound(model.members[1].ty, held, HeldSaysBelow(model.members[1].ty, held), TRUE)
      <4>1. Sound(content.members[1].ty, held, HeldSaysBelow(content.members[1].ty, held), Hook(1) \in {"own", "bound"})
        <5> HIDE DEF members, content, Hook
        <5> QED BY <1>8, <2>2
      <4> HIDE DEF members, content, Hook
      <4> QED BY <4>1, <2>2, <2>3 DEF Sound
    <3>2. BrokenInBelow(model.members[1].ty, held) = {} /\ (model.members[1].ty.t \in {"text", "list"} => held.kind = model.members[1].ty.t)
      BY <3>1 DEF Sound
    <3>3. held.kind \in {"text", "list"} /\ Broken(held) => Broken(value) /\ value # Null
      <4> HIDE DEF members
      <4> QED BY <2>2, BrandBreaksItsBound
    <3> HIDE DEF bound, value, members
    <3> QED BY <2>1, <2>5, <3>2, <3>3
  <2>7. DOMAIN members = 1..1 /\ value = Value(1, members)
    BY <2>2
  <2>8. Validated(ty.name, value) = bound \o CheckRule(model.check, value)
    BY <1>10 DEF Validated, BrandSays, ChecksSay, CheckRule, Rule
  <2> HIDE DEF members, value, bound
  <2>9. Sound(ty, value, bound \o CheckRule(model.check, value), FALSE)
    BY <1>10, <2>5, <2>6, <2>7, BrandIsSound
  <2> QED BY <1>7, <2>8, <2>9
<1> QED BY <1>9, <1>10

(* A type is sound where the types below it are, and so every type is.                           *)
LEMMA RustTypeIsSound ==
  ASSUME NEW Json, AreJson(Json), BrokenInIsItself, RustIsItself, NEW ty \in Types,
         \A of \in Types : Depth[of] < Depth[ty] => RustIsSound(Json, of)
  PROVE  RustIsSound(Json, ty)
<1> SUFFICES ASSUME NEW json \in Json, NEW how \in {"own", "unjudged", "choosing"}, ReadAs(ty, json, how).ok
             PROVE  LET value == ReadAs(ty, json, how).value
                    IN Sound(ty, value, HeldSays(ty, value), how = "own")
  BY DEF RustIsSound, RustIsItself
<1>1. ty.t \in {"text", "filled", "model"} \cup Wrappers
  BY TypesAreNested
<1>2. CASE ty.t = "text"
  <2>1. json.kind = "text" /\ ReadAs(ty, json, how).value = json
    BY <1>2 DEF ReadAs, Ok, Ended, Refused
  <2>2. HeldSays(ty, json) = <<>>
    BY <1>2 DEF HeldSays, Wrappers
  <2> QED BY <1>2, <2>1, <2>2, TextIsSound
<1>3. CASE ty.t = "filled"
  <2>1. ty.of \in Types /\ Depth[ty.of] < Depth[ty]
    BY <1>3, OverAreTypes DEF Over
  <2> DEFINE read == ReadAsBelow(ty.of, json, "own")
  <2>2. ReadAs(ty, json, how) = read
    BY <1>3 DEF ReadAs
  <2> HIDE DEF read
  <2>3. Sound(ty.of, read.value, HeldSaysBelow(ty.of, read.value), TRUE)
    BY <2>1, <2>2 DEF RustIsSound, read
  <2>4. HeldSays(ty, read.value) = <<>>
    BY <1>3 DEF HeldSays, Wrappers
  <2> QED BY <1>3, <2>2, <2>3, <2>4, FilledIsSound
<1>4. CASE ty.t = "model"
  <2> DEFINE read == ReadAlone(ty.name, json)
             says == Validated(ty.name, read.value)
  <2>1. read.ok /\ ReadAs(ty, json, how) = read /\ (how = "own" => says = <<>>)
    <3>1. CASE how = "own"
      <4>1. ReadAs(ty, json, how) = Reported(read, says)
        BY <1>4, <3>1 DEF ReadAs, Deserialized, RustJudged
      <4> HIDE DEF read, says
      <4> QED BY <4>1, ReportedIsRead
    <3>2. CASE how # "own"
      <4> DEFINE bound == BoundSays(how = "choosing" /\ Models[ty.name].shape = "brand" /\ Models[ty.name].members[1].bound, read.value)
      <4>1. ReadAs(ty, json, how) = Reported(read, bound)
        BY <1>4, <3>2 DEF ReadAs, HeldLeaf, HeldTo
      <4> HIDE DEF read, bound
      <4> QED BY <3>2, <4>1, ReportedIsRead
    <3> QED BY <3>1, <3>2
  <2>2. Sound(ty, read.value, says, FALSE)
    BY <1>4, <2>1, RustModelIsSound
  <2> HIDE DEF read
  <2>3. HeldSays(ty, read.value) = says
    BY <1>4 DEF HeldSays, Wrappers
  <2> HIDE DEF says
  <2> QED BY <2>1, <2>2, <2>3 DEF Sound
<1>5. CASE ty.t \in Wrappers
  <2> DEFINE places == Places(ty, json)
             reads == [i \in DOMAIN places |-> ReadAsBelow(places[i].ty, places[i].held, how)]
             read == Gathered(ty, json, reads)
             held == Places(ty, read.value)
             says == [i \in DOMAIN held |-> HeldSaysBelow(held[i].ty, held[i].held)]
  <2>1. Fits(ty, json) /\ ReadAs(ty, json, how) = read
    BY <1>5 DEF ReadAs, Wrappers, Ended, Refused
  <2>2. PICK n \in Nat : DOMAIN places = 1..n /\ \A j \in 1..n : places[j].ty \in Over(ty) /\ places[j].held \in Json
    BY <1>5, <2>1, PlacesHold
  <2>3. ASSUME NEW i \in DOMAIN held, NEW j \in 1..n, held[i].ty = places[j].ty, held[i].held = reads[j].value, reads[j].ok
        PROVE  Sound(held[i].ty, held[i].held, says[i], how = "own")
    <3>1. RustIsSound(Json, places[j].ty)
      <4>1. ty.t # "model"
        BY <1>5 DEF Wrappers
      <4> QED BY <2>2, <4>1, OverAreTypes
    <3>2. reads[j] = ReadAsBelow(places[j].ty, places[j].held, how)
      BY <2>2
    <3>3. says[i] = HeldSaysBelow(held[i].ty, held[i].held)
      OBVIOUS
    <3> HIDE DEF reads, places, held, says
    <3> QED BY <2>2, <2>3, <3>1, <3>2, <3>3 DEF RustIsSound
  <2>4. DOMAIN reads = 1..n
    BY <2>2
  <2> HIDE DEF reads
  <2>5. Sound(ty, read.value, FlattenSeq([i \in DOMAIN held |-> Under(held[i].at, says[i])]), how = "own")
    <3> HIDE DEF says
    <3> QED BY <1>5, <2>1, <2>2, <2>3, <2>4, WrapperIsSound
  <2>6. HeldSays(ty, read.value) = FlattenSeq([i \in DOMAIN held |-> Under(held[i].at, says[i])])
    <3> DEFINE all == [i \in DOMAIN held |-> Under(held[i].at, HeldSaysBelow(held[i].ty, held[i].held))]
    <3>1. HeldSays(ty, read.value) = FlattenSeq(all)
      BY <1>5 DEF HeldSays, Wrappers
    <3>2. all = [i \in DOMAIN held |-> Under(held[i].at, says[i])]
      OBVIOUS
    <3> QED BY <3>1, <3>2
  <2> HIDE DEF read, held, says
  <2> QED BY <2>1, <2>5, <2>6
<1> QED BY <1>1, <1>2, <1>3, <1>4, <1>5

(* Every read in Rust is sound, of a type however deep, by induction on the depth.                *)
LEMMA RustIsSoundOfAll ==
  ASSUME NEW Json, AreJson(Json), BrokenInIsItself, RustIsItself
  PROVE  \A ty \in Types : RustIsSound(Json, ty)
<1> DEFINE S == {ty \in Types : RustIsSound(Json, ty)}
<1>1. \A ty \in Types : (\A of \in Types : Depth[of] < Depth[ty] => of \in S) => ty \in S
  BY RustTypeIsSound
<1>2. S \subseteq Types
  OBVIOUS
<1> HIDE DEF S
<1>3. S = Types
  BY <1>1, <1>2, TypesNest
<1> QED BY <1>3 DEF S

----------------------------------------------------------------------------

(* Dart: its definitions call themselves, and what it reads of a type is sound.                   *)
DartIsItself ==
  \A ty \in Types :
    /\ \A value, asked : HeldElementsBelow(ty, value, asked) = HeldElements(ty, value, asked)
    /\ \A json, how : DecodeExprBelow(ty, json, how) = DecodeExpr(ty, json, how)
DartIsSound(Json, ty) ==
  \A json \in Json : \A how \in {"judged", "unjudged"} :
    LET read == DecodeExprBelow(ty, json, how)
    IN read.ok => Sound(ty, read.value, HeldElementsBelow(ty, read.value, "rules"), how = "judged")

(* The read of a member in Dart is sound where the reads of its type are: judged or not as its decode says.*)
LEMMA DartMemberIsSound ==
  ASSUME NEW Json, AreJson(Json), NEW member, IsDeclared(member), DartIsSound(Json, member.ty),
         NEW held, held \subseteq Json, held # {}, NEW how \in {"judged", "unjudged"}, MemberDecode(member, held, how).ok
  PROVE  LET value == MemberDecode(member, held, how).value
         IN Sound(member.ty, value, HeldElementsBelow(member.ty, value, "rules"), how = "judged")
<1> DEFINE json == CHOOSE one \in held : TRUE
           corrected == CorrectedBy(member.pre, json)
           read == DecodeExprBelow(member.ty, corrected, how)
<1>1. MemberDecode(member, held, how) = read
  BY DEF MemberDecode
<1>2. corrected \in Json
  <2>1. json \in Json
    OBVIOUS
  <2>2. member.pre \in BOOLEAN
    BY DEF IsDeclared
  <2> HIDE DEF json
  <2> QED BY <2>1, <2>2, CorrectedIsJson
<1> HIDE DEF corrected
<1> QED BY <1>1, <1>2 DEF DartIsSound

(* What each variant is handed in Dart is a payload.                                            *)
LEMMA DartHandedIsJson ==
  ASSUME NEW Json, AreJson(Json), NEW json \in Json, NEW model, NEW content
  PROVE  TaggedPayload(model, content, json) \subseteq Json
<1>1. {Null} \subseteq Json
  BY DEF AreJson
<1> QED BY <1>1, HandedIsJson DEF TaggedPayload

(* The value that fromJsonUnjudged reads is sound, for what validate() says of it.                *)
LEMMA DartModelIsSound ==
  ASSUME NEW Json, AreJson(Json), BrokenInIsItself, NEW ty \in Types, ty.t = "model",
         \A of \in Types : Depth[of] < Depth[ty] => DartIsSound(Json, of),
         NEW json \in Json, FromJsonUnjudged(ty.name, json).ok
  PROVE  LET value == FromJsonUnjudged(ty.name, json).value
         IN Sound(ty, value, DartValidate(ty.name, value), FALSE)
<1> DEFINE model == Models[ty.name]
           contents == Contents(model)
           corrected == CorrectedBy(model.pre, json)
           ReadOfVariant(i) == ClassReads(contents[i], TaggedPayload(model, contents[i], corrected))
           reads == [i \in DOMAIN contents |-> VariantBounds(model, contents[i], ReadOfVariant(i))]
<1>1. corrected \in Json
  <2>1. model \in Range(Models)
    BY TypesAreNested DEF Range
  <2>2. model.pre \in BOOLEAN
    BY <2>1, ModelsAreDeclared
  <2> QED BY <2>2, CorrectedIsJson
<1>2. PICK k \in Nat : DOMAIN contents = 1..k
  BY ContentsAreListed
<1>3. FromJsonUnjudged(ty.name, json) = FirstRead(reads)
  BY DEF FromJsonUnjudged, DartVariantReads
<1>4. PICK variant \in 1..k : reads[variant].ok /\ FirstRead(reads) = Ok(Value(variant, reads[variant].value))
  <2>1. DOMAIN reads = 1..k
    BY <1>2
  <2> HIDE DEF reads
  <2> QED BY <1>3, <2>1, FirstIsOne
<1> DEFINE content == contents[variant]
           handed == TaggedPayload(model, content, corrected)
           Held(i) == PayloadOf(content.members[i], handed)
           how == IF content.shape = "brand" THEN "judged" ELSE "unjudged"
           ReadOf(i) == MemberDecode(content.members[i], Held(i), how)
           memberReads == [i \in DOMAIN content.members |-> ReadOf(i)]
<1>5. PICK n \in Nat : /\ DOMAIN content.members = 1..n
                       /\ \A i \in 1..n : /\ IsDeclared(content.members[i])
                                          /\ content.members[i].ty \in Types /\ Depth[content.members[i].ty] < Depth[ty]
  BY <1>2, MembersAreDeclared
<1>6. reads[variant] = MembersRead(content, handed, memberReads)
  <2>1. reads[variant] = VariantBounds(model, content, ReadOfVariant(variant))
    BY <1>2
  <2>2. reads[variant] = ReadOfVariant(variant)
    <3> HIDE DEF ReadOfVariant, reads
    <3> QED BY <1>4, <2>1 DEF VariantBounds, Ended, Refused
  <2> QED BY <2>2 DEF ClassReads
<1> DEFINE members == [i \in 1..n |-> IF Held(i) = {} THEN {} ELSE {ReadOf(i).value}]
           value == Value(variant, members)
           said == [i \in 1..n |-> HeldElementsBelow(content.members[i].ty, CHOOSE v \in members[i] : TRUE, "rules")]
<1>7. (\A i \in 1..n : ReadOf(i).ok) /\ FromJsonUnjudged(ty.name, json).value = value
  <2>1. DOMAIN memberReads = 1..n /\ \A i \in 1..n : memberReads[i] = ReadOf(i)
    BY <1>5
  <2> HIDE DEF memberReads, reads, ReadOf
  <2>2. (\A i \in 1..n : memberReads[i].ok) /\ reads[variant] = Ok([i \in 1..n |-> IF Held(i) = {} THEN {} ELSE {memberReads[i].value}])
    <3> HIDE DEF content, handed
    <3>1. MembersRead(content, handed, memberReads).ok
      BY <1>4, <1>6
    <3>2. MembersRead(content, handed, memberReads) = Ok(MembersOfReads(content, handed, memberReads, n))
      BY <2>1, <3>1, MembersAreRead
    <3>3. \A i \in 1..n : memberReads[i].ok
      BY <2>1, <3>1, MembersAreRead
    <3> QED BY <1>6, <3>2, <3>3 DEF MembersOfReads
  <2>3. reads[variant] = Ok(members)
    BY <2>1, <2>2
  <2>4. reads[variant].value = members
    BY <2>3 DEF Ok
  <2>5. FromJsonUnjudged(ty.name, json).value = Value(variant, reads[variant].value)
    BY <1>3, <1>4 DEF Ok
  <2>6. \A i \in 1..n : ReadOf(i).ok
    BY <2>1, <2>2
  <2> QED BY <2>4, <2>5, <2>6
<1>8. ASSUME NEW i \in 1..n, NEW held \in members[i]
      PROVE  /\ members[i] = {held} /\ held = CHOOSE v \in members[i] : TRUE
             /\ Sound(content.members[i].ty, held, HeldElementsBelow(content.members[i].ty, held, "rules"), how = "judged")
  <2>1. Held(i) # {} /\ members[i] = {ReadOf(i).value}
    OBVIOUS
  <2>2. Held(i) \subseteq Json
    <3>1. handed \subseteq Json
      BY <1>1, DartHandedIsJson
    <3> HIDE DEF handed, content
    <3> QED BY <1>5, <3>1, PayloadIsJson
  <2>3. how \in {"judged", "unjudged"}
    OBVIOUS
  <2>4. ReadOf(i).ok /\ DartIsSound(Json, content.members[i].ty)
    <3>1. ReadOf(i).ok
      BY <1>7
    <3> HIDE DEF ReadOf, content
    <3> QED BY <1>5, <3>1
  <2>5. held = ReadOf(i).value /\ ReadOf(i) = MemberDecode(content.members[i], Held(i), how)
    BY <2>1
  <2> HIDE DEF ReadOf, content, members, Held, how
  <2>6. Sound(content.members[i].ty, held, HeldElementsBelow(content.members[i].ty, held, "rules"), how = "judged")
    BY <1>5, <2>1, <2>2, <2>3, <2>4, <2>5, DartMemberIsSound
  <2> QED BY <2>1, <2>5, <2>6
<1> HIDE DEF reads, memberReads, ReadOf, Held, handed
<1>9. CASE model.shape # "brand"
  <2>1. DartValidate(ty.name, value) = ModelSaid(model, variant, members, said)
    <3>1. value.variant = variant /\ value.members = members
      BY DEF Value
    <3>2. DOMAIN members = 1..n
      OBVIOUS
    <3> DEFINE OfMember(member, held) == IF held = {} THEN <<>> ELSE MemberElements(member, CHOOSE v \in held : TRUE, "rules")
    <3>3. DartValidate(ty.name, value)
          = Under(Steps(model, content), FlattenSeq([i \in DOMAIN members |-> OfMember(content.members[i], members[i])]))
            \o CheckElements(model.check, value)
      <4> HIDE DEF members, value
      <4>1. DartValidate(ty.name, value) = VariantElements(model, content, members, "rules") \o CheckElements(model.check, value)
        BY <1>9, <3>1 DEF DartValidate
      <4> HIDE DEF content
      <4>2. VariantElements(model, content, members, "rules")
            = Under(Steps(model, content), FlattenSeq([i \in DOMAIN members |-> OfMember(content.members[i], members[i])]))
        BY DEF VariantElements
      <4> QED BY <4>1, <4>2
    <3>4. \A i \in 1..n : OfMember(content.members[i], members[i]) = HeldSaid(content.members[i], members[i], said[i])
      <4> TAKE i \in 1..n
      <4>1. said[i] = HeldElementsBelow(content.members[i].ty, CHOOSE v \in members[i] : TRUE, "rules")
        OBVIOUS
      <4> HIDE DEF said, members, content
      <4> QED BY <4>1 DEF HeldSaid, MemberSaid, MemberElements, OwnBoundElements, CheckElements, BoundRule, CheckRule, Rule
    <3>5. CheckElements(model.check, value) = CheckRule(model.check, value)
      BY DEF CheckElements, CheckRule, Rule
    <3> HIDE DEF OfMember, members, said
    <3>6. [i \in DOMAIN members |-> OfMember(content.members[i], members[i])]
          = [i \in DOMAIN members |-> HeldSaid(content.members[i], members[i], said[i])]
      BY <3>2, <3>4
    <3> QED BY <3>3, <3>5, <3>6 DEF ModelSaid
  <2>2. \A i \in 1..n : \A held \in members[i] : members[i] = {held} /\ Sound(content.members[i].ty, held, said[i], FALSE)
    <3> TAKE i \in 1..n
    <3> TAKE held \in members[i]
    <3>1. said[i] = HeldElementsBelow(content.members[i].ty, held, "rules")
      BY <1>8
    <3> HIDE DEF said, members, content, how
    <3>2. members[i] = {held}
      BY <1>8
    <3>3. Sound(content.members[i].ty, held, said[i], how = "judged")
      BY <1>8, <3>1
    <3>4. Sound(content.members[i].ty, held, said[i], FALSE)
      BY <3>3 DEF Sound
    <3> QED BY <3>2, <3>4
  <2>3. DOMAIN members = 1..n
    OBVIOUS
  <2> HIDE DEF members, said
  <2>4. Sound(ty, value, ModelSaid(model, variant, members, said), FALSE)
    BY <2>2, <2>3, ModelIsSound
  <2> HIDE DEF value
  <2> QED BY <1>7, <2>1, <2>4
<1>10. CASE model.shape = "brand"
  <2>1. contents = <<model>> /\ DOMAIN model.members = 1..1 /\ ~model.members[1].check
        /\ (model.members[1].bound => model.members[1].ty.t \in {"text", "list"})
    BY <1>10, BrandsAreDeclared
  <2>2. variant = 1 /\ n = 1 /\ content = model
    BY <1>2, <1>5, <2>1
  <2>3. how = "judged"
    BY <1>10, <2>2
  <2> DEFINE bound == OwnBoundElements(model.members[1], value)
  <2>4. bound = BoundRule(model.members[1].bound, value)
    BY DEF OwnBoundElements, BoundRule, Rule
  <2>5. IsListed(bound) /\ (bound = <<>> <=> ~(model.members[1].bound /\ value # Null /\ Broken(value)))
    BY <2>4, RuleIsListed DEF BoundRule
  <2>6. ASSUME NEW held \in members[1]
        PROVE  /\ BrokenInBelow(model.members[1].ty, held) = {}
               /\ bound = <<>> => ~(model.members[1].bound /\ held # Null /\ Broken(held))
    <3>1. Sound(model.members[1].ty, held, HeldElementsBelow(model.members[1].ty, held, "rules"), TRUE)
      <4>1. Sound(content.members[1].ty, held, HeldElementsBelow(content.members[1].ty, held, "rules"), how = "judged")
        <5> HIDE DEF members, content, how
        <5> QED BY <1>8, <2>2
      <4> HIDE DEF members, content, how
      <4> QED BY <4>1, <2>2, <2>3 DEF Sound
    <3>2. BrokenInBelow(model.members[1].ty, held) = {} /\ (model.members[1].ty.t \in {"text", "list"} => held.kind = model.members[1].ty.t)
      BY <3>1 DEF Sound
    <3>3. held.kind \in {"text", "list"} /\ Broken(held) => Broken(value) /\ value # Null
      <4> HIDE DEF members
      <4> QED BY <2>2, BrandBreaksItsBound
    <3> HIDE DEF bound, value, members
    <3> QED BY <2>1, <2>5, <3>2, <3>3
  <2>7. DOMAIN members = 1..1 /\ value = Value(1, members)
    BY <2>2
  <2>8. DartValidate(ty.name, value) = bound \o CheckRule(model.check, value)
    BY <1>10 DEF DartValidate, BrandValidate, CheckElements, CheckRule, Rule
  <2> HIDE DEF members, value, bound
  <2>9. Sound(ty, value, bound \o CheckRule(model.check, value), FALSE)
    BY <1>10, <2>5, <2>6, <2>7, BrandIsSound
  <2> QED BY <1>7, <2>8, <2>9
<1> QED BY <1>9, <1>10

(* A type is sound where the types below it are, and so every type is.                           *)
LEMMA DartTypeIsSound ==
  ASSUME NEW Json, AreJson(Json), BrokenInIsItself, DartIsItself, NEW ty \in Types,
         \A of \in Types : Depth[of] < Depth[ty] => DartIsSound(Json, of)
  PROVE  DartIsSound(Json, ty)
<1> SUFFICES ASSUME NEW json \in Json, NEW how \in {"judged", "unjudged"}, DecodeExpr(ty, json, how).ok
             PROVE  LET value == DecodeExpr(ty, json, how).value
                    IN Sound(ty, value, HeldElements(ty, value, "rules"), how = "judged")
  BY DEF DartIsSound, DartIsItself
<1>1. ty.t \in {"text", "filled", "model"} \cup Wrappers
  BY TypesAreNested
<1>2. CASE ty.t = "text"
  <2>1. json.kind = "text" /\ DecodeExpr(ty, json, how).value = json
    BY <1>2 DEF DecodeExpr, Ok, Ended, Refused
  <2>2. HeldElements(ty, json, "rules") = <<>>
    BY <1>2 DEF HeldElements, Wrappers
  <2> QED BY <1>2, <2>1, <2>2, TextIsSound
<1>3. CASE ty.t = "filled"
  <2>1. ty.of \in Types /\ Depth[ty.of] < Depth[ty]
    BY <1>3, OverAreTypes DEF Over
  <2> DEFINE read == DecodeExprBelow(ty.of, json, "judged")
  <2>2. DecodeExpr(ty, json, how) = read
    BY <1>3 DEF DecodeExpr
  <2> HIDE DEF read
  <2>3. Sound(ty.of, read.value, HeldElementsBelow(ty.of, read.value, "rules"), TRUE)
    BY <2>1, <2>2 DEF DartIsSound, read
  <2>4. HeldElements(ty, read.value, "rules") = <<>>
    BY <1>3 DEF HeldElements, Wrappers
  <2> QED BY <1>3, <2>2, <2>3, <2>4, FilledIsSound
<1>4. CASE ty.t = "model"
  <2> DEFINE read == FromJsonUnjudged(ty.name, json)
             says == DartValidate(ty.name, read.value)
  <2>1. read.ok /\ DecodeExpr(ty, json, how) = read /\ (how = "judged" => says = <<>>)
    <3>1. CASE how = "judged"
      <4>1. DecodeExpr(ty, json, how) = Reported(read, says)
        BY <1>4, <3>1 DEF DecodeExpr, FromJson, JudgedBody
      <4> HIDE DEF read, says
      <4> QED BY <4>1, ReportedIsRead
    <3>2. CASE how # "judged"
      BY <1>4, <3>2 DEF DecodeExpr
    <3> QED BY <3>1, <3>2
  <2>2. Sound(ty, read.value, says, FALSE)
    BY <1>4, <2>1, DartModelIsSound
  <2> HIDE DEF read
  <2>3. HeldElements(ty, read.value, "rules") = says
    BY <1>4 DEF HeldElements, Wrappers
  <2> HIDE DEF says
  <2> QED BY <2>1, <2>2, <2>3 DEF Sound
<1>5. CASE ty.t \in Wrappers
  <2> DEFINE places == Places(ty, json)
             reads == [i \in DOMAIN places |-> DecodeExprBelow(places[i].ty, places[i].held, how)]
             read == Gathered(ty, json, reads)
             held == Places(ty, read.value)
             says == [i \in DOMAIN held |-> HeldElementsBelow(held[i].ty, held[i].held, "rules")]
  <2>1. Fits(ty, json) /\ DecodeExpr(ty, json, how) = read
    BY <1>5 DEF DecodeExpr, Wrappers, Ended, Refused
  <2>2. PICK n \in Nat : DOMAIN places = 1..n /\ \A j \in 1..n : places[j].ty \in Over(ty) /\ places[j].held \in Json
    BY <1>5, <2>1, PlacesHold
  <2>3. ASSUME NEW i \in DOMAIN held, NEW j \in 1..n, held[i].ty = places[j].ty, held[i].held = reads[j].value, reads[j].ok
        PROVE  Sound(held[i].ty, held[i].held, says[i], how = "judged")
    <3>1. DartIsSound(Json, places[j].ty)
      <4>1. ty.t # "model"
        BY <1>5 DEF Wrappers
      <4> QED BY <2>2, <4>1, OverAreTypes
    <3>2. reads[j] = DecodeExprBelow(places[j].ty, places[j].held, how)
      BY <2>2
    <3>3. says[i] = HeldElementsBelow(held[i].ty, held[i].held, "rules")
      OBVIOUS
    <3> HIDE DEF reads, places, held, says
    <3> QED BY <2>2, <2>3, <3>1, <3>2, <3>3 DEF DartIsSound
  <2>4. DOMAIN reads = 1..n
    BY <2>2
  <2> HIDE DEF reads
  <2>5. Sound(ty, read.value, FlattenSeq([i \in DOMAIN held |-> Under(held[i].at, says[i])]), how = "judged")
    <3> HIDE DEF says
    <3> QED BY <1>5, <2>1, <2>2, <2>3, <2>4, WrapperIsSound
  <2>6. HeldElements(ty, read.value, "rules") = FlattenSeq([i \in DOMAIN held |-> Under(held[i].at, says[i])])
    <3> DEFINE all == [i \in DOMAIN held |-> Under(held[i].at, HeldElementsBelow(held[i].ty, held[i].held, "rules"))]
    <3>1. HeldElements(ty, read.value, "rules") = FlattenSeq(all)
      BY <1>5 DEF HeldElements, Wrappers
    <3>2. all = [i \in DOMAIN held |-> Under(held[i].at, says[i])]
      OBVIOUS
    <3> QED BY <3>1, <3>2
  <2> HIDE DEF read, held, says
  <2> QED BY <2>1, <2>5, <2>6
<1> QED BY <1>1, <1>2, <1>3, <1>4, <1>5

(* Every read in Dart is sound, of a type however deep, by induction on the depth.                *)
LEMMA DartIsSoundOfAll ==
  ASSUME NEW Json, AreJson(Json), BrokenInIsItself, DartIsItself
  PROVE  \A ty \in Types : DartIsSound(Json, ty)
<1> DEFINE S == {ty \in Types : DartIsSound(Json, ty)}
<1>1. \A ty \in Types : (\A of \in Types : Depth[of] < Depth[ty] => of \in S) => ty \in S
  BY DartTypeIsSound
<1>2. S \subseteq Types
  OBVIOUS
<1> HIDE DEF S
<1>3. S = Types
  BY <1>1, <1>2, TypesNest
<1> QED BY <1>3 DEF S

----------------------------------------------------------------------------

(* Swift: its definitions call themselves, and what it reads of a type is sound.                   *)
SwiftIsItself ==
  \A ty \in Types :
    /\ \A walk, value : HeldWalkBelow(walk, ty, value) = HeldWalk(walk, ty, value)
    /\ \A json, unjudged : ReadBelow(ty, json, unjudged) = Read(ty, json, unjudged)
SwiftIsSound(Json, ty) ==
  \A json \in Json : \A unjudged \in BOOLEAN :
    LET read == ReadBelow(ty, json, unjudged)
    IN read.ok => Sound(ty, read.value, HeldWalkBelow("rules", ty, read.value), ~unjudged)

(* The read of a member in Swift is sound where the reads of its type are: judged or not as its decode says.*)
LEMMA SwiftMemberIsSound ==
  ASSUME NEW Json, AreJson(Json), NEW member, IsDeclared(member), SwiftIsSound(Json, member.ty),
         NEW held, held \subseteq Json, held # {}, NEW content, DecodeStatement(content, member, held).ok
  PROVE  LET value == DecodeStatement(content, member, held).value
         IN Sound(member.ty, value, HeldWalkBelow("rules", member.ty, value), content.shape = "brand")
<1> DEFINE unjudged == content.shape # "brand" /\ Reaches(member.ty)
           json == CHOOSE one \in held : TRUE
           corrected == CorrectedBy(member.pre, json)
           read == ReadBelow(member.ty, corrected, unjudged)
<1>1. DecodeStatement(content, member, held) = read
  BY DEF DecodeStatement
<1>2. corrected \in Json
  <2>1. json \in Json
    OBVIOUS
  <2>2. member.pre \in BOOLEAN
    BY DEF IsDeclared
  <2> HIDE DEF json
  <2> QED BY <2>1, <2>2, CorrectedIsJson
<1>3. unjudged \in BOOLEAN /\ (content.shape = "brand" => ~unjudged)
  OBVIOUS
<1> HIDE DEF corrected, unjudged
<1>4. Sound(member.ty, read.value, HeldWalkBelow("rules", member.ty, read.value), ~unjudged)
  BY <1>1, <1>2, <1>3 DEF SwiftIsSound
<1> HIDE DEF read
<1> QED BY <1>1, <1>3, <1>4 DEF Sound

(* What each variant is handed in Swift is a payload.                                            *)
LEMMA SwiftHandedIsJson ==
  ASSUME NEW Json, AreJson(Json), NEW json \in Json, NEW model, NEW content
  PROVE  SwiftVariantRead(model, content, json) \subseteq Json
<1>1. {Null} \subseteq Json
  BY DEF AreJson
<1> QED BY <1>1, HandedIsJson DEF SwiftVariantRead

(* The value that the unjudged initializer reads is sound, for what validate() says of it.          *)
LEMMA SwiftModelIsSound ==
  ASSUME NEW Json, AreJson(Json), BrokenInIsItself, NEW ty \in Types, ty.t = "model",
         \A of \in Types : Depth[of] < Depth[ty] => SwiftIsSound(Json, of),
         NEW json \in Json, SwiftUnjudged(ty.name, json).ok
  PROVE  LET value == SwiftUnjudged(ty.name, json).value
         IN Sound(ty, value, SwiftValidate(ty.name, value), FALSE)
<1> DEFINE model == Models[ty.name]
           contents == Contents(model)
           corrected == CorrectedBy(model.pre, json)
           ReadOfVariant(i) == FieldReads(contents[i], SwiftVariantRead(model, contents[i], corrected))
           reads == [i \in DOMAIN contents |-> Attempt(model, contents[i], ReadOfVariant(i))]
<1>1. corrected \in Json
  <2>1. model \in Range(Models)
    BY TypesAreNested DEF Range
  <2>2. model.pre \in BOOLEAN
    BY <2>1, ModelsAreDeclared
  <2> QED BY <2>2, CorrectedIsJson
<1>2. PICK k \in Nat : DOMAIN contents = 1..k
  BY ContentsAreListed
<1>3. SwiftUnjudged(ty.name, json) = FirstRead(reads)
  BY DEF SwiftUnjudged, SwiftVariantReads
<1>4. PICK variant \in 1..k : reads[variant].ok /\ FirstRead(reads) = Ok(Value(variant, reads[variant].value))
  <2>1. DOMAIN reads = 1..k
    BY <1>2
  <2> HIDE DEF reads
  <2> QED BY <1>3, <2>1, FirstIsOne
<1> DEFINE content == contents[variant]
           handed == SwiftVariantRead(model, content, corrected)
           Held(i) == PayloadOf(content.members[i], handed)
           ReadOf(i) == DecodeStatement(content, content.members[i], Held(i))
           memberReads == [i \in DOMAIN content.members |-> ReadOf(i)]
<1>5. PICK n \in Nat : /\ DOMAIN content.members = 1..n
                       /\ \A i \in 1..n : /\ IsDeclared(content.members[i])
                                          /\ content.members[i].ty \in Types /\ Depth[content.members[i].ty] < Depth[ty]
  BY <1>2, MembersAreDeclared
<1>6. reads[variant] = MembersRead(content, handed, memberReads)
  <2>1. reads[variant] = Attempt(model, content, ReadOfVariant(variant))
    BY <1>2
  <2>2. reads[variant] = ReadOfVariant(variant)
    <3> HIDE DEF ReadOfVariant, reads
    <3> QED BY <1>4, <2>1 DEF Attempt, Ended, Refused
  <2> QED BY <2>2 DEF FieldReads
<1> DEFINE members == [i \in 1..n |-> IF Held(i) = {} THEN {} ELSE {ReadOf(i).value}]
           value == Value(variant, members)
           said == [i \in 1..n |-> HeldWalkBelow("rules", content.members[i].ty, CHOOSE v \in members[i] : TRUE)]
<1>7. (\A i \in 1..n : ReadOf(i).ok) /\ SwiftUnjudged(ty.name, json).value = value
  <2>1. DOMAIN memberReads = 1..n /\ \A i \in 1..n : memberReads[i] = ReadOf(i)
    BY <1>5
  <2> HIDE DEF memberReads, reads, ReadOf
  <2>2. (\A i \in 1..n : memberReads[i].ok) /\ reads[variant] = Ok([i \in 1..n |-> IF Held(i) = {} THEN {} ELSE {memberReads[i].value}])
    <3> HIDE DEF content, handed
    <3>1. MembersRead(content, handed, memberReads).ok
      BY <1>4, <1>6
    <3>2. MembersRead(content, handed, memberReads) = Ok(MembersOfReads(content, handed, memberReads, n))
      BY <2>1, <3>1, MembersAreRead
    <3>3. \A i \in 1..n : memberReads[i].ok
      BY <2>1, <3>1, MembersAreRead
    <3> QED BY <1>6, <3>2, <3>3 DEF MembersOfReads
  <2>3. reads[variant] = Ok(members)
    BY <2>1, <2>2
  <2>4. reads[variant].value = members
    BY <2>3 DEF Ok
  <2>5. SwiftUnjudged(ty.name, json).value = Value(variant, reads[variant].value)
    BY <1>3, <1>4 DEF Ok
  <2>6. \A i \in 1..n : ReadOf(i).ok
    BY <2>1, <2>2
  <2> QED BY <2>4, <2>5, <2>6
<1>8. ASSUME NEW i \in 1..n, NEW held \in members[i]
      PROVE  /\ members[i] = {held} /\ held = CHOOSE v \in members[i] : TRUE
             /\ Sound(content.members[i].ty, held, HeldWalkBelow("rules", content.members[i].ty, held), content.shape = "brand")
  <2>1. Held(i) # {} /\ members[i] = {ReadOf(i).value}
    OBVIOUS
  <2>2. Held(i) \subseteq Json
    <3>1. handed \subseteq Json
      BY <1>1, SwiftHandedIsJson
    <3> HIDE DEF handed, content
    <3> QED BY <1>5, <3>1, PayloadIsJson
  <2>4. ReadOf(i).ok /\ SwiftIsSound(Json, content.members[i].ty)
    <3>1. ReadOf(i).ok
      BY <1>7
    <3> HIDE DEF ReadOf, content
    <3> QED BY <1>5, <3>1
  <2>5. held = ReadOf(i).value /\ ReadOf(i) = DecodeStatement(content, content.members[i], Held(i))
    BY <2>1
  <2> HIDE DEF ReadOf, content, members, Held
  <2>6. Sound(content.members[i].ty, held, HeldWalkBelow("rules", content.members[i].ty, held), content.shape = "brand")
    BY <1>5, <2>1, <2>2, <2>4, <2>5, SwiftMemberIsSound
  <2> QED BY <2>1, <2>5, <2>6
<1> HIDE DEF reads, memberReads, ReadOf, Held, handed
<1>9. CASE model.shape # "brand"
  <2>1. SwiftValidate(ty.name, value) = ModelSaid(model, variant, members, said)
    <3>1. value.variant = variant /\ value.members = members
      BY DEF Value
    <3>2. DOMAIN members = 1..n
      OBVIOUS
    <3> DEFINE OfMember(member, held) == IF held = {} THEN <<>> ELSE MemberRules(member, CHOOSE v \in held : TRUE)
    <3>3. SwiftValidate(ty.name, value)
          = Under(Steps(model, content), FlattenSeq([i \in DOMAIN members |-> OfMember(content.members[i], members[i])]))
            \o CheckRules(model.check, value)
      <4> HIDE DEF members, value
      <4>1. SwiftValidate(ty.name, value) = FieldRules(model, content, members) \o CheckRules(model.check, value)
        BY <1>9, <3>1 DEF SwiftValidate
      <4> HIDE DEF content
      <4>2. FieldRules(model, content, members)
            = Under(Steps(model, content), FlattenSeq([i \in DOMAIN members |-> OfMember(content.members[i], members[i])]))
        BY DEF FieldRules
      <4> QED BY <4>1, <4>2
    <3>4. \A i \in 1..n : OfMember(content.members[i], members[i]) = HeldSaid(content.members[i], members[i], said[i])
      <4> TAKE i \in 1..n
      <4>1. said[i] = HeldWalkBelow("rules", content.members[i].ty, CHOOSE v \in members[i] : TRUE)
        OBVIOUS
      <4> HIDE DEF said, members, content
      <4> QED BY <4>1 DEF HeldSaid, MemberSaid, MemberRules, BoundRules, CheckRules, BoundRule, CheckRule, Rule
    <3>5. CheckRules(model.check, value) = CheckRule(model.check, value)
      BY DEF CheckRules, CheckRule, Rule
    <3> HIDE DEF OfMember, members, said
    <3>6. [i \in DOMAIN members |-> OfMember(content.members[i], members[i])]
          = [i \in DOMAIN members |-> HeldSaid(content.members[i], members[i], said[i])]
      BY <3>2, <3>4
    <3> QED BY <3>3, <3>5, <3>6 DEF ModelSaid
  <2>2. \A i \in 1..n : \A held \in members[i] : members[i] = {held} /\ Sound(content.members[i].ty, held, said[i], FALSE)
    <3> TAKE i \in 1..n
    <3> TAKE held \in members[i]
    <3>1. said[i] = HeldWalkBelow("rules", content.members[i].ty, held)
      BY <1>8
    <3> HIDE DEF said, members, content
    <3>2. members[i] = {held}
      BY <1>8
    <3>3. Sound(content.members[i].ty, held, said[i], content.shape = "brand")
      BY <1>8, <3>1
    <3>4. Sound(content.members[i].ty, held, said[i], FALSE)
      BY <3>3 DEF Sound
    <3> QED BY <3>2, <3>4
  <2>3. DOMAIN members = 1..n
    OBVIOUS
  <2> HIDE DEF members, said
  <2>4. Sound(ty, value, ModelSaid(model, variant, members, said), FALSE)
    BY <2>2, <2>3, ModelIsSound
  <2> HIDE DEF value
  <2> QED BY <1>7, <2>1, <2>4
<1>10. CASE model.shape = "brand"
  <2>1. contents = <<model>> /\ DOMAIN model.members = 1..1 /\ ~model.members[1].check
        /\ (model.members[1].bound => model.members[1].ty.t \in {"text", "list"})
    BY <1>10, BrandsAreDeclared
  <2>2. variant = 1 /\ n = 1 /\ content = model
    BY <1>2, <1>5, <2>1
  <2>3. content.shape = "brand"
    BY <1>10, <2>2
  <2> DEFINE chosen == CHOOSE v \in members[1] : TRUE
             bound == BoundRules(model.members[1], chosen)
  <2>4. bound = BoundRule(model.members[1].bound, chosen)
    BY DEF BoundRules, BoundRule, Rule
  <2>5. IsListed(bound) /\ (bound = <<>> <=> ~(model.members[1].bound /\ chosen # Null /\ Broken(chosen)))
    BY <2>4, RuleIsListed DEF BoundRule
  <2>6. ASSUME NEW held \in members[1]
        PROVE  /\ BrokenInBelow(model.members[1].ty, held) = {}
               /\ bound = <<>> => ~(model.members[1].bound /\ held # Null /\ Broken(held))
    <3>1. Sound(model.members[1].ty, held, HeldWalkBelow("rules", model.members[1].ty, held), TRUE)
      <4>1. Sound(content.members[1].ty, held, HeldWalkBelow("rules", content.members[1].ty, held), content.shape = "brand")
        <5> HIDE DEF members, content
        <5> QED BY <1>8, <2>2
      <4> HIDE DEF members, content
      <4> QED BY <4>1, <2>2, <2>3 DEF Sound
    <3>2. BrokenInBelow(model.members[1].ty, held) = {} /\ (model.members[1].ty.t \in {"text", "list"} => held.kind = model.members[1].ty.t)
      BY <3>1 DEF Sound
    <3>3. held = chosen
      <4> HIDE DEF members, content
      <4> QED BY <1>8, <2>2
    <3> HIDE DEF bound, chosen, members
    <3> QED BY <2>5, <3>2, <3>3
  <2>7. DOMAIN members = 1..1 /\ value = Value(1, members)
    BY <2>2
  <2>8. SwiftValidate(ty.name, value) = bound \o CheckRule(model.check, value)
    <3>1. value.members = members
      BY DEF Value
    <3> HIDE DEF value, members
    <3> QED BY <1>10, <3>1 DEF SwiftValidate, BrandRules, CheckRules, CheckRule, Rule
  <2> HIDE DEF members, value, bound
  <2>9. Sound(ty, value, bound \o CheckRule(model.check, value), FALSE)
    BY <1>10, <2>5, <2>6, <2>7, BrandIsSound
  <2> QED BY <1>7, <2>8, <2>9
<1> QED BY <1>9, <1>10

(* A type is sound where the types below it are, and so every type is.                           *)
LEMMA SwiftTypeIsSound ==
  ASSUME NEW Json, AreJson(Json), BrokenInIsItself, SwiftIsItself, NEW ty \in Types,
         \A of \in Types : Depth[of] < Depth[ty] => SwiftIsSound(Json, of)
  PROVE  SwiftIsSound(Json, ty)
<1> SUFFICES ASSUME NEW json \in Json, NEW unjudged \in BOOLEAN, Read(ty, json, unjudged).ok
             PROVE  LET value == Read(ty, json, unjudged).value
                    IN Sound(ty, value, HeldWalk("rules", ty, value), ~unjudged)
  BY DEF SwiftIsSound, SwiftIsItself
<1>1. ty.t \in {"text", "filled", "model"} \cup Wrappers
  BY TypesAreNested
<1>2. CASE ty.t = "text"
  <2>1. json.kind = "text" /\ Read(ty, json, unjudged).value = json
    BY <1>2 DEF Read, Ok, Ended, Refused
  <2>2. HeldWalk("rules", ty, json) = <<>>
    BY <1>2 DEF HeldWalk, Wrappers
  <2> QED BY <1>2, <2>1, <2>2, TextIsSound
<1>3. CASE ty.t = "filled"
  <2>1. ty.of \in Types /\ Depth[ty.of] < Depth[ty]
    BY <1>3, OverAreTypes DEF Over
  <2> DEFINE read == ReadBelow(ty.of, json, FALSE)
  <2>2. Read(ty, json, unjudged) = read
    BY <1>3 DEF Read
  <2> HIDE DEF read
  <2>3. Sound(ty.of, read.value, HeldWalkBelow("rules", ty.of, read.value), TRUE)
    BY <2>1, <2>2 DEF SwiftIsSound, read
  <2>4. HeldWalk("rules", ty, read.value) = <<>>
    BY <1>3 DEF HeldWalk, Wrappers
  <2> QED BY <1>3, <2>2, <2>3, <2>4, FilledIsSound
<1>4. CASE ty.t = "model"
  <2> DEFINE read == SwiftUnjudged(ty.name, json)
             says == SwiftValidate(ty.name, read.value)
  <2>1. read.ok /\ Read(ty, json, unjudged) = read /\ (unjudged = FALSE => says = <<>>)
    <3>1. CASE unjudged = FALSE
      <4>1. Read(ty, json, unjudged) = Reported(read, says)
        BY <1>4, <3>1 DEF Read, SwiftJudged, SwiftJudging
      <4> HIDE DEF read, says
      <4> QED BY <4>1, ReportedIsRead
    <3>2. CASE unjudged = TRUE
      BY <1>4, <3>2 DEF Read
    <3> QED BY <3>1, <3>2
  <2>2. Sound(ty, read.value, says, FALSE)
    BY <1>4, <2>1, SwiftModelIsSound
  <2> HIDE DEF read
  <2>3. HeldWalk("rules", ty, read.value) = says
    BY <1>4 DEF HeldWalk, Wrappers
  <2> HIDE DEF says
  <2> QED BY <2>1, <2>2, <2>3 DEF Sound
<1>5. CASE ty.t \in Wrappers
  <2> DEFINE places == Places(ty, json)
             reads == [i \in DOMAIN places |-> ReadBelow(places[i].ty, places[i].held, unjudged)]
             read == Gathered(ty, json, reads)
             held == Places(ty, read.value)
             says == [i \in DOMAIN held |-> HeldWalkBelow("rules", held[i].ty, held[i].held)]
  <2>1. Fits(ty, json) /\ Read(ty, json, unjudged) = read
    BY <1>5 DEF Read, Wrappers, Ended, Refused
  <2>2. PICK n \in Nat : DOMAIN places = 1..n /\ \A j \in 1..n : places[j].ty \in Over(ty) /\ places[j].held \in Json
    BY <1>5, <2>1, PlacesHold
  <2>3. ASSUME NEW i \in DOMAIN held, NEW j \in 1..n, held[i].ty = places[j].ty, held[i].held = reads[j].value, reads[j].ok
        PROVE  Sound(held[i].ty, held[i].held, says[i], ~unjudged)
    <3>1. SwiftIsSound(Json, places[j].ty)
      <4>1. ty.t # "model"
        BY <1>5 DEF Wrappers
      <4> QED BY <2>2, <4>1, OverAreTypes
    <3>2. reads[j] = ReadBelow(places[j].ty, places[j].held, unjudged)
      BY <2>2
    <3>3. says[i] = HeldWalkBelow("rules", held[i].ty, held[i].held)
      OBVIOUS
    <3> HIDE DEF reads, places, held, says
    <3> QED BY <2>2, <2>3, <3>1, <3>2, <3>3 DEF SwiftIsSound
  <2>4. DOMAIN reads = 1..n
    BY <2>2
  <2> HIDE DEF reads
  <2>5. Sound(ty, read.value, FlattenSeq([i \in DOMAIN held |-> Under(held[i].at, says[i])]), ~unjudged)
    <3> HIDE DEF says
    <3> QED BY <1>5, <2>1, <2>2, <2>3, <2>4, WrapperIsSound
  <2>6. HeldWalk("rules", ty, read.value) = FlattenSeq([i \in DOMAIN held |-> Under(held[i].at, says[i])])
    <3> DEFINE all == [i \in DOMAIN held |-> Under(held[i].at, HeldWalkBelow("rules", held[i].ty, held[i].held))]
    <3>1. HeldWalk("rules", ty, read.value) = FlattenSeq(all)
      BY <1>5 DEF HeldWalk, Wrappers
    <3>2. all = [i \in DOMAIN held |-> Under(held[i].at, says[i])]
      OBVIOUS
    <3> QED BY <3>1, <3>2
  <2> HIDE DEF read, held, says
  <2> QED BY <2>1, <2>5, <2>6
<1> QED BY <1>1, <1>2, <1>3, <1>4, <1>5

(* Every read in Swift is sound, of a type however deep, by induction on the depth.               *)
LEMMA SwiftIsSoundOfAll ==
  ASSUME NEW Json, AreJson(Json), BrokenInIsItself, SwiftIsItself
  PROVE  \A ty \in Types : SwiftIsSound(Json, ty)
<1> DEFINE S == {ty \in Types : SwiftIsSound(Json, ty)}
<1>1. \A ty \in Types : (\A of \in Types : Depth[of] < Depth[ty] => of \in S) => ty \in S
  BY SwiftTypeIsSound
<1>2. S \subseteq Types
  OBVIOUS
<1> HIDE DEF S
<1>3. S = Types
  BY <1>1, <1>2, TypesNest
<1> QED BY <1>3 DEF S

----------------------------------------------------------------------------

(* Kotlin: its definitions call themselves, and what it reads of a type is sound.                   *)
KotlinIsItself ==
  \A ty \in Types :
    /\ \A value, asked : HeldStatementsBelow(ty, value, asked) = HeldStatements(ty, value, asked)
    /\ \A json, unjudged : DecodedBelow(ty, json, unjudged) = Decoded(ty, json, unjudged)
KotlinIsSound(Json, ty) ==
  \A json \in Json : \A unjudged \in BOOLEAN :
    LET read == DecodedBelow(ty, json, unjudged)
    IN read.ok => Sound(ty, read.value, HeldStatementsBelow(ty, read.value, "report"), ~unjudged)

(* The read of a member in Kotlin is sound where the reads of its type are: judged or not as its serializer says.*)
LEMMA KotlinMemberIsSound ==
  ASSUME NEW Json, AreJson(Json), NEW member, IsDeclared(member), KotlinIsSound(Json, member.ty),
         NEW held, held \subseteq Json, held # {}, NEW content, MemberDecoded(content, member, held).ok
  PROVE  LET value == MemberDecoded(content, member, held).value
         IN Sound(member.ty, value, HeldStatementsBelow(member.ty, value, "report"), content.shape = "brand")
<1> DEFINE unjudged == MemberSerializer(content, member)
           json == CHOOSE one \in held : TRUE
           corrected == CorrectedBy(member.pre, json)
           read == DecodedBelow(member.ty, corrected, unjudged)
<1>1. MemberDecoded(content, member, held) = read
  BY DEF MemberDecoded
<1>2. corrected \in Json
  <2>1. json \in Json
    OBVIOUS
  <2>2. member.pre \in BOOLEAN
    BY DEF IsDeclared
  <2> HIDE DEF json
  <2> QED BY <2>1, <2>2, CorrectedIsJson
<1>3. unjudged \in BOOLEAN /\ (content.shape = "brand" => ~unjudged)
  BY DEF MemberSerializer
<1> HIDE DEF corrected, unjudged
<1>4. Sound(member.ty, read.value, HeldStatementsBelow(member.ty, read.value, "report"), ~unjudged)
  BY <1>1, <1>2, <1>3 DEF KotlinIsSound
<1> HIDE DEF read
<1> QED BY <1>1, <1>3, <1>4 DEF Sound

(* What each variant is handed in Kotlin is a payload.                                            *)
LEMMA KotlinHandedIsJson ==
  ASSUME NEW Json, AreJson(Json), NEW json \in Json, NEW model, NEW content
  PROVE  DataOf(model, content, json) \subseteq Json
<1>1. {Null} \subseteq Json
  BY DEF AreJson
<1> QED BY <1>1, HandedIsJson DEF DataOf

(* The value that {Type}Unjudged reads is sound, for what validate() says of it.                *)
LEMMA KotlinModelIsSound ==
  ASSUME NEW Json, AreJson(Json), BrokenInIsItself, NEW ty \in Types, ty.t = "model",
         \A of \in Types : Depth[of] < Depth[ty] => KotlinIsSound(Json, of),
         NEW json \in Json, KotlinUnjudged(ty.name, json).ok
  PROVE  LET value == KotlinUnjudged(ty.name, json).value
         IN Sound(ty, value, KotlinValidate(ty.name, value), FALSE)
<1> DEFINE model == Models[ty.name]
           contents == Contents(model)
           corrected == CorrectedBy(model.pre, json)
           ReadOfVariant(i) == Members(contents[i], DataOf(model, contents[i], corrected))
           reads == [i \in DOMAIN contents |-> HeldToItsBounds(model, contents[i], ReadOfVariant(i))]
<1>1. corrected \in Json
  <2>1. model \in Range(Models)
    BY TypesAreNested DEF Range
  <2>2. model.pre \in BOOLEAN
    BY <2>1, ModelsAreDeclared
  <2> QED BY <2>2, CorrectedIsJson
<1>2. PICK k \in Nat : DOMAIN contents = 1..k
  BY ContentsAreListed
<1>3. KotlinUnjudged(ty.name, json) = FirstRead(reads)
  BY DEF KotlinUnjudged, DeserializeChain
<1>4. PICK variant \in 1..k : reads[variant].ok /\ FirstRead(reads) = Ok(Value(variant, reads[variant].value))
  <2>1. DOMAIN reads = 1..k
    BY <1>2
  <2> HIDE DEF reads
  <2> QED BY <1>3, <2>1, FirstIsOne
<1> DEFINE content == contents[variant]
           handed == DataOf(model, content, corrected)
           Held(i) == PayloadOf(content.members[i], handed)
           ReadOf(i) == MemberDecoded(content, content.members[i], Held(i))
           memberReads == [i \in DOMAIN content.members |-> ReadOf(i)]
<1>5. PICK n \in Nat : /\ DOMAIN content.members = 1..n
                       /\ \A i \in 1..n : /\ IsDeclared(content.members[i])
                                          /\ content.members[i].ty \in Types /\ Depth[content.members[i].ty] < Depth[ty]
  BY <1>2, MembersAreDeclared
<1>6. reads[variant] = MembersRead(content, handed, memberReads)
  <2>1. reads[variant] = HeldToItsBounds(model, content, ReadOfVariant(variant))
    BY <1>2
  <2>2. reads[variant] = ReadOfVariant(variant)
    <3> HIDE DEF ReadOfVariant, reads
    <3> QED BY <1>4, <2>1 DEF HeldToItsBounds, Ended, Refused
  <2> QED BY <2>2 DEF Members
<1> DEFINE members == [i \in 1..n |-> IF Held(i) = {} THEN {} ELSE {ReadOf(i).value}]
           value == Value(variant, members)
           said == [i \in 1..n |-> HeldStatementsBelow(content.members[i].ty, CHOOSE v \in members[i] : TRUE, "report")]
<1>7. (\A i \in 1..n : ReadOf(i).ok) /\ KotlinUnjudged(ty.name, json).value = value
  <2>1. DOMAIN memberReads = 1..n /\ \A i \in 1..n : memberReads[i] = ReadOf(i)
    BY <1>5
  <2> HIDE DEF memberReads, reads, ReadOf
  <2>2. (\A i \in 1..n : memberReads[i].ok) /\ reads[variant] = Ok([i \in 1..n |-> IF Held(i) = {} THEN {} ELSE {memberReads[i].value}])
    <3> HIDE DEF content, handed
    <3>1. MembersRead(content, handed, memberReads).ok
      BY <1>4, <1>6
    <3>2. MembersRead(content, handed, memberReads) = Ok(MembersOfReads(content, handed, memberReads, n))
      BY <2>1, <3>1, MembersAreRead
    <3>3. \A i \in 1..n : memberReads[i].ok
      BY <2>1, <3>1, MembersAreRead
    <3> QED BY <1>6, <3>2, <3>3 DEF MembersOfReads
  <2>3. reads[variant] = Ok(members)
    BY <2>1, <2>2
  <2>4. reads[variant].value = members
    BY <2>3 DEF Ok
  <2>5. KotlinUnjudged(ty.name, json).value = Value(variant, reads[variant].value)
    BY <1>3, <1>4 DEF Ok
  <2>6. \A i \in 1..n : ReadOf(i).ok
    BY <2>1, <2>2
  <2> QED BY <2>4, <2>5, <2>6
<1>8. ASSUME NEW i \in 1..n, NEW held \in members[i]
      PROVE  /\ members[i] = {held} /\ held = CHOOSE v \in members[i] : TRUE
             /\ Sound(content.members[i].ty, held, HeldStatementsBelow(content.members[i].ty, held, "report"), content.shape = "brand")
  <2>1. Held(i) # {} /\ members[i] = {ReadOf(i).value}
    OBVIOUS
  <2>2. Held(i) \subseteq Json
    <3>1. handed \subseteq Json
      BY <1>1, KotlinHandedIsJson
    <3> HIDE DEF handed, content
    <3> QED BY <1>5, <3>1, PayloadIsJson
  <2>4. ReadOf(i).ok /\ KotlinIsSound(Json, content.members[i].ty)
    <3>1. ReadOf(i).ok
      BY <1>7
    <3> HIDE DEF ReadOf, content
    <3> QED BY <1>5, <3>1
  <2>5. held = ReadOf(i).value /\ ReadOf(i) = MemberDecoded(content, content.members[i], Held(i))
    BY <2>1
  <2> HIDE DEF ReadOf, content, members, Held
  <2>6. Sound(content.members[i].ty, held, HeldStatementsBelow(content.members[i].ty, held, "report"), content.shape = "brand")
    BY <1>5, <2>1, <2>2, <2>4, <2>5, KotlinMemberIsSound
  <2> QED BY <2>1, <2>5, <2>6
<1> HIDE DEF reads, memberReads, ReadOf, Held, handed
<1>9. CASE model.shape # "brand"
  <2>1. KotlinValidate(ty.name, value) = ModelSaid(model, variant, members, said)
    <3>1. value.variant = variant /\ value.members = members
      BY DEF Value
    <3>2. DOMAIN members = 1..n
      OBVIOUS
    <3> DEFINE OfMember(member, held) == IF held = {} THEN <<>> ELSE Member(member, CHOOSE v \in held : TRUE, "report")
    <3>3. KotlinValidate(ty.name, value)
          = Under(Steps(model, content), FlattenSeq([i \in DOMAIN members |-> OfMember(content.members[i], members[i])]))
            \o CheckStatements(model.check, value)
      <4> HIDE DEF members, value
      <4>1. KotlinValidate(ty.name, value) = VariantRules(model, content, members, "report") \o CheckStatements(model.check, value)
        BY <1>9, <3>1 DEF KotlinValidate, RulesOf
      <4> HIDE DEF content
      <4>2. VariantRules(model, content, members, "report")
            = Under(Steps(model, content), FlattenSeq([i \in DOMAIN members |-> OfMember(content.members[i], members[i])]))
        BY DEF VariantRules
      <4> QED BY <4>1, <4>2
    <3>4. \A i \in 1..n : OfMember(content.members[i], members[i]) = HeldSaid(content.members[i], members[i], said[i])
      <4> TAKE i \in 1..n
      <4>1. said[i] = HeldStatementsBelow(content.members[i].ty, CHOOSE v \in members[i] : TRUE, "report")
        OBVIOUS
      <4> HIDE DEF said, members, content
      <4> QED BY <4>1 DEF HeldSaid, MemberSaid, Member, BoundStatements, CheckStatements, BoundRule, CheckRule, Rule
    <3>5. CheckStatements(model.check, value) = CheckRule(model.check, value)
      BY DEF CheckStatements, CheckRule, Rule
    <3> HIDE DEF OfMember, members, said
    <3>6. [i \in DOMAIN members |-> OfMember(content.members[i], members[i])]
          = [i \in DOMAIN members |-> HeldSaid(content.members[i], members[i], said[i])]
      BY <3>2, <3>4
    <3> QED BY <3>3, <3>5, <3>6 DEF ModelSaid
  <2>2. \A i \in 1..n : \A held \in members[i] : members[i] = {held} /\ Sound(content.members[i].ty, held, said[i], FALSE)
    <3> TAKE i \in 1..n
    <3> TAKE held \in members[i]
    <3>1. said[i] = HeldStatementsBelow(content.members[i].ty, held, "report")
      BY <1>8
    <3> HIDE DEF said, members, content
    <3>2. members[i] = {held}
      BY <1>8
    <3>3. Sound(content.members[i].ty, held, said[i], content.shape = "brand")
      BY <1>8, <3>1
    <3>4. Sound(content.members[i].ty, held, said[i], FALSE)
      BY <3>3 DEF Sound
    <3> QED BY <3>2, <3>4
  <2>3. DOMAIN members = 1..n
    OBVIOUS
  <2> HIDE DEF members, said
  <2>4. Sound(ty, value, ModelSaid(model, variant, members, said), FALSE)
    BY <2>2, <2>3, ModelIsSound
  <2> HIDE DEF value
  <2> QED BY <1>7, <2>1, <2>4
<1>10. CASE model.shape = "brand"
  <2>1. contents = <<model>> /\ DOMAIN model.members = 1..1 /\ ~model.members[1].check
        /\ (model.members[1].bound => model.members[1].ty.t \in {"text", "list"})
    BY <1>10, BrandsAreDeclared
  <2>2. variant = 1 /\ n = 1 /\ content = model
    BY <1>2, <1>5, <2>1
  <2>3. content.shape = "brand"
    BY <1>10, <2>2
  <2> DEFINE chosen == CHOOSE v \in members[1] : TRUE
             bound == BoundStatements(model.members[1], chosen)
  <2>4. bound = BoundRule(model.members[1].bound, chosen)
    BY DEF BoundStatements, BoundRule, Rule
  <2>5. IsListed(bound) /\ (bound = <<>> <=> ~(model.members[1].bound /\ chosen # Null /\ Broken(chosen)))
    BY <2>4, RuleIsListed DEF BoundRule
  <2>6. ASSUME NEW held \in members[1]
        PROVE  /\ BrokenInBelow(model.members[1].ty, held) = {}
               /\ bound = <<>> => ~(model.members[1].bound /\ held # Null /\ Broken(held))
    <3>1. Sound(model.members[1].ty, held, HeldStatementsBelow(model.members[1].ty, held, "report"), TRUE)
      <4>1. Sound(content.members[1].ty, held, HeldStatementsBelow(content.members[1].ty, held, "report"), content.shape = "brand")
        <5> HIDE DEF members, content
        <5> QED BY <1>8, <2>2
      <4> HIDE DEF members, content
      <4> QED BY <4>1, <2>2, <2>3 DEF Sound
    <3>2. BrokenInBelow(model.members[1].ty, held) = {} /\ (model.members[1].ty.t \in {"text", "list"} => held.kind = model.members[1].ty.t)
      BY <3>1 DEF Sound
    <3>3. held = chosen
      <4> HIDE DEF members, content
      <4> QED BY <1>8, <2>2
    <3> HIDE DEF bound, chosen, members
    <3> QED BY <2>5, <3>2, <3>3
  <2>7. DOMAIN members = 1..1 /\ value = Value(1, members)
    BY <2>2
  <2>8. KotlinValidate(ty.name, value) = bound \o CheckRule(model.check, value)
    <3>1. value.members = members
      BY DEF Value
    <3> HIDE DEF value, members
    <3> QED BY <1>10, <3>1 DEF KotlinValidate, RulesOf, Brand, CheckStatements, CheckRule, Rule
  <2> HIDE DEF members, value, bound
  <2>9. Sound(ty, value, bound \o CheckRule(model.check, value), FALSE)
    BY <1>10, <2>5, <2>6, <2>7, BrandIsSound
  <2> QED BY <1>7, <2>8, <2>9
<1> QED BY <1>9, <1>10

(* A type is sound where the types below it are, and so every type is.                           *)
LEMMA KotlinTypeIsSound ==
  ASSUME NEW Json, AreJson(Json), BrokenInIsItself, KotlinIsItself, NEW ty \in Types,
         \A of \in Types : Depth[of] < Depth[ty] => KotlinIsSound(Json, of)
  PROVE  KotlinIsSound(Json, ty)
<1> SUFFICES ASSUME NEW json \in Json, NEW unjudged \in BOOLEAN, Decoded(ty, json, unjudged).ok
             PROVE  LET value == Decoded(ty, json, unjudged).value
                    IN Sound(ty, value, HeldStatements(ty, value, "report"), ~unjudged)
  BY DEF KotlinIsSound, KotlinIsItself
<1>1. ty.t \in {"text", "filled", "model"} \cup Wrappers
  BY TypesAreNested
<1>2. CASE ty.t = "text"
  <2>1. json.kind = "text" /\ Decoded(ty, json, unjudged).value = json
    BY <1>2 DEF Decoded, Ok, Ended, Refused
  <2>2. HeldStatements(ty, json, "report") = <<>>
    BY <1>2 DEF HeldStatements, Wrappers
  <2> QED BY <1>2, <2>1, <2>2, TextIsSound
<1>3. CASE ty.t = "filled"
  <2>1. ty.of \in Types /\ Depth[ty.of] < Depth[ty]
    BY <1>3, OverAreTypes DEF Over
  <2> DEFINE read == DecodedBelow(ty.of, json, FALSE)
  <2>2. Decoded(ty, json, unjudged) = read
    BY <1>3 DEF Decoded
  <2> HIDE DEF read
  <2>3. Sound(ty.of, read.value, HeldStatementsBelow(ty.of, read.value, "report"), TRUE)
    BY <2>1, <2>2 DEF KotlinIsSound, read
  <2>4. HeldStatements(ty, read.value, "report") = <<>>
    BY <1>3 DEF HeldStatements, Wrappers
  <2> QED BY <1>3, <2>2, <2>3, <2>4, FilledIsSound
<1>4. CASE ty.t = "model"
  <2> DEFINE read == KotlinUnjudged(ty.name, json)
             says == KotlinValidate(ty.name, read.value)
  <2>1. read.ok /\ Decoded(ty, json, unjudged) = read /\ (unjudged = FALSE => says = <<>>)
    <3>1. CASE unjudged = FALSE
      <4>1. Decoded(ty, json, unjudged) = Reported(read, says)
        BY <1>4, <3>1 DEF Decoded, KotlinJudged, KotlinJudging
      <4> HIDE DEF read, says
      <4> QED BY <4>1, ReportedIsRead
    <3>2. CASE unjudged = TRUE
      BY <1>4, <3>2 DEF Decoded
    <3> QED BY <3>1, <3>2
  <2>2. Sound(ty, read.value, says, FALSE)
    BY <1>4, <2>1, KotlinModelIsSound
  <2> HIDE DEF read
  <2>3. HeldStatements(ty, read.value, "report") = says
    BY <1>4 DEF HeldStatements, Wrappers
  <2> HIDE DEF says
  <2> QED BY <2>1, <2>2, <2>3 DEF Sound
<1>5. CASE ty.t \in Wrappers
  <2> DEFINE places == Places(ty, json)
             Position(of) == unjudged /\ (ty.t = "tuple" => InAPosition(of))
             reads == [i \in DOMAIN places |-> DecodedBelow(places[i].ty, places[i].held, Position(places[i].ty))]
             read == Gathered(ty, json, reads)
             held == Places(ty, read.value)
             says == [i \in DOMAIN held |-> HeldStatementsBelow(held[i].ty, held[i].held, "report")]
  <2>1. Fits(ty, json) /\ Decoded(ty, json, unjudged) = read
    BY <1>5 DEF Decoded, Wrappers, Ended, Refused
  <2>2. PICK n \in Nat : DOMAIN places = 1..n /\ \A j \in 1..n : places[j].ty \in Over(ty) /\ places[j].held \in Json
    BY <1>5, <2>1, PlacesHold
  <2>3. ASSUME NEW i \in DOMAIN held, NEW j \in 1..n, held[i].ty = places[j].ty, held[i].held = reads[j].value, reads[j].ok
        PROVE  Sound(held[i].ty, held[i].held, says[i], ~unjudged)
    <3>1. KotlinIsSound(Json, places[j].ty)
      <4>1. ty.t # "model"
        BY <1>5 DEF Wrappers
      <4> QED BY <2>2, <4>1, OverAreTypes
    <3>2. reads[j] = DecodedBelow(places[j].ty, places[j].held, Position(places[j].ty))
      BY <2>2
    <3>3. Position(places[j].ty) \in BOOLEAN /\ (~unjudged => ~Position(places[j].ty))
      OBVIOUS
    <3>4. says[i] = HeldStatementsBelow(held[i].ty, held[i].held, "report")
      OBVIOUS
    <3> HIDE DEF reads, places, held, says, Position
    <3>5. Sound(held[i].ty, held[i].held, says[i], ~Position(places[j].ty))
      BY <2>2, <2>3, <3>1, <3>2, <3>3, <3>4 DEF KotlinIsSound
    <3> QED BY <3>3, <3>5 DEF Sound
  <2>4. DOMAIN reads = 1..n
    BY <2>2
  <2> HIDE DEF reads
  <2>5. Sound(ty, read.value, FlattenSeq([i \in DOMAIN held |-> Under(held[i].at, says[i])]), ~unjudged)
    <3> HIDE DEF says
    <3> QED BY <1>5, <2>1, <2>2, <2>3, <2>4, WrapperIsSound
  <2>6. HeldStatements(ty, read.value, "report") = FlattenSeq([i \in DOMAIN held |-> Under(held[i].at, says[i])])
    <3> DEFINE all == [i \in DOMAIN held |-> Under(held[i].at, HeldStatementsBelow(held[i].ty, held[i].held, "report"))]
    <3>1. HeldStatements(ty, read.value, "report") = FlattenSeq(all)
      BY <1>5 DEF HeldStatements, Wrappers
    <3>2. all = [i \in DOMAIN held |-> Under(held[i].at, says[i])]
      OBVIOUS
    <3> QED BY <3>1, <3>2
  <2> HIDE DEF read, held, says
  <2> QED BY <2>1, <2>5, <2>6
<1> QED BY <1>1, <1>2, <1>3, <1>4, <1>5

(* Every read in Kotlin is sound, of a type however deep, by induction on the depth.              *)
LEMMA KotlinIsSoundOfAll ==
  ASSUME NEW Json, AreJson(Json), BrokenInIsItself, KotlinIsItself
  PROVE  \A ty \in Types : KotlinIsSound(Json, ty)
<1> DEFINE S == {ty \in Types : KotlinIsSound(Json, ty)}
<1>1. \A ty \in Types : (\A of \in Types : Depth[of] < Depth[ty] => of \in S) => ty \in S
  BY KotlinTypeIsSound
<1>2. S \subseteq Types
  OBVIOUS
<1> HIDE DEF S
<1>3. S = Types
  BY <1>1, <1>2, TypesNest
<1> QED BY <1>3 DEF S

----------------------------------------------------------------------------

(* What any of the four reads accept of a declared type breaks no rule anywhere in it: of any        *)
(* declared models, however deep they nest, of any payload, where each recursive definition calls    *)
(* itself of the types below.                                                                     *)
THEOREM AcceptedIsJudged ==
  ASSUME NEW Json, AreJson(Json), BrokenInIsItself, RustIsItself, DartIsItself, SwiftIsItself, KotlinIsItself
  PROVE  Spec => []AcceptedBreaksNoRule
<1> DEFINE Given == name \in DOMAIN Payloads /\ raw \in Payloads[name]
           IInv == Given /\ AcceptedBreaksNoRule
<1>1. Init => IInv
  BY DEF Init, AcceptedBreaksNoRule
<1>2. ASSUME Given
      PROVE  /\ Deserialized(name, raw).ok => BrokenIn(Ref(name), Deserialized(name, raw).value) = {}
             /\ FromJson(name, raw).ok => BrokenIn(Ref(name), FromJson(name, raw).value) = {}
             /\ SwiftJudged(name, raw).ok => BrokenIn(Ref(name), SwiftJudged(name, raw).value) = {}
             /\ KotlinJudged(name, raw).ok => BrokenIn(Ref(name), KotlinJudged(name, raw).value) = {}
  <2> DEFINE ty == Ref(name)
  <2>1. ty \in Types /\ raw \in Json
    BY <1>2, TypesAreNested DEF AreJson
  <2>2. ty.t = "model" /\ ty.name = name
    BY DEF Ref
  <2> HIDE DEF ty
  <2>3. \A value : BrokenInBelow(ty, value) = BrokenIn(ty, value)
    BY <2>1 DEF BrokenInIsItself
  <2>4. Deserialized(name, raw).ok => BrokenIn(ty, Deserialized(name, raw).value) = {}
    <3>1. ReadAsBelow(ty, raw, "own") = Deserialized(name, raw)
      BY <2>1, <2>2 DEF RustIsItself, ReadAs
    <3>2. RustIsSound(Json, ty)
      BY <2>1, RustIsSoundOfAll
    <3> QED BY <2>1, <2>3, <3>1, <3>2 DEF RustIsSound, Sound
  <2>5. FromJson(name, raw).ok => BrokenIn(ty, FromJson(name, raw).value) = {}
    <3>1. DecodeExprBelow(ty, raw, "judged") = FromJson(name, raw)
      BY <2>1, <2>2 DEF DartIsItself, DecodeExpr
    <3>2. DartIsSound(Json, ty)
      BY <2>1, DartIsSoundOfAll
    <3> QED BY <2>1, <2>3, <3>1, <3>2 DEF DartIsSound, Sound
  <2>6. SwiftJudged(name, raw).ok => BrokenIn(ty, SwiftJudged(name, raw).value) = {}
    <3>1. ReadBelow(ty, raw, FALSE) = SwiftJudged(name, raw)
      BY <2>1, <2>2 DEF SwiftIsItself, Read
    <3>2. SwiftIsSound(Json, ty)
      BY <2>1, SwiftIsSoundOfAll
    <3> QED BY <2>1, <2>3, <3>1, <3>2 DEF SwiftIsSound, Sound
  <2>7. KotlinJudged(name, raw).ok => BrokenIn(ty, KotlinJudged(name, raw).value) = {}
    <3>1. DecodedBelow(ty, raw, FALSE) = KotlinJudged(name, raw)
      BY <2>1, <2>2 DEF KotlinIsItself, Decoded
    <3>2. KotlinIsSound(Json, ty)
      BY <2>1, KotlinIsSoundOfAll
    <3> QED BY <2>1, <2>3, <3>1, <3>2 DEF KotlinIsSound, Sound
  <2> QED BY <2>4, <2>5, <2>6, <2>7 DEF ty
<1>3. IInv /\ [Next]_vars => IInv'
  <2> SUFFICES ASSUME IInv, [Next]_vars PROVE IInv'
    OBVIOUS
  <2>1. CASE ReadByRust
    BY <1>2, <2>1 DEF ReadByRust, Reads, AcceptedBreaksNoRule
  <2>2. CASE ReadByDart
    BY <1>2, <2>2 DEF ReadByDart, Reads, AcceptedBreaksNoRule
  <2>3. CASE ReadBySwift
    BY <1>2, <2>3 DEF ReadBySwift, Reads, AcceptedBreaksNoRule
  <2>4. CASE ReadByKotlin
    BY <1>2, <2>4 DEF ReadByKotlin, Reads, AcceptedBreaksNoRule
  <2>5. CASE UNCHANGED vars
    BY <2>5 DEF vars, AcceptedBreaksNoRule
  <2> QED BY <2>1, <2>2, <2>3, <2>4, <2>5 DEF Next
<1>4. IInv => AcceptedBreaksNoRule
  OBVIOUS
<1> QED BY <1>1, <1>3, <1>4, PTL DEF Spec
=============================================================================
