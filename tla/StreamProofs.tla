---------------------------- MODULE StreamProofs ----------------------------
(***************************************************************************)
(* Theorems about what the client of a stream gets and what is stored of   *)
(* it (Streams), for streams of any length: the chunks are well formed, they *)
(* say what the complete answer would have said, and what is stored is what *)
(* the client got.  They follow from one inductive invariant (StreamInv),  *)
(* made of where the chunks are (Flow), what those made so far say         *)
(* (Content) and what the translators remember (Tracks).                   *)
(***************************************************************************)
EXTENDS ProvidersProofs

-----------------------------------------------------------------------------
(* What a stream says                                                        *)

\* A piece of a tool call.
Pieces == [index : Nat, head : BOOLEAN, args : {"", "part", "whole", "{}"}]

\* Sequences of pieces can be put together in any order.
LEMMA PiecesAssociative ==
  \A s, t, u \in Seq(Pieces) : (s \o t) \o u = s \o (t \o u)
  BY ConcatAssociative

\* A chunk; one without choices says nothing of the answer.
SoundChunk(c) ==
  /\ c.calls \in Seq(Pieces)
  /\ c.choices \/ (c.calls = <<>> /\ c.text # 1 /\ c.finish = "")

Sound(s) == IsSeq(s) /\ \A i \in DOMAIN s : SoundChunk(s[i])

\* A chunk with a finish reason.
Finishes(c) == c.finish # ""

\* st is s and t, one after the other.
Joined(s, t, st) ==
  /\ Len(s) \in Nat /\ Len(t) \in Nat /\ DOMAIN s = 1 .. Len(s) /\ DOMAIN t = 1 .. Len(t)
  /\ IsSeq(st) /\ Len(st) = Len(s) + Len(t) /\ DOMAIN st = 1 .. Len(s) + Len(t)
  /\ st = [i \in 1 .. Len(s) + Len(t) |-> st[i]]
  /\ \A i \in 1 .. Len(s) : st[i] = s[i]
  /\ \A i \in 1 .. Len(t) : Len(s) + i \in 1 .. Len(s) + Len(t) /\ st[Len(s) + i] = t[i]
  /\ \A i \in 1 .. Len(s) + Len(t) : i \in 1 .. Len(s) \/ \E j \in 1 .. Len(t) : i = Len(s) + j

\* The elements of two sequences, one after the other.
LEMMA ConcatIs ==
  ASSUME NEW s, IsSeq(s), NEW t, IsSeq(t)
  PROVE  Joined(s, t, s \o t)
<1> DEFINE U == ToSet(s) \cup ToSet(t)
           st == s \o t
<1>1. s \in Seq(U) /\ t \in Seq(U)
  BY DEF IsSeq
<1>2. /\ Len(s) \in Nat /\ Len(t) \in Nat /\ DOMAIN s = 1 .. Len(s) /\ DOMAIN t = 1 .. Len(t)
      /\ st \in Seq(U) /\ Len(st) = Len(s) + Len(t) /\ DOMAIN st = 1 .. Len(s) + Len(t)
      /\ \A i \in 1 .. Len(s) + Len(t) : st[i] = IF i <= Len(s) THEN s[i] ELSE t[i - Len(s)]
  BY <1>1, ConcatProperties
<1>3. IsSeq(st)
  BY ConcatIsSeq
<1> HIDE DEF st
<1>7. st = [i \in 1 .. Len(s) + Len(t) |-> st[i]]
  BY <1>2
<1>4. \A i \in 1 .. Len(s) : i \in 1 .. Len(s) + Len(t) /\ i <= Len(s)
  BY <1>2
<1>5. ASSUME NEW i \in 1 .. Len(t)
      PROVE  Len(s) + i \in 1 .. Len(s) + Len(t) /\ st[Len(s) + i] = t[i]
  <2>1. Len(s) + i \in 1 .. Len(s) + Len(t) /\ ~(Len(s) + i <= Len(s)) /\ (Len(s) + i) - Len(s) = i
    BY <1>2
  <2> QED
    BY <1>2, <2>1
<1>6. ASSUME NEW i \in 1 .. Len(s) + Len(t), i \notin 1 .. Len(s)
      PROVE  \E j \in 1 .. Len(t) : i = Len(s) + j
  <2>1. i - Len(s) \in 1 .. Len(t) /\ i = Len(s) + (i - Len(s))
    BY <1>2, <1>6
  <2> QED
    BY <2>1
<1> QED
  BY <1>2, <1>3, <1>4, <1>5, <1>6, <1>7 DEF Joined, st

\* A place is the one with its number.
LEMMA PlaceIs ==
  ASSUME NEW n \in Nat, NEW I \in SUBSET (1 .. n), NEW i \in I, NEW k,
         Cardinality({j \in I : j <= i}) = k
  PROVE  Place(I, k) = i /\ k \in 1 .. Cardinality(I)
<1> DEFINE Upto(m) == {j \in I : j <= m}
<1>1. ASSUME NEW m PROVE IsFiniteSet(Upto(m)) /\ Cardinality(Upto(m)) \in Nat /\ Cardinality(Upto(m)) <= Cardinality(I)
  <2>1. IsFiniteSet(I) /\ Upto(m) \subseteq I
    BY PlacesCounted
  <2> QED
    BY <2>1, FS_Subset, FS_CardinalityType
<1>2. k \in 1 .. Cardinality(I)
  <2>1. i \in Upto(i)
    OBVIOUS
  <2>2. Cardinality(Upto(i)) # 0
    BY <1>1, <2>1, FS_EmptySet
  <2>3. Cardinality(I) \in Nat
    BY PlacesCounted
  <2> QED
    BY <1>1, <2>2, <2>3
<1> DEFINE p == Place(I, k)
<1>3. p \in I /\ Cardinality(Upto(p)) = k
  BY <1>2, PlaceOf
<1> HIDE DEF p
<1>4. ASSUME NEW a \in I, NEW b \in I, a < b PROVE Cardinality(Upto(a)) # Cardinality(Upto(b))
  <2>1. b \in Upto(b) /\ b \notin Upto(a)
    BY <1>4
  <2>2. \A j \in I : j <= a => j <= b
    BY <1>4
  <2>3. Upto(a) \subseteq Upto(b)
    BY <2>2
  <2> HIDE DEF Upto
  <2>4. Upto(a) # Upto(b)
    BY <2>1
  <2> QED
    BY <1>1, <2>3, <2>4, FS_Subset
<1>5. Cardinality(Upto(i)) = k
  OBVIOUS
<1> HIDE DEF Upto
<1>6. p \in Int /\ i \in Int
  BY <1>3
<1>7. ~(p < i) /\ ~(i < p)
  BY <1>3, <1>4, <1>5
<1>8. p = i
  BY <1>6, <1>7
<1> QED
  BY <1>2, <1>8 DEF p

\* Of places beside each other, the first ones come first.
LEMMA PlacesBeside ==
  ASSUME NEW m \in Nat, NEW n \in Nat, NEW A, NEW B, NEW C, Beside(m, n, A, B, C)
  PROVE  /\ Cardinality(A) \in Nat /\ Cardinality(B) \in Nat
         /\ Cardinality(C) = Cardinality(A) + Cardinality(B)
         /\ \A k \in 1 .. Cardinality(A) : Place(A, k) \in A /\ Place(C, k) = Place(A, k)
         /\ \A k \in 1 .. Cardinality(B) :
              Place(B, k) \in B /\ Place(C, Cardinality(A) + k) = m + Place(B, k)
<1>1. A \in SUBSET (1 .. m) /\ B \in SUBSET (1 .. n) /\ C \in SUBSET (1 .. m + n) /\ m + n \in Nat
  BY DEF Beside
<1>2. /\ Cardinality(A) \in Nat /\ Cardinality(B) \in Nat
      /\ Cardinality(C) = Cardinality(A) + Cardinality(B)
  <2>1. Cardinality(A) \in Nat /\ Cardinality(B) \in Nat
    BY <1>1, PlacesCounted
  <2>2. Cardinality(C) = Cardinality(A) + Cardinality(B)
    BY SideBySide
  <2> QED
    BY <2>1, <2>2
<1>3. ASSUME NEW k \in 1 .. Cardinality(A)
      PROVE  Place(A, k) \in A /\ Place(C, k) = Place(A, k)
  <2> DEFINE p == Place(A, k)
  <2>1. p \in A /\ Cardinality({j \in A : j <= p}) = k
    BY <1>1, PlaceOf
  <2> HIDE DEF p
  <2>2. {j \in C : j <= p} = {j \in A : j <= p}
    <3>1. ASSUME NEW j \in C, j <= p PROVE j \in A
      <4>1. j \in 1 .. m
        BY <1>1, <2>1, <3>1
      <4> QED
        BY <4>1 DEF Beside
    <3>2. ASSUME NEW j \in A PROVE j \in C
      BY DEF Beside
    <3> QED
      BY <3>1, <3>2
  <2>3. p \in C
    BY <2>1 DEF Beside
  <2>4. Place(C, k) = p
    <3>1. Cardinality({j \in C : j <= p}) = k
      BY <2>1, <2>2
    <3> DEFINE N == m + n
    <3>2. N \in Nat /\ C \in SUBSET (1 .. N)
      BY <1>1
    <3> HIDE DEF N
    <3> QED
      BY <2>3, <3>1, <3>2, PlaceIs
  <2> QED
    BY <2>1, <2>4 DEF p
<1>4. ASSUME NEW k \in 1 .. Cardinality(B)
      PROVE  Place(B, k) \in B /\ Place(C, Cardinality(A) + k) = m + Place(B, k)
  <2> DEFINE p == Place(B, k)
             D == {j \in C : j <= m + p}
             E == {j \in B : j <= p}
  <2>1. p \in B /\ Cardinality(E) = k /\ p \in 1 .. n
    BY <1>1, PlaceOf
  <2> HIDE DEF p
  <2>2. Beside(m, n, A, E, D)
    <3>1. \A i \in 1 .. m : i \in D <=> i \in A
      BY <2>1 DEF Beside
    <3>2. \A i \in 1 .. n : m + i <= m + p <=> i <= p
      BY <2>1
    <3>3. \A i \in 1 .. n : m + i \in D <=> i \in E
      BY <3>2 DEF Beside
    <3> QED
      BY <1>1, <3>1, <3>3 DEF Beside
  <2> HIDE DEF D, E
  <2>3. Cardinality(D) = Cardinality(A) + k
    BY <2>1, <2>2, SideBySide
  <2>4. m + p \in C
    BY <2>1 DEF Beside
  <2>5. Place(C, Cardinality(A) + k) = m + p
    <3> DEFINE N == m + n
               K == Cardinality(A) + k
               q == m + p
    <3>1. Cardinality({j \in C : j <= q}) = K /\ q \in C
      BY <2>3, <2>4 DEF D
    <3>2. N \in Nat /\ C \in SUBSET (1 .. N)
      BY <1>1
    <3> HIDE DEF N, K, q
    <3>3. Place(C, K) = q
      BY <3>1, <3>2, PlaceIs
    <3> QED
      BY <3>3 DEF K, q
  <2> QED
    BY <2>1, <2>5 DEF p
<1> QED
  BY <1>2, <1>3, <1>4

\* The places of both of two sequences that are of a kind.
LEMMA KeptConcat ==
  ASSUME NEW s, IsSeq(s), NEW t, IsSeq(t), NEW A, NEW B, NEW C,
         Beside(Len(s), Len(t), A, B, C)
  PROVE  /\ IsSeq(Kept(s, A)) /\ IsSeq(Kept(t, B))
         /\ Kept(s \o t, C) = Kept(s, A) \o Kept(t, B)
<1> DEFINE st == s \o t
           a == Cardinality(A)
           b == Cardinality(B)
           x == Kept(s, A)
           y == Kept(t, B)
           z == Kept(st, C)
<1>1. /\ Len(s) \in Nat /\ Len(t) \in Nat
      /\ \A i \in 1 .. Len(s) : st[i] = s[i]
      /\ \A i \in 1 .. Len(t) : st[Len(s) + i] = t[i]
  BY ConcatIs DEF Joined
<1> HIDE DEF st
<1>2. /\ a \in Nat /\ b \in Nat /\ Cardinality(C) = a + b
      /\ \A k \in 1 .. a : Place(A, k) \in A /\ Place(C, k) = Place(A, k)
      /\ \A k \in 1 .. b : Place(B, k) \in B /\ Place(C, a + k) = Len(s) + Place(B, k)
  BY <1>1, PlacesBeside
<1>3. A \in SUBSET (1 .. Len(s)) /\ B \in SUBSET (1 .. Len(t))
  BY DEF Beside
<1>4. /\ x = [k \in 1 .. a |-> s[Place(A, k)]] /\ y = [k \in 1 .. b |-> t[Place(B, k)]]
      /\ z = [k \in 1 .. a + b |-> st[Place(C, k)]]
  BY <1>2 DEF Kept
<1> HIDE DEF a, b, x, y, z
<1>5. IsSeq(x) /\ IsSeq(y)
  <2>1. x = [k \in 1 .. a |-> x[k]] /\ y = [k \in 1 .. b |-> y[k]]
    BY <1>4
  <2> QED
    BY <1>2, <2>1, MappedIsSeq
<1>6. Len(x) = a /\ Len(y) = b
  BY <1>2, <1>4
<1> DEFINE xy == x \o y
<1>11. Joined(x, y, xy)
  BY <1>5, ConcatIs
<1> HIDE DEF xy
<1>7. /\ xy = [k \in 1 .. a + b |-> xy[k]]
      /\ \A k \in 1 .. a : xy[k] = x[k]
      /\ \A k \in 1 .. b : xy[a + k] = y[k]
      /\ \A k \in 1 .. a + b : k \in 1 .. a \/ \E j \in 1 .. b : k = a + j
  BY <1>6, <1>11 DEF Joined
<1>9. ASSUME NEW k \in 1 .. a + b PROVE xy[k] = z[k]
  <2>1. CASE k \in 1 .. a
    <3>1. /\ xy[k] = s[Place(A, k)] /\ Place(A, k) \in 1 .. Len(s)
          /\ z[k] = st[Place(A, k)]
      BY <1>2, <1>3, <1>4, <1>7, <2>1
    <3> QED
      BY <1>1, <3>1
  <2>2. CASE \E j \in 1 .. b : k = a + j
    <3>1. PICK j \in 1 .. b : k = a + j
      BY <2>2
    <3>2. xy[k] = t[Place(B, j)] /\ Place(B, j) \in 1 .. Len(t)
      BY <1>2, <1>3, <1>4, <1>7, <3>1
    <3>3. z[k] = st[Len(s) + Place(B, j)]
      BY <1>2, <1>4, <3>1
    <3> QED
      BY <1>1, <3>2, <3>3
  <2> QED
    BY <1>7, <2>1, <2>2
<1>10. xy = z
  BY <1>4, <1>7, <1>9
<1> QED
  BY <1>5, <1>10 DEF x, y, z, xy, st

\* The places of two sequences that have a property lie beside each other.
LEMMA PlacesOfConcat ==
  ASSUME NEW s, IsSeq(s), NEW t, IsSeq(t), NEW A, NEW B, NEW C,
         A \in SUBSET (DOMAIN s), B \in SUBSET (DOMAIN t), C \in SUBSET (DOMAIN (s \o t)),
         \A i \in DOMAIN s : i \in C <=> i \in A,
         \A i \in DOMAIN t : Len(s) + i \in C <=> i \in B
  PROVE  Beside(Len(s), Len(t), A, B, C)
BY ConcatIs DEF Beside, Joined

\* What is kept of two sequences is what is kept of the one and of the other.
LEMMA OnlyConcat ==
  ASSUME NEW kinds, NEW s, IsSeq(s), NEW t, IsSeq(t)
  PROVE  /\ IsSeq(Only(s, kinds)) /\ IsSeq(Only(t, kinds))
         /\ Only(s \o t, kinds) = Only(s, kinds) \o Only(t, kinds)
<1> DEFINE st == s \o t
           A == {i \in DOMAIN s : s[i] \in kinds}
           B == {i \in DOMAIN t : t[i] \in kinds}
           C == {i \in DOMAIN st : st[i] \in kinds}
<1>1. /\ DOMAIN s = 1 .. Len(s) /\ DOMAIN t = 1 .. Len(t)
      /\ \A i \in 1 .. Len(s) : i \in DOMAIN st /\ st[i] = s[i]
      /\ \A i \in 1 .. Len(t) : Len(s) + i \in DOMAIN st /\ st[Len(s) + i] = t[i]
  <2>1. Joined(s, t, st)
    BY ConcatIs
  <2> HIDE DEF A, B, C, st
  <2>2. /\ DOMAIN s = 1 .. Len(s) /\ DOMAIN t = 1 .. Len(t) /\ Len(s) \in Nat /\ Len(t) \in Nat
        /\ DOMAIN st = 1 .. Len(s) + Len(t) /\ \A i \in 1 .. Len(s) : st[i] = s[i]
        /\ \A i \in 1 .. Len(t) : Len(s) + i \in 1 .. Len(s) + Len(t) /\ st[Len(s) + i] = t[i]
    BY <2>1 DEF Joined
  <2>3. \A i \in 1 .. Len(s) : i \in 1 .. Len(s) + Len(t)
    BY <2>2
  <2> QED
    BY <2>2, <2>3
<1>2. /\ \A i \in DOMAIN s : i \in C <=> i \in A
      /\ \A i \in DOMAIN t : Len(s) + i \in C <=> i \in B
  BY <1>1
<1>3. A \in SUBSET (DOMAIN s) /\ B \in SUBSET (DOMAIN t) /\ C \in SUBSET (DOMAIN st)
  OBVIOUS
<1> HIDE DEF A, B, C
<1>4. Beside(Len(s), Len(t), A, B, C)
  BY <1>2, <1>3, PlacesOfConcat
<1>5. /\ IsSeq(Kept(s, A)) /\ IsSeq(Kept(t, B))
      /\ Kept(st, C) = Kept(s, A) \o Kept(t, B)
  BY <1>4, KeptConcat
<1> QED
  BY <1>5 DEF Only, A, B, C

\* So it is with what passes the redaction.
LEMMA RedactedConcat ==
  ASSUME NEW s, IsSeq(s), NEW t, IsSeq(t)
  PROVE  redacted(s \o t) = redacted(s) \o redacted(t)
<1> DEFINE st == s \o t
           A == {i \in DOMAIN s : s[i].choices \/ s[i].done}
           B == {i \in DOMAIN t : t[i].choices \/ t[i].done}
           C == {i \in DOMAIN st : st[i].choices \/ st[i].done}
<1>1. /\ DOMAIN s = 1 .. Len(s) /\ DOMAIN t = 1 .. Len(t)
      /\ \A i \in 1 .. Len(s) : i \in DOMAIN st /\ st[i] = s[i]
      /\ \A i \in 1 .. Len(t) : Len(s) + i \in DOMAIN st /\ st[Len(s) + i] = t[i]
  <2>1. Joined(s, t, st)
    BY ConcatIs
  <2> HIDE DEF A, B, C, st
  <2>2. /\ DOMAIN s = 1 .. Len(s) /\ DOMAIN t = 1 .. Len(t) /\ Len(s) \in Nat /\ Len(t) \in Nat
        /\ DOMAIN st = 1 .. Len(s) + Len(t) /\ \A i \in 1 .. Len(s) : st[i] = s[i]
        /\ \A i \in 1 .. Len(t) : Len(s) + i \in 1 .. Len(s) + Len(t) /\ st[Len(s) + i] = t[i]
    BY <2>1 DEF Joined
  <2>3. \A i \in 1 .. Len(s) : i \in 1 .. Len(s) + Len(t)
    BY <2>2
  <2> QED
    BY <2>2, <2>3
<1>2. /\ \A i \in DOMAIN s : i \in C <=> i \in A
      /\ \A i \in DOMAIN t : Len(s) + i \in C <=> i \in B
  BY <1>1
<1>3. A \in SUBSET (DOMAIN s) /\ B \in SUBSET (DOMAIN t) /\ C \in SUBSET (DOMAIN st)
  OBVIOUS
<1>4. /\ redacted(s) = [i \in DOMAIN Kept(s, A) |-> redactChatCompletionChunk(Kept(s, A)[i])]
      /\ redacted(t) = [i \in DOMAIN Kept(t, B) |-> redactChatCompletionChunk(Kept(t, B)[i])]
      /\ redacted(st) = [i \in DOMAIN Kept(st, C) |-> redactChatCompletionChunk(Kept(st, C)[i])]
  BY DEF redacted
<1> HIDE DEF A, B, C
<1>5. Beside(Len(s), Len(t), A, B, C)
  BY <1>2, <1>3, PlacesOfConcat
<1> DEFINE x == Kept(s, A)
           y == Kept(t, B)
           z == Kept(st, C)
           rx == redacted(s)
           ry == redacted(t)
           rz == redacted(st)
<1>6. IsSeq(x) /\ IsSeq(y) /\ z = x \o y
  BY <1>5, KeptConcat
<1>7. /\ rx = [i \in DOMAIN x |-> redactChatCompletionChunk(x[i])]
      /\ ry = [i \in DOMAIN y |-> redactChatCompletionChunk(y[i])]
      /\ rz = [i \in DOMAIN z |-> redactChatCompletionChunk(z[i])]
  BY <1>4
<1> HIDE DEF x, y, z, rx, ry, rz, st
<1>16. Joined(x, y, z)
  BY <1>6, ConcatIs
<1>8. /\ Len(x) \in Nat /\ Len(y) \in Nat /\ DOMAIN x = 1 .. Len(x) /\ DOMAIN y = 1 .. Len(y)
      /\ DOMAIN z = 1 .. Len(x) + Len(y)
      /\ \A i \in 1 .. Len(x) : z[i] = x[i]
      /\ \A i \in 1 .. Len(y) : z[Len(x) + i] = y[i]
      /\ \A i \in 1 .. Len(x) + Len(y) : i \in 1 .. Len(x) \/ \E j \in 1 .. Len(y) : i = Len(x) + j
  BY <1>16 DEF Joined
<1>9. IsSeq(rx) /\ IsSeq(ry) /\ Len(rx) = Len(x) /\ Len(ry) = Len(y)
  <2>1. rx = [i \in 1 .. Len(x) |-> rx[i]] /\ ry = [i \in 1 .. Len(y) |-> ry[i]]
    BY <1>7, <1>8
  <2>2. IsSeq(rx) /\ IsSeq(ry)
    BY <1>8, <2>1, MappedIsSeq
  <2> QED
    BY <1>8, <2>1, <2>2
<1> DEFINE rxy == rx \o ry
<1>14. Joined(rx, ry, rxy)
  BY <1>9, ConcatIs
<1> HIDE DEF rxy
<1>10. /\ rxy = [i \in 1 .. Len(x) + Len(y) |-> rxy[i]]
       /\ \A i \in 1 .. Len(x) : rxy[i] = rx[i]
       /\ \A i \in 1 .. Len(y) : rxy[Len(x) + i] = ry[i]
  BY <1>9, <1>14 DEF Joined
<1>12. ASSUME NEW i \in 1 .. Len(x) + Len(y) PROVE rxy[i] = rz[i]
  <2>1. CASE i \in 1 .. Len(x)
    BY <1>7, <1>8, <1>10, <2>1
  <2>2. CASE \E j \in 1 .. Len(y) : i = Len(x) + j
    <3>1. PICK j \in 1 .. Len(y) : i = Len(x) + j
      BY <2>2
    <3> QED
      BY <1>7, <1>8, <1>10, <3>1
  <2> QED
    BY <1>8, <2>1, <2>2
<1>13. rxy = rz
  <2>1. rz = [i \in 1 .. Len(x) + Len(y) |-> rz[i]]
    BY <1>7, <1>8
  <2> QED
    BY <1>10, <1>12, <2>1
<1> QED
  BY <1>13 DEF rxy, rx, ry, rz, st

\* What a sequence is.
LEMMA SeqIs ==
  ASSUME NEW s, IsSeq(s)
  PROVE  Len(s) \in Nat /\ DOMAIN s = 1 .. Len(s) /\ s = [i \in 1 .. Len(s) |-> s[i]]
BY DEF IsSeq

\* One element is a sequence.
LEMMA SingleIs ==
  ASSUME NEW c
  PROVE  DOMAIN <<c>> = {1} /\ <<c>>[1] = c /\ Len(<<c>>) = 1 /\ IsSeq(<<c>>)
BY DEF IsSeq, ToSet

\* The greatest of some places.
LEMMA MaxIs ==
  ASSUME NEW n \in Nat, NEW S \in SUBSET (1 .. n), S # {}
  PROVE  /\ Max(S) \in S /\ \A j \in S : j <= Max(S)
         /\ \A i \in S : (\A j \in S : j <= i) => Max(S) = i
<1> DEFINE Back == {n - i : i \in S}
<1>1. Back \subseteq Nat /\ Back # {}
  <2>1. \A i \in S : n - i \in Nat
    OBVIOUS
  <2> QED
    BY <2>1
<1>2. PICK m \in Back : \A k \in Back : m <= k
  <2> HIDE DEF Back
  <2> QED
    BY <1>1, LeastNatural
<1>3. PICK i \in S : m = n - i
  OBVIOUS
<1>4. \A j \in S : i >= j
  <2>1. ASSUME NEW j \in S PROVE i >= j
    <3>1. n - j \in Back
      OBVIOUS
    <3> HIDE DEF Back
    <3>2. n - i <= n - j /\ i \in Int /\ j \in Int
      BY <1>2, <1>3, <3>1
    <3> QED
      BY <3>2
  <2> QED
    BY <2>1
<1>5. Max(S) \in S /\ \A j \in S : Max(S) >= j
  BY <1>4 DEF Max
<1> DEFINE top == Max(S)
<1>8. top \in S /\ \A j \in S : top >= j
  BY <1>5
<1> HIDE DEF top
<1>6. top \in S /\ top \in Int /\ \A j \in S : j <= top
  <2>1. top \in Int /\ \A j \in S : j \in Int
    BY <1>8
  <2> QED
    BY <1>8, <2>1
<1>7. \A k \in S : (\A j \in S : j <= k) => top = k
  BY <1>6
<1> QED
  BY <1>6, <1>7 DEF top

\* The finish reason that chunks end with is that of the last that has one.
LEMMA FinishConcat ==
  ASSUME NEW s, IsSeq(s), NEW t, IsSeq(t)
  PROVE  FinishOf(s \o t) = IF FinishOf(t) = "" THEN FinishOf(s) ELSE FinishOf(t)
<1> DEFINE st == s \o t
           A == {i \in DOMAIN s : Finishes(s[i])}
           B == {i \in DOMAIN t : Finishes(t[i])}
           C == {i \in DOMAIN st : Finishes(st[i])}
           m == Len(s)
           n == Len(t)
<1>1. Joined(s, t, st)
  BY ConcatIs
<1> HIDE DEF st
<1>2. /\ m \in Nat /\ n \in Nat /\ DOMAIN s = 1 .. m /\ DOMAIN t = 1 .. n /\ DOMAIN st = 1 .. m + n
      /\ \A i \in 1 .. m : st[i] = s[i]
      /\ \A i \in 1 .. n : m + i \in 1 .. m + n /\ st[m + i] = t[i]
      /\ \A i \in 1 .. m + n : i \in 1 .. m \/ \E j \in 1 .. n : i = m + j
  BY <1>1 DEF Joined
<1>3. /\ FinishOf(s) = IF A = {} THEN "" ELSE s[Max(A)].finish
      /\ FinishOf(t) = IF B = {} THEN "" ELSE t[Max(B)].finish
      /\ FinishOf(st) = IF C = {} THEN "" ELSE st[Max(C)].finish
  BY DEF FinishOf, Finishes
<1> HIDE DEF m, n
<1>9. /\ \A i : i \in A <=> i \in 1 .. m /\ Finishes(s[i])
      /\ \A i : i \in B <=> i \in 1 .. n /\ Finishes(t[i])
      /\ \A i : i \in C <=> i \in 1 .. m + n /\ Finishes(st[i])
  BY <1>2
<1> HIDE DEF A, B, C
<1>4. /\ A \in SUBSET (1 .. m) /\ B \in SUBSET (1 .. n) /\ C \in SUBSET (1 .. m + n)
      /\ m + n \in Nat
      /\ \A i \in B : Finishes(t[i])
  BY <1>2, <1>9
<1>5. /\ \A i \in A : i \in C
      /\ \A j \in B : m + j \in C
      /\ \A i \in C : i \in A \/ \E j \in B : i = m + j
  <2>1. ASSUME NEW i \in A PROVE i \in C
    <3>1. i \in 1 .. m /\ i \in 1 .. m + n
      BY <1>2, <1>9
    <3> QED
      BY <1>2, <1>9, <3>1
  <2>2. ASSUME NEW j \in B PROVE m + j \in C
    BY <1>2, <1>9
  <2>3. ASSUME NEW i \in C PROVE i \in A \/ \E j \in B : i = m + j
    <3>1. CASE i \in 1 .. m
      BY <1>2, <1>9, <3>1
    <3>2. CASE \E j \in 1 .. n : i = m + j
      BY <1>2, <1>9, <3>2
    <3> QED
      BY <1>2, <1>9, <3>1, <3>2
  <2> QED
    BY <2>1, <2>2, <2>3
<1>6. CASE B = {}
  <2>1. FinishOf(t) = ""
    BY <1>3, <1>6
  <2>2. C = A
    BY <1>5, <1>6
  <2>3. A # {} => st[Max(A)] = s[Max(A)]
    <3>1. A # {} => Max(A) \in 1 .. m
      BY <1>2, <1>4, MaxIs
    <3> QED
      BY <1>2, <3>1
  <2>4. FinishOf(st) = FinishOf(s)
    <3>1. CASE A = {}
      BY <1>3, <2>2, <3>1
    <3>2. CASE A # {}
      BY <1>3, <2>2, <2>3, <3>2
    <3> QED
      BY <3>1, <3>2
  <2> QED
    BY <2>1, <2>4 DEF st
<1>7. CASE B # {}
  <2> DEFINE b == Max(B)
  <2>1. b \in B /\ \A j \in B : j <= b
    BY <1>2, <1>4, <1>7, MaxIs
  <2> HIDE DEF b
  <2>2. m + b \in C /\ b \in 1 .. n
    BY <1>4, <1>5, <2>1
  <2>3. \A i \in C : i <= m + b
    <3>1. ASSUME NEW i \in A PROVE i <= m + b
      <4>1. i \in 1 .. m
        BY <1>4
      <4> QED
        BY <1>2, <2>2, <4>1
    <3>2. ASSUME NEW j \in B PROVE m + j <= m + b
      <4>1. j \in 1 .. n /\ j <= b
        BY <1>4, <2>1
      <4> QED
        BY <1>2, <2>2, <4>1
    <3> QED
      BY <1>5, <3>1, <3>2
  <2>4. Max(C) = m + b
    BY <1>4, <2>2, <2>3, MaxIs
  <2>5. C # {} /\ st[m + b] = t[b] /\ t[b].finish # ""
    BY <1>2, <1>4, <2>1, <2>2 DEF Finishes
  <2>6. FinishOf(st) = t[b].finish
    BY <1>3, <2>4, <2>5
  <2>7. FinishOf(t) = t[b].finish
    BY <1>3, <1>7 DEF b
  <2> QED
    BY <2>5, <2>6, <2>7 DEF st
<1> QED
  BY <1>6, <1>7 DEF st

\* The pieces of tool calls in chunks, as sequences of sequences.
LEMMA CallsAreSeqs ==
  ASSUME NEW s, Sound(s)
  PROVE  [i \in DOMAIN s |-> s[i].calls] \in Seq(Seq(Pieces))
<1> DEFINE cs == [i \in DOMAIN s |-> s[i].calls]
<1>1. Len(s) \in Nat /\ DOMAIN s = 1 .. Len(s)
  BY SeqIs DEF Sound
<1>2. \A i \in 1 .. Len(s) : s[i].calls \in Seq(Pieces)
  BY <1>1 DEF Sound, SoundChunk
<1>3. cs \in [1 .. Len(s) -> Seq(Pieces)]
  BY <1>1, <1>2
<1> QED
  BY <1>1, <1>3

\* What chunks say, one after the other, adds up.
LEMMA SaysConcat ==
  ASSUME NEW s, Sound(s), NEW t, Sound(t)
  PROVE  /\ Sound(s \o t)
         /\ Deltas(s) \in Seq(Pieces) /\ Deltas(t) \in Seq(Pieces)
         /\ Deltas(s \o t) = Deltas(s) \o Deltas(t)
         /\ Texts(s \o t) = Texts(s) + Texts(t) /\ Texts(s) \in Nat /\ Texts(t) \in Nat
         /\ FinishOf(s \o t) = IF FinishOf(t) = "" THEN FinishOf(s) ELSE FinishOf(t)
<1> DEFINE st == s \o t
           cs == [i \in DOMAIN s |-> s[i].calls]
           ct == [i \in DOMAIN t |-> t[i].calls]
           cst == [i \in DOMAIN st |-> st[i].calls]
<1>1. IsSeq(s) /\ IsSeq(t)
  BY DEF Sound
<1>2. Joined(s, t, st)
  BY <1>1, ConcatIs
<1>3. FinishOf(st) = IF FinishOf(t) = "" THEN FinishOf(s) ELSE FinishOf(t)
  BY <1>1, FinishConcat
<1>4. Texts(st) = Texts(s) + Texts(t) /\ Texts(s) \in Nat /\ Texts(t) \in Nat
  BY <1>1, TextsAdd
<1>5. cs \in Seq(Seq(Pieces)) /\ ct \in Seq(Seq(Pieces))
  BY CallsAreSeqs
<1>6. Deltas(s) = FlattenSeq(cs) /\ Deltas(t) = FlattenSeq(ct) /\ Deltas(st) = FlattenSeq(cst)
  BY DEF Deltas
<1> HIDE DEF st
<1>7. Sound(st)
  <2>1. ASSUME NEW i \in 1 .. Len(s) + Len(t)
        PROVE  \/ i \in DOMAIN s /\ st[i] = s[i]
               \/ \E j \in DOMAIN t : st[i] = t[j]
    BY <1>2 DEF Joined
  <2>2. IsSeq(st) /\ DOMAIN st = 1 .. Len(s) + Len(t)
    BY <1>2 DEF Joined
  <2>3. ASSUME NEW i \in DOMAIN st PROVE SoundChunk(st[i])
    BY <2>1, <2>2 DEF Sound
  <2> QED
    BY <2>2, <2>3 DEF Sound
<1> DEFINE m == Len(s)
           n == Len(t)
           c == cs \o ct
<1>8. /\ m \in Nat /\ n \in Nat /\ DOMAIN s = 1 .. m /\ DOMAIN t = 1 .. n /\ DOMAIN st = 1 .. m + n
      /\ \A i \in 1 .. m : st[i] = s[i]
      /\ \A i \in 1 .. n : m + i \in 1 .. m + n /\ st[m + i] = t[i]
      /\ \A i \in 1 .. m + n : i \in 1 .. m \/ \E j \in 1 .. n : i = m + j
  BY <1>2 DEF Joined
<1>9. /\ \A i \in 1 .. m : cs[i] = s[i].calls
      /\ \A i \in 1 .. n : ct[i] = t[i].calls
      /\ cst = [i \in 1 .. m + n |-> st[i].calls]
      /\ Len(cs) = m /\ Len(ct) = n
  BY <1>8
<1> HIDE DEF cs, ct, cst, m, n
<1>10. Joined(cs, ct, c)
  <2>1. IsSeq(cs) /\ IsSeq(ct)
    <3>1. /\ cs = [i \in 1 .. Len(cs) |-> cs[i]] /\ Len(cs) \in Nat
          /\ ct = [i \in 1 .. Len(ct) |-> ct[i]] /\ Len(ct) \in Nat
      BY <1>5
    <3> QED
      BY <3>1, MappedIsSeq
  <2> QED
    BY <2>1, ConcatIs
<1> HIDE DEF c
<1>11. cst = c
  <2>1. /\ c = [i \in 1 .. m + n |-> c[i]]
        /\ \A i \in 1 .. m : c[i] = cs[i]
        /\ \A i \in 1 .. n : c[m + i] = ct[i]
    BY <1>9, <1>10 DEF Joined
  <2>2. ASSUME NEW i \in 1 .. m + n PROVE c[i] = st[i].calls
    <3>1. CASE i \in 1 .. m
      BY <1>8, <1>9, <2>1, <3>1
    <3>2. CASE \E j \in 1 .. n : i = m + j
      <4>1. PICK j \in 1 .. n : i = m + j
        BY <3>2
      <4>2. c[m + j] = ct[j] /\ ct[j] = t[j].calls /\ st[m + j] = t[j]
        BY <1>8, <1>9, <2>1
      <4> QED
        BY <4>1, <4>2
    <3> QED
      BY <1>8, <3>1, <3>2
  <2> QED
    BY <1>9, <2>1, <2>2
<1>12. FlattenSeq(c) = FlattenSeq(cs) \o FlattenSeq(ct)
  BY <1>5, FlattenConcat DEF c
<1>13. FlattenSeq(cs) \in Seq(Pieces) /\ FlattenSeq(ct) \in Seq(Pieces)
  BY <1>5, FlattenConcat
<1> QED
  BY <1>3, <1>4, <1>6, <1>7, <1>11, <1>12, <1>13 DEF st

\* What no chunk and what a single chunk says.
LEMMA SaysOne ==
  ASSUME NEW c, SoundChunk(c)
  PROVE  /\ Sound(<<c>>) /\ Deltas(<<c>>) = c.calls /\ FinishOf(<<c>>) = c.finish
         /\ Texts(<<c>>) = IF c.text = 1 THEN 1 ELSE 0
<1> DEFINE s == <<c>>
           F == {i \in DOMAIN s : s[i].finish # ""}
           T == {i \in DOMAIN s : s[i].text = 1}
           cs == [i \in DOMAIN s |-> s[i].calls]
<1>1. DOMAIN s = {1} /\ s[1] = c /\ IsSeq(s)
  BY SingleIs
<1> HIDE DEF s
<1>2. Sound(s)
  BY <1>1 DEF Sound
<1>3. Deltas(s) = c.calls
  <2>1. cs = <<c.calls>>
    <3>1. cs = [i \in {1} |-> c.calls]
      BY <1>1
    <3>2. <<c.calls>> = [i \in {1} |-> c.calls]
      <4> DEFINE d == <<c.calls>>
      <4>1. DOMAIN d = {1} /\ d[1] = c.calls /\ d = [i \in DOMAIN d |-> d[i]]
        OBVIOUS
      <4> HIDE DEF d
      <4>2. d = [i \in {1} |-> c.calls]
        BY <4>1
      <4> QED
        BY <4>2 DEF d
    <3> QED
      BY <3>1, <3>2
  <2>2. FlattenSeq(<<c.calls>>) = c.calls
    BY FlattenOne DEF SoundChunk
  <2>3. Deltas(s) = FlattenSeq(cs)
    BY DEF Deltas
  <2> QED
    BY <2>1, <2>2, <2>3
<1>4. FinishOf(s) = c.finish
  <2>1. FinishOf(s) = IF F = {} THEN "" ELSE s[Max(F)].finish
    BY DEF FinishOf
  <2>2. F = IF c.finish = "" THEN {} ELSE {1}
    BY <1>1
  <2>4. 1 \in Nat /\ 1 \in 1 .. 1
    OBVIOUS
  <2> HIDE DEF F
  <2>3. Max({1}) = 1
    <3> DEFINE E == {1}
    <3>1. E \in SUBSET (1 .. 1) /\ E # {}
      BY <2>4
    <3>2. Max(E) \in E
      <4> HIDE DEF E
      <4> QED
        BY <2>4, <3>1, MaxIs
    <3> QED
      BY <3>2
  <2> QED
    BY <1>1, <2>1, <2>2, <2>3
<1>5. Texts(s) = IF c.text = 1 THEN 1 ELSE 0
  <2>1. Texts(s) = Cardinality(T)
    BY DEF Texts
  <2>2. T = IF c.text = 1 THEN {1} ELSE {}
    BY <1>1
  <2> HIDE DEF T
  <2>3. Cardinality({}) = 0 /\ Cardinality({1}) = 1
    BY FS_EmptySet, FS_Singleton
  <2> QED
    BY <2>1, <2>2, <2>3
<1> QED
  BY <1>2, <1>3, <1>4, <1>5 DEF s

\* Before anything is said.
LEMMA SaysNothing ==
  /\ Sound(<<>>) /\ Deltas(<<>>) = <<>> /\ FinishOf(<<>>) = "" /\ Texts(<<>>) = 0
  /\ redacted(<<>>) = <<>>
<1> DEFINE s == <<>>
<1>1. DOMAIN s = {} /\ IsSeq(s)
  BY DEF IsSeq, ToSet
<1>2. Sound(s)
  BY <1>1 DEF Sound
<1>3. Deltas(s) = <<>>
  <2>1. [i \in DOMAIN s |-> s[i].calls] = <<>>
    BY <1>1
  <2>2. FlattenSeq(<<>>) = <<>>
    BY DEF FlattenSeq
  <2> QED
    BY <2>1, <2>2 DEF Deltas
<1>4. FinishOf(s) = ""
  BY <1>1 DEF FinishOf
<1>5. Texts(s) = 0
  <2>1. {i \in DOMAIN s : s[i].text = 1} = {}
    BY <1>1
  <2> QED
    BY <2>1, FS_EmptySet DEF Texts
<1>6. redacted(s) = <<>>
  <2> DEFINE I == {i \in DOMAIN s : s[i].choices \/ s[i].done}
             k == Kept(s, I)
  <2>1. I = {} /\ Cardinality({}) = 0
    BY <1>1, FS_EmptySet
  <2> HIDE DEF I
  <2>2. DOMAIN k = 1 .. 0
    BY <2>1 DEF Kept
  <2>3. redacted(s) = [i \in DOMAIN k |-> redactChatCompletionChunk(k[i])]
    BY DEF redacted, I
  <2> HIDE DEF k
  <2> QED
    BY <2>2, <2>3
<1> QED
  BY <1>2, <1>3, <1>4, <1>5, <1>6

\* What of a single chunk passes the redaction.
LEMMA RedactedOne ==
  ASSUME NEW c
  PROVE  redacted(<<c>>) =
           IF c.choices \/ c.done THEN <<redactChatCompletionChunk(c)>> ELSE <<>>
<1> DEFINE s == <<c>>
           I == {i \in DOMAIN s : s[i].choices \/ s[i].done}
           k == Kept(s, I)
<1>1. DOMAIN s = {1} /\ s[1] = c
  OBVIOUS
<1>2. redacted(s) = [i \in DOMAIN k |-> redactChatCompletionChunk(k[i])]
  BY DEF redacted
<1>3. k = [i \in 1 .. Cardinality(I) |-> s[Place(I, i)]]
  BY DEF Kept
<1>4. I = (IF c.choices \/ c.done THEN {1} ELSE {})
  BY <1>1
<1>5. Cardinality({}) = 0 /\ Cardinality({1}) = 1
  BY FS_EmptySet, FS_Singleton
<1> HIDE DEF I, k
<1>6. CASE c.choices \/ c.done
  <2>1. I = {1} /\ Cardinality(I) = 1
    BY <1>4, <1>5, <1>6
  <2>2. Place(I, 1) \in I
    <3>1. I \in SUBSET (1 .. 1) /\ 1 \in 1 .. Cardinality(I) /\ 1 \in Nat
      BY <2>1
    <3> QED
      BY <3>1, PlaceOf
  <2>3. k = [i \in {1} |-> c]
    BY <1>1, <1>3, <2>1, <2>2
  <2> QED
    BY <1>2, <1>6, <2>3
<1>7. CASE ~(c.choices \/ c.done)
  <2>1. DOMAIN k = 1 .. 0
    BY <1>3, <1>4, <1>5, <1>7
  <2> QED
    BY <1>2, <1>7, <2>1
<1> QED
  BY <1>6, <1>7

\* The redaction keeps all that is said: of each chunk ...
LEMMA RedactedSaysOne ==
  ASSUME NEW c, SoundChunk(c)
  PROVE  /\ Sound(redacted(<<c>>)) /\ Deltas(redacted(<<c>>)) = Deltas(<<c>>)
         /\ Texts(redacted(<<c>>)) = Texts(<<c>>) /\ FinishOf(redacted(<<c>>)) = FinishOf(<<c>>)
<1> DEFINE d == redactChatCompletionChunk(c)
<1>1. /\ d.calls = c.calls /\ d.text = c.text /\ d.finish = c.finish /\ d.choices = c.choices
  BY DEF redactChatCompletionChunk
<1>2. redacted(<<c>>) = IF c.choices \/ c.done THEN <<d>> ELSE <<>>
  BY RedactedOne
<1> HIDE DEF d
<1>5. SoundChunk(d)
  BY <1>1 DEF SoundChunk
<1>3. /\ Sound(<<d>>) /\ Deltas(<<d>>) = d.calls /\ FinishOf(<<d>>) = d.finish
      /\ Texts(<<d>>) = IF d.text = 1 THEN 1 ELSE 0
  BY <1>5, SaysOne
<1>4. /\ Deltas(<<c>>) = c.calls /\ FinishOf(<<c>>) = c.finish
      /\ Texts(<<c>>) = IF c.text = 1 THEN 1 ELSE 0
  BY SaysOne
<1>6. CASE c.choices \/ c.done
  BY <1>1, <1>2, <1>3, <1>4, <1>6
<1>7. CASE ~(c.choices \/ c.done)
  <2>1. c.calls = <<>> /\ c.text # 1 /\ c.finish = ""
    BY <1>7 DEF SoundChunk
  <2> QED
    BY <1>2, <1>4, <1>7, <2>1, SaysNothing
<1> QED
  BY <1>6, <1>7

\* ... and of all of them.
LEMMA RedactedSays ==
  ASSUME NEW s, Sound(s)
  PROVE  /\ Sound(redacted(s)) /\ Deltas(redacted(s)) = Deltas(s)
         /\ Texts(redacted(s)) = Texts(s) /\ FinishOf(redacted(s)) = FinishOf(s)
<1> DEFINE Same(p) == /\ Sound(redacted(p)) /\ Deltas(redacted(p)) = Deltas(p)
                      /\ Texts(redacted(p)) = Texts(p) /\ FinishOf(redacted(p)) = FinishOf(p)
           first(k) == [i \in 1 .. k |-> s[i]]
           bad == {k \in 0 .. Len(s) : ~Same(first(k))}
<1>1. Len(s) \in Nat /\ DOMAIN s = 1 .. Len(s) /\ s = [i \in 1 .. Len(s) |-> s[i]]
  BY SeqIs DEF Sound
<1>2. ASSUME NEW k \in 0 .. Len(s) PROVE Sound(first(k))
  <2> DEFINE p == first(k)
  <2>1. p = [i \in 1 .. k |-> p[i]] /\ k \in Nat /\ DOMAIN p = 1 .. k
    OBVIOUS
  <2>2. \A i \in 1 .. k : i \in DOMAIN s /\ p[i] = s[i]
    BY <1>1
  <2> HIDE DEF p
  <2>3. IsSeq(p)
    BY <2>1, MappedIsSeq
  <2>4. Sound(p)
    BY <2>1, <2>2, <2>3 DEF Sound
  <2> QED
    BY <2>4 DEF p
<1>3. Same(first(0))
  <2>1. first(0) = <<>>
    OBVIOUS
  <2> QED
    BY <2>1, SaysNothing
<1>4. ASSUME NEW k \in 1 .. Len(s), Same(first(k - 1)) PROVE Same(first(k))
  <2> DEFINE p == first(k - 1)
             c == s[k]
             q == <<c>>
  <2>1. p \o q = first(k)
    <3> DEFINE pq == p \o q
    <3>0. Sound(p)
      BY <1>1, <1>2
    <3>1. Sound(p) /\ IsSeq(q) /\ Len(q) = 1 /\ q[1] = c
      BY <3>0, SingleIs
    <3>2. Len(p) = k - 1 /\ \A i \in 1 .. k - 1 : p[i] = s[i]
      BY <1>1
    <3> HIDE DEF p, q, c
    <3>3. Joined(p, q, pq)
      BY <3>1, ConcatIs DEF Sound
    <3> HIDE DEF pq
    <3>4. /\ pq = [i \in 1 .. k |-> pq[i]]
          /\ \A i \in 1 .. k - 1 : pq[i] = p[i]
          /\ pq[k] = q[1]
      <4>1. Len(p) + Len(q) = k /\ 1 \in 1 .. Len(q) /\ Len(p) + 1 = k
        BY <1>1, <3>1, <3>2
      <4> QED
        BY <3>2, <3>3, <4>1 DEF Joined
    <3>5. \A i \in 1 .. k : i \in 1 .. k - 1 \/ i = k
      BY <1>1
    <3>6. \A i \in 1 .. k : pq[i] = s[i]
      BY <3>1, <3>2, <3>4, <3>5 DEF c
    <3> QED
      BY <3>4, <3>6 DEF pq
  <2>2. Sound(p)
    BY <1>1, <1>2
  <2>3. Same(p)
    BY <1>4
  <2>4. SoundChunk(c)
    BY <1>1 DEF Sound
  <2>5. Sound(q) /\ Same(q)
    BY <2>4, SaysOne, RedactedSaysOne
  <2> HIDE DEF first, p, q
  <2> DEFINE rp == redacted(p)
             rq == redacted(q)
  <2>6. redacted(p \o q) = rp \o rq
    BY <2>2, <2>5, RedactedConcat DEF Sound
  <2>7. /\ Sound(p \o q) /\ Deltas(p \o q) = Deltas(p) \o Deltas(q)
        /\ Texts(p \o q) = Texts(p) + Texts(q)
        /\ FinishOf(p \o q) = IF FinishOf(q) = "" THEN FinishOf(p) ELSE FinishOf(q)
    BY <2>2, <2>5, SaysConcat
  <2>8. Sound(rp) /\ Sound(rq)
    BY <2>3, <2>5
  <2>9. /\ Deltas(rp) = Deltas(p) /\ Texts(rp) = Texts(p) /\ FinishOf(rp) = FinishOf(p)
        /\ Deltas(rq) = Deltas(q) /\ Texts(rq) = Texts(q) /\ FinishOf(rq) = FinishOf(q)
    BY <2>3, <2>5
  <2> HIDE DEF rp, rq
  <2>10. /\ Sound(rp \o rq) /\ Deltas(rp \o rq) = Deltas(rp) \o Deltas(rq)
         /\ Texts(rp \o rq) = Texts(rp) + Texts(rq)
         /\ FinishOf(rp \o rq) = IF FinishOf(rq) = "" THEN FinishOf(rp) ELSE FinishOf(rq)
    BY <2>8, SaysConcat
  <2>11. Same(p \o q)
    BY <2>6, <2>7, <2>9, <2>10
  <2> QED
    BY <2>1, <2>11
<1> HIDE DEF Same, first
<1>5. bad = {}
  <2> SUFFICES ASSUME bad # {} PROVE FALSE
    OBVIOUS
  <2>1. bad \in SUBSET Nat
    BY <1>1
  <2>2. PICK m \in bad : \A k \in bad : m <= k
    <3> HIDE DEF bad
    <3> QED
      BY <2>1, LeastNatural
  <2>3. m \in 0 .. Len(s) /\ ~Same(first(m)) /\ m # 0
    BY <1>3
  <2>4. m \in 1 .. Len(s) /\ m - 1 \in 0 .. Len(s) /\ ~(m <= m - 1)
    BY <1>1, <2>3
  <2>5. m - 1 \notin bad
    <3> HIDE DEF bad
    <3> QED
      BY <2>2, <2>4
  <2>6. Same(first(m - 1))
    BY <2>4, <2>5
  <2> QED
    BY <1>4, <2>3, <2>4, <2>6
<1>6. Same(first(Len(s)))
  BY <1>1, <1>5
<1>7. first(Len(s)) = s
  BY <1>1 DEF first
<1> QED
  BY <1>6, <1>7 DEF Same

\* Tool calls are numbered from 0 in the order they begin, none gets arguments
\* before it has begun, and one whose arguments are "{}" gets no others.
Numbered(d) == \A i \in Begins(d) : d[i].index = Cardinality({j \in Begins(d) : j < i})
Begun(d)    == \A i \in DOMAIN d : \E j \in 1 .. i : d[j].head /\ d[j].index = d[i].index
Alone(d)    == \A i, j \in DOMAIN d :
                 d[i].index = d[j].index /\ d[i].args = "{}" /\ d[j].args # "" => i = j

\* The pieces d are those of calls with the arguments A, where "" is none yet.
ArgKinds == {"", "part", "whole", "{}"}

Describes(d, A) ==
  /\ d \in Seq(Pieces) /\ A \in Seq(ArgKinds)
  /\ Numbered(d) /\ Begun(d) /\ Alone(d)
  /\ Cardinality(Begins(d)) = Len(A)
  /\ \A i \in DOMAIN d : d[i].index < Len(A)
  /\ \A i \in DOMAIN d : d[i].args # "" => d[i].args = A[d[i].index + 1]
  /\ \A k \in 1 .. Len(A) :
       A[k] # "" => \E i \in DOMAIN d : d[i].index = k - 1 /\ d[i].args = A[k]

\* Of n calls, whatever their arguments.
Opens(d, n) ==
  /\ d \in Seq(Pieces) /\ n \in Nat /\ Numbered(d) /\ Begun(d)
  /\ Cardinality(Begins(d)) = n /\ \A i \in DOMAIN d : d[i].index < n

\* Sequences of pieces are sequences.
LEMMA PiecesSeq ==
  ASSUME NEW S, NEW d \in Seq(S)
  PROVE  /\ IsSeq(d) /\ Len(d) \in Nat /\ DOMAIN d = 1 .. Len(d)
         /\ \A i \in 1 .. Len(d) : d[i] \in S
<1>1. d = [i \in 1 .. Len(d) |-> d[i]] /\ Len(d) \in Nat /\ DOMAIN d = 1 .. Len(d)
  OBVIOUS
<1>2. IsSeq(d)
  BY <1>1, MappedIsSeq
<1> QED
  BY <1>1, <1>2

\* Before a call begins.
LEMMA DescribesNone == Describes(<<>>, <<>>)
<1> DEFINE d == <<>>
<1>1. d \in Seq(Pieces) /\ d \in Seq(ArgKinds) /\ DOMAIN d = {} /\ Len(d) = 0
  OBVIOUS
<1>2. Begins(d) = {}
  BY <1>1 DEF Begins
<1>3. Cardinality(Begins(d)) = 0
  BY <1>2, FS_EmptySet
<1> HIDE DEF d
<1>4. Describes(d, d)
  BY <1>1, <1>2, <1>3 DEF Describes, Numbered, Begun, Alone
<1> QED
  BY <1>4 DEF d

\* Every call has a piece that begins it.
LEMMA CallBegins ==
  ASSUME NEW d, NEW m, Opens(d, m), NEW k \in 1 .. m
  PROVE  \E i \in DOMAIN d : d[i].head /\ d[i].index = k - 1
<1> DEFINE B == Begins(d)
           n == Len(d)
           p == Place(B, k)
<1>1. n \in Nat /\ DOMAIN d = 1 .. n
  BY PiecesSeq DEF Opens
<1>2. B \in SUBSET (1 .. n) /\ \A i \in B : d[i].head
  BY <1>1 DEF Begins
<1>3. Cardinality(B) = m /\ \A i \in B : d[i].index = Cardinality({j \in B : j < i})
  BY DEF Opens, Numbered
<1> HIDE DEF B, n
<1>4. p \in B /\ Cardinality({j \in B : j <= p}) = k
  BY <1>1, <1>2, <1>3, PlaceOf
<1> HIDE DEF p
<1> DEFINE L == {j \in B : j < p}
           M == {j \in B : j <= p}
<1>5. p \in 1 .. n /\ \A j \in B : j \in 1 .. n
  BY <1>2, <1>4
<1>6. L \in SUBSET (1 .. n) /\ p \notin L /\ M = L \cup {p}
  <2>1. \A j \in 1 .. n : j <= p <=> j < p \/ j = p
    BY <1>5
  <2>2. ~(p < p)
    BY <1>5
  <2> QED
    BY <1>4, <1>5, <2>1, <2>2
<1>7. Cardinality(M) = k
  BY <1>4
<1>8. d[p].index = Cardinality(L)
  BY <1>3, <1>4
<1> HIDE DEF L, M
<1>9. IsFiniteSet(L) /\ Cardinality(L) \in Nat
  BY <1>1, <1>6, PlacesCounted
<1>10. Cardinality(M) = Cardinality(L) + 1
  BY <1>6, <1>9, FS_AddElement
<1>11. Cardinality(L) = k - 1
  BY <1>7, <1>9, <1>10
<1> QED
  BY <1>1, <1>2, <1>4, <1>5, <1>8, <1>11

\* Pieces of which no other begins before place i, in more pieces.
LEMMA BeginsBefore ==
  ASSUME NEW d, NEW e, NEW de, Joined(d, e, de), NEW i \in 1 .. Len(d)
  PROVE  {j \in Begins(de) : j < i} = {j \in Begins(d) : j < i}
<1>1. /\ Len(d) \in Nat /\ Len(e) \in Nat /\ DOMAIN d = 1 .. Len(d)
      /\ DOMAIN de = 1 .. Len(d) + Len(e)
      /\ \A j \in 1 .. Len(d) : de[j] = d[j]
  BY DEF Joined
<1>2. ASSUME NEW j \in Begins(de), j < i PROVE j \in Begins(d)
  <2>1. j \in 1 .. Len(d) + Len(e) /\ de[j].head
    BY <1>1 DEF Begins
  <2>2. j \in 1 .. Len(d)
    BY <1>1, <1>2, <2>1
  <2> QED
    BY <1>1, <2>1, <2>2 DEF Begins
<1>3. ASSUME NEW j \in Begins(d) PROVE j \in Begins(de)
  <2>1. j \in 1 .. Len(d) /\ d[j].head
    BY <1>1 DEF Begins
  <2>2. j \in 1 .. Len(d) + Len(e)
    BY <1>1, <2>1
  <2> QED
    BY <1>1, <2>1, <2>2 DEF Begins
<1> QED
  BY <1>2, <1>3

\* What holds of pieces holds of the first of them.
LEMMA FormedFirst ==
  ASSUME NEW d \in Seq(Pieces), NEW e \in Seq(Pieces), Numbered(d \o e), Begun(d \o e)
  PROVE  Numbered(d) /\ Begun(d) /\ (Alone(d \o e) => Alone(d))
<1> DEFINE de == d \o e
<1>1. Joined(d, e, de)
  BY PiecesSeq, ConcatIs
<1> HIDE DEF de
<1>2. Numbered(de) /\ Begun(de)
  BY DEF de
<1>3. /\ Len(d) \in Nat /\ Len(e) \in Nat /\ DOMAIN d = 1 .. Len(d)
      /\ DOMAIN de = 1 .. Len(d) + Len(e)
      /\ \A j \in 1 .. Len(d) : j \in DOMAIN de /\ de[j] = d[j]
  <2>1. Len(d) \in Nat /\ Len(e) \in Nat
    BY <1>1 DEF Joined
  <2>2. \A j \in 1 .. Len(d) : j \in 1 .. Len(d) + Len(e)
    BY <2>1
  <2> QED
    BY <1>1, <2>1, <2>2 DEF Joined
<1>4. Numbered(d)
  <2> SUFFICES ASSUME NEW i \in Begins(d)
               PROVE  d[i].index = Cardinality({j \in Begins(d) : j < i})
    BY DEF Numbered
  <2>1. i \in 1 .. Len(d) /\ i \in Begins(de) /\ de[i] = d[i]
    BY <1>3 DEF Begins
  <2>2. {j \in Begins(de) : j < i} = {j \in Begins(d) : j < i}
    BY <1>1, <2>1, BeginsBefore
  <2>3. de[i].index = Cardinality({j \in Begins(de) : j < i})
    BY <1>2, <2>1 DEF Numbered
  <2> QED
    BY <2>1, <2>2, <2>3
<1>5. Begun(d)
  <2> SUFFICES ASSUME NEW i \in DOMAIN d
               PROVE  \E j \in 1 .. i : d[j].head /\ d[j].index = d[i].index
    BY DEF Begun
  <2>1. i \in 1 .. Len(d) /\ i \in DOMAIN de /\ de[i] = d[i]
    BY <1>3
  <2>2. PICK j \in 1 .. i : de[j].head /\ de[j].index = de[i].index
    BY <1>2, <2>1 DEF Begun
  <2>3. j \in 1 .. Len(d)
    BY <1>3, <2>1
  <2>4. de[j] = d[j]
    BY <1>3, <2>3
  <2> QED
    BY <2>1, <2>2, <2>4
<1>6. Alone(de) => Alone(d)
  BY <1>3 DEF Alone
<1> QED
  BY <1>4, <1>5, <1>6 DEF de

\* The calls that are described, of which the first ones are.
LEMMA DescribesOpens == ASSUME NEW d, NEW A, Describes(d, A) PROVE Opens(d, Len(A))
<1>1. A \in Seq(ArgKinds)
  BY DEF Describes
<1>2. Len(A) \in Nat
  BY <1>1, PiecesSeq
<1> QED
  BY <1>2 DEF Describes, Opens

\* A call begins.
LEMMA OpensBegun ==
  ASSUME NEW d, NEW m, Opens(d, m), NEW a \in ArgKinds
  PROVE  Opens(d \o <<[index |-> m, head |-> TRUE, args |-> a]>>, m + 1)
<1> DEFINE p == [index |-> m, head |-> TRUE, args |-> a]
           e == <<p>>
           de == d \o e
           n == Len(d)
<1>1. d \in Seq(Pieces) /\ m \in Nat /\ m + 1 \in Nat
  BY DEF Opens
<1>3. p.index = m /\ p.head = TRUE /\ p \in Pieces
  BY <1>1 DEF Pieces, ArgKinds
<1> HIDE DEF p
<1>4. e \in Seq(Pieces) /\ de \in Seq(Pieces)
  BY <1>1, <1>3
<1>5. Len(e) = 1 /\ e[1] = p
  OBVIOUS
<1>6. Joined(d, e, de)
  BY <1>1, <1>4, PiecesSeq, ConcatIs
<1> HIDE DEF e, de
<1>7. /\ n \in Nat /\ DOMAIN d = 1 .. n /\ DOMAIN de = 1 .. n + 1
      /\ \A i \in 1 .. n : i \in 1 .. n + 1 /\ de[i] = d[i]
      /\ de[n + 1] = p /\ n + 1 \in 1 .. n + 1
      /\ \A i \in 1 .. n + 1 : i \in 1 .. n \/ i = n + 1
  <2>1. 1 \in 1 .. Len(e)
    BY <1>5
  <2>2. n \in Nat
    BY <1>6 DEF Joined
  <2>3. n + 1 \in 1 .. n + 1 /\ \A i \in 1 .. n + 1 : i \in 1 .. n \/ i = n + 1
    BY <2>2
  <2>4. Len(de) = n + 1 /\ DOMAIN d = 1 .. n /\ DOMAIN de = 1 .. n + 1
    BY <1>5, <1>6 DEF Joined
  <2>5. de[n + 1] = p
    BY <1>5, <1>6, <2>1 DEF Joined
  <2>6. \A i \in 1 .. n : i \in 1 .. n + 1 /\ de[i] = d[i]
    <3>1. \A i \in 1 .. n : de[i] = d[i]
      BY <1>6 DEF Joined
    <3> QED
      BY <2>2, <3>1
  <2> QED
    BY <2>2, <2>3, <2>4, <2>5, <2>6
<1>8. /\ Numbered(d) /\ Begun(d) /\ Cardinality(Begins(d)) = m
      /\ \A i \in 1 .. n : d[i].index < m
  BY <1>7 DEF Opens
<1>18. \A i \in 1 .. n : d[i].index \in Nat /\ d[i].index < m + 1
  <2>1. \A i \in 1 .. n : d[i] \in Pieces
    BY <1>1, <1>7, PiecesSeq
  <2>2. \A i \in 1 .. n : d[i].index \in Nat
    BY <2>1 DEF Pieces
  <2> SUFFICES ASSUME NEW i \in 1 .. n PROVE d[i].index \in Nat /\ d[i].index < m + 1
    OBVIOUS
  <2>3. d[i].index \in Nat /\ d[i].index < m
    BY <1>8, <2>2
  <2> QED
    BY <1>1, <2>3
<1> HIDE DEF n
<1>9. Begins(de) = Begins(d) \cup {n + 1} /\ n + 1 \notin Begins(d)
      /\ Begins(d) \in SUBSET (1 .. n)
  <2>1. \A i \in 1 .. n : i # n + 1
    BY <1>7
  <2> QED
    BY <1>3, <1>7, <2>1 DEF Begins
<1>10. Cardinality(Begins(de)) = m + 1
  <2>1. IsFiniteSet(Begins(d))
    BY <1>7, <1>9, PlacesCounted
  <2> QED
    BY <1>8, <1>9, <2>1, FS_AddElement
<1>11. Numbered(de)
  <2> SUFFICES ASSUME NEW i \in Begins(de)
               PROVE  de[i].index = Cardinality({j \in Begins(de) : j < i})
    BY DEF Numbered
  <2>1. CASE i \in Begins(d)
    <3>1. i \in 1 .. n /\ d[i].index = Cardinality({j \in Begins(d) : j < i})
      BY <1>8, <1>9, <2>1 DEF Numbered
    <3>2. {j \in Begins(de) : j < i} = {j \in Begins(d) : j < i}
      BY <1>6, <3>1, BeginsBefore DEF n
    <3> QED
      BY <1>7, <3>1, <3>2
  <2>2. CASE i = n + 1
    <3>1. \A j \in 1 .. n : j < n + 1
      BY <1>7
    <3>2. ~(n + 1 < n + 1)
      BY <1>7
    <3>3. {j \in Begins(de) : j < i} = Begins(d)
      BY <1>9, <2>2, <3>1, <3>2
    <3> QED
      BY <1>3, <1>7, <1>8, <2>2, <3>3
  <2> QED
    BY <1>9, <2>1, <2>2
<1>12. Begun(de)
  <2> SUFFICES ASSUME NEW i \in 1 .. n + 1
               PROVE  \E j \in 1 .. i : de[j].head /\ de[j].index = de[i].index
    BY <1>7 DEF Begun
  <2>1. CASE i \in 1 .. n
    <3>1. PICK j \in 1 .. i : d[j].head /\ d[j].index = d[i].index
      BY <1>7, <1>8, <2>1 DEF Begun
    <3>2. j \in 1 .. n
      BY <1>7, <2>1
    <3> QED
      BY <1>7, <2>1, <3>1, <3>2
  <2>2. CASE i = n + 1
    <3>1. i \in 1 .. i
      BY <1>7, <2>2
    <3> QED
      BY <1>3, <1>7, <2>2, <3>1
  <2> QED
    BY <1>7, <2>1, <2>2
<1>14. ASSUME NEW i \in 1 .. n + 1
       PROVE  de[i].index < m + 1
  <2>1. CASE i \in 1 .. n
    BY <1>7, <1>18, <2>1
  <2>2. CASE i = n + 1
    <3>1. m < m + 1
      BY <1>1
    <3> QED
      BY <1>3, <1>7, <2>2, <3>1
  <2> QED
    BY <1>7, <2>1, <2>2
<1>15. Opens(de, m + 1)
  BY <1>1, <1>4, <1>7, <1>10, <1>11, <1>12, <1>14 DEF Opens
<1> QED
  BY <1>15 DEF de, e, p

\* With its arguments.
LEMMA DescribesBegun ==
  ASSUME NEW d, NEW A, Describes(d, A), NEW a \in ArgKinds
  PROVE  Describes(d \o <<[index |-> Len(A), head |-> TRUE, args |-> a]>>, Append(A, a))
<1> DEFINE p == [index |-> Len(A), head |-> TRUE, args |-> a]
           e == <<p>>
           de == d \o e
           Aa == Append(A, a)
           n == Len(d)
           m == Len(A)
<1>1. d \in Seq(Pieces) /\ A \in Seq(ArgKinds)
  BY DEF Describes
<1>2. /\ m \in Nat /\ Aa \in Seq(ArgKinds) /\ Len(Aa) = m + 1 /\ Aa[m + 1] = a
      /\ \A k \in 1 .. m : Aa[k] = A[k]
  BY <1>1
<1>3. p.index = m /\ p.head = TRUE /\ p.args = a /\ p \in Pieces
  BY <1>2 DEF Pieces, ArgKinds
<1> HIDE DEF p, Aa
<1>4. e \in Seq(Pieces) /\ de \in Seq(Pieces)
  BY <1>1, <1>3
<1>5. Len(e) = 1 /\ e[1] = p
  OBVIOUS
<1>6. Joined(d, e, de)
  BY <1>1, <1>4, PiecesSeq, ConcatIs
<1> HIDE DEF e, de
<1>7. /\ n \in Nat /\ DOMAIN d = 1 .. n /\ DOMAIN de = 1 .. n + 1
      /\ \A i \in 1 .. n : i \in 1 .. n + 1 /\ de[i] = d[i]
      /\ de[n + 1] = p /\ n + 1 \in 1 .. n + 1
      /\ \A i \in 1 .. n + 1 : i \in 1 .. n \/ i = n + 1
  <2>1. 1 \in 1 .. Len(e)
    BY <1>5
  <2>2. n \in Nat
    BY <1>6 DEF Joined
  <2>3. n + 1 \in 1 .. n + 1 /\ \A i \in 1 .. n + 1 : i \in 1 .. n \/ i = n + 1
    BY <2>2
  <2>4. Len(de) = n + 1 /\ DOMAIN d = 1 .. n /\ DOMAIN de = 1 .. n + 1
    BY <1>5, <1>6 DEF Joined
  <2>5. de[n + 1] = p
    BY <1>5, <1>6, <2>1 DEF Joined
  <2>6. \A i \in 1 .. n : i \in 1 .. n + 1 /\ de[i] = d[i]
    <3>1. \A i \in 1 .. n : de[i] = d[i]
      BY <1>6 DEF Joined
    <3> QED
      BY <2>2, <3>1
  <2> QED
    BY <2>2, <2>3, <2>4, <2>5, <2>6
<1>17. \A i \in 1 .. n : d[i].index \in Nat /\ d[i].index < m
  <2>1. \A i \in 1 .. n : d[i] \in Pieces
    BY <1>1, <1>7, PiecesSeq
  <2>2. \A i \in 1 .. n : d[i].index \in Nat
    BY <2>1 DEF Pieces
  <2> QED
    BY <1>7, <2>2 DEF Describes
<1>18. \A i \in 1 .. n : d[i].index # m /\ d[i].index < m + 1 /\ d[i].index + 1 \in 1 .. m
  <2> SUFFICES ASSUME NEW i \in 1 .. n
               PROVE  d[i].index # m /\ d[i].index < m + 1 /\ d[i].index + 1 \in 1 .. m
    OBVIOUS
  <2>1. d[i].index \in Nat /\ d[i].index < m /\ m \in Nat
    BY <1>2, <1>17
  <2> QED
    BY <2>1
<1>8. /\ \A i \in 1 .. n : d[i].args # "" => d[i].args = A[d[i].index + 1]
      /\ \A k \in 1 .. m : A[k] # "" => \E i \in 1 .. n : d[i].index = k - 1 /\ d[i].args = A[k]
      /\ Numbered(d) /\ Begun(d) /\ Alone(d) /\ Cardinality(Begins(d)) = m
  BY <1>7 DEF Describes
<1> HIDE DEF n, m
<1>9. Opens(de, m + 1)
  <2>1. Opens(d, m)
    BY DescribesOpens DEF m
  <2> QED
    BY <2>1, OpensBegun DEF de, e, p, m
<1>13. Alone(de)
  <2> SUFFICES ASSUME NEW i \in 1 .. n + 1, NEW j \in 1 .. n + 1, de[i].index = de[j].index,
                      de[i].args = "{}", de[j].args # ""
               PROVE  i = j
    BY <1>7 DEF Alone
  <2>1. CASE i \in 1 .. n /\ j \in 1 .. n
    BY <1>7, <1>8, <2>1 DEF Alone
  <2>2. \A k \in 1 .. n : de[k].index # de[n + 1].index
    BY <1>3, <1>7, <1>18
  <2> QED
    BY <1>7, <2>1, <2>2
<1>19. ASSUME NEW i \in 1 .. n + 1, de[i].args # ""
       PROVE  de[i].args = Aa[de[i].index + 1]
  <2>1. CASE i \in 1 .. n
    <3>1. Aa[d[i].index + 1] = A[d[i].index + 1]
      BY <1>2, <1>18, <2>1
    <3>2. d[i].args # "" => d[i].args = A[d[i].index + 1]
      BY <1>8, <2>1
    <3>3. de[i] = d[i]
      BY <1>7, <2>1
    <3> QED
      BY <1>19, <3>1, <3>2, <3>3
  <2>2. CASE i = n + 1
    BY <1>2, <1>3, <1>7, <2>2
  <2> QED
    BY <1>7, <2>1, <2>2
<1>15. ASSUME NEW k \in 1 .. m + 1, Aa[k] # ""
       PROVE  \E i \in 1 .. n + 1 : de[i].index = k - 1 /\ de[i].args = Aa[k]
  <2>1. CASE k \in 1 .. m
    <3>1. A[k] = Aa[k]
      BY <1>2, <2>1
    <3>2. PICK i \in 1 .. n : d[i].index = k - 1 /\ d[i].args = A[k]
      BY <1>8, <1>15, <2>1, <3>1
    <3> QED
      BY <1>7, <3>1, <3>2
  <2>2. CASE k = m + 1
    <3>1. k - 1 = m
      BY <1>2, <2>2
    <3> QED
      BY <1>2, <1>3, <1>7, <2>2, <3>1
  <2> QED
    BY <1>2, <2>1, <2>2
<1>16. Describes(de, Aa)
  <2>1. Len(Aa) = m + 1
    BY <1>2
  <2> QED
    BY <1>2, <1>4, <1>7, <1>9, <1>13, <1>15, <1>19, <2>1 DEF Describes, Opens
<1> QED
  BY <1>16 DEF de, e, p, Aa, m

\* The types of what is described.
LEMMA DescribesTypes ==
  ASSUME NEW d, NEW A, Describes(d, A)
  PROVE  /\ d \in Seq(Pieces) /\ IsSeq(d) /\ Len(d) \in Nat /\ DOMAIN d = 1 .. Len(d)
         /\ \A i \in 1 .. Len(d) : d[i].index \in Nat
         /\ A \in Seq(ArgKinds) /\ Len(A) \in Nat /\ DOMAIN A = 1 .. Len(A)
<1>1. d \in Seq(Pieces) /\ A \in Seq(ArgKinds)
  BY DEF Describes
<1>2. /\ IsSeq(d) /\ Len(d) \in Nat /\ DOMAIN d = 1 .. Len(d)
      /\ \A i \in 1 .. Len(d) : d[i] \in Pieces
  BY <1>1, PiecesSeq
<1>3. Len(A) \in Nat /\ DOMAIN A = 1 .. Len(A)
  BY <1>1
<1>4. \A i \in 1 .. Len(d) : d[i].index \in Nat
  BY <1>2 DEF Pieces
<1> QED
  BY <1>1, <1>2, <1>3, <1>4

\* Pieces that give all their calls, which have begun, the arguments a.
Gives(e, a, A) ==
  /\ e \in Seq(Pieces) /\ a \in ArgKinds \ {""}
  /\ \A i \in DOMAIN e : ~e[i].head /\ e[i].args = a
  /\ \A i \in DOMAIN e : e[i].index + 1 \in 1 .. Len(A)
  /\ \A i \in DOMAIN e : A[e[i].index + 1] \in IF a = "{}" THEN {""} ELSE {"", a}
  /\ a = "{}" => \A i, j \in DOMAIN e : e[i].index = e[j].index => i = j

Grown(e, a, A, A2) ==
  /\ A2 \in Seq(ArgKinds) /\ Len(A2) = Len(A)
  /\ \A i \in DOMAIN e : A2[e[i].index + 1] = a
  /\ \A k \in 1 .. Len(A) : A2[k] = A[k] \/ \E i \in DOMAIN e : e[i].index = k - 1

\* Calls that have begun get arguments.
LEMMA OpensGiven ==
  ASSUME NEW d, NEW m, Opens(d, m), NEW e \in Seq(Pieces),
         \A i \in DOMAIN e : ~e[i].head /\ e[i].index + 1 \in 1 .. m
  PROVE  Opens(d \o e, m)
<1> DEFINE de == d \o e
           n == Len(d)
           l == Len(e)
<1>1. d \in Seq(Pieces) /\ de \in Seq(Pieces)
  <2>1. d \in Seq(Pieces)
    BY DEF Opens
  <2> QED
    BY <2>1
<1>2. Joined(d, e, de)
  BY <1>1, PiecesSeq, ConcatIs
<1> HIDE DEF de
<1>3. n \in Nat /\ l \in Nat /\ m \in Nat
  BY <1>2 DEF Joined, Opens
<1>4. /\ DOMAIN d = 1 .. n /\ DOMAIN e = 1 .. l /\ DOMAIN de = 1 .. n + l
      /\ \A i \in 1 .. n : de[i] = d[i]
      /\ \A i \in 1 .. l : n + i \in 1 .. n + l /\ de[n + i] = e[i]
      /\ \A i \in 1 .. n + l : i \in 1 .. n \/ \E j \in 1 .. l : i = n + j
  BY <1>2 DEF Joined
<1>5. \A i \in 1 .. n : i \in 1 .. n + l
  BY <1>3
<1>6. /\ \A i \in 1 .. n : d[i].index \in Nat
      /\ \A i \in 1 .. l : e[i].index \in Nat
  <2>1. /\ \A i \in 1 .. l : e[i] \in Pieces
        /\ \A i \in 1 .. n : d[i] \in Pieces
    BY <1>1, PiecesSeq
  <2> QED
    BY <2>1 DEF Pieces
<1>7. \A i \in 1 .. n : d[i].index < m
  BY <1>4 DEF Opens
<1>8. \A i \in 1 .. l : e[i].index + 1 \in 1 .. m
  BY <1>4
<1>9. \A i \in 1 .. l : ~e[i].head
  BY <1>4
<1>10. Numbered(d) /\ Begun(d) /\ Cardinality(Begins(d)) = m
  BY DEF Opens
<1> HIDE DEF n, l
<1>14. Begins(de) = Begins(d) /\ Begins(d) \subseteq 1 .. n
  <2>1. ASSUME NEW i \in Begins(de) PROVE i \in Begins(d)
    <3>1. i \in 1 .. n + l /\ de[i].head
      BY <1>4 DEF Begins
    <3>2. \A j \in 1 .. l : i # n + j
      BY <1>4, <1>9, <3>1
    <3>3. i \in 1 .. n
      BY <1>4, <3>1, <3>2
    <3> QED
      BY <1>4, <3>1, <3>3 DEF Begins
  <2>2. ASSUME NEW i \in Begins(d) PROVE i \in Begins(de) /\ i \in 1 .. n
    BY <1>4, <1>5 DEF Begins
  <2> QED
    BY <2>1, <2>2
<1>15. Numbered(de)
  <2> SUFFICES ASSUME NEW i \in Begins(d)
               PROVE  de[i].index = Cardinality({j \in Begins(d) : j < i})
    BY <1>14 DEF Numbered
  <2>1. i \in 1 .. n
    BY <1>14
  <2>2. d[i].index = Cardinality({j \in Begins(d) : j < i})
    BY <1>10 DEF Numbered
  <2> QED
    BY <1>4, <2>1, <2>2
<1>16. Begun(de)
  <2> SUFFICES ASSUME NEW i \in 1 .. n + l
               PROVE  \E j \in 1 .. i : de[j].head /\ de[j].index = de[i].index
    BY <1>4 DEF Begun
  <2>1. CASE i \in 1 .. n
    <3>1. PICK j \in 1 .. i : d[j].head /\ d[j].index = d[i].index
      BY <1>4, <1>10, <2>1 DEF Begun
    <3>2. j \in 1 .. n
      BY <1>3, <2>1
    <3> QED
      BY <1>4, <2>1, <3>1, <3>2
  <2>2. ASSUME NEW j \in 1 .. l, i = n + j
        PROVE  \E k \in 1 .. i : de[k].head /\ de[k].index = de[i].index
    <3> DEFINE x == e[j].index
    <3>1. x + 1 \in 1 .. m /\ (x + 1) - 1 = x
      BY <1>6, <1>8
    <3> HIDE DEF x
    <3>5. \E k \in DOMAIN d : d[k].head /\ d[k].index = (x + 1) - 1
      BY <3>1, CallBegins
    <3>2. PICK k \in 1 .. n : d[k].head /\ d[k].index = x
      BY <1>4, <3>1, <3>5
    <3>3. k \in 1 .. i
      BY <1>3, <2>2
    <3>4. de[i] = e[j] /\ de[k] = d[k]
      BY <1>4, <2>2
    <3> QED
      BY <3>2, <3>3, <3>4 DEF x
  <2> QED
    BY <1>4, <2>1, <2>2
<1>18. ASSUME NEW i \in 1 .. n + l PROVE de[i].index < m
  <2>1. CASE i \in 1 .. n
    BY <1>4, <1>7, <2>1
  <2>2. ASSUME NEW j \in 1 .. l, i = n + j PROVE de[i].index < m
    <3>1. e[j].index < m
      BY <1>3, <1>6, <1>8
    <3> QED
      BY <1>4, <2>2, <3>1
  <2> QED
    BY <1>4, <2>1, <2>2
<1>20. Opens(de, m)
  BY <1>1, <1>3, <1>4, <1>10, <1>14, <1>15, <1>16, <1>18 DEF Opens
<1> QED
  BY <1>20 DEF de

\* Calls get arguments.
LEMMA DescribesGiven ==
  ASSUME NEW d, NEW A, Describes(d, A), NEW e, NEW a, Gives(e, a, A), NEW A2, Grown(e, a, A, A2)
  PROVE  Describes(d \o e, A2)
<1> DEFINE de == d \o e
           n == Len(d)
           l == Len(e)
           m == Len(A)
<1>1. d \in Seq(Pieces) /\ e \in Seq(Pieces) /\ de \in Seq(Pieces)
  <2>1. d \in Seq(Pieces) /\ e \in Seq(Pieces)
    BY DescribesTypes DEF Gives
  <2> QED
    BY <2>1
<1>2. Joined(d, e, de)
  BY <1>1, PiecesSeq, ConcatIs
<1> HIDE DEF de
<1>3. n \in Nat /\ l \in Nat /\ m \in Nat
  <2>1. m \in Nat
    BY DescribesTypes
  <2> QED
    BY <1>2, <2>1 DEF Joined
<1>4. /\ DOMAIN d = 1 .. n /\ DOMAIN e = 1 .. l /\ DOMAIN de = 1 .. n + l
      /\ \A i \in 1 .. n : de[i] = d[i]
      /\ \A i \in 1 .. l : n + i \in 1 .. n + l /\ de[n + i] = e[i]
      /\ \A i \in 1 .. n + l : i \in 1 .. n \/ \E j \in 1 .. l : i = n + j
  BY <1>2 DEF Joined
<1>5. \A i \in 1 .. n : i \in 1 .. n + l
  BY <1>3
<1>6. /\ \A i \in 1 .. n : d[i].index \in Nat
      /\ \A i \in 1 .. l : e[i].index \in Nat
  <2>1. \A i \in 1 .. l : e[i] \in Pieces
    BY <1>1, PiecesSeq
  <2>2. \A i \in 1 .. l : e[i].index \in Nat
    BY <2>1 DEF Pieces
  <2> QED
    BY <2>2, DescribesTypes
<1>7. \A i \in 1 .. n : d[i].index < m
  BY <1>4 DEF Describes
<1>8. \A i \in 1 .. l : e[i].index + 1 \in 1 .. m
  BY <1>4 DEF Gives
<1>9. \A i \in 1 .. l : ~e[i].head /\ e[i].args = a
  BY <1>4 DEF Gives
<1>10. Numbered(d) /\ Begun(d) /\ Alone(d) /\ Cardinality(Begins(d)) = m
  BY DEF Describes
<1>11. \A i \in 1 .. n : d[i].args # "" => d[i].args = A[d[i].index + 1]
  BY <1>4 DEF Describes
<1>12. a # "" /\ \A i \in 1 .. l : A[e[i].index + 1] # "" => A[e[i].index + 1] = a /\ a # "{}"
  BY <1>4 DEF Gives
<1>13. /\ \A i \in 1 .. l : A2[e[i].index + 1] = a
       /\ \A k \in 1 .. m : A2[k] = A[k] \/ \E i \in 1 .. l : e[i].index = k - 1
  BY <1>4 DEF Grown
<1> HIDE DEF n, l, m
<1>14. Opens(de, m)
  <2>1. Opens(d, m)
    BY DescribesOpens DEF m
  <2>2. \A i \in DOMAIN e : ~e[i].head /\ e[i].index + 1 \in 1 .. m
    BY <1>4, <1>8, <1>9
  <2> QED
    BY <1>1, <2>1, <2>2, OpensGiven DEF de
<1>17. Alone(de)
  <2> SUFFICES ASSUME NEW i \in 1 .. n + l, NEW j \in 1 .. n + l, de[i].index = de[j].index,
                      de[i].args = "{}", de[j].args # ""
               PROVE  i = j
    BY <1>4 DEF Alone
  <2>1. CASE i \in 1 .. n /\ j \in 1 .. n
    BY <1>4, <1>10, <2>1 DEF Alone
  <2>2. ASSUME i \in 1 .. n, NEW k \in 1 .. l, j = n + k PROVE FALSE
    <3>1. de[i] = d[i] /\ de[j] = e[k]
      BY <1>4, <2>2
    <3>2. d[i].args = A[d[i].index + 1]
      BY <1>11, <2>2, <3>1
    <3>3. A[e[k].index + 1] = "{}"
      BY <3>1, <3>2
    <3> QED
      BY <1>12, <3>3
  <2>3. ASSUME NEW k \in 1 .. l, i = n + k, j \in 1 .. n PROVE FALSE
    <3>1. de[j] = d[j] /\ de[i] = e[k]
      BY <1>4, <2>3
    <3>2. d[j].args = A[d[j].index + 1]
      BY <1>11, <2>3, <3>1
    <3>3. A[e[k].index + 1] # "" /\ a = "{}"
      BY <1>9, <3>1, <3>2
    <3> QED
      BY <1>12, <3>3
  <2>4. ASSUME NEW k \in 1 .. l, i = n + k, NEW o \in 1 .. l, j = n + o PROVE i = j
    <3>1. de[i] = e[k] /\ de[j] = e[o]
      BY <1>4, <2>4
    <3>2. a = "{}" /\ e[k].index = e[o].index
      BY <1>9, <3>1
    <3>3. k = o
      BY <1>4, <3>2 DEF Gives
    <3> QED
      BY <2>4, <3>3
  <2> QED
    BY <1>4, <2>1, <2>2, <2>3, <2>4
<1>19. ASSUME NEW i \in 1 .. n + l, de[i].args # "" PROVE de[i].args = A2[de[i].index + 1]
  <2>1. CASE i \in 1 .. n
    <3> DEFINE x == d[i].index
    <3>1. de[i] = d[i] /\ d[i].args = A[x + 1]
      BY <1>4, <1>11, <1>19, <2>1
    <3>2. x + 1 \in 1 .. m /\ (x + 1) - 1 = x
      BY <1>3, <1>6, <1>7, <2>1
    <3>3. CASE A2[x + 1] = A[x + 1]
      BY <3>1, <3>3
    <3>4. ASSUME NEW j \in 1 .. l, e[j].index = x PROVE A2[x + 1] = A[x + 1]
      <4>1. A[e[j].index + 1] # ""
        BY <1>19, <3>1, <3>4
      <4> QED
        BY <1>12, <1>13, <3>4, <4>1
    <3> QED
      BY <1>13, <3>1, <3>2, <3>3, <3>4
  <2>2. ASSUME NEW j \in 1 .. l, i = n + j PROVE de[i].args = A2[de[i].index + 1]
    <3>1. de[i] = e[j]
      BY <1>4, <2>2
    <3> QED
      BY <1>9, <1>13, <3>1
  <2> QED
    BY <1>4, <2>1, <2>2
<1>20. ASSUME NEW k \in 1 .. m, A2[k] # ""
       PROVE  \E i \in 1 .. n + l : de[i].index = k - 1 /\ de[i].args = A2[k]
  <2>1. CASE \E j \in 1 .. l : e[j].index = k - 1
    <3>1. PICK j \in 1 .. l : e[j].index = k - 1
      BY <2>1
    <3>2. e[j].index + 1 = k
      BY <1>3, <3>1
    <3>3. A2[k] = a
      BY <1>13, <3>2
    <3> QED
      BY <1>4, <1>9, <3>1, <3>3
  <2>2. CASE A2[k] = A[k]
    <3>1. PICK i \in 1 .. n : d[i].index = k - 1 /\ d[i].args = A[k]
      BY <1>4, <1>20, <2>2 DEF Describes, m
    <3> QED
      BY <1>4, <1>5, <2>2, <3>1
  <2> QED
    BY <1>13, <2>1, <2>2
<1>21. Describes(de, A2)
  <2>1. A2 \in Seq(ArgKinds) /\ Len(A2) = m
    BY DEF Grown, m
  <2> QED
    BY <1>1, <1>4, <1>14, <1>17, <1>19, <1>20, <2>1 DEF Describes, Opens
<1> QED
  BY <1>21 DEF de

\* A client puts together the arguments that the pieces describe.
LEMMA AssembledIs ==
  ASSUME NEW got, NEW A, Describes(Deltas(got), A)
  PROVE  Assembled(got) =
           [texts  |-> Texts(got),
            calls  |-> [k \in 1 .. Len(A) |->
                          IF A[k] = "" THEN "" ELSE IF A[k] = "{}" THEN "{}" ELSE "args"],
            finish |-> FinishOf(got)]
<1> DEFINE d == Deltas(got)
           n == Len(d)
           G(k) == Given(d, k - 1)
<1>1. n \in Nat /\ DOMAIN d = 1 .. n /\ \A i \in 1 .. n : d[i].index \in Nat
  BY DescribesTypes
<1>2. Len(A) \in Nat /\ Cardinality(Begins(d)) = Len(A)
  <2>1. Len(A) \in Nat
    BY DescribesTypes
  <2> QED
    BY <2>1 DEF Describes
<1>3. /\ \A i \in 1 .. n : d[i].args # "" => d[i].args = A[d[i].index + 1]
      /\ \A k \in 1 .. Len(A) : A[k] # "" => \E i \in 1 .. n : d[i].index = k - 1 /\ d[i].args = A[k]
  BY <1>1 DEF Describes
<1>4. \A k : G(k) = {d[i].args : i \in {j \in 1 .. n : d[j].index = k - 1}} \ {""}
  BY <1>1 DEF Given
<1>5. Assembled(got) =
        [texts  |-> Texts(got),
         calls  |-> [k \in 1 .. Len(A) |-> CASE G(k) = {} -> "" [] G(k) = {"{}"} -> "{}"
                                             [] OTHER -> "args"],
         finish |-> FinishOf(got)]
  BY <1>2 DEF Assembled
<1> HIDE DEF d, n, G
<1>6. ASSUME NEW k \in 1 .. Len(A) PROVE G(k) = {A[k]} \ {""}
  <2>1. ASSUME NEW x \in G(k) PROVE x = A[k] /\ x # ""
    <3>1. PICK i \in 1 .. n : d[i].index = k - 1 /\ x = d[i].args /\ x # ""
      BY <1>4
    <3>2. d[i].index + 1 = k
      <4>1. d[i].index = k - 1
        BY <3>1
      <4>2. d[i].index \in Nat
        BY <1>1
      <4>3. k \in Int
        BY <1>2
      <4> QED
        BY <4>1, <4>2, <4>3
    <3>3. d[i].args # ""
      BY <3>1
    <3>4. d[i].args = A[d[i].index + 1]
      BY <1>3, <3>3
    <3> QED
      BY <3>1, <3>2, <3>4
  <2>2. ASSUME A[k] # "" PROVE A[k] \in G(k)
    <3>1. PICK i \in 1 .. n : d[i].index = k - 1 /\ d[i].args = A[k]
      BY <1>3, <2>2
    <3> QED
      BY <1>4, <2>2, <3>1
  <2> QED
    BY <2>1, <2>2
<1>7. ASSUME NEW k \in 1 .. Len(A)
      PROVE  (CASE G(k) = {} -> "" [] G(k) = {"{}"} -> "{}" [] OTHER -> "args") =
             IF A[k] = "" THEN "" ELSE IF A[k] = "{}" THEN "{}" ELSE "args"
  <2>1. CASE A[k] = ""
    <3>1. G(k) = {} /\ G(k) # {"{}"}
      BY <1>6, <2>1
    <3> QED
      BY <2>1, <3>1
  <2>2. CASE A[k] = "{}"
    <3>1. G(k) = {"{}"} /\ G(k) # {}
      BY <1>6, <2>2
    <3> QED
      BY <2>2, <3>1
  <2>3. CASE A[k] # "" /\ A[k] # "{}"
    <3>1. G(k) # {} /\ G(k) # {"{}"}
      BY <1>6, <2>3
    <3> QED
      BY <2>3, <3>1
  <2> QED
    BY <2>1, <2>2, <2>3
<1> QED
  BY <1>5, <1>7

-----------------------------------------------------------------------------
(* Blocks on their way                                                       *)

\* Blocks of sound chunks.
SoundBlocks(q) == IsSeq(q) /\ \A i \in DOMAIN q : Sound(q[i])

\* One after the other, and one after the other again.
LEMMA SoundAssociative ==
  ASSUME NEW s, Sound(s), NEW t, Sound(t), NEW u, Sound(u)
  PROVE  /\ Sound(s \o t) /\ Sound(t \o u) /\ (s \o t) \o u = s \o (t \o u)
         /\ s \o <<>> = s /\ <<>> \o s = s
<1> DEFINE U == ToSet(s) \cup ToSet(t) \cup ToSet(u)
<1>1. s \in Seq(U) /\ t \in Seq(U) /\ u \in Seq(U)
  BY DEF Sound, IsSeq
<1>2. (s \o t) \o u = s \o (t \o u)
  BY <1>1, ConcatAssociative
<1>3. s \o <<>> = s /\ <<>> \o s = s
  BY <1>1, ConcatEmptySeq
<1> QED
  BY <1>2, <1>3, SaysConcat

\* So they can be put together in any order.
LEMMA SoundOrder ==
  \A s, t, u : Sound(s) /\ Sound(t) /\ Sound(u) => (s \o t) \o u = s \o (t \o u)
<1> SUFFICES ASSUME NEW s, NEW t, NEW u, Sound(s), Sound(t), Sound(u)
             PROVE  (s \o t) \o u = s \o (t \o u)
  OBVIOUS
<1> DEFINE U == ToSet(s) \cup ToSet(t) \cup ToSet(u)
<1>1. s \in Seq(U) /\ t \in Seq(U) /\ u \in Seq(U)
  BY DEF Sound, IsSeq
<1> HIDE DEF U
<1> QED
  BY <1>1, ConcatAssociative

\* The chunks of one block more.
LEMMA BlocksConcat ==
  ASSUME NEW q, SoundBlocks(q), NEW r, SoundBlocks(r)
  PROVE  /\ SoundBlocks(q \o r) /\ FlattenSeq(q \o r) = FlattenSeq(q) \o FlattenSeq(r)
         /\ Sound(FlattenSeq(q)) /\ Sound(FlattenSeq(r))
<1> DEFINE Q == {ToSet(q[i]) : i \in DOMAIN q}
           R == {ToSet(r[i]) : i \in DOMAIN r}
           all == (UNION Q) \cup (UNION R)
           U == {c \in all : SoundChunk(c)}
           qr == q \o r
<1>1. Joined(q, r, qr)
  BY ConcatIs DEF SoundBlocks
<1> HIDE DEF qr
<1>2. SoundBlocks(qr)
  <2>1. /\ IsSeq(qr) /\ DOMAIN qr = 1 .. Len(q) + Len(r)
        /\ DOMAIN q = 1 .. Len(q) /\ DOMAIN r = 1 .. Len(r)
        /\ \A i \in 1 .. Len(q) : qr[i] = q[i]
        /\ \A i \in 1 .. Len(r) : qr[Len(q) + i] = r[i]
        /\ \A i \in 1 .. Len(q) + Len(r) : i \in 1 .. Len(q) \/ \E j \in 1 .. Len(r) : i = Len(q) + j
    BY <1>1 DEF Joined
  <2>2. ASSUME NEW i \in DOMAIN qr PROVE Sound(qr[i])
    <3>1. CASE i \in 1 .. Len(q)
      BY <2>1, <3>1 DEF SoundBlocks
    <3>2. CASE \E j \in 1 .. Len(r) : i = Len(q) + j
      <4>1. PICK j \in 1 .. Len(r) : i = Len(q) + j
        BY <3>2
      <4>2. qr[Len(q) + j] = r[j] /\ j \in DOMAIN r
        BY <2>1
      <4> QED
        BY <4>1, <4>2 DEF SoundBlocks
    <3> QED
      BY <2>1, <3>1, <3>2
  <2> QED
    BY <2>1, <2>2 DEF SoundBlocks
<1>3. ASSUME NEW s, Sound(s), ToSet(s) \subseteq all PROVE s \in Seq(U)
  <2>1. Len(s) \in Nat /\ DOMAIN s = 1 .. Len(s) /\ s = [i \in 1 .. Len(s) |-> s[i]]
    BY <1>3, SeqIs DEF Sound
  <2>2. \A i \in 1 .. Len(s) : s[i] \in U
    BY <1>3, <2>1 DEF Sound, ToSet
  <2> HIDE DEF U
  <2> QED
    BY <2>1, <2>2
<1>4. ASSUME NEW i \in DOMAIN q PROVE q[i] \in Seq(U)
  <2>1. Sound(q[i]) /\ ToSet(q[i]) \in Q
    BY DEF SoundBlocks
  <2> HIDE DEF Q, R, U
  <2> QED
    BY <1>3, <2>1
<1>5. ASSUME NEW i \in DOMAIN r PROVE r[i] \in Seq(U)
  <2>1. Sound(r[i]) /\ ToSet(r[i]) \in R
    BY DEF SoundBlocks
  <2> HIDE DEF Q, R, U
  <2> QED
    BY <1>3, <2>1
<1> HIDE DEF all, U
<1>6. q \in Seq(Seq(U)) /\ r \in Seq(Seq(U))
  <2>1. /\ Len(q) \in Nat /\ DOMAIN q = 1 .. Len(q) /\ q = [i \in 1 .. Len(q) |-> q[i]]
        /\ Len(r) \in Nat /\ DOMAIN r = 1 .. Len(r) /\ r = [i \in 1 .. Len(r) |-> r[i]]
    BY SeqIs DEF SoundBlocks
  <2> QED
    BY <1>4, <1>5, <2>1
<1>7. /\ FlattenSeq(q \o r) = FlattenSeq(q) \o FlattenSeq(r)
      /\ FlattenSeq(q) \in Seq(U) /\ FlattenSeq(r) \in Seq(U)
  <2>1. /\ FlattenSeq(q \o r) = FlattenSeq(q) \o FlattenSeq(r) /\ FlattenSeq(q) \in Seq(U)
    BY <1>6, FlattenConcat
  <2>2. FlattenSeq(r) \in Seq(U)
    BY <1>6, FlattenConcat
  <2> QED
    BY <2>1, <2>2
<1>8. ASSUME NEW s \in Seq(U) PROVE Sound(s)
  <2>1. IsSeq(s) /\ DOMAIN s = 1 .. Len(s) /\ \A i \in 1 .. Len(s) : s[i] \in U
    BY PiecesSeq
  <2>2. \A i \in DOMAIN s : SoundChunk(s[i])
    BY <2>1 DEF U
  <2> QED
    BY <2>1, <2>2 DEF Sound
<1> QED
  BY <1>2, <1>7, <1>8 DEF qr

\* One block, and none.
LEMMA BlockAlone ==
  ASSUME NEW b, Sound(b)
  PROVE  SoundBlocks(<<b>>) /\ FlattenSeq(<<b>>) = b /\ SoundBlocks(<<>>) /\ FlattenSeq(<<>>) = <<>>
<1> DEFINE U == ToSet(b)
<1>1. b \in Seq(U)
  BY DEF Sound, IsSeq
<1>2. FlattenSeq(<<b>>) = b /\ FlattenSeq(<<>>) = <<>>
  BY <1>1, FlattenOne
<1>3. SoundBlocks(<<b>>)
  BY SingleIs DEF SoundBlocks
<1>4. SoundBlocks(<<>>)
  BY DEF SoundBlocks, IsSeq, ToSet
<1> QED
  BY <1>2, <1>3, <1>4

\* A block is appended to a queue.
LEMMA BlockAppended ==
  ASSUME NEW q, SoundBlocks(q), NEW b, Sound(b)
  PROVE  SoundBlocks(Append(q, b)) /\ FlattenSeq(Append(q, b)) = FlattenSeq(q) \o b
<1> DEFINE U == ToSet(q) \cup {b}
<1>1. q \in Seq(U) /\ b \in U
  BY DEF SoundBlocks, IsSeq
<1>2. Append(q, b) = q \o <<b>>
  BY <1>1, AppendIsConcat
<1>3. SoundBlocks(<<b>>) /\ FlattenSeq(<<b>>) = b
  BY BlockAlone
<1> QED
  BY <1>2, <1>3, BlocksConcat

\* The first block is taken from a queue.
LEMMA BlockTaken ==
  ASSUME NEW q, SoundBlocks(q), q # <<>>
  PROVE  /\ Sound(Head(q)) /\ SoundBlocks(Tail(q))
         /\ FlattenSeq(q) = Head(q) \o FlattenSeq(Tail(q))
<1> DEFINE U == ToSet(q)
           h == Head(q)
           t == Tail(q)
<1>1. q \in Seq(U)
  BY DEF SoundBlocks, IsSeq
<1>2. /\ t \in Seq(U) /\ h = q[1] /\ Len(t) = Len(q) - 1 /\ Len(q) \in Nat \ {0}
      /\ DOMAIN q = 1 .. Len(q) /\ \A i \in 1 .. Len(t) : t[i] = q[i + 1]
      /\ <<h>> \in Seq(U) /\ q = <<h>> \o t
  BY <1>1
<1> HIDE DEF h, t
<1>3. Sound(h)
  BY <1>2 DEF SoundBlocks
<1>4. SoundBlocks(t)
  <2>1. IsSeq(t) /\ DOMAIN t = 1 .. Len(t)
    BY <1>2, PiecesSeq
  <2>2. \A i \in 1 .. Len(t) : i + 1 \in 1 .. Len(q)
    BY <1>2
  <2>3. \A i \in DOMAIN t : Sound(t[i])
    BY <1>2, <2>1, <2>2 DEF SoundBlocks
  <2> QED
    BY <2>1, <2>3 DEF SoundBlocks
<1>5. SoundBlocks(<<h>>) /\ FlattenSeq(<<h>>) = h
  BY <1>3, BlockAlone
<1>6. FlattenSeq(q) = h \o FlattenSeq(t)
  BY <1>2, <1>4, <1>5, BlocksConcat
<1> QED
  BY <1>3, <1>4, <1>6 DEF h, t

\* The first chunk is taken from a sequence.
LEMMA ChunkTaken ==
  ASSUME NEW s, Sound(s), s # <<>>
  PROVE  Sound(<<Head(s)>>) /\ Sound(Tail(s)) /\ s = <<Head(s)>> \o Tail(s)
<1> DEFINE U == ToSet(s)
           h == Head(s)
           t == Tail(s)
<1>1. s \in Seq(U)
  BY DEF Sound, IsSeq
<1>2. /\ t \in Seq(U) /\ h = s[1] /\ Len(t) = Len(s) - 1 /\ Len(s) \in Nat \ {0}
      /\ DOMAIN s = 1 .. Len(s) /\ \A i \in 1 .. Len(t) : t[i] = s[i + 1]
      /\ s = <<h>> \o t
  BY <1>1
<1> HIDE DEF h, t
<1>3. Sound(<<h>>)
  BY <1>2, SaysOne DEF Sound
<1>4. Sound(t)
  <2>1. IsSeq(t) /\ DOMAIN t = 1 .. Len(t)
    BY <1>2, PiecesSeq
  <2>2. \A i \in 1 .. Len(t) : i + 1 \in 1 .. Len(s)
    BY <1>2
  <2>3. \A i \in DOMAIN t : SoundChunk(t[i])
    BY <1>2, <2>1, <2>2 DEF Sound
  <2> QED
    BY <2>1, <2>3 DEF Sound
<1> QED
  BY <1>2, <1>3, <1>4 DEF h, t

-----------------------------------------------------------------------------
(* The chunks of a stream, from the provider to the client                   *)

\* Four parts, one after the other.
Chained(a, b, c, d) == a \o (b \o (c \o d))

SoundParts(a, b, c, d, e) == Sound(a) /\ Sound(b) /\ Sound(c) /\ Sound(d) /\ Sound(e)

\* Chunks may pass from each part to the part before or after it.
LEMMA PartsPass ==
  ASSUME NEW a, NEW b, NEW c, NEW d, NEW e, SoundParts(a, b, c, d, e)
  PROVE  /\ Sound(Chained(a, b, c, d)) /\ Sound(a \o b) /\ Sound(b \o c) /\ Sound(c \o d)
         /\ Sound(d \o e) /\ Sound(b \o (c \o d))
         /\ Chained(a, b, c, d) \o e = Chained(a, b, c, d \o e)
         /\ Chained(a, b, c \o d, e) = Chained(a, b, c, d \o e)
         /\ Chained(a \o b, <<>>, c, d) = Chained(a, b, c, d)
         /\ Chained(a, <<>>, b \o c, d) = Chained(a, b, c, d)
         /\ Chained(a, b, <<>>, c \o d) = Chained(a, b, c, d)
         /\ Chained(a, <<>>, <<>>, b \o (c \o d)) = Chained(a, b, c, d)
<1> DEFINE U == {x \in ToSet(a) \cup ToSet(b) \cup ToSet(c) \cup ToSet(d) \cup ToSet(e) :
                   SoundChunk(x)}
<1>1. \A s \in Seq(U) : Sound(s)
  <2> SUFFICES ASSUME NEW s \in Seq(U) PROVE Sound(s)
    OBVIOUS
  <2>1. IsSeq(s) /\ DOMAIN s = 1 .. Len(s) /\ \A i \in 1 .. Len(s) : s[i] \in U
    BY PiecesSeq
  <2>2. \A i \in DOMAIN s : SoundChunk(s[i])
    BY <2>1 DEF U
  <2> QED
    BY <2>1, <2>2 DEF Sound
<1>2. ASSUME NEW s, Sound(s), ToSet(s) \subseteq ToSet(a) \cup ToSet(b) \cup ToSet(c) \cup ToSet(d) \cup ToSet(e)
      PROVE  s \in Seq(U)
  <2>1. Len(s) \in Nat /\ DOMAIN s = 1 .. Len(s) /\ s = [i \in 1 .. Len(s) |-> s[i]]
    BY <1>2, SeqIs DEF Sound
  <2>2. \A i \in 1 .. Len(s) : s[i] \in U
    BY <1>2, <2>1 DEF Sound, ToSet
  <2> HIDE DEF U
  <2> QED
    BY <2>1, <2>2
<1>3. a \in Seq(U) /\ b \in Seq(U) /\ c \in Seq(U) /\ d \in Seq(U) /\ e \in Seq(U)
  <2> DEFINE V == ToSet(a) \cup ToSet(b) \cup ToSet(c) \cup ToSet(d) \cup ToSet(e)
  <2>1. /\ ToSet(a) \subseteq V /\ ToSet(b) \subseteq V /\ ToSet(c) \subseteq V
        /\ ToSet(d) \subseteq V /\ ToSet(e) \subseteq V
    OBVIOUS
  <2> HIDE DEF U
  <2> QED
    BY <1>2, <2>1 DEF SoundParts
<1> HIDE DEF U
<1>4. \A s, t \in Seq(U) : s \o t \in Seq(U) /\ s \o <<>> = s /\ <<>> \o s = s
  BY ConcatProperties, ConcatEmptySeq
<1>5. \A s, t, u \in Seq(U) : (s \o t) \o u = s \o (t \o u)
  BY ConcatAssociative
<1>6. <<>> \in Seq(U)
  OBVIOUS
<1> DEFINE cd == c \o d
           bcd == b \o cd
           bc == b \o c
           de == d \o e
<1>7. cd \in Seq(U) /\ bc \in Seq(U) /\ de \in Seq(U) /\ a \o b \in Seq(U)
  BY <1>3, <1>4
<1>8. bc \o d = b \o cd /\ cd \o e = c \o de
  <2>1. (b \o c) \o d = b \o (c \o d)
    <3>1. b \in Seq(U) /\ c \in Seq(U) /\ d \in Seq(U)
      BY <1>3
    <3> HIDE DEF cd, bcd, bc, de
    <3> QED
      BY <3>1, <1>5
  <2>2. (c \o d) \o e = c \o (d \o e)
    <3>1. c \in Seq(U) /\ d \in Seq(U) /\ e \in Seq(U)
      BY <1>3
    <3> HIDE DEF cd, bcd, bc, de
    <3> QED
      BY <3>1, <1>5
  <2> QED
    BY <2>1, <2>2
<1> HIDE DEF cd, bc, de
<1>9. bcd \in Seq(U) /\ bcd \o e = b \o (cd \o e) /\ (a \o b) \o cd = a \o bcd
  <2>1. b \o cd \in Seq(U)
    BY <1>3, <1>7, ConcatProperties
  <2>2. (b \o cd) \o e = b \o (cd \o e)
    <3>1. b \in Seq(U) /\ cd \in Seq(U) /\ e \in Seq(U)
      BY <1>3, <1>7
    <3> QED
      BY <3>1, ConcatAssociative
  <2>3. (a \o b) \o cd = a \o (b \o cd)
    <3>1. a \in Seq(U) /\ b \in Seq(U) /\ cd \in Seq(U)
      BY <1>3, <1>7
    <3> QED
      BY <3>1, ConcatAssociative
  <2> QED
    BY <2>1, <2>2, <2>3
<1> HIDE DEF bcd
<1>10. (a \o bcd) \o e = a \o (bcd \o e) /\ a \o bcd \in Seq(U)
  <2>1. a \o bcd \in Seq(U)
    BY <1>3, <1>9, ConcatProperties
  <2>2. (a \o bcd) \o e = a \o (bcd \o e)
    <3>1. a \in Seq(U) /\ bcd \in Seq(U) /\ e \in Seq(U)
      BY <1>3, <1>9
    <3> QED
      BY <3>1, ConcatAssociative
  <2> QED
    BY <2>1, <2>2
<1>11. /\ Sound(a \o bcd) /\ Sound(a \o b) /\ Sound(bc) /\ Sound(cd) /\ Sound(de) /\ Sound(bcd)
  BY <1>1, <1>7, <1>9, <1>10
<1>12. a \o (b \o (cd \o e)) = a \o (b \o (c \o de))
  BY <1>8
<1>13. (a \o b) \o (<<>> \o cd) = a \o bcd
  BY <1>4, <1>6, <1>7, <1>9
<1>14. a \o (<<>> \o (bc \o d)) = a \o bcd
  <2>1. <<>> \o bcd = bcd
    BY <1>4, <1>6, <1>9
  <2> QED
    BY <1>8, <2>1 DEF bcd
<1>15. a \o (b \o (<<>> \o cd)) = a \o bcd
  <2>1. <<>> \o cd = cd
    BY <1>4, <1>6, <1>7
  <2> QED
    BY <2>1 DEF bcd
<1>16. a \o (<<>> \o (<<>> \o bcd)) = a \o bcd
  <2>1. <<>> \o bcd = bcd
    BY <1>4, <1>6, <1>9
  <2> QED
    BY <2>1
<1>17. (a \o bcd) \o e = a \o (b \o (c \o de))
  BY <1>8, <1>9, <1>10
<1> QED
  BY <1>11, <1>12, <1>13, <1>14, <1>15, <1>16, <1>17 DEF Chained, cd, bc, de, bcd

\* What the generator has made of the last event and not yet given away.
Out == IF source = "openai" THEN FlattenSeq(gen.out) ELSE gen.out

\* Nobody has lost anything on the way to the client.
Live == client.state # "gone" /\ gen.state # "threw"

FlowTypes ==
  /\ DOMAIN gen = GenFields /\ DOMAIN client = {"state", "got", "replay"}
  /\ DOMAIN copy = {"state", "blocks"}
  /\ SoundBlocks(serve) /\ (red = <<>> \/ (red = <<red[1]>> /\ Sound(red[1])))
  /\ IF source = "openai" THEN SoundBlocks(gen.out) ELSE Sound(gen.out)
  /\ gen.state \notin {"running", "returning"} => gen.out = <<>>
  /\ client.state = "done" => serve = <<>> /\ red = <<>> /\ gen.state = "returned"

\* Of all the chunks that were made the client has seen some, redacted, some are
\* on their way in this order, and the rest comes or is lost.
Under(all, seen, rest) ==
  /\ Sound(seen) /\ Sound(rest) /\ client.got = redacted(seen)
  /\ all = Chained(seen, FlattenSeq(red), FlattenSeq(serve), rest)
  /\ Live => rest = Out

\* So it is with what is captured, but that nothing of it is lost.
Copied(all) ==
  copy.state \in {"reading", "whole"} =>
    SoundBlocks(copy.blocks) /\ all = FlattenSeq(copy.blocks) \o Out

Flow(all) == FlowTypes /\ Copied(all) /\ \E seen, rest : Under(all, seen, rest)

\* The chunks on their way are sound.
LEMMA FlowSound ==
  ASSUME FlowTypes
  PROVE  Sound(Out) /\ Sound(FlattenSeq(serve)) /\ Sound(FlattenSeq(red)) /\ SoundBlocks(red)
<1>1. SoundBlocks(<<>>) /\ FlattenSeq(<<>>) = <<>> /\ Sound(<<>>)
  BY SaysNothing, BlockAlone
<1>2. Sound(Out)
  <2>1. CASE source = "openai"
    BY <1>1, <2>1, BlocksConcat DEF FlowTypes, Out
  <2>2. CASE source # "openai"
    BY <2>2 DEF FlowTypes, Out
  <2> QED
    BY <2>1, <2>2
<1>3. Sound(FlattenSeq(serve))
  BY <1>1, BlocksConcat DEF FlowTypes
<1>4. Sound(FlattenSeq(red)) /\ SoundBlocks(red)
  BY <1>1, BlockAlone DEF FlowTypes
<1> QED
  BY <1>2, <1>3, <1>4

\* Before anything is said.
LEMMA FlowStarts == StreamInit => Flow(<<>>)
<1> SUFFICES ASSUME StreamInit PROVE Flow(<<>>)
  OBVIOUS
<1>1. /\ SoundBlocks(<<>>) /\ FlattenSeq(<<>>) = <<>> /\ Sound(<<>>) /\ redacted(<<>>) = <<>>
      /\ <<>> \o <<>> = <<>> /\ Chained(<<>>, <<>>, <<>>, <<>>) = <<>>
  BY SaysNothing, BlockAlone, SoundAssociative DEF Chained
<1>2. FlowTypes
  BY <1>1 DEF StreamInit, FlowTypes, GenFields
<1>3. Out = <<>> /\ copy.blocks = <<>> /\ client.got = <<>> /\ serve = <<>> /\ red = <<>>
  BY <1>1 DEF Out, StreamInit
<1>4. Copied(<<>>)
  BY <1>1, <1>3 DEF Copied
<1>5. Under(<<>>, <<>>, <<>>)
  BY <1>1, <1>3 DEF Under
<1> QED
  BY <1>2, <1>4, <1>5 DEF Flow

\* What the generator makes of an event, or of the end of the body, is added to
\* all there is.
LEMMA FlowGrows ==
  ASSUME NEW all, Flow(all), gen.state = "running", gen.out = <<>>, client.state = "reading",
         UNCHANGED <<source, serve, red, copy, client>>,
         DOMAIN gen' = GenFields, gen'.state \in {"running", "returning"},
         IF source = "openai" THEN SoundBlocks(gen'.out) ELSE Sound(gen'.out),
         NEW more, more = Out'
  PROVE  Flow(all \o more)'
<1>1. FlowTypes /\ FlowTypes'
  BY DEF Flow, FlowTypes
<1>2. Out = <<>>
  <2>1. FlattenSeq(<<>>) = <<>>
    BY SaysNothing, BlockAlone
  <2> QED
    BY <2>1 DEF Out
<1>3. /\ Sound(FlattenSeq(red)) /\ Sound(FlattenSeq(serve)) /\ Sound(<<>>)
  BY <1>1, FlowSound, SaysNothing
<1>4. Sound(more)
  <2>1. (FlowTypes => Sound(Out))'
    BY FlowSound, PTL
  <2> QED
    BY <1>1, <2>1
<1>5. PICK seen, rest : Under(all, seen, rest)
  BY DEF Flow
<1>6. /\ Sound(seen) /\ client.got = redacted(seen) /\ rest = <<>>
      /\ all = Chained(seen, FlattenSeq(red), FlattenSeq(serve), <<>>)
  BY <1>2, <1>5 DEF Under, Live
<1>7. all \o more = Chained(seen, FlattenSeq(red), FlattenSeq(serve), more)
  <2> DEFINE b == FlattenSeq(red)
             c == FlattenSeq(serve)
             d == <<>>
  <2>1. SoundParts(seen, b, c, d, more)
    BY <1>3, <1>4, <1>6 DEF SoundParts
  <2>4. all = Chained(seen, b, c, d)
    BY <1>6
  <2> HIDE DEF b, c, d
  <2>5. Chained(seen, b, c, d) \o more = Chained(seen, b, c, d \o more)
    BY <2>1, PartsPass
  <2>2. all \o more = Chained(seen, FlattenSeq(red), FlattenSeq(serve), <<>> \o more)
    BY <2>4, <2>5 DEF b, c, d
  <2>3. <<>> \o more = more
    BY <1>4, SoundAssociative
  <2> QED
    BY <2>2, <2>3
<1>8. Under(all \o more, seen, more)'
  BY <1>4, <1>6, <1>7 DEF Under
<1>9. Copied(all \o more)'
  <2> SUFFICES ASSUME copy.state \in {"reading", "whole"}
               PROVE  SoundBlocks(copy.blocks) /\ all \o more = FlattenSeq(copy.blocks) \o more
    BY DEF Copied
  <2>1. SoundBlocks(copy.blocks) /\ all = FlattenSeq(copy.blocks) \o <<>>
    BY <1>2 DEF Flow, Copied
  <2>2. Sound(FlattenSeq(copy.blocks))
    BY <2>1, BlocksConcat
  <2> QED
    BY <2>1, <2>2, <1>3, SoundAssociative
<1> QED
  BY <1>1, <1>8, <1>9 DEF Flow

\* The first block of what there is.
LEMMA OutTaken ==
  ASSUME FlowTypes, gen.out # <<>>,
         NEW block, block = IF source = "openai" THEN Head(gen.out) ELSE <<Head(gen.out)>>,
         NEW out, out = Tail(gen.out),
         NEW left, left = IF source = "openai" THEN FlattenSeq(out) ELSE out
  PROVE  /\ Sound(block) /\ Sound(left) /\ Out = block \o left
         /\ IF source = "openai" THEN SoundBlocks(out) ELSE Sound(out)
<1>1. CASE source = "openai"
  <2>1. SoundBlocks(gen.out) /\ Out = FlattenSeq(gen.out)
    BY <1>1 DEF FlowTypes, Out
  <2>2. /\ Sound(Head(gen.out)) /\ SoundBlocks(Tail(gen.out))
        /\ FlattenSeq(gen.out) = Head(gen.out) \o FlattenSeq(Tail(gen.out))
    BY <2>1, BlockTaken
  <2>3. Sound(FlattenSeq(Tail(gen.out)))
    BY <2>2, BlocksConcat
  <2> QED
    BY <1>1, <2>1, <2>2, <2>3
<1>2. CASE source # "openai"
  <2>1. Sound(gen.out) /\ Out = gen.out
    BY <1>2 DEF FlowTypes, Out
  <2>2. Sound(<<Head(gen.out)>>) /\ Sound(Tail(gen.out)) /\ gen.out = <<Head(gen.out)>> \o Tail(gen.out)
    BY <2>1, ChunkTaken
  <2> QED
    BY <1>2, <2>1, <2>2
<1> QED
  BY <1>1, <1>2

\* A capture that reads holds all but what is left.
Copying(c, all, left) ==
  /\ DOMAIN c = {"state", "blocks"} /\ c.state # "whole"
  /\ c.state = "reading" => SoundBlocks(c.blocks) /\ all = FlattenSeq(c.blocks) \o left

\* What is taken is captured, or the capture is given up.
LEMMA CopiedMore ==
  ASSUME NEW all, NEW b, Sound(b), NEW left, Sound(left), Copying(copy, all, b \o left)
  PROVE  Copying(Captured(b), all, left)
<1> DEFINE more == Captured(b)
<1>4. DOMAIN copy = {"state", "blocks"} /\ copy.state # "whole"
  BY DEF Copying
<1>1. CASE copy.state # "reading"
  BY <1>1, <1>4 DEF Captured, Copying
<1>2. CASE copy.state = "reading" /\ Len(copy.blocks) = MaxCached
  BY <1>2 DEF Captured, Copying
<1>3. CASE copy.state = "reading" /\ Len(copy.blocks) # MaxCached
  <2>1. more = [copy EXCEPT !.blocks = Append(copy.blocks, b)]
    BY <1>3 DEF Captured
  <2>2. /\ DOMAIN more = {"state", "blocks"} /\ more.state = "reading"
        /\ more.blocks = Append(copy.blocks, b)
    BY <1>3, <1>4, <2>1
  <2> HIDE DEF more
  <2> DEFINE old == copy.blocks
             f == FlattenSeq(old)
  <2>3. SoundBlocks(old) /\ all = f \o (b \o left)
    BY <1>3 DEF Copying
  <2> HIDE DEF old
  <2>4. SoundBlocks(Append(old, b)) /\ FlattenSeq(Append(old, b)) = f \o b
    BY <2>3, BlockAppended
  <2>5. Sound(f)
    BY <2>3, BlocksConcat
  <2> HIDE DEF f
  <2>6. (f \o b) \o left = f \o (b \o left)
    <3>1. Sound(f) /\ Sound(b) /\ Sound(left)
      BY <2>5
    <3> QED
      BY <3>1, SoundOrder
  <2>7. SoundBlocks(more.blocks) /\ all = FlattenSeq(more.blocks) \o left
    BY <2>2, <2>3, <2>4, <2>6 DEF old
  <2>8. Copying(more, all, left)
    BY <2>2, <2>7 DEF Copying
  <2> QED
    BY <2>8 DEF more
<1> QED
  BY <1>1, <1>2, <1>3

\* A block is taken for the client, if it is there, and for the capture.
LEMMA FlowYields ==
  ASSUME NEW all, Flow(all), CaptureInv, Yield
  PROVE  Flow(all)'
<1> DEFINE block == IF source = "openai" THEN Head(gen.out) ELSE <<Head(gen.out)>>
           left == IF source = "openai" THEN FlattenSeq(Tail(gen.out)) ELSE Tail(gen.out)
<1>1. /\ UNCHANGED <<source, red, client>> /\ gen.out # <<>> /\ gen.state \in {"running", "returning"}
      /\ gen' = [gen EXCEPT !.out = Tail(gen.out)]
      /\ serve' = Enqueued(block) /\ copy' = Captured(block)
  BY DEF Yield
<1>2. FlowTypes /\ Copied(all)
  BY DEF Flow
<1>3. /\ Sound(block) /\ Sound(left) /\ Out = block \o left
      /\ IF source = "openai" THEN SoundBlocks(Tail(gen.out)) ELSE Sound(Tail(gen.out))
  BY <1>1, <1>2, OutTaken
<1>4. /\ DOMAIN gen' = GenFields /\ gen'.out = Tail(gen.out) /\ gen'.state = gen.state
      /\ Out' = left
  <2>1. DOMAIN gen' = GenFields /\ gen'.out = Tail(gen.out) /\ gen'.state = gen.state
    BY <1>1, <1>2 DEF FlowTypes, GenFields
  <2> QED
    BY <1>1, <2>1 DEF Out
<1> HIDE DEF block, left
<1>5. client.state # "done"
  BY <1>1, <1>2 DEF FlowTypes
<1>6. /\ copy.state # "whole"
      /\ copy.state = "reading" =>
           SoundBlocks(copy.blocks) /\ all = FlattenSeq(copy.blocks) \o (block \o left)
  BY <1>1, <1>2, <1>3 DEF CaptureInv, Copied
<1>7. Copying(copy', all, left)
  <2>1. Copying(copy, all, block \o left)
    BY <1>2, <1>6 DEF FlowTypes, Copying
  <2>2. copy' = Captured(block)
    BY <1>1
  <2>3. Copying(Captured(block), all, left)
    BY <1>3, <2>1, CopiedMore
  <2> QED
    BY <2>2, <2>3
<1>14. /\ DOMAIN copy' = {"state", "blocks"} /\ copy'.state # "whole"
       /\ copy'.state = "reading" =>
            SoundBlocks(copy'.blocks) /\ all = FlattenSeq(copy'.blocks) \o left
  BY <1>7 DEF Copying
<1>8. Copied(all)'
  BY <1>4, <1>14 DEF Copied
<1>9. PICK seen, rest : Under(all, seen, rest)
  BY DEF Flow
<1> DEFINE r == FlattenSeq(red)
           s == FlattenSeq(serve)
<1>10. /\ Sound(seen) /\ Sound(rest) /\ client.got = redacted(seen)
       /\ all = Chained(seen, r, s, rest)
       /\ Live => rest = block \o left
  BY <1>3, <1>9 DEF Under
<1>11. Sound(r) /\ Sound(s) /\ SoundBlocks(serve)
  BY <1>2, FlowSound DEF FlowTypes
<1>12. CASE client.state = "gone"
  <2>1. serve' = serve /\ ~Live'
    BY <1>1, <1>12 DEF Enqueued, Live
  <2>2. FlowTypes'
    BY <1>1, <1>2, <1>3, <1>4, <1>5, <1>14, <2>1 DEF FlowTypes
  <2>3. Under(all, seen, rest)'
    BY <1>1, <1>10, <2>1 DEF Under
  <2> QED
    BY <1>8, <2>2, <2>3 DEF Flow
<1>13. CASE client.state # "gone"
  <2>1. serve' = Append(serve, block) /\ Live
    BY <1>1, <1>13 DEF Enqueued, Live
  <2>2. SoundBlocks(serve') /\ FlattenSeq(serve') = s \o block
    BY <1>3, <1>11, <2>1, BlockAppended
  <2>3. FlowTypes'
    BY <1>1, <1>2, <1>3, <1>4, <1>5, <1>14, <2>2 DEF FlowTypes
  <2> HIDE DEF r, s
  <2>4. SoundParts(seen, r, s, block, left)
    BY <1>3, <1>10, <1>11 DEF SoundParts
  <2>5. Chained(seen, r, s \o block, left) = Chained(seen, r, s, block \o left)
    BY <2>4, PartsPass
  <2>6. all = Chained(seen, r, s \o block, left)
    BY <1>10, <2>1, <2>5
  <2>8. all = Chained(seen, FlattenSeq(red'), FlattenSeq(serve'), left)
    <3>1. red' = red
      BY <1>1
    <3> QED
      BY <2>2, <2>6, <3>1 DEF r
  <2>9. Sound(seen) /\ Sound(left) /\ client'.got = redacted(seen)
    BY <1>1, <1>3, <1>10
  <2>11. PICK new : new = left
    OBVIOUS
  <2>7. Under(all, seen, new)'
    BY <1>4, <2>8, <2>9, <2>11 DEF Under
  <2> QED
    BY <1>8, <2>3, <2>7 DEF Flow
<1> QED
  BY <1>12, <1>13

\* What is on its way when the stream breaks is lost; a client that leaves loses
\* all, and a generator that is cancelled says nothing more.
LEMMA FlowBreaks ==
  ASSUME NEW all, Flow(all), CaptureInv, Throws \/ CancelBody \/ CancelSource
  PROVE  Flow(all)'
<1>1. FlowTypes /\ Copied(all)
  BY DEF Flow
<1>2. PICK seen, rest : Under(all, seen, rest)
  BY DEF Flow
<1> DEFINE r == FlattenSeq(red)
           s == FlattenSeq(serve)
<1>3. Sound(r) /\ Sound(s) /\ Sound(<<>>) /\ FlattenSeq(<<>>) = <<>> /\ SoundBlocks(<<>>)
  BY <1>1, FlowSound, SaysNothing, BlockAlone
<1>4. /\ Sound(seen) /\ Sound(rest) /\ client.got = redacted(seen)
      /\ all = Chained(seen, r, s, rest) /\ (Live => rest = Out)
  BY <1>2 DEF Under
<1>5. /\ Sound(s \o rest) /\ Sound(r \o (s \o rest))
      /\ Chained(seen, r, <<>>, s \o rest) = all
      /\ Chained(seen, <<>>, <<>>, r \o (s \o rest)) = all
  <2> HIDE DEF r, s
  <2>1. SoundParts(seen, r, s, rest, rest)
    BY <1>3, <1>4 DEF SoundParts
  <2> QED
    BY <1>4, <2>1, PartsPass
<1>6. CASE Throws
  <2>1. /\ UNCHANGED <<source, red, client>> /\ gen.state = "running" /\ gen.out = <<>>
        /\ gen' = [gen EXCEPT !.state = "threw"] /\ serve' = <<>>
        /\ copy' = IF copy.state = "reading" THEN [state |-> "broken", blocks |-> <<>>] ELSE copy
    BY <1>6 DEF Throws, Running
  <2>2. DOMAIN gen' = GenFields /\ gen'.state = "threw" /\ gen'.out = <<>>
    BY <1>1, <2>1 DEF FlowTypes, GenFields
  <2>3. copy.state # "whole"
    BY <2>1 DEF CaptureInv
  <2>4. DOMAIN copy' = {"state", "blocks"} /\ copy'.state \notin {"reading", "whole"}
    BY <1>1, <2>1, <2>3 DEF FlowTypes
  <2>5. FlowTypes'
    <3>1. Sound(<<>>) /\ SoundBlocks(<<>>) /\ client.state # "done"
      BY <1>1, <1>3, <2>1 DEF FlowTypes
    <3> QED
      BY <1>1, <2>1, <2>2, <2>4, <3>1 DEF FlowTypes
  <2>6. Copied(all)'
    BY <2>4 DEF Copied
  <2>8. all = Chained(seen, FlattenSeq(red'), FlattenSeq(serve'), s \o rest)
    <3>1. red' = red /\ FlattenSeq(serve') = <<>>
      BY <1>3, <2>1
    <3> QED
      BY <1>5, <3>1
  <2>9. Sound(seen) /\ Sound(s \o rest) /\ client'.got = redacted(seen)
    BY <1>4, <1>5, <2>1
  <2>10. ~Live'
    BY <2>2 DEF Live
  <2>11. PICK new : new = s \o rest
    OBVIOUS
  <2>7. Under(all, seen, new)'
    BY <2>8, <2>9, <2>10, <2>11 DEF Under
  <2> QED
    BY <2>5, <2>6, <2>7 DEF Flow
<1>7. CASE CancelBody
  <2>1. /\ UNCHANGED <<source, gen, copy>> /\ serve' = <<>> /\ red' = <<>>
        /\ client' = [client EXCEPT !.state = "gone"]
    BY <1>7 DEF CancelBody
  <2>2. DOMAIN client' = {"state", "got", "replay"} /\ client'.state = "gone" /\ client'.got = client.got
    BY <1>1, <2>1 DEF FlowTypes
  <2>3. FlowTypes'
    BY <1>1, <1>3, <2>1, <2>2 DEF FlowTypes
  <2>4. Copied(all)'
    BY <1>1, <2>1 DEF Copied, Out
  <2>8. all = Chained(seen, FlattenSeq(red'), FlattenSeq(serve'), r \o (s \o rest))
    <3>1. FlattenSeq(red') = <<>> /\ FlattenSeq(serve') = <<>>
      BY <1>3, <2>1
    <3> QED
      BY <1>5, <3>1
  <2>9. Sound(seen) /\ Sound(r \o (s \o rest)) /\ client'.got = redacted(seen)
    BY <1>4, <1>5, <2>2
  <2>10. ~Live'
    BY <2>2 DEF Live
  <2>11. PICK new : new = r \o (s \o rest)
    OBVIOUS
  <2>5. Under(all, seen, new)'
    BY <2>8, <2>9, <2>10, <2>11 DEF Under
  <2> QED
    BY <2>3, <2>4, <2>5 DEF Flow
<1>8. CASE CancelSource
  <2>1. /\ UNCHANGED <<source, serve, red, copy, client>> /\ client.state = "gone"
        /\ copy.state # "reading" /\ gen.state \in {"running", "returning"}
        /\ gen' = [gen EXCEPT !.state = "cancelled", !.out = <<>>]
    BY <1>8 DEF CancelSource, flow
  <2>2. DOMAIN gen' = GenFields /\ gen'.state = "cancelled" /\ gen'.out = <<>>
    BY <1>1, <2>1 DEF FlowTypes, GenFields
  <2>3. copy.state # "whole"
    BY <2>1 DEF CaptureInv
  <2>4. FlowTypes'
    BY <1>1, <1>3, <2>1, <2>2 DEF FlowTypes
  <2>5. Copied(all)'
    BY <2>1, <2>3 DEF Copied
  <2>6. Under(all, seen, rest)'
    BY <1>4, <2>1 DEF Under, Live
  <2> QED
    BY <2>4, <2>5, <2>6 DEF Flow
<1> QED
  BY <1>6, <1>7, <1>8

\* The chunk that ends a stream, if it is the provider's to make.
Ending == IF source = "openai" THEN <<>> ELSE <<DoneChunk>>

\* It says nothing.
LEMMA EndingIs ==
  /\ SoundChunk(DoneChunk) /\ Sound(<<DoneChunk>>) /\ Deltas(<<DoneChunk>>) = <<>>
  /\ Texts(<<DoneChunk>>) = 0 /\ FinishOf(<<DoneChunk>>) = ""
<1>1. DoneChunk.calls = <<>> /\ DoneChunk.text = 0 /\ DoneChunk.finish = ""
  BY DEF DoneChunk, Chunk
<1>2. SoundChunk(DoneChunk)
  <2>1. <<>> \in Seq(Pieces)
    OBVIOUS
  <2>2. DoneChunk.text # 1
    BY DEF DoneChunk, Chunk
  <2>3. DoneChunk.calls \in Seq(Pieces) /\ DoneChunk.calls = <<>> /\ DoneChunk.finish = ""
    BY <1>1, <2>1
  <2> QED
    BY <2>2, <2>3 DEF SoundChunk
<1> QED
  BY <1>1, <1>2, SaysOne

\* The stream ends, and with it what is captured.
LEMMA FlowReturns ==
  ASSUME NEW all, Flow(all), CaptureInv, Returns, NEW end, end = Ending
  PROVE  Flow(all \o end)'
<1>1. /\ UNCHANGED <<source, red, client>> /\ gen.state = "returning" /\ gen.out = <<>>
      /\ gen' = [gen EXCEPT !.state = "returned"]
      /\ serve' = IF source = "openai" THEN serve ELSE Enqueued(<<DoneChunk>>)
      /\ copy' = IF Closing.state = "reading" THEN [Closing EXCEPT !.state = "whole"] ELSE Closing
  BY DEF Returns
<1>2. FlowTypes /\ Copied(all)
  BY DEF Flow
<1>3. Sound(<<>>) /\ FlattenSeq(<<>>) = <<>> /\ Sound(end) /\ SoundBlocks(<<>>)
  BY SaysNothing, BlockAlone, EndingIs DEF Ending
<1>4. Out = <<>> /\ Out' = <<>> /\ DOMAIN gen' = GenFields /\ gen'.state = "returned" /\ gen'.out = <<>>
  <2>1. DOMAIN gen' = GenFields /\ gen'.state = "returned" /\ gen'.out = <<>>
    BY <1>1, <1>2 DEF FlowTypes, GenFields
  <2> QED
    BY <1>1, <1>3, <2>1 DEF Out
<1>5. client.state # "done"
  BY <1>1, <1>2 DEF FlowTypes
<1> DEFINE r == FlattenSeq(red)
           s == FlattenSeq(serve)
<1>6. PICK seen, rest : Under(all, seen, rest)
  BY DEF Flow
<1>7. /\ Sound(seen) /\ Sound(rest) /\ client.got = redacted(seen)
      /\ all = Chained(seen, r, s, rest) /\ (Live => rest = <<>>)
  BY <1>4, <1>6 DEF Under
<1>8. Sound(r) /\ Sound(s)
  BY <1>2, FlowSound
<1>9. Copying(Closing, all \o end, <<>>)
  <2>1. Copying(copy, all, <<>>)
    BY <1>1, <1>2, <1>4 DEF FlowTypes, CaptureInv, Copied, Copying
  <2>2. Sound(all)
    <3> HIDE DEF r, s
    <3>1. SoundParts(seen, r, s, rest, rest)
      BY <1>7, <1>8 DEF SoundParts
    <3> QED
      BY <1>7, <3>1, PartsPass
  <2>3. CASE source = "openai"
    BY <2>1, <2>2, <2>3, SoundAssociative DEF Closing, Ending
  <2>4. CASE source # "openai"
    <3>1. Closing = Captured(end) /\ end = <<DoneChunk>>
      BY <2>4 DEF Closing, Ending
    <3>2. Copying(copy, all \o end, end \o <<>>)
      <4>1. end \o <<>> = end
        BY <1>3, SoundAssociative
      <4>2. ASSUME SoundBlocks(copy.blocks), all = FlattenSeq(copy.blocks) \o <<>>
            PROVE  all \o end = FlattenSeq(copy.blocks) \o end
        <5>1. Sound(FlattenSeq(copy.blocks))
          BY <4>2, BlocksConcat
        <5> QED
          BY <4>2, <5>1, SoundAssociative
      <4> QED
        BY <2>1, <4>1, <4>2 DEF Copying
    <3>3. Copying(Captured(end), all \o end, <<>>)
      BY <1>3, <3>2, CopiedMore
    <3> QED
      BY <3>1, <3>3
  <2> QED
    BY <2>3, <2>4
<1>10. /\ DOMAIN copy' = {"state", "blocks"}
       /\ copy'.state \in {"reading", "whole"} =>
            SoundBlocks(copy'.blocks) /\ all \o end = FlattenSeq(copy'.blocks) \o <<>>
  <2> HIDE DEF Closing
  <2>1. CASE Closing.state = "reading"
    <3>1. DOMAIN copy' = {"state", "blocks"} /\ copy'.blocks = Closing.blocks
      BY <1>1, <1>9, <2>1 DEF Copying
    <3> QED
      BY <1>9, <2>1, <3>1 DEF Copying
  <2>2. CASE Closing.state # "reading"
    <3>1. copy' = Closing
      BY <1>1, <2>2
    <3> QED
      BY <1>9, <2>2, <3>1 DEF Copying
  <2> QED
    BY <2>1, <2>2
<1>11. Copied(all \o end)'
  BY <1>4, <1>10 DEF Copied
<1>12. /\ SoundBlocks(serve')
       /\ \E new : Sound(new) /\ (Live' => new = <<>>)
                   /\ all \o end = Chained(seen, FlattenSeq(red'), FlattenSeq(serve'), new)
  <2>1. red' = red
    BY <1>1
  <2>2. SoundParts(seen, r, s, rest, end)
    BY <1>3, <1>7, <1>8 DEF SoundParts
  <2>3. all \o end = Chained(seen, r, s, rest \o end) /\ Sound(rest \o end)
    <3> HIDE DEF r, s
    <3>1. Chained(seen, r, s, rest) \o end = Chained(seen, r, s, rest \o end) /\ Sound(rest \o end)
      BY <2>2, PartsPass
    <3> QED
      BY <1>7, <3>1
  <2>4. CASE source = "openai"
    <3>1. end = <<>> /\ rest \o end = rest /\ serve' = serve
      BY <1>1, <1>7, <2>4, SoundAssociative DEF Ending
    <3>2. Live' => Live
      BY <1>1 DEF Live
    <3> QED
      BY <1>2, <1>7, <2>1, <2>3, <3>1, <3>2 DEF FlowTypes
  <2>5. CASE source # "openai" /\ client.state = "gone"
    <3>1. serve' = serve /\ ~Live'
      BY <1>1, <2>5 DEF Enqueued, Live
    <3> QED
      BY <1>2, <2>1, <2>3, <3>1 DEF FlowTypes
  <2>6. CASE source # "openai" /\ client.state # "gone"
    <3>1. serve' = Append(serve, end) /\ rest = <<>> /\ SoundBlocks(serve)
      BY <1>1, <1>2, <1>7, <2>6 DEF Enqueued, Live, Ending, FlowTypes
    <3>2. SoundBlocks(serve') /\ FlattenSeq(serve') = s \o end
      BY <1>3, <3>1, BlockAppended
    <3>3. all \o end = Chained(seen, r, s \o end, <<>>)
      <4> DEFINE z == <<>>
      <4>1. SoundParts(seen, r, s, end, z)
        BY <1>3, <2>2 DEF SoundParts
      <4> HIDE DEF r, s, z
      <4>4. Chained(seen, r, s \o end, z) = Chained(seen, r, s, end \o z)
        BY <4>1, PartsPass
      <4>2. Chained(seen, r, s \o end, <<>>) = Chained(seen, r, s, end \o <<>>)
        BY <4>4 DEF z
      <4>3. end \o <<>> = end /\ rest \o end = end
        BY <1>3, <3>1, SoundAssociative
      <4> QED
        BY <2>3, <4>2, <4>3
    <3> QED
      BY <1>3, <2>1, <3>2, <3>3
  <2> QED
    BY <2>4, <2>5, <2>6
<1>13. FlowTypes'
  BY <1>1, <1>2, <1>3, <1>4, <1>5, <1>10, <1>12 DEF FlowTypes
<1>14. PICK new : /\ Sound(new) /\ (Live' => new = <<>>)
                  /\ all \o end = Chained(seen, FlattenSeq(red'), FlattenSeq(serve'), new)
  BY <1>12
<1>15. Under(all \o end, seen, new)'
  BY <1>1, <1>4, <1>7, <1>14 DEF Under
<1> QED
  BY <1>11, <1>13, <1>15 DEF Flow

\* The redaction takes a block, when it has room.
LEMMA FlowPipes ==
  ASSUME NEW all, Flow(all), Pipe
  PROVE  Flow(all)'
<1>1. /\ UNCHANGED <<source, gen, copy, client>> /\ serve # <<>> /\ red = <<>>
      /\ red' = <<Head(serve)>> /\ serve' = Tail(serve)
  BY DEF Pipe
<1>2. FlowTypes /\ Copied(all)
  BY DEF Flow
<1> DEFINE s == FlattenSeq(serve)
           h == Head(serve)
           t == FlattenSeq(Tail(serve))
<1>3. Sound(h) /\ SoundBlocks(Tail(serve)) /\ s = h \o t
  BY <1>1, <1>2, BlockTaken DEF FlowTypes
<1>4. Sound(t) /\ FlattenSeq(<<h>>) = h /\ FlattenSeq(<<>>) = <<>> /\ Sound(<<>>)
  BY <1>3, BlocksConcat, BlockAlone, SaysNothing
<1>5. PICK seen, rest : Under(all, seen, rest)
  BY DEF Flow
<1>6. /\ Sound(seen) /\ Sound(rest) /\ client.got = redacted(seen)
      /\ all = Chained(seen, <<>>, s, rest) /\ (Live => rest = Out)
  BY <1>1, <1>4, <1>5 DEF Under
<1>7. red' = <<h>> /\ FlattenSeq(red') = h /\ FlattenSeq(serve') = t
  BY <1>1, <1>4
<1>8. FlowTypes'
  <2>1. red' = <<red'[1]>> /\ Sound(red'[1])
    BY <1>3, <1>7
  <2>2. client.state # "done"
    BY <1>1, <1>2 DEF FlowTypes
  <2> HIDE DEF h, t
  <2> QED
    BY <1>1, <1>2, <1>3, <2>1, <2>2 DEF FlowTypes
<1> HIDE DEF s, h, t
<1>9. all = Chained(seen, h, t, rest)
  <2>1. SoundParts(seen, h, t, rest, <<>>)
    BY <1>3, <1>4, <1>6 DEF SoundParts
  <2>2. Chained(seen, <<>>, h \o t, rest) = Chained(seen, h, t, rest)
    BY <2>1, PartsPass
  <2> QED
    BY <1>3, <1>6, <2>2
<1>10. Copied(all)'
  BY <1>1, <1>2 DEF Copied, Out
<1>11. all = Chained(seen, FlattenSeq(red'), FlattenSeq(serve'), rest)
  BY <1>7, <1>9
<1>12. client'.got = redacted(seen) /\ (Live' => rest = Out')
  BY <1>1, <1>6 DEF Live, Out
<1>13. Under(all, seen, rest)'
  BY <1>6, <1>11, <1>12 DEF Under
<1> QED
  BY <1>8, <1>10, <1>13 DEF Flow

\* The client gets a block.
LEMMA FlowDelivers ==
  ASSUME NEW all, Flow(all), Deliver
  PROVE  Flow(all)'
<1> DEFINE b == red[1]
           s == FlattenSeq(serve)
<1>1. /\ UNCHANGED <<source, gen, serve, copy>> /\ red # <<>> /\ red' = <<>> /\ client.state = "reading"
      /\ client' = [client EXCEPT !.got = client.got \o redacted(b)]
  BY DEF Deliver
<1>2. FlowTypes /\ Copied(all)
  BY DEF Flow
<1>3. red = <<b>> /\ Sound(b) /\ FlattenSeq(red) = b /\ FlattenSeq(<<>>) = <<>> /\ Sound(<<>>) /\ Sound(s)
  <2>1. red = <<b>> /\ Sound(b)
    BY <1>1, <1>2 DEF FlowTypes
  <2> HIDE DEF b
  <2> QED
    BY <1>2, <2>1, BlockAlone, SaysNothing, FlowSound
<1>4. PICK seen, rest : Under(all, seen, rest)
  BY DEF Flow
<1>5. /\ Sound(seen) /\ Sound(rest) /\ client.got = redacted(seen)
      /\ all = Chained(seen, b, s, rest) /\ (Live => rest = Out)
  BY <1>3, <1>4 DEF Under
<1>6. /\ DOMAIN client' = {"state", "got", "replay"} /\ client'.state = "reading"
      /\ client'.got = client.got \o redacted(b)
  BY <1>1, <1>2 DEF FlowTypes
<1> HIDE DEF b, s
<1>7. redacted(seen \o b) = redacted(seen) \o redacted(b)
  BY <1>3, <1>5, RedactedConcat DEF Sound
<1>8. Chained(seen \o b, <<>>, s, rest) = all /\ Sound(seen \o b)
  <2>1. SoundParts(seen, b, s, rest, <<>>)
    BY <1>3, <1>5 DEF SoundParts
  <2> QED
    BY <1>5, <2>1, PartsPass
<1>9. FlowTypes'
  BY <1>1, <1>2, <1>6 DEF FlowTypes
<1>10. Copied(all)'
  BY <1>1, <1>2 DEF Copied, Out
<1>11. PICK now : now = seen \o b
  OBVIOUS
<1>12. all = Chained(now, FlattenSeq(red'), FlattenSeq(serve'), rest)
  BY <1>1, <1>3, <1>8, <1>11 DEF s
<1>13. Sound(now) /\ Sound(rest) /\ client'.got = redacted(now) /\ (Live' => rest = Out')
  BY <1>1, <1>5, <1>6, <1>7, <1>8, <1>11 DEF Live, Out
<1>14. Under(all, now, rest)'
  BY <1>12, <1>13 DEF Under
<1> QED
  BY <1>9, <1>10, <1>14 DEF Flow

\* The body ends, or the client hangs up.
LEMMA FlowStops ==
  ASSUME NEW all, Flow(all), BodyEnds \/ HangUp \/ UNCHANGED streamVars
  PROVE  Flow(all)'
<1>1. UNCHANGED <<source, gen, serve, red, copy>>
  BY DEF BodyEnds, HangUp, streamVars, flow
<1>2. FlowTypes /\ Copied(all)
  BY DEF Flow
<1>3. /\ DOMAIN client' = {"state", "got", "replay"} /\ client'.got = client.got
      /\ client'.state = "gone" => client.state = "gone"
      /\ client.state = "gone" => client'.state = "gone"
      /\ client'.state = "done" => client.state = "done" \/ (serve = <<>> /\ red = <<>> /\ gen.state = "returned")
  BY <1>2 DEF BodyEnds, HangUp, FlowTypes, streamVars, flow
<1>4. FlowTypes'
  BY <1>1, <1>2, <1>3 DEF FlowTypes
<1>5. Copied(all)'
  BY <1>1, <1>2 DEF Copied, Out
<1>6. PICK seen, rest : Under(all, seen, rest)
  BY DEF Flow
<1>7. Under(all, seen, rest)'
  BY <1>1, <1>3, <1>6 DEF Under, Live, Out
<1> QED
  BY <1>4, <1>5, <1>7 DEF Flow

\* What is stored is all there was, and a replay sends it.
LEMMA FlowReplays ==
  ASSUME NEW all, Flow(all), CaptureInv, Replay
  PROVE  Flow(all)'
<1>1. /\ UNCHANGED <<source, gen, copy>> /\ stored # Null
      /\ serve' = <<stored.chunks>> /\ red' = <<>>
      /\ client' = [state |-> "reading", got |-> <<>>, replay |-> TRUE]
  BY DEF Replay
<1>2. FlowTypes /\ Copied(all)
  BY DEF Flow
<1>3. copy.state = "whole" /\ stored.chunks = FlattenSeq(copy.blocks) /\ gen.state = "returned"
  BY <1>1 DEF CaptureInv
<1>4. gen.out = <<>> /\ FlattenSeq(<<>>) = <<>> /\ Sound(<<>>) /\ redacted(<<>>) = <<>>
  BY <1>2, <1>3, BlockAlone, SaysNothing DEF FlowTypes
<1>5. Out = <<>> /\ Out' = <<>>
  BY <1>1, <1>4 DEF Out
<1>6. Sound(all) /\ stored.chunks = all
  <2>1. SoundBlocks(copy.blocks) /\ all = FlattenSeq(copy.blocks) \o <<>>
    BY <1>2, <1>3, <1>5 DEF Copied
  <2>2. Sound(FlattenSeq(copy.blocks))
    BY <2>1, BlocksConcat
  <2>3. FlattenSeq(copy.blocks) \o <<>> = FlattenSeq(copy.blocks)
    BY <2>2, SoundAssociative
  <2> QED
    BY <1>3, <2>1, <2>2, <2>3
<1>7. serve' = <<all>> /\ SoundBlocks(<<all>>) /\ FlattenSeq(<<all>>) = all
  BY <1>1, <1>6, BlockAlone
<1>8. Chained(<<>>, <<>>, all, <<>>) = all
  <2>1. <<>> \o all = all /\ all \o <<>> = all
    BY <1>6, SoundAssociative
  <2> QED
    BY <2>1 DEF Chained
<1>9. FlowTypes'
  BY <1>1, <1>2, <1>7 DEF FlowTypes
<1>10. Copied(all)'
  BY <1>1, <1>2, <1>5 DEF Copied
<1>11. Under(all, <<>>, <<>>)'
  BY <1>1, <1>4, <1>5, <1>7, <1>8 DEF Under
<1> QED
  BY <1>9, <1>10, <1>11 DEF Flow

-----------------------------------------------------------------------------
(* What chunks and content tell                                              *)

\* Chunks with these pieces of tool calls, texts and finish reason.
Tells(s, d, t, f) == Sound(s) /\ Deltas(s) = d /\ Texts(s) = t /\ FinishOf(s) = f

NoDone(s)   == \A i \in DOMAIN s : ~s[i].done
DoneLast(s) == \A i \in DOMAIN s : s[i].done => i = Len(s)

\* What chunks tell adds up.
LEMMA TellsConcat ==
  ASSUME NEW s, NEW d, NEW t, NEW f, Tells(s, d, t, f),
         NEW s2, NEW d2, NEW t2, NEW f2, Tells(s2, d2, t2, f2)
  PROVE  Tells(s \o s2, d \o d2, t + t2, IF f2 = "" THEN f ELSE f2)
BY SaysConcat DEF Tells

\* [DONE] is last if it is last of what follows on chunks without it.
LEMMA DoneConcat ==
  ASSUME NEW s, IsSeq(s), NEW t, IsSeq(t)
  PROVE  /\ NoDone(s) /\ NoDone(t) => NoDone(s \o t)
         /\ NoDone(s) /\ DoneLast(t) => DoneLast(s \o t)
         /\ DoneLast(s) /\ t = <<>> => DoneLast(s \o t)
         /\ NoDone(s) => DoneLast(s)
         /\ DoneLast(s \o t) => DoneLast(s)
<1> DEFINE st == s \o t
           m == Len(s)
           n == Len(t)
<1>1. Joined(s, t, st)
  BY ConcatIs
<1> HIDE DEF st
<1>2. /\ m \in Nat /\ n \in Nat /\ DOMAIN s = 1 .. m /\ DOMAIN t = 1 .. n /\ DOMAIN st = 1 .. m + n
      /\ Len(st) = m + n
      /\ \A i \in 1 .. m : st[i] = s[i]
      /\ \A i \in 1 .. n : st[m + i] = t[i]
      /\ \A i \in 1 .. m + n : i \in 1 .. m \/ \E j \in 1 .. n : i = m + j
  BY <1>1 DEF Joined
<1> HIDE DEF m, n
<1>3. ASSUME NoDone(s), NoDone(t) PROVE NoDone(st)
  <2>1. ASSUME NEW i \in 1 .. m + n PROVE ~st[i].done
    <3>1. CASE i \in 1 .. m
      BY <1>2, <1>3, <3>1 DEF NoDone
    <3>2. CASE \E j \in 1 .. n : i = m + j
      BY <1>2, <1>3, <3>2 DEF NoDone
    <3> QED
      BY <1>2, <3>1, <3>2
  <2> QED
    BY <1>2, <2>1 DEF NoDone
<1>4. ASSUME NoDone(s), DoneLast(t) PROVE DoneLast(st)
  <2> SUFFICES ASSUME NEW i \in 1 .. m + n, st[i].done PROVE i = m + n
    BY <1>2 DEF DoneLast
  <2>1. i \notin 1 .. m
    BY <1>2, <1>4 DEF NoDone
  <2>2. PICK j \in 1 .. n : i = m + j
    BY <1>2, <2>1
  <2>3. j = n
    BY <1>2, <1>4, <2>2 DEF DoneLast, n
  <2> QED
    BY <2>2, <2>3
<1>5. ASSUME DoneLast(s), t = <<>> PROVE DoneLast(st)
  <2>1. n = 0
    BY <1>5 DEF n
  <2>2. DOMAIN st = 1 .. m /\ Len(st) = m /\ \A i \in 1 .. m : st[i] = s[i]
    BY <1>2, <2>1
  <2> QED
    BY <1>2, <1>5, <2>2 DEF DoneLast, m
<1>6. ASSUME NoDone(s) PROVE DoneLast(s)
  BY <1>6 DEF NoDone, DoneLast
<1>7. ASSUME DoneLast(st) PROVE DoneLast(s)
  <2> SUFFICES ASSUME NEW i \in 1 .. m, s[i].done PROVE i = m
    BY <1>2 DEF DoneLast, m
  <2>1. i \in 1 .. m + n /\ st[i].done
    BY <1>2
  <2>2. i = m + n
    BY <1>2, <1>7, <2>1 DEF DoneLast
  <2> QED
    BY <1>2, <2>2
<1> QED
  BY <1>3, <1>4, <1>5, <1>6, <1>7 DEF st

\* What the chunks of the translators tell.
LEMMA ChunksTell ==
  ASSUME NEW n \in Nat, NEW a \in ArgKinds, NEW f, NEW u
  PROVE  /\ Tells(<<>>, <<>>, 0, "") /\ NoDone(<<>>)
         /\ Tells(<<RoleChunk>>, <<>>, 0, "") /\ NoDone(<<RoleChunk>>)
         /\ Tells(<<TextChunk>>, <<>>, 1, "") /\ NoDone(<<TextChunk>>)
         /\ Tells(<<HeadChunk(n)>>, <<[index |-> n, head |-> TRUE, args |-> ""]>>, 0, "")
         /\ NoDone(<<HeadChunk(n)>>)
         /\ Tells(<<ArgsChunk(n, a)>>, <<[index |-> n, head |-> FALSE, args |-> a]>>, 0, "")
         /\ NoDone(<<ArgsChunk(n, a)>>)
         /\ Tells(<<FinishChunk(f)>>, <<>>, 0, f) /\ NoDone(<<FinishChunk(f)>>)
         /\ Tells(<<UsageChunk(u)>>, <<>>, 0, "") /\ NoDone(<<UsageChunk(u)>>)
         /\ Tells(<<DoneChunk>>, <<>>, 0, "") /\ DoneLast(<<DoneChunk>>)
<1>1. ASSUME NEW c, SoundChunk(c)
      PROVE  /\ Tells(<<c>>, c.calls, IF c.text = 1 THEN 1 ELSE 0, c.finish)
             /\ (~c.done => NoDone(<<c>>)) /\ DoneLast(<<c>>)
  <2>1. Tells(<<c>>, c.calls, IF c.text = 1 THEN 1 ELSE 0, c.finish)
    BY <1>1, SaysOne DEF Tells
  <2>2. DOMAIN <<c>> = {1} /\ <<c>>[1] = c /\ Len(<<c>>) = 1
    BY SingleIs
  <2> QED
    BY <2>1, <2>2 DEF NoDone, DoneLast
<1>2. Tells(<<>>, <<>>, 0, "") /\ NoDone(<<>>)
  <2>1. DOMAIN <<>> = {}
    OBVIOUS
  <2> QED
    BY <2>1, SaysNothing DEF Tells, NoDone
<1>3. <<>> \in Seq(Pieces)
  OBVIOUS
<1>4. ASSUME NEW c, c.calls = <<>>, c.text = 0, c.finish = "" PROVE SoundChunk(c)
  <2>1. c.calls \in Seq(Pieces) /\ c.calls = <<>>
    BY <1>3, <1>4
  <2>2. c.text # 1
    <3>1. c.text = 0
      BY <1>4
    <3> QED
      BY <3>1
  <2>3. c.finish = ""
    BY <1>4
  <2> QED
    BY <2>1, <2>2, <2>3 DEF SoundChunk
<1>5. Tells(<<RoleChunk>>, <<>>, 0, "") /\ NoDone(<<RoleChunk>>)
  <2>1. RoleChunk.calls = <<>> /\ RoleChunk.text = 0 /\ RoleChunk.finish = "" /\ ~RoleChunk.done
    BY DEF RoleChunk, Chunk
  <2> QED
    BY <1>1, <1>4, <2>1
<1>6. Tells(<<TextChunk>>, <<>>, 1, "") /\ NoDone(<<TextChunk>>)
  <2>1. /\ TextChunk.calls = <<>> /\ TextChunk.text = 1 /\ TextChunk.finish = "" /\ ~TextChunk.done
        /\ TextChunk.choices
    BY DEF TextChunk, Chunk
  <2>2. SoundChunk(TextChunk)
    BY <1>3, <2>1 DEF SoundChunk
  <2> QED
    BY <1>1, <2>1, <2>2
<1>7. /\ Tells(<<HeadChunk(n)>>, <<[index |-> n, head |-> TRUE, args |-> ""]>>, 0, "")
      /\ NoDone(<<HeadChunk(n)>>)
  <2> DEFINE p == [index |-> n, head |-> TRUE, args |-> ""]
             c == HeadChunk(n)
  <2>1. p \in Pieces
    BY DEF Pieces
  <2>2. c.calls = <<p>> /\ c.text = 0 /\ c.finish = "" /\ ~c.done /\ c.choices
    BY DEF HeadChunk, Chunk
  <2> HIDE DEF p, c
  <2>3. SoundChunk(c)
    <3>1. <<p>> \in Seq(Pieces)
      BY <2>1
    <3>2. c.calls \in Seq(Pieces) /\ c.choices
      BY <2>2, <3>1
    <3> QED
      BY <3>2 DEF SoundChunk
  <2>4. Tells(<<c>>, <<p>>, 0, "") /\ NoDone(<<c>>)
    BY <1>1, <2>2, <2>3
  <2> QED
    BY <2>4 DEF p, c
<1>8. /\ Tells(<<ArgsChunk(n, a)>>, <<[index |-> n, head |-> FALSE, args |-> a]>>, 0, "")
      /\ NoDone(<<ArgsChunk(n, a)>>)
  <2> DEFINE p == [index |-> n, head |-> FALSE, args |-> a]
             c == ArgsChunk(n, a)
  <2>1. p \in Pieces
    BY DEF Pieces, ArgKinds
  <2>2. c.calls = <<p>> /\ c.text = 0 /\ c.finish = "" /\ ~c.done /\ c.choices
    BY DEF ArgsChunk, Chunk
  <2> HIDE DEF p, c
  <2>3. SoundChunk(c)
    <3>1. <<p>> \in Seq(Pieces)
      BY <2>1
    <3>2. c.calls \in Seq(Pieces) /\ c.choices
      BY <2>2, <3>1
    <3> QED
      BY <3>2 DEF SoundChunk
  <2>4. Tells(<<c>>, <<p>>, 0, "") /\ NoDone(<<c>>)
    BY <1>1, <2>2, <2>3
  <2> QED
    BY <2>4 DEF p, c
<1>9. Tells(<<FinishChunk(f)>>, <<>>, 0, f) /\ NoDone(<<FinishChunk(f)>>)
  <2> DEFINE c == FinishChunk(f)
  <2>1. c.calls = <<>> /\ c.text = 0 /\ c.finish = f /\ ~c.done /\ c.choices
    BY DEF FinishChunk, Chunk
  <2> HIDE DEF c
  <2>2. SoundChunk(c)
    BY <1>3, <2>1 DEF SoundChunk
  <2>3. Tells(<<c>>, <<>>, 0, f) /\ NoDone(<<c>>)
    BY <1>1, <2>1, <2>2
  <2> QED
    BY <2>3 DEF c
<1>10. Tells(<<UsageChunk(u)>>, <<>>, 0, "") /\ NoDone(<<UsageChunk(u)>>)
  <2> DEFINE c == UsageChunk(u)
  <2>1. c.calls = <<>> /\ c.text = 0 /\ c.finish = "" /\ ~c.done
    BY DEF UsageChunk, Chunk
  <2> HIDE DEF c
  <2>2. Tells(<<c>>, <<>>, 0, "") /\ NoDone(<<c>>)
    BY <1>1, <1>4, <2>1
  <2> QED
    BY <2>2 DEF c
<1>11. Tells(<<DoneChunk>>, <<>>, 0, "") /\ DoneLast(<<DoneChunk>>)
  BY <1>1, EndingIs DEF Tells
<1> QED
  BY <1>2, <1>5, <1>6, <1>7, <1>8, <1>9, <1>10, <1>11

\* What is kept of one part.
LEMMA OnlyOne ==
  ASSUME NEW x, NEW kinds
  PROVE  Only(<<x>>, kinds) = IF x \in kinds THEN <<x>> ELSE <<>>
<1> DEFINE s == <<x>>
           I == {i \in DOMAIN s : s[i] \in kinds}
           k == Kept(s, I)
<1>1. DOMAIN s = {1} /\ s[1] = x
  OBVIOUS
<1>2. Only(s, kinds) = k
  BY DEF Only
<1>3. k = [i \in 1 .. Cardinality(I) |-> s[Place(I, i)]]
  BY DEF Kept
<1>4. I = (IF x \in kinds THEN {1} ELSE {})
  BY <1>1
<1>5. Cardinality({}) = 0 /\ Cardinality({1}) = 1
  BY FS_EmptySet, FS_Singleton
<1> HIDE DEF I, k
<1>6. CASE x \in kinds
  <2>1. I = {1} /\ Cardinality(I) = 1
    BY <1>4, <1>5, <1>6
  <2>2. Place(I, 1) \in I
    <3>1. I \in SUBSET (1 .. 1) /\ 1 \in 1 .. Cardinality(I) /\ 1 \in Nat
      BY <2>1
    <3> QED
      BY <3>1, PlaceOf
  <2>3. k = [i \in {1} |-> x]
    BY <1>1, <1>3, <2>1, <2>2
  <2> QED
    BY <1>2, <1>6, <2>3
<1>7. CASE x \notin kinds
  <2>1. DOMAIN k = 1 .. 0 /\ k = [i \in 1 .. 0 |-> s[Place(I, i)]]
    BY <1>3, <1>4, <1>5, <1>7
  <2> QED
    BY <1>2, <1>7, <2>1
<1> QED
  BY <1>6, <1>7

\* What is kept when one part is added.
LEMMA OnlyAppended ==
  ASSUME NEW s, IsSeq(s), NEW x, NEW kinds
  PROVE  /\ IsSeq(Only(s, kinds))
         /\ Only(s \o <<x>>, kinds) = Only(s, kinds) \o Only(<<x>>, kinds)
<1>1. ASSUME NEW t, IsSeq(t)
      PROVE  IsSeq(Only(s, kinds))
  BY <1>1, OnlyConcat
<1>2. ASSUME NEW t, IsSeq(t)
      PROVE  Only(s \o t, kinds) = Only(s, kinds) \o Only(t, kinds)
  <2> DEFINE a == Only(s \o t, kinds)
             b == Only(s, kinds) \o Only(t, kinds)
  <2>1. a = b
    BY <1>2, OnlyConcat
  <2> QED
    BY <2>1
<1>3. IsSeq(<<x>>)
  BY SingleIs
<1> QED
  BY <1>1, <1>2, <1>3

\* What an upstream says more: a text, or a call.
Kinds == {"text", "bare", "call"}

\* What was said grows by one at its end.
LEMMA SaidMore ==
  ASSUME NEW said \in Seq(Kinds), NEW x \in Kinds
  PROVE  /\ said \o <<x>> = Append(said, x) /\ Append(said, x) \in Seq(Kinds)
         /\ IsSeq(SaidCalls(said)) /\ Len(SaidTexts(said)) \in Nat
         /\ x = "text" => /\ Len(SaidTexts(Append(said, x))) = Len(SaidTexts(said)) + 1
                          /\ SaidCalls(Append(said, x)) = SaidCalls(said)
         /\ x # "text" => /\ Len(SaidTexts(Append(said, x))) = Len(SaidTexts(said))
                          /\ SaidCalls(Append(said, x)) = SaidCalls(said) \o <<x>>
<1>1. said \o <<x>> = Append(said, x) /\ Append(said, x) \in Seq(Kinds) /\ <<x>> \in Seq(Kinds)
  OBVIOUS
<1>2. IsSeq(said) /\ IsSeq(<<x>>)
  BY <1>1, PiecesSeq
<1>7. ASSUME NEW kinds
      PROVE  /\ IsSeq(Only(said, kinds))
             /\ Only(said \o <<x>>, kinds) = Only(said, kinds) \o Only(<<x>>, kinds)
  BY <1>2, OnlyAppended
<1> DEFINE more == said \o <<x>>
           t == SaidTexts(said)
           c == SaidCalls(said)
<1>3. /\ IsSeq(t) /\ SaidTexts(more) = t \o (IF x = "text" THEN <<x>> ELSE <<>>)
  <2>1. /\ IsSeq(Only(said, {"text"}))
        /\ Only(said \o <<x>>, {"text"}) = Only(said, {"text"}) \o Only(<<x>>, {"text"})
    BY <1>7
  <2>2. Only(<<x>>, {"text"}) = IF x = "text" THEN <<x>> ELSE <<>>
    BY OnlyOne
  <2> QED
    BY <2>1, <2>2 DEF SaidTexts
<1>4. /\ IsSeq(c) /\ SaidCalls(more) = c \o (IF x # "text" THEN <<x>> ELSE <<>>)
  <2>1. x \in {"call", "bare"} <=> x # "text"
    BY DEF Kinds
  <2> DEFINE K == {"call", "bare"}
  <2>2. IsSeq(Only(said, K)) /\ Only(said \o <<x>>, K) = Only(said, K) \o Only(<<x>>, K)
    BY <1>7
  <2>3. Only(<<x>>, K) = IF x # "text" THEN <<x>> ELSE <<>>
    BY <2>1, OnlyOne
  <2>4. c = Only(said, K) /\ SaidCalls(more) = Only(said \o <<x>>, K)
    BY DEF SaidCalls
  <2> HIDE DEF K, c, more
  <2> QED
    BY <2>2, <2>3, <2>4
<1> HIDE DEF t, c
<1>5. Len(t) \in Nat /\ Len(t \o <<x>>) = Len(t) + 1 /\ t \o <<>> = t /\ c \o <<>> = c
  <2> DEFINE U == ToSet(t) \cup {x}
  <2>1. t \in Seq(U) /\ <<x>> \in Seq(U) /\ Len(<<x>>) = 1
    BY <1>3 DEF IsSeq
  <2>2. Len(t) \in Nat /\ Len(t \o <<x>>) = Len(t) + 1 /\ t \o <<>> = t
    <3> HIDE DEF U
    <3> QED
      BY <2>1, ConcatProperties, ConcatEmptySeq
  <2>3. c \o <<>> = c
    <3>1. c \in Seq(ToSet(c))
      BY <1>4 DEF IsSeq
    <3> QED
      BY <3>1, ConcatEmptySeq
  <2> QED
    BY <2>2, <2>3
<1>6. Append(said, x) = more
  BY <1>1
<1> HIDE DEF more
<1> QED
  BY <1>1, <1>3, <1>4, <1>5, <1>6 DEF t, c

\* Nothing said has no texts and no calls.
LEMMA SaidNothing == SaidTexts(<<>>) = <<>> /\ SaidCalls(<<>>) = <<>>
<1>1. ASSUME NEW kinds PROVE Only(<<>>, kinds) = <<>>
  <2> DEFINE s == <<>>
             I == {i \in DOMAIN s : s[i] \in kinds}
             k == Kept(s, I)
  <2>1. I = {} /\ Cardinality({}) = 0
    BY FS_EmptySet
  <2> HIDE DEF I
  <2>2. k = [i \in 1 .. 0 |-> s[Place(I, i)]]
    BY <2>1 DEF Kept
  <2>3. Only(s, kinds) = k
    BY DEF Only, I
  <2> HIDE DEF k
  <2> QED
    BY <2>2, <2>3
<1> QED
  BY <1>1 DEF SaidTexts, SaidCalls

-----------------------------------------------------------------------------
(* What an upstream has said, and what the generator makes of it             *)

\* Anthropic's content blocks, and the tool calls among them: a call that has
\* arguments has been said as one; only in the last block anything can follow.
AnthropicTracks ==
  /\ up.blocks \in Seq(BOOLEAN) /\ up.said \in Seq(Kinds)
  /\ gen.tools \in Seq(1 .. Len(up.blocks))
  /\ \A i, j \in DOMAIN gen.tools : gen.tools[i] = gen.tools[j] => i = j
  /\ gen.args \subseteq 1 .. Len(up.blocks) /\ gen.flushed \subseteq 1 .. Len(up.blocks)
  /\ SaidCalls(up.said) = [k \in DOMAIN gen.tools |-> IF gen.tools[k] \in gen.args THEN "call" ELSE "bare"]
  /\ up.stage = "block" => up.blocks # <<>> /\ Len(up.blocks) \notin gen.flushed
  /\ up.stage = "block" /\ Last(up.blocks) =>
       /\ gen.tools # <<>> /\ Last(gen.tools) = Len(up.blocks)
       /\ up.said # <<>> /\ Last(up.said) # "text"
  /\ up.stage = "said" => \A i \in DOMAIN gen.tools : gen.tools[i] \in gen.args \cup gen.flushed

\* Gemini and OpenAI say calls whole.
WholeTracks ==
  /\ up.said \in Seq(Kinds) /\ SaidCalls(up.said) = [k \in 1 .. Len(SaidCalls(up.said)) |-> "call"]
  /\ source = "google" => /\ gen.calls = Len(SaidCalls(up.said))
                          /\ up.stage = "said" /\ up.reason = "blocked" => up.said = <<>>

Tracks == IF source = "anthropic" THEN AnthropicTracks ELSE WholeTracks

\* The arguments that the calls of the stream have been given.
ToolArgs(tools, args, flushed) ==
  [k \in DOMAIN tools |-> IF tools[k] \in args THEN "part" ELSE IF tools[k] \in flushed THEN "{}" ELSE ""]

ArgsOf == IF source = "anthropic" THEN ToolArgs(gen.tools, gen.args, gen.flushed)
          ELSE [k \in 1 .. Len(SaidCalls(up.said)) |-> "whole"]

\* The finish reason a stream ends with, once its upstream has told it.
Finish ==
  CASE source = "anthropic" -> IF up.stage \in {"ending", "said"} THEN mapStopReason(up.reason) ELSE ""
    [] source = "google"    -> IF up.stage # "said" THEN ""
                               ELSE IF up.reason = "blocked" THEN "content_filter"
                               ELSE mapFinishReason(up.reason, SaidCalls(up.said) # <<>>)
    [] source = "openai"    -> IF up.stage \in {"ending", "counted", "said"} THEN "stop" ELSE ""

\* No chunk [DONE] has been made.
Unfinished == IF source = "openai" THEN up.stage # "said" ELSE gen.state \in {"running", "returning"}

\* Chunks that take calls with the arguments A to calls with the arguments A2,
\* with so many texts and a finish reason.
Adds(more, A, A2, t, f) ==
  \E d : Tells(more, d, t, f) /\ \A d0 : Describes(d0, A) => Describes(d0 \o d, A2)

\* Chunks without pieces of calls leave these as they are.
LEMMA AddsNone ==
  ASSUME NEW more, NEW t, NEW f, Tells(more, <<>>, t, f), NEW A
  PROVE  Adds(more, A, A, t, f)
<1>1. ASSUME NEW d0, Describes(d0, A) PROVE d0 \o <<>> = d0
  <2>1. d0 \in Seq(Pieces)
    BY <1>1, DescribesTypes
  <2> QED
    BY <2>1, ConcatEmptySeq
<1>2. \A d0 : Describes(d0, A) => Describes(d0 \o <<>>, A)
  BY <1>1
<1> QED
  BY <1>2 DEF Adds

\* A piece that begins a call adds the call.
LEMMA AddsCall ==
  ASSUME NEW more, NEW t, NEW f, NEW A, NEW a \in ArgKinds,
         Tells(more, <<[index |-> Len(A), head |-> TRUE, args |-> a]>>, t, f)
  PROVE  Adds(more, A, Append(A, a), t, f)
<1> DEFINE d == <<[index |-> Len(A), head |-> TRUE, args |-> a]>>
<1>1. ASSUME NEW d0, Describes(d0, A) PROVE Describes(d0 \o d, Append(A, a))
  BY <1>1, DescribesBegun
<1> HIDE DEF d
<1>2. \A d0 : Describes(d0, A) => Describes(d0 \o d, Append(A, a))
  BY <1>1
<1>3. Tells(more, d, t, f)
  BY DEF d
<1> QED
  BY <1>2, <1>3 DEF Adds

\* Pieces with arguments give these to their calls.
LEMMA AddsGiven ==
  ASSUME NEW more, NEW e, NEW t, NEW f, Tells(more, e, t, f),
         NEW a, NEW A, Gives(e, a, A), NEW A2, Grown(e, a, A, A2)
  PROVE  Adds(more, A, A2, t, f)
<1>1. ASSUME NEW d0, Describes(d0, A) PROVE Describes(d0 \o e, A2)
  BY <1>1, DescribesGiven
<1> QED
  BY <1>1 DEF Adds

\* What chunks add adds up.
LEMMA AddsBoth ==
  ASSUME NEW more, NEW A, NEW A2, NEW t, NEW f, Adds(more, A, A2, t, f),
         NEW more2, NEW A3, NEW t2, NEW f2, Adds(more2, A2, A3, t2, f2)
  PROVE  Adds(more \o more2, A, A3, t + t2, IF f2 = "" THEN f ELSE f2)
<1>1. PICK d : Tells(more, d, t, f) /\ \A d0 : Describes(d0, A) => Describes(d0 \o d, A2)
  BY DEF Adds
<1>2. PICK e : Tells(more2, e, t2, f2) /\ \A d0 : Describes(d0, A2) => Describes(d0 \o e, A3)
  BY DEF Adds
<1>3. Tells(more \o more2, d \o e, t + t2, IF f2 = "" THEN f ELSE f2)
  BY <1>1, <1>2, TellsConcat
<1>4. ASSUME NEW d0, Describes(d0, A) PROVE Describes(d0 \o (d \o e), A3)
  <2>1. d \in Seq(Pieces) /\ e \in Seq(Pieces) /\ d0 \in Seq(Pieces)
    BY <1>1, <1>2, <1>4, SaysConcat, DescribesTypes DEF Tells
  <2>2. Describes((d0 \o d) \o e, A3)
    BY <1>1, <1>2, <1>4
  <2>3. (d0 \o d) \o e = d0 \o (d \o e)
    BY <2>1, ConcatAssociative
  <2> QED
    BY <2>2, <2>3
<1> QED
  BY <1>3, <1>4 DEF Adds

\* Chunks that show calls with these arguments, so many texts and a finish reason,
\* "" if any.
Shown(all, A, n, f) ==
  /\ Sound(all) /\ Describes(Deltas(all), A) /\ Texts(all) = n
  /\ f = "" \/ FinishOf(all) = f
  /\ DoneLast(all)

Content(all) == /\ Shown(all, ArgsOf, Len(SaidTexts(up.said)), Finish)
                /\ Unfinished => NoDone(all)

\* More chunks show more.
LEMMA ShownMore ==
  ASSUME NEW all, NEW A, NEW n, NEW f, Shown(all, A, n, f), NoDone(all),
         NEW more, NEW A2, NEW t, NEW f2, Adds(more, A, A2, t, f2), DoneLast(more),
         NEW f3, f3 = "" \/ f2 = f3 \/ (f2 = "" /\ f = f3)
  PROVE  Shown(all \o more, A2, n + t, f3) /\ (NoDone(more) => NoDone(all \o more))
<1>1. PICK d : Tells(more, d, t, f2) /\ \A d0 : Describes(d0, A) => Describes(d0 \o d, A2)
  BY DEF Adds
<1>2. Sound(all) /\ Sound(more) /\ Describes(Deltas(all), A) /\ Texts(all) = n
  BY <1>1 DEF Shown, Tells
<1>3. Tells(all, Deltas(all), n, FinishOf(all))
  BY <1>2 DEF Tells
<1>4. Tells(all \o more, Deltas(all) \o d, n + t, IF f2 = "" THEN FinishOf(all) ELSE f2)
  BY <1>1, <1>3, TellsConcat
<1>5. Describes(Deltas(all \o more), A2)
  BY <1>1, <1>2, <1>4 DEF Tells
<1>6. Sound(all \o more) /\ Texts(all \o more) = n + t
  BY <1>4 DEF Tells
<1>7. f3 = "" \/ FinishOf(all \o more) = f3
  <2>1. FinishOf(all \o more) = IF f2 = "" THEN FinishOf(all) ELSE f2
    BY <1>4 DEF Tells
  <2>2. f = "" \/ FinishOf(all) = f
    BY DEF Shown
  <2>3. f3 = "" \/ f2 = f3 \/ (f2 = "" /\ f = f3)
    OBVIOUS
  <2>4. CASE f2 = ""
    <3>1. FinishOf(all \o more) = FinishOf(all)
      BY <2>1, <2>4
    <3>2. f3 = "" \/ f = f3
      BY <2>3, <2>4
    <3> QED
      BY <2>2, <3>1, <3>2
  <2>5. CASE f2 # ""
    <3>1. FinishOf(all \o more) = f2
      BY <2>1, <2>5
    <3>2. f3 = "" \/ f2 = f3
      BY <2>3, <2>5
    <3> QED
      BY <3>1, <3>2
  <2> QED
    BY <2>4, <2>5
<1>8. DoneLast(all \o more) /\ (NoDone(more) => NoDone(all \o more))
  BY <1>2, DoneConcat DEF Sound
<1> QED
  BY <1>5, <1>6, <1>7, <1>8 DEF Shown

\* What is 0 is not 1.
LEMMA NotOne == ASSUME NEW x, x = 0 PROVE x # 1
  OBVIOUS

\* One element is a sequence of such elements.
LEMMA SingleSeq == ASSUME NEW S, NEW x \in S PROVE <<x>> \in Seq(S)
  OBVIOUS

\* Chunks with one piece each.
LEMMA PiecesTell ==
  ASSUME NEW p \in Seq(Pieces), NEW s, s = [i \in 1 .. Len(p) |-> s[i]],
         \A i \in 1 .. Len(p) : /\ s[i].calls = <<p[i]>> /\ s[i].text = 0 /\ s[i].finish = ""
                                /\ s[i].choices /\ ~s[i].done
  PROVE  Tells(s, p, 0, "") /\ NoDone(s)
<1>1. Len(p) \in Nat /\ DOMAIN p = 1 .. Len(p) /\ \A i \in 1 .. Len(p) : p[i] \in Pieces
  BY PiecesSeq
<1>2. IsSeq(s) /\ DOMAIN s = 1 .. Len(p)
  BY <1>1, MappedIsSeq
<1>3. ASSUME NEW i \in 1 .. Len(p) PROVE SoundChunk(s[i])
  <2> DEFINE x == p[i]
  <2>2. x \in Pieces
    BY <1>1
  <2> HIDE DEF x
  <2>3. <<x>> \in Seq(Pieces)
    BY <2>2, SingleSeq, Zenon
  <2>1. s[i].calls \in Seq(Pieces)
    BY <2>3 DEF x
  <2> QED
    BY <2>1 DEF SoundChunk
<1>4. Sound(s)
  BY <1>2, <1>3 DEF Sound
<1>5. Deltas(s) = p
  <2> DEFINE x == [i \in DOMAIN p |-> <<p[i]>>]
             y == [i \in DOMAIN s |-> s[i].calls]
  <2>1. x = y
    BY <1>1, <1>2
  <2>2. FlattenSeq(x) = p
    BY FlattenSingles
  <2>3. Deltas(s) = FlattenSeq(y)
    BY DEF Deltas
  <2> HIDE DEF x, y
  <2> QED
    BY <2>1, <2>2, <2>3
<1>6. Texts(s) = 0
  <2>1. {i \in DOMAIN s : s[i].text = 1} = {}
    <3>1. ASSUME NEW i \in 1 .. Len(p) PROVE s[i].text # 1
      <4>1. s[i].text = 0
        OBVIOUS
      <4> QED
        BY <4>1, NotOne, Zenon
    <3> QED
      BY <1>2, <3>1
  <2> QED
    BY <2>1, FS_EmptySet DEF Texts
<1>7. FinishOf(s) = ""
  <2>1. {i \in DOMAIN s : s[i].finish # ""} = {}
    BY <1>2
  <2> QED
    BY <2>1 DEF FinishOf
<1>8. NoDone(s)
  BY <1>2 DEF NoDone
<1> QED
  BY <1>4, <1>5, <1>6, <1>7, <1>8 DEF Tells

\* The place of a block among the tool calls.
LEMMA IndexIs ==
  ASSUME NEW n \in Nat, NEW tools, DOMAIN tools = 1 .. n,
         \A i, j \in DOMAIN tools : tools[i] = tools[j] => i = j, NEW i \in DOMAIN tools
  PROVE  IndexOf(tools, tools[i]) = i - 1
<1> DEFINE S == {j \in DOMAIN tools : tools[j] = tools[i]}
<1>1. S = {i} /\ S \in SUBSET (1 .. n) /\ S # {}
  OBVIOUS
<1> HIDE DEF S
<1>2. Max(S) = i
  BY <1>1, MaxIs
<1> QED
  BY <1>2 DEF IndexOf, S

\* Tool calls without arguments, among the given blocks, get "{}".
LEMMA Sweeps ==
  ASSUME AnthropicTracks, DOMAIN gen = GenFields, NEW B, NEW g, g = flushEmptyToolArgs(gen, B)
  PROVE  /\ Adds(g.out, ToolArgs(gen.tools, gen.args, gen.flushed),
                 ToolArgs(gen.tools, gen.args, g.flushed), 0, "")
         /\ NoDone(g.out) /\ Sound(g.out)
         /\ DOMAIN g = GenFields /\ g.state = gen.state /\ g.saw = gen.saw
         /\ g.tools = gen.tools /\ g.args = gen.args
         /\ g.flushed \subseteq gen.flushed \cup B /\ g.flushed \subseteq 1 .. Len(up.blocks)
         /\ \A i \in DOMAIN gen.tools : gen.tools[i] \in B => gen.tools[i] \in gen.args \cup g.flushed
<1> DEFINE tools == gen.tools
           args == gen.args
           gone == gen.flushed
           n == Len(tools)
           I == {i \in DOMAIN tools : tools[i] \in B \ (args \cup gone)}
           c == Cardinality(I)
           bare == Bare(gen, B)
           e == [i \in 1 .. c |-> [index |-> Place(I, i) - 1, head |-> FALSE, args |-> "{}"]]
           A == ToolArgs(tools, args, gone)
           A2 == ToolArgs(tools, args, g.flushed)
<1>1. /\ tools \in Seq(1 .. Len(up.blocks)) /\ \A i, j \in DOMAIN tools : tools[i] = tools[j] => i = j
      /\ args \subseteq 1 .. Len(up.blocks) /\ gone \subseteq 1 .. Len(up.blocks)
  BY DEF AnthropicTracks
<1>2. n \in Nat /\ DOMAIN tools = 1 .. n /\ \A i \in 1 .. n : tools[i] \in 1 .. Len(up.blocks)
  BY <1>1, PiecesSeq
<1>3. I \in SUBSET (1 .. n) /\ c \in Nat
  <2>1. I \in SUBSET (1 .. n)
    BY <1>2
  <2> HIDE DEF I
  <2> QED
    BY <1>2, <2>1, PlacesCounted
<1>4. bare = [i \in 1 .. c |-> tools[Place(I, i)]]
  <2>1. \A i \in DOMAIN tools : \A j \in 1 .. i - 1 : j \in DOMAIN tools /\ j # i
    BY <1>2
  <2>2. \A i \in DOMAIN tools : \A j \in 1 .. i - 1 : tools[j] # tools[i]
    BY <1>1, <2>1
  <2>3. I = {i \in DOMAIN tools : /\ tools[i] \in B \ (args \cup gone)
                                 /\ \A j \in 1 .. i - 1 : tools[j] # tools[i]}
    BY <2>2
  <2>4. bare = Kept(tools, I)
    BY <2>3 DEF Bare
  <2> HIDE DEF I, bare, tools
  <2> QED
    BY <2>4 DEF Kept
<1>5. \A i \in 1 .. c : Place(I, i) \in I
  BY <1>2, <1>3, PlaceOf
<1>6. \A i \in 1 .. c, j \in 1 .. c : Place(I, i) = Place(I, j) => i = j
  <2> SUFFICES ASSUME NEW i \in 1 .. c, NEW j \in 1 .. c, Place(I, i) = Place(I, j) PROVE i = j
    OBVIOUS
  <2>1. Cardinality({k \in I : k <= Place(I, i)}) = i /\ Cardinality({k \in I : k <= Place(I, j)}) = j
    <3> HIDE DEF I
    <3> QED
      BY <1>2, <1>3, PlaceOf
  <2> QED
    BY <2>1
<1>7. ASSUME NEW k \in I PROVE \E i \in 1 .. c : Place(I, i) = k
  BY <1>2, <1>3, <1>7, PlaceIs
<1> HIDE DEF bare, c
<1>8. DOMAIN bare = 1 .. c
  BY <1>4
<1>9. /\ DOMAIN g = GenFields /\ g.state = gen.state /\ g.saw = gen.saw
      /\ g.tools = tools /\ g.args = args /\ g.flushed = gone \cup ToSet(bare)
      /\ g.out = [i \in 1 .. c |-> ArgsChunk(IndexOf(tools, bare[i]), "{}")]
  <2>1. g = [gen EXCEPT !.flushed = gone \cup ToSet(bare),
                        !.out = [i \in DOMAIN bare |-> ArgsChunk(IndexOf(tools, bare[i]), "{}")]]
    BY DEF flushEmptyToolArgs, bare
  <2> QED
    BY <1>8, <2>1 DEF GenFields
<1>10. \A x : x \in ToSet(bare) <=> \E k \in I : x = tools[k]
  <2>1. ToSet(bare) = {bare[i] : i \in 1 .. c}
    BY <1>8 DEF ToSet
  <2> HIDE DEF I, tools
  <2> QED
    BY <1>4, <1>5, <1>7, <2>1
<1>11. /\ g.flushed \subseteq gone \cup B /\ g.flushed \subseteq 1 .. Len(up.blocks)
       /\ \A i \in DOMAIN tools : tools[i] \in B => tools[i] \in args \cup g.flushed
  <2>1. \A k \in I : tools[k] \in B /\ tools[k] \in 1 .. Len(up.blocks)
    BY <1>2
  <2>2. \A i \in DOMAIN tools : tools[i] \in B => i \in I \/ tools[i] \in args \cup gone
    OBVIOUS
  <2> HIDE DEF I, tools, args, gone
  <2>3. \A x \in ToSet(bare) : x \in B /\ x \in 1 .. Len(up.blocks)
    BY <1>10, <2>1
  <2>4. g.flushed \subseteq gone \cup B /\ g.flushed \subseteq 1 .. Len(up.blocks)
    BY <1>1, <1>9, <2>3
  <2>5. ASSUME NEW i \in DOMAIN tools, tools[i] \in B PROVE tools[i] \in args \cup g.flushed
    <3>1. CASE i \in I
      BY <1>9, <1>10, <3>1
    <3>2. CASE tools[i] \in args \cup gone
      BY <1>9, <3>2
    <3> QED
      BY <2>2, <2>5, <3>1, <3>2
  <2> QED
    BY <2>4, <2>5
<1>12. ASSUME NEW k \in 1 .. n PROVE tools[k] \in g.flushed <=> tools[k] \in gone \/ k \in I
  <2>1. tools[k] \in ToSet(bare) <=> k \in I
    <3>1. \A i \in I : i \in DOMAIN tools
      OBVIOUS
    <3>2. k \in DOMAIN tools
      BY <1>2
    <3> HIDE DEF I, tools
    <3> QED
      BY <1>1, <1>10, <3>1, <3>2
  <2> QED
    BY <1>9, <2>1
<1>13. \A k \in I : tools[k] \notin args /\ tools[k] \notin gone
  OBVIOUS
<1>24. \A i \in 1 .. c : Place(I, i) \in 1 .. n /\ Place(I, i) - 1 \in Nat /\ (Place(I, i) - 1) + 1 = Place(I, i)
  <2> SUFFICES ASSUME NEW i \in 1 .. c
               PROVE  Place(I, i) \in 1 .. n /\ Place(I, i) - 1 \in Nat /\ (Place(I, i) - 1) + 1 = Place(I, i)
    OBVIOUS
  <2> DEFINE p == Place(I, i)
  <2>1. p \in 1 .. n
    <3> HIDE DEF I
    <3> QED
      BY <1>3, <1>5
  <2> HIDE DEF p, I, n
  <2>2. p \in 1 .. n /\ p - 1 \in Nat /\ (p - 1) + 1 = p
    BY <1>2, <2>1
  <2> QED
    BY <2>2 DEF p
<1>14. e \in Seq(Pieces) /\ Len(e) = c /\ DOMAIN e = 1 .. c
  <2>1. \A i \in 1 .. c : Place(I, i) - 1 \in Nat
    BY <1>24
  <2>2. \A i \in 1 .. c : [index |-> Place(I, i) - 1, head |-> FALSE, args |-> "{}"] \in Pieces
    BY <2>1 DEF Pieces
  <2>3. e \in [1 .. c -> Pieces]
    BY <2>2
  <2> HIDE DEF e, I
  <2> QED
    BY <1>3, <2>3
<1>15. /\ \A i \in 1 .. c : e[i].index = Place(I, i) - 1 /\ ~e[i].head /\ e[i].args = "{}"
       /\ \A i \in 1 .. c : e[i] = [index |-> Place(I, i) - 1, head |-> FALSE, args |-> "{}"]
  OBVIOUS
<1> HIDE DEF e
<1>16. \A i \in 1 .. c : g.out[i] = ArgsChunk(Place(I, i) - 1, "{}")
  <2> SUFFICES ASSUME NEW i \in 1 .. c PROVE g.out[i] = ArgsChunk(Place(I, i) - 1, "{}")
    OBVIOUS
  <2> DEFINE p == Place(I, i)
  <2>1. bare[i] = tools[p] /\ p \in DOMAIN tools
    BY <1>2, <1>3, <1>4, <1>5
  <2> HIDE DEF p, I, tools
  <2>2. IndexOf(tools, tools[p]) = p - 1
    BY <1>1, <1>2, <2>1, IndexIs
  <2>3. g.out[i] = ArgsChunk(IndexOf(tools, bare[i]), "{}")
    BY <1>9
  <2> QED
    BY <2>1, <2>2, <2>3 DEF p
<1>17. Tells(g.out, e, 0, "") /\ NoDone(g.out)
  <2> DEFINE s == g.out
  <2>1. s = [i \in 1 .. Len(e) |-> s[i]]
    BY <1>9, <1>14
  <2>2. ASSUME NEW i \in 1 .. Len(e)
        PROVE  /\ s[i].calls = <<e[i]>> /\ s[i].text = 0 /\ s[i].finish = ""
               /\ s[i].choices /\ ~s[i].done
    <3>1. s[i] = ArgsChunk(Place(I, i) - 1, "{}") /\ e[i] = [index |-> Place(I, i) - 1, head |-> FALSE, args |-> "{}"]
      BY <1>14, <1>15, <1>16
    <3> HIDE DEF s, I
    <3> QED
      BY <3>1 DEF ArgsChunk, Chunk
  <2> HIDE DEF s
  <2>3. Tells(s, e, 0, "") /\ NoDone(s)
    BY <1>14, <2>1, <2>2, PiecesTell
  <2> QED
    BY <2>3 DEF s
<1>18. /\ A = [k \in 1 .. n |-> A[k]] /\ A2 = [k \in 1 .. n |-> A2[k]]
       /\ \A k \in 1 .. n : A[k] = IF tools[k] \in args THEN "part" ELSE IF tools[k] \in gone THEN "{}" ELSE ""
       /\ \A k \in 1 .. n : A2[k] = IF tools[k] \in args THEN "part" ELSE IF tools[k] \in g.flushed THEN "{}" ELSE ""
  BY <1>2 DEF ToolArgs
<1> HIDE DEF A, A2, I, tools, args, gone, n
<1>19. A2 \in Seq(ArgKinds) /\ Len(A2) = n /\ Len(A) = n
  <2>1. \A k \in 1 .. n : A2[k] \in ArgKinds
    BY <1>18 DEF ArgKinds
  <2>2. A2 \in [1 .. n -> ArgKinds]
    BY <1>18, <2>1
  <2>3. A2 \in Seq(ArgKinds) /\ Len(A2) = n
    BY <1>2, <2>2
  <2>4. Len(A) = n
    <3>1. DOMAIN A = 1 .. n
      BY <1>18
    <3> QED
      BY <1>2, <3>1
  <2> QED
    BY <2>3, <2>4
<1>20. \A i \in 1 .. c : e[i].index + 1 = Place(I, i) /\ Place(I, i) \in I /\ Place(I, i) \in 1 .. n
  BY <1>5, <1>15, <1>24
<1>21. \A k \in I : k \in 1 .. n /\ A[k] = "" /\ A2[k] = "{}"
  BY <1>3, <1>12, <1>13, <1>18
<1>22. Gives(e, "{}", A)
  <2>1. \A i \in 1 .. c : A[e[i].index + 1] = "" /\ e[i].index + 1 \in 1 .. n
    BY <1>20, <1>21
  <2>2. \A i, j \in 1 .. c : e[i].index = e[j].index => i = j
    BY <1>6, <1>20
  <2>3. "{}" \in ArgKinds \ {""}
    BY DEF ArgKinds
  <2> QED
    BY <1>14, <1>15, <1>19, <2>1, <2>2, <2>3 DEF Gives
<1>23. Grown(e, "{}", A, A2)
  <2>1. \A i \in 1 .. c : A2[e[i].index + 1] = "{}"
    BY <1>20, <1>21
  <2>2. ASSUME NEW k \in 1 .. n, A2[k] # A[k] PROVE \E i \in 1 .. c : e[i].index = k - 1
    <3>1. k \in I
      BY <1>12, <1>18, <2>2
    <3>2. PICK i \in 1 .. c : Place(I, i) = k
      BY <1>7, <3>1
    <3> QED
      BY <1>15, <3>2
  <2> QED
    BY <1>14, <1>19, <2>1, <2>2 DEF Grown
<1>25. Adds(g.out, A, A2, 0, "")
  BY <1>17, <1>22, <1>23, AddsGiven
<1> QED
  BY <1>9, <1>11, <1>17, <1>25 DEF A, A2, tools, args, gone, Tells

\* What an event, or the end, adds to the answer shows in the chunks made of it.
Answers(more) ==
  \E t, f : /\ Adds(more, ArgsOf, ArgsOf', t, f)
            /\ Len(SaidTexts(up'.said)) = Len(SaidTexts(up.said)) + t
            /\ Finish' = "" \/ f = Finish' \/ (f = "" /\ Finish = Finish')
            /\ DoneLast(more) /\ (Unfinished' => NoDone(more))

\* An Anthropic event is met.
AnthropicStep(x) ==
  /\ source = "anthropic" /\ source' = source /\ AnthropicTracks
  /\ DOMAIN gen = GenFields /\ gen.out = <<>> /\ gen.state = "running"
  /\ up'.stage = x.stage /\ up'.said = x.said
  /\ up'.blocks = IF x.event.type = "content_block_start" /\ x.event.block > Len(up.blocks)
                   THEN Append(up.blocks, x.event.tool) ELSE up.blocks
  /\ up'.reason = IF x.event.reason # None THEN x.event.reason ELSE up.reason
  /\ gen' = translate(gen, x.event)

AnthropicMade ==
  /\ AnthropicTracks' /\ Answers(gen'.out) /\ Sound(gen'.out)
  /\ DOMAIN gen' = GenFields /\ gen'.state \in {"running", "returning"}

\* When it is met as it should be.
LEMMA AnthropicAnswers ==
  ASSUME source = "anthropic", source' = source, NEW more, NoDone(more), NEW t, NEW f,
         Adds(more, ToolArgs(gen.tools, gen.args, gen.flushed),
              ToolArgs(gen'.tools, gen'.args, gen'.flushed), t, f),
         Len(SaidTexts(up'.said)) = Len(SaidTexts(up.said)) + t,
         \/ up'.stage \notin {"ending", "said"}
         \/ f = mapStopReason(up'.reason)
         \/ f = "" /\ up.stage = "ending" /\ up'.reason = up.reason
  PROVE  Answers(more)
<1>1. ArgsOf = ToolArgs(gen.tools, gen.args, gen.flushed)
  BY DEF ArgsOf
<1>2. ArgsOf' = ToolArgs(gen'.tools, gen'.args, gen'.flushed)
  BY DEF ArgsOf
<1>3. Finish = IF up.stage \in {"ending", "said"} THEN mapStopReason(up.reason) ELSE ""
  BY DEF Finish
<1>4. Finish' = IF up'.stage \in {"ending", "said"} THEN mapStopReason(up'.reason) ELSE ""
  BY DEF Finish
<1>5. Finish' = "" \/ f = Finish' \/ (f = "" /\ Finish = Finish')
  BY <1>3, <1>4
<1>6. DoneLast(more)
  BY DEF NoDone, DoneLast
<1> QED
  BY <1>1, <1>2, <1>5, <1>6 DEF Answers

\* Nothing is said.
LEMMA AnthropicStays ==
  ASSUME AnthropicTracks, up'.blocks = up.blocks, up'.said = up.said,
         gen'.tools = gen.tools, gen'.args = gen.args, gen'.flushed \subseteq 1 .. Len(up.blocks),
         up'.stage # "block",
         up'.stage = "said" => \A i \in DOMAIN gen.tools : gen.tools[i] \in gen.args \cup gen'.flushed
  PROVE  AnthropicTracks' /\ Len(SaidTexts(up'.said)) = Len(SaidTexts(up.said)) + 0
<1>1. Len(SaidTexts(up.said)) \in Nat
  BY SaidMore DEF AnthropicTracks, Kinds
<1>2. AnthropicTracks'
  BY DEF AnthropicTracks
<1> QED
  BY <1>1, <1>2

\* The message starts, or something else comes.
LEMMA AnthropicOpens ==
  ASSUME NEW x, AnthropicStep(x), x.said = up.said, x.event.reason = None,
         x.event.type \in {"message_start", "ping"}, x.stage = "between"
  PROVE  AnthropicMade
<1>1. up'.blocks = up.blocks /\ up'.said = up.said /\ up'.stage = "between"
  BY DEF AnthropicStep
<1>2. /\ gen'.tools = gen.tools /\ gen'.args = gen.args /\ gen'.flushed = gen.flushed
      /\ DOMAIN gen' = GenFields /\ gen'.state = "running"
      /\ gen'.out = IF x.event.type = "ping" THEN <<>> ELSE <<RoleChunk>>
  BY DEF AnthropicStep, translate, MessageStart, GenFields
<1>3. AnthropicTracks' /\ Len(SaidTexts(up'.said)) = Len(SaidTexts(up.said)) + 0
  BY <1>1, <1>2, AnthropicStays DEF AnthropicStep, AnthropicTracks
<1>4. Tells(gen'.out, <<>>, 0, "") /\ NoDone(gen'.out)
  <2>1. 0 \in Nat /\ "" \in ArgKinds
    BY DEF ArgKinds
  <2>2. /\ Tells(<<>>, <<>>, 0, "") /\ NoDone(<<>>)
        /\ Tells(<<RoleChunk>>, <<>>, 0, "") /\ NoDone(<<RoleChunk>>)
    BY <2>1, ChunksTell
  <2> QED
    BY <1>2, <2>2
<1>5. Answers(gen'.out)
  <2> DEFINE A == ToolArgs(gen.tools, gen.args, gen.flushed)
             more == gen'.out
  <2>1. A = ToolArgs(gen'.tools, gen'.args, gen'.flushed)
    BY <1>2
  <2> HIDE DEF A, more
  <2>2. Adds(more, A, A, 0, "")
    BY <1>4, AddsNone DEF more
  <2>3. Adds(more, ToolArgs(gen.tools, gen.args, gen.flushed),
              ToolArgs(gen'.tools, gen'.args, gen'.flushed), 0, "")
    BY <2>1, <2>2 DEF A
  <2>4. source = "anthropic" /\ source' = source
    BY DEF AnthropicStep
  <2>5. Answers(more)
    BY <1>1, <1>3, <1>4, <2>3, <2>4, AnthropicAnswers DEF more
  <2> QED
    BY <2>5 DEF more
<1> QED
  BY <1>2, <1>3, <1>4, <1>5 DEF AnthropicMade, Tells

\* Chunks without texts or finish reason add neither.
LEMMA NoneAdded == ASSUME NEW f PROVE (IF f = "" THEN "" ELSE f) = f /\ 0 + 0 = 0
<1>1. (IF f = "" THEN "" ELSE f) = f
  OBVIOUS
<1>2. 0 + 0 = 0
  OBVIOUS
<1> QED
  BY <1>1, <1>2

\* A block stops, or the message does, or the stream breaks: calls are swept up.
LEMMA AnthropicSweeps ==
  ASSUME NEW x, AnthropicStep(x), x.said = up.said, x.event.reason = None, NEW B, NEW g,
         g = flushEmptyToolArgs(gen, B),
         NEW f, NEW last, Tells(last, <<>>, 0, f), NoDone(last),
         gen'.out = g.out \o last, gen'.tools = g.tools, gen'.args = g.args, gen'.flushed = g.flushed,
         DOMAIN gen' = GenFields, gen'.state \in {"running", "returning"},
         x.event.type # "content_block_start",
         \/ x.stage \in {"between", "failed"}
         \/ x.stage = "said" /\ up.stage = "ending" /\ f = "" /\ B = ToSet(gen.tools)
  PROVE  AnthropicMade
<1>1. up'.blocks = up.blocks /\ up'.said = up.said /\ up'.stage = x.stage /\ up'.reason = up.reason
  BY DEF AnthropicStep
<1>2. /\ Adds(g.out, ToolArgs(gen.tools, gen.args, gen.flushed),
              ToolArgs(gen.tools, gen.args, g.flushed), 0, "")
      /\ NoDone(g.out) /\ Sound(g.out) /\ g.tools = gen.tools /\ g.args = gen.args
      /\ g.flushed \subseteq 1 .. Len(up.blocks)
      /\ \A i \in DOMAIN gen.tools : gen.tools[i] \in B => gen.tools[i] \in gen.args \cup g.flushed
  <2>1. AnthropicTracks /\ DOMAIN gen = GenFields
    BY DEF AnthropicStep
  <2>2. Adds(g.out, ToolArgs(gen.tools, gen.args, gen.flushed),
              ToolArgs(gen.tools, gen.args, g.flushed), 0, "")
    BY <2>1, Sweeps
  <2>3. NoDone(g.out) /\ Sound(g.out)
    BY <2>1, Sweeps
  <2>4. g.tools = gen.tools /\ g.args = gen.args
    BY <2>1 DEF flushEmptyToolArgs, GenFields
  <2>6. g.flushed \subseteq 1 .. Len(up.blocks)
    BY <2>1, Sweeps
  <2>5. \A i \in DOMAIN gen.tools : gen.tools[i] \in B => gen.tools[i] \in gen.args \cup g.flushed
    BY <2>1, Sweeps
  <2> QED
    BY <2>2, <2>3, <2>4, <2>5, <2>6
<1>3. AnthropicTracks' /\ Len(SaidTexts(up'.said)) = Len(SaidTexts(up.said)) + 0
  <2>1. x.stage = "said" => \A i \in DOMAIN gen.tools : gen.tools[i] \in gen.args \cup gen'.flushed
    BY <1>2 DEF ToSet
  <2>2. AnthropicTracks
    BY DEF AnthropicStep
  <2>3. x.stage # "block"
    OBVIOUS
  <2> QED
    BY <1>1, <1>2, <2>1, <2>2, <2>3, AnthropicStays
<1>4. Adds(g.out \o last, ToolArgs(gen.tools, gen.args, gen.flushed),
           ToolArgs(gen'.tools, gen'.args, gen'.flushed), 0, f)
  <2> DEFINE A == ToolArgs(gen.tools, gen.args, gen.flushed)
             A2 == ToolArgs(gen.tools, gen.args, g.flushed)
  <2>1. Adds(last, A2, A2, 0, f)
    <3> HIDE DEF A2
    <3> QED
      BY AddsNone
  <2>2. Adds(g.out, A, A2, 0, "")
    BY <1>2
  <2>3. A2 = ToolArgs(gen'.tools, gen'.args, gen'.flushed)
    BY <1>2
  <2> HIDE DEF A, A2
  <2>4. Adds(g.out \o last, A, A2, 0 + 0, IF f = "" THEN "" ELSE f)
    BY <2>1, <2>2, AddsBoth
  <2> QED
    BY <2>3, <2>4, NoneAdded DEF A
<1>5. NoDone(g.out \o last) /\ Sound(g.out \o last)
  <2>1. Sound(g.out) /\ Sound(last)
    BY <1>2 DEF Tells
  <2> QED
    BY <1>2, <2>1, DoneConcat, SaysConcat DEF Sound
<1>6. Answers(g.out \o last)
  <2>1. source = "anthropic" /\ source' = source
    BY DEF AnthropicStep
  <2>2. \/ up'.stage \notin {"ending", "said"}
        \/ f = "" /\ up.stage = "ending" /\ up'.reason = up.reason
    BY <1>1
  <2> DEFINE out == g.out \o last
  <2>3. NoDone(out) /\ Adds(out, ToolArgs(gen.tools, gen.args, gen.flushed),
           ToolArgs(gen'.tools, gen'.args, gen'.flushed), 0, f)
    BY <1>4, <1>5
  <2> HIDE DEF out
  <2>4. Answers(out)
    BY <1>3, <2>1, <2>2, <2>3, AnthropicAnswers
  <2> QED
    BY <2>4 DEF out
<1> QED
  BY <1>3, <1>5, <1>6 DEF AnthropicMade

\* A sequence over a set is one over a larger set.
LEMMA SeqWider == ASSUME NEW S, NEW T, S \subseteq T, NEW s \in Seq(S) PROVE s \in Seq(T)
  OBVIOUS

\* One element more.
LEMMA Appended ==
  ASSUME NEW S, NEW s \in Seq(S), NEW x \in S
  PROVE  /\ Append(s, x) \in Seq(S) /\ Len(s) \in Nat /\ Len(Append(s, x)) = Len(s) + 1
         /\ DOMAIN s = 1 .. Len(s) /\ DOMAIN Append(s, x) = 1 .. Len(s) + 1
         /\ Append(s, x)[Len(s) + 1] = x /\ \A i \in 1 .. Len(s) : Append(s, x)[i] = s[i]
         /\ Append(s, x) # <<>> /\ Last(Append(s, x)) = x
         /\ Append(s, x) = [i \in 1 .. Len(s) + 1 |-> Append(s, x)[i]]
<1> DEFINE t == Append(s, x)
           n == Len(s)
<1>1. t \in Seq(S) /\ n \in Nat /\ Len(t) = n + 1 /\ DOMAIN s = 1 .. n /\ DOMAIN t = 1 .. n + 1
  OBVIOUS
<1>2. t[n + 1] = x /\ \A i \in 1 .. n : t[i] = s[i]
  OBVIOUS
<1>3. t # <<>>
  BY <1>1
<1> HIDE DEF t, n
<1>4. Last(t) = x
  BY <1>1, <1>2 DEF Last
<1>5. t = [i \in 1 .. n + 1 |-> t[i]]
  BY <1>1
<1> QED
  BY <1>1, <1>2, <1>3, <1>4, <1>5 DEF t, n

\* A block of text starts.
LEMMA AnthropicTextStarts ==
  ASSUME NEW x, AnthropicStep(x), x.said = up.said, x.event.reason = None, x.stage = "block",
         x.event.type = "content_block_start", x.event.tool = FALSE,
         x.event.block = Len(up.blocks) + 1
  PROVE  AnthropicMade
<1>0. Len(up.blocks) + 1 > Len(up.blocks)
  <2>1. Len(up.blocks) \in Nat
    BY DEF AnthropicStep, AnthropicTracks
  <2> QED
    BY <2>1
<1>1. /\ up'.blocks = Append(up.blocks, FALSE) /\ up'.said = up.said /\ up'.stage = "block"
      /\ source = "anthropic" /\ source' = source /\ AnthropicTracks
      /\ DOMAIN gen = GenFields /\ gen.out = <<>> /\ gen.state = "running"
  BY <1>0 DEF AnthropicStep
<1>2. gen' = gen
  BY DEF AnthropicStep, translate, BlockStart
<1> DEFINE n == Len(up.blocks)
           b == Append(up.blocks, FALSE)
<1>3. n \in Nat /\ b \in Seq(BOOLEAN) /\ Len(b) = n + 1 /\ b # <<>> /\ Last(b) = FALSE
  <2>1. up.blocks \in Seq(BOOLEAN)
    BY <1>1 DEF AnthropicTracks
  <2>2. FALSE \in BOOLEAN
    OBVIOUS
  <2>3. n \in Nat /\ b \in Seq(BOOLEAN) /\ Len(b) = n + 1 /\ b[n + 1] = FALSE
    BY <2>1, <2>2
  <2> HIDE DEF b
  <2> QED
    BY <2>3 DEF Last
<1>4. /\ gen.tools \in Seq(1 .. n) /\ gen.args \subseteq 1 .. n /\ gen.flushed \subseteq 1 .. n
      /\ up.said \in Seq(Kinds)
      /\ \A i, j \in DOMAIN gen.tools : gen.tools[i] = gen.tools[j] => i = j
      /\ SaidCalls(up.said) = [k \in DOMAIN gen.tools |-> IF gen.tools[k] \in gen.args THEN "call" ELSE "bare"]
  BY <1>1 DEF AnthropicTracks
<1> HIDE DEF n, b
<1>5. 1 .. n \subseteq 1 .. n + 1 /\ n + 1 \notin 1 .. n
  BY <1>3
<1>6. AnthropicTracks'
  <2>1. up'.blocks = b
    BY <1>1 DEF b
  <2>2. gen.tools \in Seq(1 .. n + 1)
    BY <1>4, <1>5, SeqWider
  <2>3. gen.args \subseteq 1 .. Len(b) /\ gen.flushed \subseteq 1 .. Len(b) /\ Len(b) \notin gen.flushed
        /\ gen.tools \in Seq(1 .. Len(b))
    BY <1>3, <1>4, <1>5, <2>2
  <2> QED
    BY <1>1, <1>2, <1>3, <1>4, <2>1, <2>3 DEF AnthropicTracks
<1>7. Len(SaidTexts(up'.said)) = Len(SaidTexts(up.said)) + 0
  <2>1. Len(SaidTexts(up.said)) \in Nat
    BY <1>4, SaidMore DEF Kinds
  <2> QED
    BY <1>1, <2>1
<1>8. Tells(<<>>, <<>>, 0, "") /\ NoDone(<<>>)
  BY ChunksTell DEF ArgKinds
<1>9. Answers(gen'.out)
  <2> DEFINE more == gen'.out
             A == ToolArgs(gen.tools, gen.args, gen.flushed)
  <2>1. Tells(more, <<>>, 0, "") /\ NoDone(more)
    BY <1>1, <1>2, <1>8
  <2>2. Adds(more, A, A, 0, "")
    <3> HIDE DEF more, A
    <3> QED
      BY <2>1, AddsNone
  <2>3. Adds(more, A, ToolArgs(gen'.tools, gen'.args, gen'.flushed), 0, "")
    BY <1>2, <2>2
  <2>4. up'.stage \notin {"ending", "said"}
    BY <1>1
  <2> HIDE DEF more
  <2> QED
    BY <1>1, <1>7, <2>1, <2>3, <2>4, AnthropicAnswers DEF more
<1>10. Sound(gen'.out)
  BY <1>1, <1>2, <1>8 DEF Tells
<1> QED
  BY <1>1, <1>2, <1>6, <1>9, <1>10 DEF AnthropicMade

\* A tool call starts: it is numbered by the calls before it.
LEMMA AnthropicCallStarts ==
  ASSUME NEW x, AnthropicStep(x), x.said = Append(up.said, "bare"), x.event.reason = None,
         x.stage = "block", x.event.type = "content_block_start", x.event.tool = TRUE,
         x.event.block = Len(up.blocks) + 1
  PROVE  AnthropicMade
<1> DEFINE n == Len(up.blocks)
           b == Append(up.blocks, TRUE)
           tools == gen.tools
           more == gen'.tools
           m == Len(tools)
           args == gen.args
           gone == gen.flushed
           said == Append(up.said, "bare")
           c == SaidCalls(up.said)
           A == ToolArgs(tools, args, gone)
           A2 == ToolArgs(more, args, gone)
<1>0. n + 1 > n
  <2>1. n \in Nat
    BY DEF AnthropicStep, AnthropicTracks
  <2> HIDE DEF n
  <2> QED
    BY <2>1
<1>1. /\ up'.blocks = b /\ up'.said = said /\ up'.stage = "block"
      /\ source = "anthropic" /\ source' = source /\ AnthropicTracks
      /\ DOMAIN gen = GenFields /\ gen.out = <<>> /\ gen.state = "running"
  BY <1>0 DEF AnthropicStep
<1>2. /\ more = Append(tools, n + 1) /\ gen'.out = <<HeadChunk(m)>> /\ gen'.args = args
      /\ gen'.flushed = gone /\ gen'.state = "running" /\ DOMAIN gen' = GenFields
  <2>1. gen' = [gen EXCEPT !.tools = Append(tools, n + 1), !.out = <<HeadChunk(m)>>]
    BY DEF AnthropicStep, translate, BlockStart
  <2> QED
    BY <1>1, <2>1 DEF GenFields
<1>3. n \in Nat /\ b \in Seq(BOOLEAN) /\ Len(b) = n + 1 /\ b # <<>>
  <2>1. up.blocks \in Seq(BOOLEAN)
    BY <1>1 DEF AnthropicTracks
  <2> DEFINE v == TRUE
             s == up.blocks
  <2>2. v \in BOOLEAN
    OBVIOUS
  <2> HIDE DEF v, s
  <2>3. Append(s, v) \in Seq(BOOLEAN) /\ Len(s) \in Nat /\ Len(Append(s, v)) = Len(s) + 1 /\ Append(s, v) # <<>>
    BY <2>1, <2>2, Appended DEF s
  <2> QED
    BY <2>3 DEF v, s
<1>4. /\ tools \in Seq(1 .. n) /\ args \subseteq 1 .. n /\ gone \subseteq 1 .. n
      /\ up.said \in Seq(Kinds)
      /\ \A i, j \in DOMAIN tools : tools[i] = tools[j] => i = j
      /\ c = [k \in DOMAIN tools |-> IF tools[k] \in args THEN "call" ELSE "bare"]
  BY <1>1 DEF AnthropicTracks
<1> HIDE DEF n, b, tools, more, m, args, gone
<1>5. 1 .. n \subseteq 1 .. n + 1 /\ n + 1 \notin 1 .. n /\ n + 1 \in 1 .. n + 1
  BY <1>3
<1>6. /\ m \in Nat /\ DOMAIN tools = 1 .. m /\ DOMAIN more = 1 .. m + 1 /\ more # <<>>
      /\ Last(more) = n + 1 /\ more[m + 1] = n + 1
      /\ \A i \in 1 .. m : more[i] = tools[i] /\ tools[i] \in 1 .. n /\ i # m + 1 /\ i \in 1 .. m + 1
      /\ more \in Seq(1 .. n + 1) /\ m + 1 \in 1 .. m + 1
      /\ \A i \in 1 .. m + 1 : i \in 1 .. m \/ i = m + 1
  <2>1. tools \in Seq(1 .. n + 1)
    BY <1>4, <1>5, SeqWider
  <2>2. Append(tools, n + 1) \in Seq(1 .. n + 1) /\ Len(Append(tools, n + 1)) = m + 1
    BY <1>5, <2>1 DEF m
  <2>3. m \in Nat /\ DOMAIN tools = 1 .. m /\ DOMAIN more = 1 .. m + 1 /\ more[m + 1] = n + 1
        /\ \A i \in 1 .. m : more[i] = tools[i] /\ tools[i] \in 1 .. n
    <3>1. tools \in Seq(1 .. n + 1)
      BY <2>1
    <3>2. \A i \in 1 .. m : tools[i] \in 1 .. n
      BY <1>4, PiecesSeq DEF m
    <3> QED
      BY <1>2, <1>5, <3>1, <3>2, Appended DEF m
  <2>4. more # <<>> /\ Last(more) = n + 1
    BY <1>2, <2>2, <2>3 DEF Last
  <2>5. \A i \in 1 .. m : i # m + 1 /\ i \in 1 .. m + 1
    BY <2>3
  <2>6. \A i \in 1 .. m + 1 : i \in 1 .. m \/ i = m + 1
    BY <2>3
  <2>7. m + 1 \in 1 .. m + 1
    BY <2>3
  <2> QED
    BY <1>2, <2>2, <2>3, <2>4, <2>5, <2>6, <2>7
<1>7. \A i, j \in DOMAIN more : more[i] = more[j] => i = j
  <2> SUFFICES ASSUME NEW i \in 1 .. m + 1, NEW j \in 1 .. m + 1, more[i] = more[j] PROVE i = j
    BY <1>6
  <2>1. CASE i \in 1 .. m /\ j \in 1 .. m
    BY <1>4, <1>6, <2>1
  <2>2. ASSUME NEW k \in 1 .. m PROVE more[k] # more[m + 1]
    BY <1>5, <1>6
  <2> QED
    BY <1>6, <2>1, <2>2
<1>8. /\ said \in Seq(Kinds) /\ IsSeq(c) /\ Len(SaidTexts(said)) = Len(SaidTexts(up.said)) + 0
      /\ SaidCalls(said) = c \o <<"bare">>
  <2>1. "bare" \in Kinds /\ "bare" # "text"
    BY DEF Kinds
  <2>2. /\ said \in Seq(Kinds) /\ IsSeq(c) /\ Len(SaidTexts(said)) = Len(SaidTexts(up.said))
        /\ SaidCalls(said) = c \o <<"bare">> /\ Len(SaidTexts(up.said)) \in Nat
    BY <1>4, <2>1, SaidMore
  <2> QED
    BY <2>2
<1>9. SaidCalls(said) = [k \in DOMAIN more |-> IF more[k] \in args THEN "call" ELSE "bare"]
  <2> DEFINE y == <<"bare">>
             z == c \o y
  <2>1. Len(c) = m
    BY <1>4, <1>6
  <2>2. IsSeq(y) /\ Len(y) = 1 /\ y[1] = "bare"
    BY SingleIs
  <2> HIDE DEF y, c
  <2>3. Joined(c, y, z)
    BY <1>8, <2>2, ConcatIs
  <2> HIDE DEF z
  <2>4. /\ z = [i \in 1 .. m + 1 |-> z[i]] /\ \A i \in 1 .. m : z[i] = c[i]
    BY <2>1, <2>2, <2>3 DEF Joined
  <2>5. z[m + 1] = "bare"
    <3>1. 1 \in 1 .. Len(y)
      BY <2>2
    <3> QED
      BY <2>1, <2>2, <2>3, <3>1 DEF Joined
  <2>6. ASSUME NEW k \in 1 .. m + 1 PROVE z[k] = IF more[k] \in args THEN "call" ELSE "bare"
    <3>1. CASE k \in 1 .. m
      BY <1>4, <1>6, <2>4, <3>1
    <3>2. CASE k = m + 1
      <4>1. more[k] \notin args
        BY <1>4, <1>5, <1>6, <3>2
      <4> QED
        BY <2>5, <3>2, <4>1
    <3> QED
      BY <1>6, <3>1, <3>2
  <2>7. z = [k \in DOMAIN more |-> IF more[k] \in args THEN "call" ELSE "bare"]
    BY <1>6, <2>4, <2>6
  <2> QED
    BY <1>8, <2>7 DEF y, z
<1>10. Last(said) = "bare" /\ said # <<>>
  <2> DEFINE old == up.said
             l == "bare"
  <2>1. l \in Kinds /\ old \in Seq(Kinds) /\ said = Append(old, l)
    BY <1>4 DEF Kinds
  <2> HIDE DEF said, old, l
  <2>2. Append(old, l) # <<>> /\ Last(Append(old, l)) = l
    BY <2>1, Appended
  <2> QED
    BY <2>1, <2>2 DEF l
<1>11. AnthropicTracks'
  <2>1. up'.blocks = b /\ up'.said = said /\ up'.stage = "block" /\ gen'.tools = more
        /\ gen'.args = args /\ gen'.flushed = gone
    BY <1>1, <1>2 DEF more
  <2>2. args \subseteq 1 .. Len(b) /\ gone \subseteq 1 .. Len(b) /\ Len(b) \notin gone
        /\ more \in Seq(1 .. Len(b)) /\ Last(more) = Len(b)
    BY <1>3, <1>4, <1>5, <1>6
  <2>3. Last(said) # "text"
    BY <1>10
  <2> HIDE DEF said, c
  <2> QED
    BY <1>3, <1>6, <1>7, <1>8, <1>9, <1>10, <2>1, <2>2, <2>3 DEF AnthropicTracks
<1>12. Len(A) = m /\ A2 = Append(A, "")
  <2>1. A = [k \in 1 .. m |-> IF tools[k] \in args THEN "part" ELSE IF tools[k] \in gone THEN "{}" ELSE ""]
    BY <1>6 DEF ToolArgs
  <2>2. A2 = [k \in 1 .. m + 1 |-> IF more[k] \in args THEN "part" ELSE IF more[k] \in gone THEN "{}" ELSE ""]
    BY <1>6 DEF ToolArgs
  <2>3. A \in Seq(ArgKinds)
    <3>1. \A k \in 1 .. m : A[k] \in ArgKinds
      BY <2>1 DEF ArgKinds
    <3>2. A \in [1 .. m -> ArgKinds]
      BY <2>1, <3>1
    <3> QED
      BY <1>6, <3>2
  <2> HIDE DEF A, A2
  <2>4. Len(A) = m
    <3>1. DOMAIN A = 1 .. m
      BY <2>1
    <3> QED
      BY <1>6, <2>3, <3>1
  <2> DEFINE Aa == Append(A, "")
  <2>5. Aa = [k \in 1 .. m + 1 |-> Aa[k]] /\ Aa[m + 1] = "" /\ \A k \in 1 .. m : Aa[k] = A[k]
    <3> DEFINE v == ""
    <3>1. v \in ArgKinds
      BY DEF ArgKinds
    <3> HIDE DEF v, Aa
    <3>2. /\ Append(A, v) = [k \in 1 .. m + 1 |-> Append(A, v)[k]] /\ Append(A, v)[m + 1] = v
          /\ \A k \in 1 .. m : Append(A, v)[k] = A[k]
      BY <2>3, <2>4, <3>1, Appended
    <3> QED
      BY <3>2 DEF v, Aa
  <2> HIDE DEF Aa
  <2>6. ASSUME NEW k \in 1 .. m + 1 PROVE A2[k] = Aa[k]
    <3>1. CASE k \in 1 .. m
      BY <1>6, <2>1, <2>2, <2>5, <3>1
    <3>2. CASE k = m + 1
      <4>1. more[k] \notin args /\ more[k] \notin gone
        BY <1>4, <1>5, <1>6, <3>2
      <4> QED
        BY <2>2, <2>5, <3>2, <4>1
    <3> QED
      BY <1>6, <3>1, <3>2
  <2>7. A2 = Aa
    BY <2>2, <2>5, <2>6
  <2> QED
    BY <2>4, <2>7 DEF Aa
<1>13. Tells(<<HeadChunk(m)>>, <<[index |-> m, head |-> TRUE, args |-> ""]>>, 0, "") /\ NoDone(<<HeadChunk(m)>>)
  <2>1. "" \in ArgKinds
    BY DEF ArgKinds
  <2> QED
    BY <1>6, <2>1, ChunksTell
<1> DEFINE out == gen'.out
<1>14. Tells(out, <<[index |-> m, head |-> TRUE, args |-> ""]>>, 0, "") /\ NoDone(out)
  BY <1>2, <1>13
<1>15. Answers(out)
  <2>1. Adds(out, A, A2, 0, "")
    <3>1. "" \in ArgKinds
      BY DEF ArgKinds
    <3>2. Tells(out, <<[index |-> Len(A), head |-> TRUE, args |-> ""]>>, 0, "")
      BY <1>12, <1>14
    <3> HIDE DEF out, A, A2
    <3> QED
      BY <1>12, <3>1, <3>2, AddsCall
  <2>2. Adds(out, ToolArgs(gen.tools, gen.args, gen.flushed),
              ToolArgs(gen'.tools, gen'.args, gen'.flushed), 0, "")
    BY <1>2, <2>1 DEF tools, more, args, gone
  <2>3. up'.stage \notin {"ending", "said"}
    BY <1>1
  <2>4. Len(SaidTexts(up'.said)) = Len(SaidTexts(up.said)) + 0
    BY <1>1, <1>8
  <2> HIDE DEF out
  <2> QED
    BY <1>1, <1>14, <2>2, <2>3, <2>4, AnthropicAnswers
<1>16. Sound(out)
  BY <1>14 DEF Tells
<1> QED
  BY <1>2, <1>11, <1>15, <1>16 DEF AnthropicMade, out

\* A sequence is all but its last element and that.
LEMMA FrontIs ==
  ASSUME NEW S, NEW s \in Seq(S), s # <<>>
  PROVE  /\ Front(s) \in Seq(S) /\ Last(s) \in S /\ s = Append(Front(s), Last(s))
         /\ Len(Front(s)) = Len(s) - 1 /\ Len(s) \in Nat \ {0}
<1> DEFINE n == Len(s)
           f == Front(s)
<1>1. n \in Nat \ {0} /\ DOMAIN s = 1 .. n /\ \A i \in 1 .. n : s[i] \in S
  OBVIOUS
<1>2. f \in Seq(S) /\ Len(f) = n - 1 /\ \A i \in 1 .. n - 1 : f[i] = s[i]
  <2>1. n - 1 \in Nat /\ n - 1 <= n /\ (n - 1) + 1 - 1 = n - 1 /\ 1 \in 1 .. n
    BY <1>1
  <2>2. f = SubSeq(s, 1, n - 1)
    BY DEF Front
  <2>3. f \in Seq(S)
    BY <1>1, <2>1, <2>2
  <2>4. Len(f) = n - 1
    BY <1>1, <2>1, <2>2
  <2>5. \A i \in 1 .. n - 1 : f[i] = s[i]
    BY <1>1, <2>1, <2>2
  <2> QED
    BY <2>3, <2>4, <2>5
<1>3. Last(s) = s[n] /\ Last(s) \in S
  BY <1>1 DEF Last
<1> HIDE DEF n, f
<1> DEFINE t == Append(f, Last(s))
<1>4. /\ t \in Seq(S) /\ DOMAIN t = 1 .. n /\ t[n] = Last(s)
      /\ \A i \in 1 .. n - 1 : t[i] = s[i]
  <2>1. (n - 1) + 1 = n
    BY <1>1
  <2>2. /\ t \in Seq(S) /\ DOMAIN t = 1 .. Len(f) + 1 /\ t[Len(f) + 1] = Last(s)
        /\ \A i \in 1 .. Len(f) : t[i] = f[i]
    BY <1>2, <1>3, Appended
  <2> HIDE DEF t
  <2> QED
    BY <1>2, <2>1, <2>2
<1> HIDE DEF t
<1>5. ASSUME NEW i \in 1 .. n PROVE t[i] = s[i]
  <2>1. CASE i = n
    BY <1>3, <1>4, <2>1
  <2>2. CASE i # n
    <3>1. i \in 1 .. n - 1
      BY <1>1, <2>2
    <3> QED
      BY <1>4, <3>1
  <2> QED
    BY <2>1, <2>2
<1>6. s = [i \in 1 .. n |-> s[i]] /\ t = [i \in 1 .. n |-> t[i]]
  BY <1>1, <1>4
<1>7. s = t
  BY <1>5, <1>6
<1> QED
  BY <1>1, <1>2, <1>3, <1>7 DEF n, f, t

\* A text goes on.
LEMMA AnthropicTextGoesOn ==
  ASSUME NEW x, AnthropicStep(x), up.stage = "block", x.said = Append(up.said, "text"),
         x.event.reason = None, x.stage = "block", x.event.type = "content_block_delta",
         x.event.tool = FALSE, Last(up.blocks) = FALSE
  PROVE  AnthropicMade
<1> DEFINE said == Append(up.said, "text")
           more == gen'.out
           A == ToolArgs(gen.tools, gen.args, gen.flushed)
<1>1. /\ up'.blocks = up.blocks /\ up'.said = said /\ up'.stage = "block"
      /\ source = "anthropic" /\ source' = source /\ AnthropicTracks
      /\ DOMAIN gen = GenFields /\ gen.out = <<>> /\ gen.state = "running"
  BY DEF AnthropicStep
<1>2. /\ gen'.tools = gen.tools /\ gen'.args = gen.args /\ gen'.flushed = gen.flushed
      /\ gen'.state = "running" /\ DOMAIN gen' = GenFields /\ more = <<TextChunk>>
  <2>1. gen' = [gen EXCEPT !.out = <<TextChunk>>]
    BY DEF AnthropicStep, translate, BlockDelta
  <2> QED
    BY <1>1, <2>1 DEF GenFields
<1>3. /\ said \in Seq(Kinds) /\ Len(SaidTexts(said)) = Len(SaidTexts(up.said)) + 1
      /\ SaidCalls(said) = SaidCalls(up.said)
  <2>1. "text" \in Kinds /\ up.said \in Seq(Kinds)
    BY <1>1 DEF Kinds, AnthropicTracks
  <2> QED
    BY <2>1, SaidMore
<1> HIDE DEF said, A, more
<1>4. AnthropicTracks'
  BY <1>1, <1>2, <1>3 DEF AnthropicTracks
<1>5. Tells(more, <<>>, 1, "") /\ NoDone(more)
  <2>1. 0 \in Nat /\ "" \in ArgKinds
    BY DEF ArgKinds
  <2>2. Tells(<<TextChunk>>, <<>>, 1, "") /\ NoDone(<<TextChunk>>)
    BY <2>1, ChunksTell
  <2> QED
    BY <1>2, <2>2
<1>6. Answers(more)
  <2>1. Adds(more, A, A, 1, "")
    BY <1>5, AddsNone
  <2>2. Adds(more, A, ToolArgs(gen'.tools, gen'.args, gen'.flushed), 1, "")
    BY <1>2, <2>1 DEF A
  <2>3. up'.stage \notin {"ending", "said"}
    BY <1>1
  <2>4. Len(SaidTexts(up'.said)) = Len(SaidTexts(up.said)) + 1
    BY <1>1, <1>3
  <2> QED
    BY <1>1, <1>5, <2>2, <2>3, <2>4, AnthropicAnswers DEF A
<1> QED
  BY <1>2, <1>4, <1>5, <1>6 DEF AnthropicMade, Tells, more

\* A call's arguments go on.
LEMMA AnthropicCallGoesOn ==
  ASSUME NEW x, AnthropicStep(x), up.stage = "block", x.said = Append(Front(up.said), "call"),
         x.event.reason = None, x.stage = "block", x.event.type = "content_block_delta",
         x.event.tool = TRUE, x.event.block = Len(up.blocks), Last(up.blocks) = TRUE
  PROVE  AnthropicMade
<1> DEFINE n == Len(up.blocks)
           tools == gen.tools
           m == Len(tools)
           args == gen.args
           args2 == args \cup {n}
           gone == gen.flushed
           front == Front(up.said)
           c == SaidCalls(up.said)
           said == Append(front, "call")
           A == ToolArgs(tools, args, gone)
           A2 == ToolArgs(tools, args2, gone)
           more == gen'.out
<1>1. /\ up'.blocks = up.blocks /\ up'.said = said /\ up'.stage = "block"
      /\ source = "anthropic" /\ source' = source /\ AnthropicTracks
      /\ DOMAIN gen = GenFields /\ gen.out = <<>> /\ gen.state = "running"
  BY DEF AnthropicStep
<1>2. /\ tools \in Seq(1 .. n) /\ args \subseteq 1 .. n /\ gone \subseteq 1 .. n
      /\ up.said \in Seq(Kinds) /\ up.blocks \in Seq(BOOLEAN) /\ up.blocks # <<>> /\ n \notin gone
      /\ \A i, j \in DOMAIN tools : tools[i] = tools[j] => i = j
      /\ c = [k \in DOMAIN tools |-> IF tools[k] \in args THEN "call" ELSE "bare"]
      /\ tools # <<>> /\ Last(tools) = n /\ up.said # <<>> /\ Last(up.said) # "text"
  BY <1>1 DEF AnthropicTracks
<1>3. n \in Nat \ {0} /\ n \in 1 .. n
  <2>1. n \in Nat \ {0}
    BY <1>2, FrontIs
  <2> QED
    BY <2>1
<1> HIDE DEF n, tools, args, gone
<1>4. m \in Nat \ {0} /\ DOMAIN tools = 1 .. m /\ m \in 1 .. m /\ tools[m] = n
  <2>1. m \in Nat \ {0} /\ DOMAIN tools = 1 .. m
    BY <1>2, FrontIs
  <2> QED
    BY <1>2, <2>1 DEF Last
<1> HIDE DEF m, args2
<1>5. /\ gen'.tools = tools /\ gen'.args = args2 /\ gen'.flushed = gone
      /\ gen'.state = "running" /\ DOMAIN gen' = GenFields /\ more = <<ArgsChunk(m - 1, "part")>>
  <2>1. n \in ToSet(tools)
    BY <1>4 DEF ToSet
  <2>2. IndexOf(tools, tools[m]) = m - 1
    BY <1>2, <1>4, IndexIs
  <2>3. gen' = BlockDelta(gen, x.event)
    BY DEF AnthropicStep, translate
  <2>4. gen' = [gen EXCEPT !.args = args2, !.out = <<ArgsChunk(IndexOf(tools, n), "part")>>]
    BY <2>1, <2>3 DEF BlockDelta, tools, n, args, args2
  <2>5. IndexOf(tools, n) = m - 1
    BY <1>4, <2>2
  <2> QED
    BY <1>1, <2>4, <2>5 DEF GenFields, tools, gone
<1>6. /\ front \in Seq(Kinds) /\ Last(up.said) \in Kinds /\ up.said = Append(front, Last(up.said))
  BY <1>2, FrontIs
<1>7. /\ c = SaidCalls(front) \o <<Last(up.said)>> /\ IsSeq(SaidCalls(front))
      /\ Len(SaidTexts(up.said)) = Len(SaidTexts(front)) /\ Len(SaidTexts(front)) \in Nat
  <2> DEFINE l == Last(up.said)
  <2>1. l \in Kinds /\ l # "text"
    BY <1>2, <1>6
  <2> HIDE DEF l, front
  <2>2. /\ SaidCalls(Append(front, l)) = SaidCalls(front) \o <<l>> /\ IsSeq(SaidCalls(front))
        /\ Len(SaidTexts(Append(front, l))) = Len(SaidTexts(front)) /\ Len(SaidTexts(front)) \in Nat
    BY <1>6, <2>1, SaidMore
  <2> QED
    BY <1>6, <2>2 DEF l
<1>8. /\ said \in Seq(Kinds) /\ said # <<>> /\ Last(said) = "call"
      /\ SaidCalls(said) = SaidCalls(front) \o <<"call">>
      /\ Len(SaidTexts(said)) = Len(SaidTexts(front))
  <2> DEFINE l == "call"
  <2>1. l \in Kinds /\ l # "text"
    BY DEF Kinds
  <2> HIDE DEF l, front
  <2>2. /\ SaidCalls(Append(front, l)) = SaidCalls(front) \o <<l>>
        /\ Len(SaidTexts(Append(front, l))) = Len(SaidTexts(front)) /\ Append(front, l) \in Seq(Kinds)
    BY <1>6, <2>1, SaidMore
  <2>3. Append(front, l) # <<>> /\ Last(Append(front, l)) = l
    BY <1>6, <2>1, Appended
  <2> QED
    BY <2>2, <2>3 DEF l
<1> HIDE DEF said, front, c
<1>9. SaidCalls(said) = [k \in DOMAIN tools |-> IF tools[k] \in args2 THEN "call" ELSE "bare"]
  <2> DEFINE s == SaidCalls(front)
             y == <<Last(up.said)>>
             z == <<"call">>
             sy == s \o y
             sz == s \o z
  <2>1. IsSeq(s) /\ IsSeq(y) /\ IsSeq(z) /\ Len(y) = 1 /\ Len(z) = 1 /\ z[1] = "call"
    BY <1>7, SingleIs
  <2> HIDE DEF s, y, z
  <2>2. Joined(s, y, sy) /\ Joined(s, z, sz)
    BY <2>1, ConcatIs
  <2>8. c = sy
    BY <1>7 DEF s, y
  <2> HIDE DEF sy, sz
  <2>3. Len(s) + 1 = m
    <3>1. Len(s) \in Nat /\ DOMAIN sy = 1 .. Len(s) + 1
      BY <2>1, <2>2 DEF Joined
    <3>2. DOMAIN c = 1 .. m
      BY <1>2, <1>4
    <3> QED
      BY <1>4, <2>8, <3>1, <3>2
  <2>4. /\ Len(s) \in Nat /\ sz = [i \in 1 .. m |-> sz[i]] /\ sz[m] = "call"
        /\ \A i \in 1 .. Len(s) : sz[i] = s[i] /\ sy[i] = s[i]
    <3>1. 1 \in 1 .. Len(z)
      BY <2>1
    <3> QED
      BY <2>1, <2>2, <2>3, <3>1 DEF Joined
  <2>5. ASSUME NEW k \in 1 .. m PROVE sz[k] = IF tools[k] \in args2 THEN "call" ELSE "bare"
    <3>1. CASE k = m
      BY <1>4, <2>4, <3>1 DEF args2
    <3>2. CASE k # m
      <4>1. k \in 1 .. Len(s)
        BY <1>4, <2>3, <2>4, <3>2
      <4>2. tools[k] # n
        BY <1>2, <1>4, <3>2
      <4>3. sz[k] = c[k]
        BY <2>4, <2>8, <4>1
      <4> QED
        BY <1>2, <1>4, <4>2, <4>3 DEF args2
    <3> QED
      BY <3>1, <3>2
  <2>6. sz = [k \in DOMAIN tools |-> IF tools[k] \in args2 THEN "call" ELSE "bare"]
    BY <1>4, <2>4, <2>5
  <2> QED
    BY <1>8, <2>6 DEF s, z, sz
<1>10. AnthropicTracks'
  <2>1. args2 \subseteq 1 .. n
    BY <1>2, <1>3 DEF args2
  <2>2. Last(said) # "text"
    BY <1>8
  <2>3. /\ n = Len(up'.blocks) /\ up'.blocks = up.blocks /\ up'.said = said /\ up'.stage = "block"
        /\ gen'.tools = tools /\ gen'.args = args2 /\ gen'.flushed = gone
    BY <1>1, <1>5 DEF n
  <2>4. /\ up.blocks \in Seq(BOOLEAN) /\ tools \in Seq(1 .. n) /\ gone \subseteq 1 .. n
        /\ \A i, j \in DOMAIN tools : tools[i] = tools[j] => i = j
        /\ up.blocks # <<>> /\ n \notin gone /\ tools # <<>> /\ Last(tools) = n
    BY <1>1, <1>2 DEF AnthropicTracks, n, tools, gone
  <2>5. SaidCalls(up'.said) = [k \in DOMAIN gen'.tools |-> IF gen'.tools[k] \in gen'.args THEN "call" ELSE "bare"]
    BY <1>9, <2>3, Zenon
  <2> QED
    BY <1>8, <2>1, <2>2, <2>3, <2>4, <2>5 DEF AnthropicTracks
<1> DEFINE p == [index |-> m - 1, head |-> FALSE, args |-> "part"]
           e == <<p>>
<1>11. Tells(more, e, 0, "") /\ NoDone(more)
  <2>1. m - 1 \in Nat /\ "part" \in ArgKinds
    BY <1>4 DEF ArgKinds
  <2>2. /\ Tells(<<ArgsChunk(m - 1, "part")>>, <<[index |-> m - 1, head |-> FALSE, args |-> "part"]>>, 0, "")
        /\ NoDone(<<ArgsChunk(m - 1, "part")>>)
    BY <2>1, ChunksTell
  <2> QED
    BY <1>5, <2>2
<1>12. /\ A = [k \in 1 .. m |-> IF tools[k] \in args THEN "part" ELSE IF tools[k] \in gone THEN "{}" ELSE ""]
       /\ A2 = [k \in 1 .. m |-> IF tools[k] \in args2 THEN "part" ELSE IF tools[k] \in gone THEN "{}" ELSE ""]
  BY <1>4 DEF ToolArgs
<1> HIDE DEF A, A2, more
<1>13. /\ A2 \in Seq(ArgKinds) /\ Len(A2) = m /\ Len(A) = m
       /\ A[m] \in {"", "part"} /\ A2[m] = "part"
       /\ \A k \in 1 .. m : k # m => A2[k] = A[k]
  <2>1. \A k \in 1 .. m : A2[k] \in ArgKinds
    BY <1>12 DEF ArgKinds
  <2>2. A2 \in [1 .. m -> ArgKinds] /\ DOMAIN A = 1 .. m
    BY <1>12, <2>1
  <2>3. A2 \in Seq(ArgKinds) /\ Len(A2) = m
    BY <1>4, <2>2
  <2>4. Len(A) = m
    BY <1>4, <2>2
  <2>5. A[m] \in {"", "part"} /\ A2[m] = "part"
    BY <1>2, <1>4, <1>12 DEF args2
  <2>6. ASSUME NEW k \in 1 .. m, k # m PROVE A2[k] = A[k]
    <3>1. tools[k] # n
      BY <1>2, <1>4, <2>6
    <3> QED
      BY <1>12, <3>1 DEF args2
  <2> QED
    BY <2>3, <2>4, <2>5, <2>6
<1>14. /\ e \in Seq(Pieces) /\ DOMAIN e = {1} /\ e[1].index + 1 = m /\ e[1].index = m - 1
       /\ ~e[1].head /\ e[1].args = "part"
  <2>1. p \in Pieces
    <3>1. m - 1 \in Nat
      BY <1>4
    <3> QED
      BY <3>1 DEF Pieces
  <2>2. p.index = m - 1 /\ ~p.head /\ p.args = "part"
    OBVIOUS
  <2> HIDE DEF p
  <2>3. e \in Seq(Pieces)
    BY <2>1, SingleSeq
  <2>4. DOMAIN e = {1} /\ e[1] = p
    OBVIOUS
  <2>5. (m - 1) + 1 = m
    BY <1>4
  <2> HIDE DEF e
  <2> QED
    BY <2>2, <2>3, <2>4, <2>5
<1> HIDE DEF p, e
<1>15. Gives(e, "part", A)
  <2>1. "part" \in ArgKinds \ {""} /\ "part" # "{}"
    BY DEF ArgKinds
  <2>2. A[e[1].index + 1] \in {"", "part"} /\ e[1].index + 1 \in 1 .. Len(A)
    BY <1>4, <1>13, <1>14
  <2> QED
    BY <1>14, <2>1, <2>2 DEF Gives
<1>16. Grown(e, "part", A, A2)
  <2>1. A2[e[1].index + 1] = "part"
    BY <1>13, <1>14
  <2>2. \A k \in 1 .. Len(A) : A2[k] = A[k] \/ k = m
    BY <1>13
  <2>3. \A k \in 1 .. Len(A) : k = m => e[1].index = k - 1
    BY <1>14
  <2>4. A2 \in Seq(ArgKinds) /\ Len(A2) = Len(A)
    BY <1>13
  <2> QED
    BY <1>14, <2>1, <2>2, <2>3, <2>4 DEF Grown
<1>17. Answers(more)
  <2>1. Adds(more, A, A2, 0, "")
    BY <1>11, <1>15, <1>16, AddsGiven
  <2>2. Adds(more, ToolArgs(gen.tools, gen.args, gen.flushed),
              ToolArgs(gen'.tools, gen'.args, gen'.flushed), 0, "")
    BY <1>5, <2>1 DEF A, A2, tools, args, gone
  <2>3. up'.stage \notin {"ending", "said"}
    BY <1>1
  <2>4. Len(SaidTexts(up'.said)) = Len(SaidTexts(up.said)) + 0
    BY <1>1, <1>7, <1>8
  <2> QED
    BY <1>1, <1>11, <2>2, <2>3, <2>4, AnthropicAnswers
<1> QED
  BY <1>5, <1>10, <1>11, <1>17 DEF AnthropicMade, Tells, more

\* The message ends, with its finish reason.
LEMMA AnthropicEnds ==
  ASSUME NEW x, AnthropicStep(x), x.said = up.said, x.event.reason # None, x.stage = "ending",
         x.event.type = "message_delta"
  PROVE  AnthropicMade
<1> DEFINE f == mapStopReason(x.event.reason)
           more == gen'.out
           A == ToolArgs(gen.tools, gen.args, gen.flushed)
<1>1. /\ up'.blocks = up.blocks /\ up'.said = up.said /\ up'.stage = "ending"
      /\ up'.reason = x.event.reason
      /\ source = "anthropic" /\ source' = source /\ AnthropicTracks
      /\ DOMAIN gen = GenFields /\ gen.out = <<>> /\ gen.state = "running"
  BY DEF AnthropicStep
<1>2. /\ gen'.tools = gen.tools /\ gen'.args = gen.args /\ gen'.flushed = gen.flushed
      /\ gen'.state = "running" /\ DOMAIN gen' = GenFields /\ more = <<FinishChunk(f)>>
  <2>1. gen' = MessageDelta(gen, x.event)
    BY DEF AnthropicStep, translate
  <2> QED
    BY <1>1, <2>1 DEF MessageDelta, GenFields
<1>3. AnthropicTracks' /\ Len(SaidTexts(up'.said)) = Len(SaidTexts(up.said)) + 0
  <2>1. gen'.flushed \subseteq 1 .. Len(up.blocks)
    BY <1>1, <1>2 DEF AnthropicTracks
  <2> QED
    BY <1>1, <1>2, <2>1, AnthropicStays
<1> HIDE DEF f, more, A
<1>4. Tells(more, <<>>, 0, f) /\ NoDone(more)
  <2>1. 0 \in Nat /\ "" \in ArgKinds
    BY DEF ArgKinds
  <2>2. Tells(<<FinishChunk(f)>>, <<>>, 0, f) /\ NoDone(<<FinishChunk(f)>>)
    BY <2>1, ChunksTell
  <2> QED
    BY <1>2, <2>2
<1>5. Answers(more)
  <2>1. Adds(more, A, A, 0, f)
    BY <1>4, AddsNone
  <2>2. Adds(more, ToolArgs(gen.tools, gen.args, gen.flushed),
              ToolArgs(gen'.tools, gen'.args, gen'.flushed), 0, f)
    BY <1>2, <2>1 DEF A
  <2>3. f = mapStopReason(up'.reason)
    BY <1>1 DEF f
  <2> QED
    BY <1>1, <1>3, <1>4, <2>2, <2>3, AnthropicAnswers
<1> QED
  BY <1>2, <1>3, <1>4, <1>5 DEF AnthropicMade, Tells, more

\* A block stops.
LEMMA AnthropicBlockStops ==
  ASSUME NEW x, AnthropicStep(x), x.said = up.said, x.event.reason = None, x.stage = "between",
         x.event.type = "content_block_stop"
  PROVE  AnthropicMade
<1> DEFINE g == flushEmptyToolArgs(gen, {x.event.block})
           last == <<>>
<1>1. gen' = g /\ DOMAIN gen = GenFields /\ gen.state = "running" /\ AnthropicTracks
  BY DEF AnthropicStep, translate
<1>2. g = flushEmptyToolArgs(gen, {x.event.block})
  OBVIOUS
<1>3. Tells(last, <<>>, 0, "") /\ NoDone(last)
  BY ChunksTell DEF ArgKinds
<1> HIDE DEF g, last
<1>4. Sound(g.out)
  BY <1>1, <1>2, Sweeps
<1>5. g.out \o last = g.out
  BY <1>4, SoundAssociative DEF last
<1>6. DOMAIN gen' = GenFields /\ gen'.state = "running"
  BY <1>1, <1>2 DEF flushEmptyToolArgs, GenFields
<1>7. gen'.out = g.out \o last /\ gen'.tools = g.tools /\ gen'.args = g.args /\ gen'.flushed = g.flushed
  BY <1>1, <1>5
<1>8. x.event.type # "content_block_start" /\ x.stage \in {"between", "failed"}
      /\ gen'.state \in {"running", "returning"}
  BY <1>6
<1> QED
  BY <1>2, <1>3, <1>6, <1>7, <1>8, AnthropicSweeps

\* The message stops: its usage comes last, if the client wants it.
LEMMA AnthropicStops ==
  ASSUME NEW x, AnthropicStep(x), up.stage = "ending", x.said = up.said, x.event.reason = None,
         x.stage = "said", x.event.type = "message_stop"
  PROVE  AnthropicMade
<1> DEFINE B == ToSet(gen.tools)
           g == flushEmptyToolArgs(gen, B)
           last == IF opts.usage THEN <<UsageChunk(gen.saw)>> ELSE <<>>
<1>1. gen' = [g EXCEPT !.state = "returning", !.out = g.out \o last]
  BY DEF AnthropicStep, translate, MessageStop
<1>2. g = flushEmptyToolArgs(gen, B) /\ B = ToSet(gen.tools)
  OBVIOUS
<1>3. Tells(last, <<>>, 0, "") /\ NoDone(last)
  BY ChunksTell DEF ArgKinds
<1>4. DOMAIN gen = GenFields
  BY DEF AnthropicStep
<1> HIDE DEF g, last, B
<1>5. DOMAIN g = GenFields
  BY <1>2, <1>4 DEF flushEmptyToolArgs
<1>6. /\ DOMAIN gen' = GenFields /\ gen'.state = "returning" /\ gen'.out = g.out \o last
      /\ gen'.tools = g.tools /\ gen'.args = g.args /\ gen'.flushed = g.flushed
  BY <1>1, <1>5 DEF GenFields
<1>7. x.event.type # "content_block_start" /\ gen'.state \in {"running", "returning"}
  BY <1>6
<1> QED
  BY <1>2, <1>3, <1>6, <1>7, AnthropicSweeps

\* The stream breaks: it is finished for the client.
LEMMA AnthropicBreaks ==
  ASSUME NEW x, AnthropicStep(x), x.said = up.said, x.event.reason = None, x.stage = "failed",
         x.event.type = "error"
  PROVE  AnthropicMade
<1> DEFINE B == ToSet(gen.tools)
           g == flushEmptyToolArgs(gen, B)
           last == <<FinishChunk("stop")>>
<1>1. gen' = [g EXCEPT !.state = "returning", !.out = Append(g.out, FinishChunk("stop"))]
  BY DEF AnthropicStep, translate, StreamError
<1>2. g = flushEmptyToolArgs(gen, B)
  OBVIOUS
<1>3. Tells(last, <<>>, 0, "stop") /\ NoDone(last)
  BY ChunksTell DEF ArgKinds
<1>4. DOMAIN gen = GenFields /\ AnthropicTracks
  BY DEF AnthropicStep
<1>8. \A s : Sound(s) => Append(s, FinishChunk("stop")) = s \o last
  <2> SUFFICES ASSUME NEW s, Sound(s) PROVE Append(s, FinishChunk("stop")) = s \o last
    OBVIOUS
  <2> DEFINE c == FinishChunk("stop")
             U == ToSet(s) \cup {c}
  <2>1. s \in Seq(U) /\ c \in U
    BY DEF Sound, IsSeq
  <2> HIDE DEF c, U
  <2>2. Append(s, c) = s \o <<c>>
    BY <2>1
  <2> QED
    BY <2>2 DEF c
<1> HIDE DEF g, last, B
<1>5. DOMAIN g = GenFields
  BY <1>2, <1>4 DEF flushEmptyToolArgs
<1>9. Sound(g.out)
  BY <1>2, <1>4, Sweeps
<1>6. /\ DOMAIN gen' = GenFields /\ gen'.state = "returning" /\ gen'.out = g.out \o last
      /\ gen'.tools = g.tools /\ gen'.args = g.args /\ gen'.flushed = g.flushed
  BY <1>1, <1>5, <1>8, <1>9 DEF GenFields
<1>7. x.event.type # "content_block_start" /\ gen'.state \in {"running", "returning"}
      /\ x.stage \in {"between", "failed"}
  BY <1>6
<1> QED
  BY <1>2, <1>3, <1>6, <1>7, AnthropicSweeps

\* Whatever Anthropic's next event is.
LEMMA AnthropicMakes ==
  ASSUME NEW x \in AnthropicEvents, x.protocol = "kept", AnthropicStep(x) PROVE AnthropicMade
<1>0. x \notin Strays
  <2>1. \A type, b : Stray(type, b).protocol = "broken"
    BY DEF Stray, Event
  <2> QED
    BY <2>1 DEF Strays
<1>1. AnthropicTracks
  BY DEF AnthropicStep
<1>2. ASSUME NEW type, NEW stage, x.stage = stage, x.said = up.said, x.event.type = type,
             x.event.reason = None,
             \/ type \in {"message_start", "ping"} /\ stage = "between"
             \/ type = "content_block_stop" /\ stage = "between"
             \/ type = "error" /\ stage = "failed"
             \/ type = "message_stop" /\ stage = "said" /\ up.stage = "ending"
      PROVE  AnthropicMade
  <2>1. CASE type \in {"message_start", "ping"} /\ stage = "between"
    BY <1>2, <2>1, AnthropicOpens
  <2>2. CASE type = "content_block_stop" /\ stage = "between"
    BY <1>2, <2>2, AnthropicBlockStops
  <2>3. CASE type = "error" /\ stage = "failed"
    BY <1>2, <2>3, AnthropicBreaks
  <2>4. CASE type = "message_stop" /\ stage = "said" /\ up.stage = "ending"
    BY <1>2, <2>4, AnthropicStops
  <2> QED
    BY <1>2, <2>1, <2>2, <2>3, <2>4
<1>3. ASSUME NEW type, NEW stage, x = Notice(type, stage)
      PROVE  x.stage = stage /\ x.said = up.said /\ x.event.type = type /\ x.event.reason = None
  BY <1>3 DEF Notice, Event, AnthropicEvent
<1>4. ASSUME x = BlockStarts(TRUE) PROVE AnthropicMade
  <2>1. /\ x.said = Append(up.said, "bare") /\ x.event.reason = None /\ x.stage = "block"
        /\ x.event.type = "content_block_start" /\ x.event.tool = TRUE
        /\ x.event.block = Len(up.blocks) + 1
    BY <1>4 DEF BlockStarts, Event, AnthropicEvent
  <2> QED
    BY <2>1, AnthropicCallStarts
<1>5. ASSUME x = BlockStarts(FALSE) PROVE AnthropicMade
  <2>1. /\ x.said = up.said /\ x.event.reason = None /\ x.stage = "block"
        /\ x.event.type = "content_block_start" /\ x.event.tool = FALSE
        /\ x.event.block = Len(up.blocks) + 1
    BY <1>5 DEF BlockStarts, Event, AnthropicEvent
  <2> QED
    BY <2>1, AnthropicTextStarts
<1>6. ASSUME NEW reason \in {"end_turn", "tool_use"}, x = MessageEnds(reason) PROVE AnthropicMade
  <2>1. /\ x.said = up.said /\ x.event.reason # None /\ x.stage = "ending"
        /\ x.event.type = "message_delta"
    BY <1>6 DEF MessageEnds, Event, AnthropicEvent, None
  <2> QED
    BY <2>1, AnthropicEnds
<1>7. ASSUME up.stage = "block", x = BlockGoesOn PROVE AnthropicMade
  <2>1. Last(up.blocks) \in BOOLEAN
    <3>1. up.blocks \in Seq(BOOLEAN) /\ up.blocks # <<>>
      BY <1>1, <1>7 DEF AnthropicTracks
    <3> QED
      BY <3>1, FrontIs
  <2>2. /\ x.event.reason = None /\ x.stage = "block" /\ x.event.type = "content_block_delta"
        /\ x.event.tool = Last(up.blocks) /\ x.event.block = Len(up.blocks)
        /\ x.said = IF Last(up.blocks) THEN Append(Front(up.said), "call") ELSE Append(up.said, "text")
    BY <1>7 DEF BlockGoesOn, Event, AnthropicEvent
  <2>3. CASE Last(up.blocks) = TRUE
    BY <1>7, <2>2, <2>3, AnthropicCallGoesOn
  <2>4. CASE Last(up.blocks) = FALSE
    BY <1>7, <2>2, <2>4, AnthropicTextGoesOn
  <2> QED
    BY <2>1, <2>3, <2>4
<1>8. CASE up.stage = "start"
  <2>1. /\ x.stage = "between" /\ x.said = up.said /\ x.event.type = "message_start"
        /\ x.event.reason = None
    BY <1>8 DEF AnthropicEvents, Notice, Event, AnthropicEvent
  <2> QED
    BY <1>2, <2>1
<1>9. CASE up.stage = "between"
  <2>1. \/ x = BlockStarts(TRUE) \/ x = BlockStarts(FALSE)
        \/ x = MessageEnds("end_turn") \/ x = MessageEnds("tool_use")
        \/ x = Notice("ping", "between") \/ x = Notice("error", "failed")
    BY <1>0, <1>9 DEF AnthropicEvents
  <2>2. CASE x = Notice("ping", "between")
    BY <1>2, <1>3, <2>2
  <2>3. CASE x = Notice("error", "failed")
    BY <1>2, <1>3, <2>3
  <2> QED
    BY <1>4, <1>5, <1>6, <2>1, <2>2, <2>3
<1>10. CASE up.stage = "block"
  <2>1. \/ x = BlockGoesOn \/ x = BlockStarts(TRUE) \/ x = BlockStarts(FALSE)
        \/ x = MessageEnds("tool_use")
        \/ x = Notice("content_block_stop", "between") \/ x = Notice("error", "failed")
    BY <1>0, <1>10 DEF AnthropicEvents
  <2>2. CASE x = Notice("content_block_stop", "between")
    BY <1>2, <1>3, <2>2
  <2>3. CASE x = Notice("error", "failed")
    BY <1>2, <1>3, <2>3
  <2> QED
    BY <1>4, <1>5, <1>6, <1>7, <1>10, <2>1, <2>2, <2>3
<1>11. CASE up.stage = "ending"
  <2>1. x = Notice("message_stop", "said") \/ x = Notice("error", "failed")
    BY <1>11 DEF AnthropicEvents
  <2>2. CASE x = Notice("message_stop", "said")
    BY <1>2, <1>3, <1>11, <2>2
  <2>3. CASE x = Notice("error", "failed")
    BY <1>2, <1>3, <2>3
  <2> QED
    BY <2>1, <2>2, <2>3
<1> QED
  BY <1>8, <1>9, <1>10, <1>11 DEF AnthropicEvents

\* To append is to add one element after the others.
LEMMA AppendIs == ASSUME NEW S, NEW s \in Seq(S), NEW x \in S PROVE Append(s, x) = s \o <<x>>
  OBVIOUS

\* Two elements, one after the other.
LEMMA TwoIs == ASSUME NEW a, NEW b PROVE <<a>> \o <<b>> = <<a, b>>
<1> DEFINE S == {a, b}
           s == <<a>>
           u == <<b>>
           r == <<a, b>>
<1>1. s \in Seq(S) /\ u \in Seq(S) /\ r \in Seq(S)
  OBVIOUS
<1>2. Len(s) = 1 /\ Len(u) = 1 /\ Len(r) = 2 /\ s[1] = a /\ u[1] = b /\ r[1] = a /\ r[2] = b
  OBVIOUS
<1> HIDE DEF s, u, r, S
<1>3. (s \o u) \in Seq(S) /\ Len(s \o u) = Len(s) + Len(u)
      /\ \A i \in 1 .. Len(s) + Len(u) : (s \o u)[i] = IF i <= Len(s) THEN s[i] ELSE u[i - Len(s)]
  BY <1>1, ConcatProperties
<1> DEFINE q == s \o u
<1> HIDE DEF q
<1>4. q \in Seq(S) /\ Len(q) = 2 /\ q[1] = s[1] /\ q[2] = u[2 - 1]
  BY <1>2, <1>3 DEF q
<1>5. q = r
  <2>1. \A i \in 1 .. Len(q) : q[i] = r[i]
    BY <1>4, <1>2
  <2> QED
    BY <1>1, <1>2, <1>4, <2>1, SeqEqual
<1> QED
  BY <1>5 DEF q, s, u, r

\* Calls that are said whole.
AllCalls(said) == /\ said \in Seq(Kinds)
                  /\ SaidCalls(said) = [k \in 1 .. Len(SaidCalls(said)) |-> "call"]

Wholes(said) == [k \in 1 .. Len(SaidCalls(said)) |-> "whole"]

\* A function on 1 .. n that returns the same everywhere, and one element more.
LEMMA SameMore ==
  ASSUME NEW n \in Nat, NEW x
  PROVE  /\ [k \in 1 .. n |-> x] \in Seq({x}) /\ Len([k \in 1 .. n |-> x]) = n
         /\ Append([k \in 1 .. n |-> x], x) = [k \in 1 .. n + 1 |-> x]
<1> DEFINE s == [k \in 1 .. n |-> x]
           t == Append(s, x)
<1>1. s \in Seq({x}) /\ Len(s) = n /\ \A k \in 1 .. n : s[k] = x
  OBVIOUS
<1> HIDE DEF s
<1>2. x \in {x}
  OBVIOUS
<1>3. /\ t = [k \in 1 .. n + 1 |-> t[k]] /\ t[n + 1] = x /\ \A k \in 1 .. n : t[k] = s[k]
  BY <1>1, <1>2, Appended
<1> HIDE DEF t
<1>4. ASSUME NEW k \in 1 .. n + 1 PROVE t[k] = x
  <2>1. CASE k \in 1 .. n
    BY <1>1, <1>3, <2>1
  <2>2. CASE k = n + 1
    BY <1>3, <2>2
  <2> QED
    BY <2>1, <2>2
<1>5. t = [k \in 1 .. n + 1 |-> x]
  BY <1>3, <1>4
<1> QED
  BY <1>1, <1>5 DEF s, t

\* A text more, or a whole call.
LEMMA WholeMore ==
  ASSUME NEW said, AllCalls(said)
  PROVE  /\ AllCalls(Append(said, "text")) /\ AllCalls(Append(said, "call"))
         /\ Wholes(Append(said, "text")) = Wholes(said)
         /\ Len(SaidCalls(Append(said, "text"))) = Len(SaidCalls(said))
         /\ Wholes(Append(said, "call")) = Append(Wholes(said), "whole")
         /\ Len(SaidCalls(Append(said, "call"))) = Len(SaidCalls(said)) + 1
         /\ Len(SaidTexts(Append(said, "text"))) = Len(SaidTexts(said)) + 1
         /\ Len(SaidTexts(Append(said, "call"))) = Len(SaidTexts(said))
         /\ Len(SaidTexts(said)) \in Nat /\ Len(SaidCalls(said)) \in Nat
         /\ Len(Wholes(said)) = Len(SaidCalls(said))
<1> DEFINE c == SaidCalls(said)
           n == Len(c)
           T == Append(said, "text")
           C == Append(said, "call")
<1>1. /\ said \in Seq(Kinds) /\ c = [k \in 1 .. n |-> "call"]
      /\ "text" \in Kinds /\ "call" \in Kinds
  BY DEF AllCalls, Kinds
<1>2. IsSeq(c) /\ Len(SaidTexts(said)) \in Nat
  BY <1>1, SaidMore
<1>3. T \in Seq(Kinds) /\ Len(SaidTexts(T)) = Len(SaidTexts(said)) + 1 /\ SaidCalls(T) = c
  BY <1>1, SaidMore
<1>4. C \in Seq(Kinds) /\ Len(SaidTexts(C)) = Len(SaidTexts(said)) /\ SaidCalls(C) = c \o <<"call">>
  <2> DEFINE v == "call"
  <2>1. v \in Kinds /\ v # "text"
    BY DEF Kinds
  <2> HIDE DEF v
  <2>2. /\ Append(said, v) \in Seq(Kinds) /\ Len(SaidTexts(Append(said, v))) = Len(SaidTexts(said))
        /\ SaidCalls(Append(said, v)) = c \o <<v>>
    BY <1>1, <2>1, SaidMore
  <2> QED
    BY <2>2 DEF v
<1>5. n \in Nat
  BY <1>2, SeqIs
<1> HIDE DEF c, n
<1>6. c \o <<"call">> = [k \in 1 .. n + 1 |-> "call"]
  <2> DEFINE v == "call"
  <2> HIDE DEF v
  <2>1. c = [k \in 1 .. n |-> v]
    BY <1>1 DEF v
  <2>2. c \in Seq({v}) /\ Append(c, v) = [k \in 1 .. n + 1 |-> v]
    BY <1>5, <2>1, SameMore
  <2>3. Append(c, v) = c \o <<v>>
    <3>1. v \in {v}
      OBVIOUS
    <3> QED
      BY <2>2, <3>1, AppendIs
  <2> QED
    BY <2>2, <2>3 DEF v
<1>7. SaidCalls(C) = [k \in 1 .. n + 1 |-> "call"] /\ Len(SaidCalls(C)) = n + 1
  <2> DEFINE v == "call"
  <2> HIDE DEF v
  <2>1. n + 1 \in Nat
    BY <1>5
  <2>2. Len([k \in 1 .. n + 1 |-> v]) = n + 1
    BY <2>1, SameMore
  <2> QED
    BY <1>4, <1>6, <2>2 DEF v
<1> HIDE DEF T, C
<1>8. AllCalls(T) /\ Wholes(T) = Wholes(said) /\ Len(SaidCalls(T)) = n
  BY <1>1, <1>3 DEF AllCalls, Wholes, c, n
<1>9. AllCalls(C)
  BY <1>4, <1>7 DEF AllCalls
<1>10. Wholes(C) = Append(Wholes(said), "whole") /\ Len(Wholes(said)) = n
  <2> DEFINE v == "whole"
  <2> HIDE DEF v
  <2>1. Append([k \in 1 .. n |-> v], v) = [k \in 1 .. n + 1 |-> v] /\ Len([k \in 1 .. n |-> v]) = n
    BY <1>5, SameMore
  <2>2. Wholes(said) = [k \in 1 .. n |-> v] /\ Wholes(C) = [k \in 1 .. n + 1 |-> v]
    BY <1>7 DEF Wholes, v, c, n
  <2> QED
    BY <2>1, <2>2 DEF v
<1> QED
  BY <1>2, <1>3, <1>4, <1>5, <1>7, <1>8, <1>9, <1>10 DEF T, C, c, n

\* The pieces of calls said whole, the first of them number m.
WholePieces(m, n) == [i \in 1 .. n |-> [index |-> m + i - 1, head |-> TRUE, args |-> "whole"]]

\* One, two or no calls more.
LEMMA CallsMore ==
  ASSUME NEW said, AllCalls(said), NEW n \in {0, 1, 2}
  PROVE  LET more == said \o [i \in 1 .. n |-> "call"]
             d    == WholePieces(Len(SaidCalls(said)), n)
         IN /\ AllCalls(more) /\ Len(SaidTexts(more)) = Len(SaidTexts(said))
            /\ Len(SaidCalls(more)) = Len(SaidCalls(said)) + n /\ d \in Seq(Pieces)
            /\ (n = 0 => more = said)
            /\ \A d0 : Describes(d0, Wholes(said)) => Describes(d0 \o d, Wholes(more))
<1> DEFINE m == Len(SaidCalls(said))
           A == Wholes(said)
           more(k) == said \o [i \in 1 .. k |-> "call"]
           d(k) == WholePieces(m, k)
           p(i) == [index |-> i, head |-> TRUE, args |-> "whole"]
           Good(k) == /\ AllCalls(more(k)) /\ Len(SaidTexts(more(k))) = Len(SaidTexts(said))
                      /\ Len(SaidCalls(more(k))) = m + k /\ d(k) \in Seq(Pieces)
                      /\ \A d0 : Describes(d0, A) => Describes(d0 \o d(k), Wholes(more(k)))
<1>1. said \in Seq(Kinds) /\ m \in Nat
  BY WholeMore DEF AllCalls
<1>2. more(0) = said /\ d(0) = <<>>
  <2>1. [i \in 1 .. 0 |-> "call"] = <<>>
    OBVIOUS
  <2>2. said \o <<>> = said
    BY <1>1, ConcatEmptySeq
  <2>3. d(0) = <<>>
    BY DEF WholePieces
  <2> QED
    BY <2>1, <2>2, <2>3
<1>3. Good(0)
  <2>1. m + 0 = m /\ <<>> \in Seq(Pieces)
    BY <1>1
  <2>2. ASSUME NEW d0, Describes(d0, A) PROVE d0 \o <<>> = d0
    <3>1. d0 \in Seq(Pieces)
      BY <2>2, DescribesTypes
    <3> QED
      BY <3>1, ConcatEmptySeq
  <2> HIDE DEF A, m
  <2>3. \A d0 : Describes(d0, A) => Describes(d0 \o <<>>, A)
    BY <2>2
  <2> QED
    BY <1>2, <2>1, <2>3 DEF A, m
<1>4. ASSUME NEW k \in {0, 1}, Good(k), NEW more1, more1 = Append(more(k), "call"), more1 = more(k + 1),
             NEW d1, d1 = d(k) \o <<p(m + k)>>, d1 = d(k + 1)
      PROVE  Good(k + 1)
  <2> DEFINE s == more(k)
             e == d(k)
             q == p(m + k)
             B == Wholes(s)
  <2>1. /\ AllCalls(s) /\ Len(SaidTexts(s)) = Len(SaidTexts(said)) /\ Len(SaidCalls(s)) = m + k
        /\ e \in Seq(Pieces) /\ \A d0 : Describes(d0, A) => Describes(d0 \o e, B)
    BY <1>4
  <2>2. more1 = Append(s, "call") /\ d1 = e \o <<q>>
    BY <1>4
  <2>3. q = [index |-> m + k, head |-> TRUE, args |-> "whole"]
    OBVIOUS
  <2> HIDE DEF s, e, B, A, m, q
  <2>4. /\ AllCalls(more1) /\ Wholes(more1) = Append(B, "whole") /\ Len(B) = m + k
        /\ Len(SaidCalls(more1)) = (m + k) + 1
        /\ Len(SaidTexts(more1)) = Len(SaidTexts(said))
    BY <2>1, <2>2, WholeMore DEF B
  <2>5. q \in Pieces /\ <<q>> \in Seq(Pieces)
    <3>1. m + k \in Nat
      BY <1>1
    <3>2. q \in Pieces
      BY <2>3, <3>1 DEF Pieces
    <3> QED
      BY <3>2, SingleSeq
  <2>6. d1 \in Seq(Pieces)
    BY <2>1, <2>2, <2>5, ConcatProperties
  <2>7. ASSUME NEW d0, Describes(d0, A) PROVE Describes(d0 \o d1, Wholes(more1))
    <3>1. Describes(d0 \o e, B)
      BY <2>1, <2>7
    <3>2. "whole" \in ArgKinds
      BY DEF ArgKinds
    <3>3. <<q>> = <<[index |-> Len(B), head |-> TRUE, args |-> "whole"]>>
      BY <2>3, <2>4
    <3>4. Describes((d0 \o e) \o <<q>>, Append(B, "whole"))
      BY <3>1, <3>2, <3>3, DescribesBegun
    <3>5. d0 \in Seq(Pieces)
      BY <2>7, DescribesTypes
    <3>6. (d0 \o e) \o <<q>> = d0 \o (e \o <<q>>)
      BY <2>1, <2>5, <3>5, PiecesAssociative
    <3> QED
      BY <2>2, <2>4, <3>4, <3>6
  <2>8. (m + k) + 1 = m + (k + 1)
    BY <1>1
  <2>9. more(k + 1) = more1 /\ d(k + 1) = d1
    BY <1>4 DEF m
  <2> HIDE DEF more, d
  <2> QED
    BY <2>4, <2>6, <2>7, <2>8, <2>9
<1>5. Good(1)
  <2>1. [i \in 1 .. 1 |-> "call"] = <<"call">> /\ "call" \in Kinds
    BY DEF Kinds
  <2>2. more(1) = Append(said, "call")
    BY <1>1, <2>1
  <2>3. d(1) = <<>> \o <<p(m + 0)>>
    <3>1. m + 1 - 1 = m /\ m + 0 = m
      BY <1>1
    <3>2. d(1) = [i \in 1 .. 1 |-> p(m + i - 1)]
      BY DEF WholePieces
    <3> HIDE DEF p, d, m
    <3>3. d(1) = <<p(m)>>
      BY <3>1, <3>2
    <3> QED
      BY <3>1, <3>3
  <2>4. 0 \in {0, 1} /\ 0 + 1 = 1
    OBVIOUS
  <2> HIDE DEF Good, more, d, p
  <2> QED
    BY <1>2, <1>3, <1>4, <2>2, <2>3, <2>4
<1>6. Good(2)
  <2>1. [i \in 1 .. 1 |-> "call"] = <<"call">> /\ [i \in 1 .. 2 |-> "call"] = Append(<<"call">>, "call")
        /\ "call" \in Kinds /\ <<"call">> \in Seq(Kinds)
    BY DEF Kinds
  <2>2. more(2) = Append(more(1), "call")
    <3> DEFINE y == <<"call">>
               v == "call"
    <3>1. y \in Seq(Kinds) /\ v \in Kinds
      BY <2>1
    <3> HIDE DEF y, v
    <3>2. said \o Append(y, v) = Append(said \o y, v)
      BY <1>1, <3>1
    <3> QED
      BY <2>1, <3>2 DEF y, v
  <2>3. d(2) = d(1) \o <<p(m + 1)>>
    <3>1. m + 1 - 1 = m /\ m + 2 - 1 = m + 1
      BY <1>1
    <3>2. d(1) = [i \in 1 .. 1 |-> p(m + i - 1)] /\ d(2) = [i \in 1 .. 2 |-> p(m + i - 1)]
      BY DEF WholePieces
    <3> HIDE DEF p, d, m
    <3>3. d(1) = <<p(m)>> /\ d(2) = <<p(m), p(m + 1)>>
      BY <3>1, <3>2
    <3> QED
      BY <3>3, TwoIs
  <2>4. 1 \in {0, 1} /\ 1 + 1 = 2
    OBVIOUS
  <2> HIDE DEF Good, more, d, p
  <2> QED
    BY <1>4, <1>5, <2>2, <2>3, <2>4
<1>7. Good(n)
  BY <1>3, <1>5, <1>6
<1>8. n = 0 => more(n) = said
  BY <1>2
<1> QED
  BY <1>7, <1>8

\* A chunk by itself.
LEMMA OneTells ==
  ASSUME NEW c, SoundChunk(c)
  PROVE  /\ Tells(<<c>>, c.calls, IF c.text = 1 THEN 1 ELSE 0, c.finish)
         /\ DoneLast(<<c>>) /\ (~c.done => NoDone(<<c>>))
<1>1. Tells(<<c>>, c.calls, IF c.text = 1 THEN 1 ELSE 0, c.finish)
  BY SaysOne DEF Tells
<1>2. DOMAIN <<c>> = {1} /\ <<c>>[1] = c /\ Len(<<c>>) = 1
  BY SingleIs
<1> QED
  BY <1>1, <1>2 DEF NoDone, DoneLast

\* What a Gemini event says: perhaps a text, and some calls.
SaysParts(said, words, n, more) ==
  more = said \o (IF words THEN <<"text">> ELSE <<>>) \o [i \in 1 .. n |-> "call"]

\* It adds these, and calls that are whole.
LEMMA PartsSay ==
  ASSUME NEW said, AllCalls(said), NEW words \in BOOLEAN, NEW n \in {0, 1, 2}, NEW more,
         SaysParts(said, words, n, more)
  PROVE  /\ AllCalls(more) /\ Len(SaidTexts(more)) = Len(SaidTexts(said)) + (IF words THEN 1 ELSE 0)
         /\ Len(SaidCalls(said)) \in Nat /\ Len(SaidCalls(more)) = Len(SaidCalls(said)) + n
         /\ WholePieces(Len(SaidCalls(said)), n) \in Seq(Pieces)
         /\ (n = 0 /\ ~words => more = said)
         /\ \A d0 : Describes(d0, Wholes(said))
                      => Describes(d0 \o WholePieces(Len(SaidCalls(said)), n), Wholes(more))
<1> DEFINE mid == said \o (IF words THEN <<"text">> ELSE <<>>)
<1>1. said \in Seq(Kinds) /\ "text" \in Kinds
  BY DEF AllCalls, Kinds
<1>2. mid = IF words THEN Append(said, "text") ELSE said
  <2>1. said \o <<>> = said
    BY <1>1, ConcatEmptySeq
  <2>2. said \o <<"text">> = Append(said, "text")
    BY <1>1, SaidMore
  <2> QED
    BY <2>1, <2>2
<1>3. more = mid \o [i \in 1 .. n |-> "call"]
  BY DEF SaysParts
<1> HIDE DEF mid
<1>4. /\ AllCalls(mid) /\ Wholes(mid) = Wholes(said) /\ Len(SaidCalls(mid)) = Len(SaidCalls(said))
      /\ Len(SaidCalls(said)) \in Nat
      /\ Len(SaidTexts(mid)) = Len(SaidTexts(said)) + (IF words THEN 1 ELSE 0)
  <2>1. CASE words
    BY <1>2, <2>1, WholeMore
  <2>2. CASE ~words
    <3>1. Len(SaidTexts(said)) \in Nat /\ Len(SaidCalls(said)) \in Nat
      BY WholeMore
    <3> QED
      BY <1>2, <2>2, <3>1
  <2> QED
    BY <2>1, <2>2
<1>5. /\ AllCalls(more) /\ Len(SaidTexts(more)) = Len(SaidTexts(mid))
      /\ Len(SaidCalls(more)) = Len(SaidCalls(mid)) + n
      /\ WholePieces(Len(SaidCalls(mid)), n) \in Seq(Pieces)
      /\ (n = 0 => more = mid)
  BY <1>3, <1>4, CallsMore
<1>6. \A d0 : Describes(d0, Wholes(mid))
                => Describes(d0 \o WholePieces(Len(SaidCalls(mid)), n), Wholes(more))
  BY <1>3, <1>4, CallsMore
<1> QED
  BY <1>2, <1>4, <1>5, <1>6

\* A Gemini event is met.
GoogleStep(x) ==
  /\ source = "google" /\ source' = source /\ WholeTracks
  /\ DOMAIN gen = GenFields /\ gen.out = <<>> /\ gen.state = "running"
  /\ up'.stage = x.stage /\ up'.said = x.said
  /\ up'.reason = IF x.event.reason # None THEN x.event.reason ELSE up.reason
  /\ gen' = chunks(gen, x.event)

WholeMade ==
  /\ WholeTracks' /\ Answers(gen'.out) /\ Sound(gen'.out)
  /\ DOMAIN gen' = GenFields /\ gen'.state \in {"running", "returning"}

\* When it is met as it should be.
LEMMA GoogleAnswers ==
  ASSUME NEW x, GoogleStep(x), NEW d, NEW t, NEW f, Tells(gen'.out, d, t, f), NoDone(gen'.out),
         AllCalls(x.said), Len(SaidTexts(x.said)) = Len(SaidTexts(up.said)) + t,
         \A d0 : Describes(d0, Wholes(up.said)) => Describes(d0 \o d, Wholes(x.said)),
         DOMAIN gen' = GenFields, gen'.state = "running", gen'.calls = Len(SaidCalls(x.said)),
         \/ x.stage # "said"
         \/ x.event.reason = "blocked" /\ x.said = <<>> /\ f = "content_filter"
         \/ /\ x.event.reason # None /\ x.event.reason # "blocked"
            /\ f = mapFinishReason(x.event.reason, SaidCalls(x.said) # <<>>)
  PROVE  WholeMade
<1> DEFINE more == gen'.out
<1>1. /\ source = "google" /\ source' = "google" /\ up'.said = x.said /\ up'.stage = x.stage
      /\ up'.reason = IF x.event.reason # None THEN x.event.reason ELSE up.reason
  BY DEF GoogleStep
<1>2. WholeTracks'
  <2>1. up'.said \in Seq(Kinds)
        /\ SaidCalls(up'.said) = [k \in 1 .. Len(SaidCalls(up'.said)) |-> "call"]
    BY <1>1 DEF AllCalls
  <2>2. gen'.calls = Len(SaidCalls(up'.said))
    BY <1>1
  <2>3. up'.stage = "said" /\ up'.reason = "blocked" => up'.said = <<>>
    BY <1>1 DEF None
  <2> QED
    BY <2>1, <2>2, <2>3 DEF WholeTracks
<1>3. ArgsOf = Wholes(up.said)
  BY <1>1 DEF ArgsOf, Wholes
<1>4. ArgsOf' = Wholes(x.said)
  BY <1>1 DEF ArgsOf, Wholes
<1>5. Finish' = "" \/ f = Finish'
  <2>1. Finish' = IF up'.stage # "said" THEN ""
                  ELSE IF up'.reason = "blocked" THEN "content_filter"
                  ELSE mapFinishReason(up'.reason, SaidCalls(up'.said) # <<>>)
    BY <1>1 DEF Finish
  <2>2. CASE x.stage # "said"
    BY <1>1, <2>1, <2>2
  <2>3. CASE x.event.reason = "blocked" /\ x.said = <<>> /\ f = "content_filter"
    <3>1. up'.reason = "blocked"
      BY <1>1, <2>3 DEF None
    <3> QED
      BY <2>1, <2>3, <3>1
  <2>4. CASE /\ x.event.reason # None /\ x.event.reason # "blocked"
             /\ f = mapFinishReason(x.event.reason, SaidCalls(x.said) # <<>>)
    BY <1>1, <2>1, <2>4
  <2> QED
    BY <2>2, <2>3, <2>4
<1> HIDE DEF more
<1>6. Tells(more, d, t, f) /\ NoDone(more)
  BY DEF more
<1>7. DoneLast(more)
  BY <1>6 DEF NoDone, DoneLast
<1>8. Adds(more, ArgsOf, ArgsOf', t, f)
  BY <1>3, <1>4, <1>6 DEF Adds
<1>9. Answers(more)
  BY <1>1, <1>5, <1>6, <1>7, <1>8 DEF Answers
<1> QED
  BY <1>2, <1>6, <1>9 DEF WholeMade, Tells, more

\* The chunk of an event with a candidate.
LEMMA DeltaTells ==
  ASSUME NEW e, NEW g, NEW n \in {0, 1, 2}, e.calls = n, NEW words \in BOOLEAN, e.text = words,
         WholePieces(g.calls, n) \in Seq(Pieces),
         NEW f, f = IF e.reason = None THEN "" ELSE mapFinishReason(e.reason, g.calls + n > 0)
  PROVE  /\ Tells(<<Delta(g, e)>>, WholePieces(g.calls, n), IF words THEN 1 ELSE 0, f)
         /\ NoDone(<<Delta(g, e)>>)
<1> DEFINE c == Delta(g, e)
           d == WholePieces(g.calls, n)
<1>1. c.calls = d /\ c.choices /\ ~c.done
  BY DEF Delta, Chunk, WholePieces
<1>2. c.finish = f
  BY DEF Delta, Chunk
<1>3. c.text = IF words THEN 1 ELSE 0
  BY DEF Delta, Chunk
<1> HIDE DEF c, d
<1>4. SoundChunk(c)
  BY <1>1 DEF SoundChunk, d
<1>5. (IF c.text = 1 THEN 1 ELSE 0) = IF words THEN 1 ELSE 0
  BY <1>3
<1>6. Tells(<<c>>, c.calls, IF c.text = 1 THEN 1 ELSE 0, c.finish) /\ NoDone(<<c>>)
  BY <1>1, <1>4, OneTells
<1> QED
  BY <1>1, <1>2, <1>5, <1>6 DEF c, d

\* Noting counts changes nothing else.
LEMMA NotedOnly ==
  ASSUME NEW e, DOMAIN gen = GenFields
  PROVE  LET g == Noted(gen, e)
         IN /\ DOMAIN g = GenFields /\ g.out = gen.out /\ g.calls = gen.calls
            /\ g.state = gen.state /\ g.role = gen.role
  BY DEF Noted, GenFields

\* An event with a candidate says what it has, in one chunk; an empty one after
\* the first is passed over.
LEMMA GoogleGoesOn ==
  ASSUME NEW x, GoogleStep(x), NEW words \in BOOLEAN, NEW n \in {0, 1, 2},
         NEW r \in {None, "STOP", "MAX_TOKENS"}, x = GoogleEvent(TRUE, <<words, n>>, r)
  PROVE  WholeMade
<1> DEFINE e == x.event
           m == Len(SaidCalls(up.said))
<1>1. /\ e.candidate /\ e.text = words /\ e.calls = n /\ e.reason = r
      /\ x.stage = (IF r # None THEN "said" ELSE "start")
      /\ x.said = up.said \o (IF words THEN <<"text">> ELSE <<>>) \o [i \in 1 .. n |-> "call"]
  BY DEF GoogleEvent, Event
<1>2. /\ DOMAIN gen = GenFields /\ gen.out = <<>> /\ gen.state = "running"
      /\ AllCalls(up.said) /\ gen.calls = m /\ gen' = chunks(gen, e)
  BY DEF GoogleStep, WholeTracks, AllCalls
<1> HIDE DEF e
<1>3. /\ AllCalls(x.said) /\ Len(SaidTexts(x.said)) = Len(SaidTexts(up.said)) + (IF words THEN 1 ELSE 0)
      /\ m \in Nat /\ Len(SaidCalls(x.said)) = m + n /\ WholePieces(m, n) \in Seq(Pieces)
      /\ (n = 0 /\ ~words => x.said = up.said)
      /\ \A d0 : Describes(d0, Wholes(up.said)) => Describes(d0 \o WholePieces(m, n), Wholes(x.said))
  <2> DEFINE said == up.said
             more == x.said
  <2>1. SaysParts(said, words, n, more) /\ AllCalls(said)
    BY <1>1, <1>2 DEF SaysParts
  <2> HIDE DEF said, more
  <2>4. AllCalls(more)
    BY <2>1, PartsSay
  <2>5. Len(SaidTexts(more)) = Len(SaidTexts(said)) + (IF words THEN 1 ELSE 0)
    BY <2>1, PartsSay
  <2>6. Len(SaidCalls(said)) \in Nat
    BY <2>1, PartsSay
  <2>9. Len(SaidCalls(more)) = Len(SaidCalls(said)) + n
    BY <2>1, PartsSay
  <2>7. WholePieces(Len(SaidCalls(said)), n) \in Seq(Pieces)
    BY <2>1, PartsSay
  <2>8. n = 0 /\ ~words => more = said
    BY <2>1, PartsSay
  <2>3. \A d0 : Describes(d0, Wholes(said))
                  => Describes(d0 \o WholePieces(Len(SaidCalls(said)), n), Wholes(more))
    BY <2>1, PartsSay
  <2> QED
    BY <2>3, <2>4, <2>5, <2>6, <2>7, <2>8, <2>9 DEF said, more
<1>4. \A d0 : Describes(d0, Wholes(up.said)) => Describes(d0 \o WholePieces(m, n), Wholes(x.said))
  BY <1>3
<1>5. CASE r = None /\ gen.role /\ ~words /\ n = 0
  <2>1. gen' = Noted(gen, e)
    BY <1>1, <1>2, <1>5 DEF chunks
  <2>2. DOMAIN gen' = GenFields /\ gen'.state = "running" /\ gen'.out = <<>> /\ gen'.calls = m
    BY <1>2, <2>1, NotedOnly
  <2>3. Tells(gen'.out, <<>>, 0, "") /\ NoDone(gen'.out)
    BY <2>2, ChunksTell DEF ArgKinds
  <2>4. ASSUME NEW d0, Describes(d0, Wholes(up.said)) PROVE Describes(d0 \o <<>>, Wholes(x.said))
    <3>1. d0 \in Seq(Pieces)
      BY <2>4, DescribesTypes
    <3>2. d0 \o <<>> = d0 /\ x.said = up.said
      BY <1>3, <1>5, <3>1, ConcatEmptySeq
    <3> QED
      BY <2>4, <3>2
  <2>5. \A d0 : Describes(d0, Wholes(up.said)) => Describes(d0 \o <<>>, Wholes(x.said))
    BY <2>4
  <2>6. Len(SaidTexts(x.said)) = Len(SaidTexts(up.said)) + 0 /\ gen'.calls = Len(SaidCalls(x.said))
    BY <1>3, <1>5, <2>2
  <2>7. x.stage # "said"
    BY <1>1, <1>5
  <2> QED
    BY <1>3, <2>2, <2>3, <2>5, <2>6, <2>7, GoogleAnswers
<1>6. CASE ~(r = None /\ gen.role /\ ~words /\ n = 0)
  <2> DEFINE f == IF r = None THEN "" ELSE mapFinishReason(r, gen.calls + n > 0)
             g == Noted(gen, e)
             c == Delta(gen, e)
  <2>1. gen' = [g EXCEPT !.role = TRUE, !.calls = g.calls + n, !.out = <<c>>]
    BY <1>1, <1>2, <1>6 DEF chunks
  <2>2. DOMAIN g = GenFields /\ g.calls = m /\ g.state = "running"
    BY <1>2, NotedOnly
  <2>3. Tells(<<c>>, WholePieces(gen.calls, n), IF words THEN 1 ELSE 0, f) /\ NoDone(<<c>>)
    BY <1>1, <1>2, <1>3, DeltaTells
  <2> HIDE DEF g, c
  <2>4. /\ DOMAIN gen' = GenFields /\ gen'.state = "running" /\ gen'.out = <<c>>
        /\ gen'.calls = m + n
    BY <2>1, <2>2 DEF GenFields
  <2> HIDE DEF f
  <2>5. Tells(gen'.out, WholePieces(m, n), IF words THEN 1 ELSE 0, f) /\ NoDone(gen'.out)
    BY <1>2, <2>3, <2>4
  <2>6. r # None => f = mapFinishReason(r, SaidCalls(x.said) # <<>>)
    <3>1. IsSeq(SaidCalls(x.said))
      BY <1>3, SaidMore DEF AllCalls, Kinds
    <3>2. (SaidCalls(x.said) # <<>>) = (m + n > 0)
      <4> DEFINE calls == SaidCalls(x.said)
      <4>1. IsSeq(calls) /\ Len(calls) = m + n
        BY <1>3, <3>1
      <4> HIDE DEF calls, m
      <4>2. (calls = <<>>) <=> (Len(calls) = 0)
        BY <4>1, EmptySeq DEF IsSeq
      <4>3. m \in Nat
        BY <1>3
      <4>4. (calls # <<>>) = (m + n > 0)
        BY <4>1, <4>2, <4>3
      <4> QED
        BY <4>4 DEF calls
    <3> QED
      BY <1>2, <3>2 DEF f
  <2>7. \/ x.stage # "said"
        \/ /\ x.event.reason # None /\ x.event.reason # "blocked"
           /\ f = mapFinishReason(x.event.reason, SaidCalls(x.said) # <<>>)
    BY <1>1, <2>6 DEF e, None
  <2> QED
    BY <1>3, <1>4, <2>4, <2>5, <2>7, GoogleAnswers
<1> QED
  BY <1>5, <1>6

\* Without a candidate the prompt was blocked, or nothing is said.
LEMMA GoogleIsSilent ==
  ASSUME NEW x, GoogleStep(x), NEW r \in {None, "blocked"}, r = "blocked" => up.said = <<>>,
         x = GoogleEvent(FALSE, <<FALSE, 0>>, r)
  PROVE  WholeMade
<1> DEFINE e == x.event
           m == Len(SaidCalls(up.said))
           g == Noted(gen, e)
<1>1. /\ ~e.candidate /\ e.reason = r
      /\ x.stage = (IF r # None THEN "said" ELSE "start")
      /\ x.said = up.said \o (IF FALSE THEN <<"text">> ELSE <<>>) \o [i \in 1 .. 0 |-> "call"]
  BY DEF GoogleEvent, Event
<1>2. /\ DOMAIN gen = GenFields /\ gen.out = <<>> /\ gen.state = "running"
      /\ AllCalls(up.said) /\ gen.calls = m /\ gen' = chunks(gen, e)
  BY DEF GoogleStep, WholeTracks, AllCalls
<1>3. x.said = up.said
  <2>1. SaysParts(up.said, FALSE, 0, x.said)
    BY <1>1 DEF SaysParts
  <2> QED
    BY <1>2, <2>1, PartsSay
<1>4. Len(SaidTexts(x.said)) = Len(SaidTexts(up.said)) + 0
  <2> DEFINE k == Len(SaidTexts(up.said))
  <2>1. k \in Nat /\ Len(SaidTexts(x.said)) = k
    BY <1>2, <1>3, WholeMore
  <2> HIDE DEF k
  <2>2. k = k + 0
    BY <2>1
  <2> QED
    BY <2>1, <2>2 DEF k
<1>5. ASSUME NEW d0, Describes(d0, Wholes(up.said)) PROVE Describes(d0 \o <<>>, Wholes(x.said))
  <2>1. d0 \in Seq(Pieces)
    BY <1>5, DescribesTypes
  <2>2. d0 \o <<>> = d0
    BY <2>1, ConcatEmptySeq
  <2> QED
    BY <1>3, <1>5, <2>2
<1>6. DOMAIN g = GenFields /\ g.out = <<>> /\ g.calls = m /\ g.state = "running"
  BY <1>2, NotedOnly
<1> HIDE DEF e, g
<1>7. \A d0 : Describes(d0, Wholes(up.said)) => Describes(d0 \o <<>>, Wholes(x.said))
  BY <1>5
<1>8. CASE r = None
  <2>1. gen' = g
    BY <1>1, <1>2, <1>8 DEF chunks, g
  <2>2. Tells(gen'.out, <<>>, 0, "") /\ NoDone(gen'.out)
    BY <1>6, <2>1, ChunksTell DEF ArgKinds
  <2>3. x.stage # "said"
    BY <1>1, <1>8
  <2> QED
    BY <1>2, <1>3, <1>4, <1>6, <1>7, <2>1, <2>2, <2>3, GoogleAnswers
<1>9. CASE r = "blocked"
  <2> DEFINE f == "content_filter"
             c == [FinishChunk(f) EXCEPT !.role = ~gen.role]
  <2>1. gen' = [g EXCEPT !.role = TRUE, !.out = <<c>>]
    BY <1>1, <1>2, <1>9 DEF chunks, g, None
  <2>2. c.calls = <<>> /\ c.text = 0 /\ c.finish = f /\ c.choices /\ ~c.done
    BY DEF FinishChunk, Chunk
  <2> HIDE DEF f, c
  <2>3. DOMAIN gen' = GenFields /\ gen'.state = "running" /\ gen'.out = <<c>> /\ gen'.calls = m
    BY <1>6, <2>1 DEF GenFields
  <2>4. SoundChunk(c)
    <3>1. c.calls \in Seq(Pieces)
      BY <2>2
    <3> QED
      BY <2>2, <3>1 DEF SoundChunk
  <2>5. Tells(<<c>>, c.calls, IF c.text = 1 THEN 1 ELSE 0, c.finish) /\ NoDone(<<c>>)
    BY <2>2, <2>4, OneTells
  <2>6. c.text # 1
    BY <2>2, NotOne
  <2>7. Tells(gen'.out, <<>>, 0, f) /\ NoDone(gen'.out)
    BY <2>2, <2>3, <2>5, <2>6
  <2>8. x.event.reason = "blocked" /\ x.said = <<>> /\ f = "content_filter"
    BY <1>1, <1>3, <1>9 DEF e, f
  <2> QED
    BY <1>2, <1>3, <1>4, <1>7, <2>3, <2>7, <2>8, GoogleAnswers
<1> QED
  BY <1>8, <1>9

\* Whatever Gemini's next event is.
LEMMA GoogleMakes ==
  ASSUME NEW x \in GoogleEvents, GoogleStep(x) PROVE WholeMade
<1>1. CASE \E c \in EventParts \X {None, "STOP", "MAX_TOKENS"} : x = GoogleEvent(TRUE, c[1], c[2])
  <2>1. PICK p \in EventParts, r \in {None, "STOP", "MAX_TOKENS"} : x = GoogleEvent(TRUE, p, r)
    BY <1>1
  <2>2. PICK words \in BOOLEAN, n \in {0, 1, 2} : p = <<words, n>>
    BY DEF EventParts
  <2> QED
    BY <2>1, <2>2, GoogleGoesOn
<1>2. CASE \E r \in {None} \cup (IF up.said = <<>> THEN {"blocked"} ELSE {}) :
             x = GoogleEvent(FALSE, <<FALSE, 0>>, r)
  <2>1. PICK r \in {None, "blocked"} : /\ r = "blocked" => r = None \/ up.said = <<>>
                                       /\ x = GoogleEvent(FALSE, <<FALSE, 0>>, r)
    BY <1>2
  <2>2. r = "blocked" => up.said = <<>>
    BY <2>1 DEF None
  <2> QED
    BY <2>1, <2>2, GoogleIsSilent
<1> QED
  BY <1>1, <1>2 DEF GoogleEvents

\* What a chunk that is passed through says.
SaidOf(c) == (IF c.text = 1 THEN <<"text">> ELSE <<>>) \o (IF c.calls # <<>> THEN <<"call">> ELSE <<>>)

\* So do the one or two chunks of a read.
LEMMA ReadSays ==
  ASSUME NEW c, NEW d
  PROVE  /\ SaidWith(<<c>>) = up.said \o SaidOf(c)
         /\ SaidWith(<<c, d>>) = up.said \o (SaidOf(c) \o SaidOf(d))
<1> DEFINE S == {"text", "call"}
           y == SaidOf(c)
           z == SaidOf(d)
           q == <<y>>
           r == <<z>>
<1>1. \A e : SaidOf(e) \in Seq(S)
  <2> SUFFICES ASSUME NEW e PROVE SaidOf(e) \in Seq(S)
    OBVIOUS
  <2> DEFINE a == IF e.text = 1 THEN <<"text">> ELSE <<>>
             b == IF e.calls # <<>> THEN <<"call">> ELSE <<>>
  <2>1. <<"text">> \in Seq(S) /\ <<"call">> \in Seq(S) /\ <<>> \in Seq(S)
    OBVIOUS
  <2>2. a \in {<<"text">>, <<>>} /\ b \in {<<"call">>, <<>>}
    BY Zenon
  <2>3. a \in Seq(S) /\ b \in Seq(S)
    <3> HIDE DEF a, b
    <3> QED
      BY <2>1, <2>2
  <2> HIDE DEF a, b, S
  <2>4. a \o b \in Seq(S)
    BY <2>3, ConcatProperties
  <2> QED
    BY <2>4 DEF SaidOf, a, b
<1>2. y \in Seq(S) /\ z \in Seq(S)
  BY <1>1
<1>3. [i \in DOMAIN <<c>> |-> SaidOf(<<c>>[i])] = <<y>>
  OBVIOUS
<1>4. [i \in DOMAIN <<c, d>> |-> SaidOf(<<c, d>>[i])] = <<y, z>>
  OBVIOUS
<1>5. /\ SaidWith(<<c>>) = up.said \o FlattenSeq([i \in DOMAIN <<c>> |-> SaidOf(<<c>>[i])])
      /\ SaidWith(<<c, d>>) = up.said \o FlattenSeq([i \in DOMAIN <<c, d>> |-> SaidOf(<<c, d>>[i])])
  BY DEF SaidWith, SaidOf
<1> HIDE DEF S, y, z
<1>6. FlattenSeq(q) = y /\ FlattenSeq(r) = z
  BY <1>2, FlattenOne
<1>7. q \in Seq(Seq(S)) /\ r \in Seq(Seq(S))
  BY <1>2
<1>8. q \o r = <<y, z>>
  BY TwoIs
<1> HIDE DEF q, r
<1>9. FlattenSeq(q \o r) = FlattenSeq(q) \o FlattenSeq(r)
  BY <1>7, FlattenConcat
<1>10. SaidWith(<<c, d>>) = up.said \o (y \o z)
  BY <1>4, <1>5, <1>6, <1>8, <1>9
<1>11. SaidWith(<<c>>) = up.said \o y
  BY <1>3, <1>5, <1>6 DEF q
<1> QED
  BY <1>10, <1>11 DEF y, z

\* A read of a passed-through stream.
OpenAIStep(x) ==
  /\ source = "openai" /\ source' = source /\ WholeTracks
  /\ DOMAIN gen = GenFields /\ gen.state = "running"
  /\ up'.stage = x.stage /\ up'.said = x.said
  /\ gen' = noteMessage(gen, x.event)

OpenAIMade(block) ==
  /\ WholeTracks' /\ Answers(block) /\ Sound(block)
  /\ DOMAIN gen' = GenFields /\ gen'.state = "running" /\ gen'.out = <<block>>

\* When it is relayed as it should be.
LEMMA OpenAIAnswers ==
  ASSUME NEW x, OpenAIStep(x), NEW block, x.event = block,
         NEW d, NEW t, NEW f, Tells(block, d, t, f), DoneLast(block), x.stage = "said" \/ NoDone(block),
         AllCalls(x.said), Len(SaidTexts(x.said)) = Len(SaidTexts(up.said)) + t,
         \A d0 : Describes(d0, Wholes(up.said)) => Describes(d0 \o d, Wholes(x.said)),
         x.stage = "body" \/ f = "stop" \/ (f = "" /\ up.stage \in {"ending", "counted"}),
         x.stage \in {"body", "ending", "counted", "said"}
  PROVE  OpenAIMade(block)
<1>1. /\ source = "openai" /\ source' = "openai" /\ up'.said = x.said /\ up'.stage = x.stage
  BY DEF OpenAIStep
<1>2. DOMAIN gen' = GenFields /\ gen'.state = "running" /\ gen'.out = <<block>>
  BY DEF OpenAIStep, noteMessage, GenFields
<1>3. WholeTracks'
  BY <1>1 DEF WholeTracks, AllCalls
<1>4. ArgsOf = Wholes(up.said)
  BY <1>1 DEF ArgsOf, Wholes
<1>5. ArgsOf' = Wholes(x.said)
  BY <1>1 DEF ArgsOf, Wholes
<1>6. Finish' = "" \/ f = Finish' \/ (f = "" /\ Finish = Finish')
  <2>1. Finish = IF up.stage \in {"ending", "counted", "said"} THEN "stop" ELSE ""
    BY <1>1 DEF Finish
  <2>2. Finish' = IF x.stage \in {"ending", "counted", "said"} THEN "stop" ELSE ""
    BY <1>1 DEF Finish
  <2> QED
    BY <2>1, <2>2
<1>7. Unfinished' => NoDone(block)
  BY <1>1 DEF Unfinished
<1>8. Adds(block, ArgsOf, ArgsOf', t, f)
  BY <1>4, <1>5 DEF Adds
<1>9. Answers(block)
  BY <1>1, <1>6, <1>7, <1>8 DEF Answers
<1> QED
  BY <1>2, <1>3, <1>9 DEF OpenAIMade, Tells

\* Nothing more.
LEMMA NoneMore == ASSUME NEW k \in Nat PROVE k = k + 0
  OBVIOUS

\* A read that says nothing of the content.
LEMMA OpenAIIsSilent ==
  ASSUME NEW x, OpenAIStep(x), NEW block, x.event = block, x.said = up.said,
         NEW f, Tells(block, <<>>, 0, f), DoneLast(block), x.stage = "said" \/ NoDone(block),
         x.stage = "body" \/ f = "stop" \/ (f = "" /\ up.stage \in {"ending", "counted"}),
         x.stage \in {"body", "ending", "counted", "said"}
  PROVE  OpenAIMade(block)
<1>1. AllCalls(up.said)
  BY DEF OpenAIStep, WholeTracks, AllCalls
<1>2. Len(SaidTexts(x.said)) = Len(SaidTexts(up.said)) + 0
  <2> DEFINE k == Len(SaidTexts(up.said))
  <2>1. k \in Nat /\ Len(SaidTexts(x.said)) = k
    BY <1>1, WholeMore
  <2> HIDE DEF k
  <2>2. k = k + 0
    BY <2>1, NoneMore
  <2> QED
    BY <2>1, <2>2 DEF k
<1>3. ASSUME NEW d0, Describes(d0, Wholes(up.said)) PROVE Describes(d0 \o <<>>, Wholes(x.said))
  <2>1. d0 \in Seq(Pieces)
    BY <1>3, DescribesTypes
  <2>2. d0 \o <<>> = d0
    BY <2>1, ConcatEmptySeq
  <2> QED
    BY <1>3, <2>2
<1>4. \A d0 : Describes(d0, Wholes(up.said)) => Describes(d0 \o <<>>, Wholes(x.said))
  BY <1>3
<1> QED
  BY <1>1, <1>2, <1>4, OpenAIAnswers

\* As many texts more are said, and no call.
TextsMore(said, n) == /\ AllCalls(said) /\ Wholes(said) = Wholes(up.said)
                      /\ Len(SaidTexts(said)) = Len(SaidTexts(up.said)) + n

\* A read with texts.
LEMMA OpenAITalks ==
  ASSUME NEW x, OpenAIStep(x), NEW block, x.event = block, NEW n, TextsMore(x.said, n),
         NEW f, Tells(block, <<>>, n, f), NoDone(block),
         x.stage = "body" \/ f = "stop", x.stage \in {"body", "ending"}
  PROVE  OpenAIMade(block)
<1>1. AllCalls(up.said)
  BY DEF OpenAIStep, WholeTracks, AllCalls
<1>2. /\ AllCalls(x.said) /\ Wholes(x.said) = Wholes(up.said)
      /\ Len(SaidTexts(x.said)) = Len(SaidTexts(up.said)) + n
  BY DEF TextsMore
<1>3. ASSUME NEW d0, Describes(d0, Wholes(up.said)) PROVE Describes(d0 \o <<>>, Wholes(x.said))
  <2>1. d0 \in Seq(Pieces)
    BY <1>3, DescribesTypes
  <2>2. d0 \o <<>> = d0
    BY <2>1, ConcatEmptySeq
  <2> QED
    BY <1>2, <1>3, <2>2
<1>4. \A d0 : Describes(d0, Wholes(up.said)) => Describes(d0 \o <<>>, Wholes(x.said))
  BY <1>3
<1>5. DoneLast(block)
  BY DEF NoDone, DoneLast
<1> QED
  BY <1>2, <1>4, <1>5, OpenAIAnswers

\* A piece with other arguments.
LEMMA ArgsIs ==
  ASSUME NEW i, NEW v, NEW w
  PROVE  [[index |-> i, head |-> TRUE, args |-> v] EXCEPT !.args = w]
           = [index |-> i, head |-> TRUE, args |-> w]
<1> DEFINE h == [index |-> i, head |-> TRUE, args |-> v]
           p == [index |-> i, head |-> TRUE, args |-> w]
           q == [h EXCEPT !.args = w]
<1>1. DOMAIN q = {"index", "head", "args"} /\ DOMAIN p = {"index", "head", "args"}
  OBVIOUS
<1>2. q.index = p.index /\ q.head = p.head /\ q.args = p.args
  OBVIOUS
<1>3. q = [k \in DOMAIN q |-> q[k]] /\ p = [k \in DOMAIN p |-> p[k]]
  OBVIOUS
<1> HIDE DEF q, p
<1>4. q = p
  BY <1>1, <1>2, <1>3
<1> QED
  BY <1>4 DEF q, p

\* The chunk of a call that is passed through.
LEMMA NextCallIs ==
  /\ NextCall.calls = <<[index |-> Len(SaidCalls(up.said)), head |-> TRUE, args |-> "whole"]>>
  /\ NextCall.choices /\ ~NextCall.done /\ NextCall.finish = "" /\ NextCall.text = 0
<1> DEFINE m == Len(SaidCalls(up.said))
           h == [index |-> m, head |-> TRUE, args |-> ""]
           p == [index |-> m, head |-> TRUE, args |-> "whole"]
           s == <<h>>
           c == HeadChunk(m)
<1>1. c.calls = s /\ DOMAIN c = {"role", "text", "calls", "finish", "choices", "usage", "done"}
      /\ c.choices /\ ~c.done /\ c.finish = "" /\ c.text = 0
  BY DEF HeadChunk, Chunk
<1>2. NextCall = [c EXCEPT !.calls[1].args = "whole"]
  BY DEF NextCall
<1>3. [h EXCEPT !.args = "whole"] = p
  BY ArgsIs
<1> HIDE DEF c, m
<1>4. NextCall.calls = [s EXCEPT ![1] = [s[1] EXCEPT !.args = "whole"]]
      /\ NextCall.choices /\ ~NextCall.done /\ NextCall.finish = "" /\ NextCall.text = 0
  <2> HIDE DEF s
  <2> QED
    BY <1>1, <1>2
<1>5. s[1] = h
  OBVIOUS
<1> HIDE DEF h, p
<1>6. [s EXCEPT ![1] = p] = <<p>>
  OBVIOUS
<1> HIDE DEF s
<1>7. NextCall.calls = <<p>>
  BY <1>3, <1>4, <1>5, <1>6
<1> QED
  BY <1>4, <1>7 DEF p, m

\* Nothing and nothing.
LEMMA NoneNone == <<>> \o <<>> = <<>>
  OBVIOUS

\* A read with a call.
LEMMA OpenAICalls ==
  ASSUME NEW x, OpenAIStep(x), x.event = <<NextCall>>, x.said = Append(up.said, "call"),
         x.stage = "body"
  PROVE  OpenAIMade(<<NextCall>>)
<1> DEFINE c == NextCall
           m == Len(SaidCalls(up.said))
           p == [index |-> m, head |-> TRUE, args |-> "whole"]
           d == <<p>>
           a == "whole"
<1>1. AllCalls(up.said) /\ m \in Nat
  BY WholeMore DEF OpenAIStep, WholeTracks, AllCalls
<1>2. c.calls = d /\ c.choices /\ ~c.done /\ c.finish = ""
  BY NextCallIs
<1>3. c.text = 0
  BY NextCallIs
<1>4. (IF c.text = 1 THEN 1 ELSE 0) = 0
  BY <1>3, NotOne
<1>5. d \in Seq(Pieces)
  <2>1. p \in Pieces
    BY <1>1 DEF Pieces
  <2> HIDE DEF p
  <2> QED
    BY <2>1, SingleSeq
<1>6. a \in ArgKinds
  BY DEF ArgKinds
<1> HIDE DEF c, m, a
<1>7. Tells(<<c>>, d, 0, "") /\ NoDone(<<c>>)
  <2>1. SoundChunk(c)
    BY <1>2, <1>5 DEF SoundChunk
  <2> QED
    BY <1>2, <1>4, <2>1, OneTells
<1>8. /\ AllCalls(x.said) /\ Wholes(x.said) = Append(Wholes(up.said), a)
      /\ Len(SaidTexts(x.said)) = Len(SaidTexts(up.said)) /\ Len(Wholes(up.said)) = m
  BY <1>1, WholeMore DEF m, a
<1>9. Len(SaidTexts(x.said)) = Len(SaidTexts(up.said)) + 0
  <2> DEFINE k == Len(SaidTexts(up.said))
  <2>1. k \in Nat /\ Len(SaidTexts(x.said)) = k
    BY <1>1, <1>8, WholeMore
  <2> HIDE DEF k
  <2>2. k = k + 0
    BY <2>1, NoneMore
  <2> QED
    BY <2>1, <2>2 DEF k
<1>10. ASSUME NEW d0, Describes(d0, Wholes(up.said)) PROVE Describes(d0 \o d, Wholes(x.said))
  <2>1. d = <<[index |-> Len(Wholes(up.said)), head |-> TRUE, args |-> a]>>
    BY <1>8 DEF a
  <2> HIDE DEF d
  <2> QED
    BY <1>6, <1>8, <1>10, <2>1, DescribesBegun
<1> HIDE DEF d
<1>11. \A d0 : Describes(d0, Wholes(up.said)) => Describes(d0 \o d, Wholes(x.said))
  BY <1>10
<1> DEFINE block == <<c>>
<1>12. x.event = block /\ Tells(block, d, 0, "") /\ NoDone(block)
  BY <1>7 DEF c
<1> HIDE DEF block
<1>13. DoneLast(block)
  BY <1>12 DEF NoDone, DoneLast
<1>14. OpenAIMade(block)
  BY <1>8, <1>9, <1>11, <1>12, <1>13, OpenAIAnswers
<1> QED
  BY <1>14 DEF block, c

\* What the chunks say that are passed through.
LEMMA ChunksSay ==
  /\ SaidOf(RoleChunk) = <<>> /\ SaidOf(TextChunk) = <<"text">> /\ SaidOf(FinishChunk("stop")) = <<>>
  /\ \A u : SaidOf(UsageChunk(u)) = <<>>
  /\ SaidOf(DoneChunk) = <<>> /\ SaidOf(NextCall) = <<"call">>
<1>1. ASSUME NEW c, c.calls = <<>>, c.text = 0 PROVE SaidOf(c) = <<>>
  <2>1. c.text # 1
    BY <1>1, NotOne
  <2>2. <<>> \o <<>> = <<>>
    OBVIOUS
  <2> QED
    BY <1>1, <2>1, <2>2 DEF SaidOf
<1>2. RoleChunk.calls = <<>> /\ RoleChunk.text = 0
  BY DEF RoleChunk, Chunk
<1>3. FinishChunk("stop").calls = <<>> /\ FinishChunk("stop").text = 0
  BY DEF FinishChunk, Chunk
<1>4. \A u : UsageChunk(u).calls = <<>> /\ UsageChunk(u).text = 0
  BY DEF UsageChunk, Chunk
<1>5. DoneChunk.calls = <<>> /\ DoneChunk.text = 0
  BY DEF DoneChunk, Chunk
<1>6. SaidOf(TextChunk) = <<"text">>
  <2>1. TextChunk.calls = <<>> /\ TextChunk.text = 1
    BY DEF TextChunk, Chunk
  <2>2. <<"text">> \o <<>> = <<"text">>
    <3> DEFINE v == "text"
    <3>1. v \in {v}
      OBVIOUS
    <3> HIDE DEF v
    <3>2. <<v>> \in Seq({v})
      BY <3>1, SingleSeq
    <3>3. <<v>> \o <<>> = <<v>>
      BY <3>2, ConcatEmptySeq
    <3> QED
      BY <3>3 DEF v
  <2> QED
    BY <2>1, <2>2 DEF SaidOf
<1>7. SaidOf(NextCall) = <<"call">>
  <2>1. NextCall.text = 0
    BY NextCallIs
  <2>2. NextCall.text # 1
    BY <2>1, NotOne
  <2>3. NextCall.calls # <<>>
    <3> DEFINE p == [index |-> Len(SaidCalls(up.said)), head |-> TRUE, args |-> "whole"]
    <3>1. NextCall.calls = <<p>>
      BY NextCallIs
    <3> HIDE DEF p
    <3> QED
      BY <3>1
  <2>4. <<>> \o <<"call">> = <<"call">>
    <3> DEFINE v == "call"
    <3>1. v \in {v}
      OBVIOUS
    <3> HIDE DEF v
    <3>2. <<v>> \in Seq({v})
      BY <3>1, SingleSeq
    <3>3. <<>> \o <<v>> = <<v>>
      BY <3>2, ConcatEmptySeq
    <3> QED
      BY <3>3 DEF v
  <2> QED
    BY <2>2, <2>3, <2>4 DEF SaidOf
<1>8. \A u : SaidOf(UsageChunk(u)) = <<>>
  BY <1>1, <1>4
<1> QED
  BY <1>1, <1>2, <1>3, <1>5, <1>6, <1>7, <1>8

\* What two chunks tell.
LEMMA TwoTell ==
  ASSUME NEW c, NEW t, NEW f, Tells(<<c>>, <<>>, t, f), NoDone(<<c>>), NEW k, k = t + 0,
         NEW d, NEW f2, Tells(<<d>>, <<>>, 0, f2), DoneLast(<<d>>), NEW f3, f3 = IF f2 = "" THEN f ELSE f2
  PROVE  /\ Tells(<<c, d>>, <<>>, k, f3) /\ DoneLast(<<c, d>>)
         /\ (NoDone(<<d>>) => NoDone(<<c, d>>))
<1> DEFINE s == <<c>>
           r == <<d>>
<1>1. s \o r = <<c, d>>
  BY TwoIs
<1>2. <<>> \o <<>> = <<>>
  BY NoneNone, Zenon
<1>3. Tells(s, <<>>, t, f) /\ Tells(r, <<>>, 0, f2) /\ NoDone(s) /\ DoneLast(r)
  OBVIOUS
<1>4. IsSeq(s) /\ IsSeq(r)
  BY <1>3 DEF Tells, Sound
<1> DEFINE none == <<>>
<1> HIDE DEF s, r, none
<1>5. Tells(s \o r, none \o none, t + 0, IF f2 = "" THEN f ELSE f2)
  BY <1>3, TellsConcat DEF none
<1>6. DoneLast(s \o r) /\ (NoDone(r) => NoDone(s \o r))
  BY <1>3, <1>4, DoneConcat
<1>7. Tells(s \o r, none, k, f3)
  BY <1>2, <1>5 DEF none
<1> QED
  BY <1>1, <1>6, <1>7 DEF r, none

\* A set of numbers with 0 and what follows on each of its elements has them all.
LEMMA Inductive ==
  ASSUME NEW S \in SUBSET Nat, 0 \in S, \A k \in S : k + 1 \in S
  PROVE  S = Nat
<1> SUFFICES ASSUME Nat \ S # {} PROVE FALSE
  OBVIOUS
<1> DEFINE T == Nat \ S
<1>1. T \in SUBSET Nat /\ T # {}
  OBVIOUS
<1>2. \A k \in Nat : k \in T <=> k \notin S
  OBVIOUS
<1> HIDE DEF T
<1>3. PICK m \in T : \A k \in T : m <= k
  BY <1>1, LeastNatural
<1>4. m \in Nat /\ m # 0
  BY <1>1, <1>2, <1>3
<1>5. m - 1 \in Nat /\ ~(m <= m - 1) /\ (m - 1) + 1 = m
  BY <1>4
<1>6. m - 1 \in S
  BY <1>2, <1>3, <1>5
<1> QED
  BY <1>2, <1>3, <1>4, <1>5, <1>6

\* A run of texts, and one with one more.
LEMMA RunMore ==
  ASSUME NEW n \in Nat
  PROVE  /\ TextRun(0) = <<>> /\ TextRun(1) = <<TextChunk>>
         /\ TextRun(n + 1) = TextRun(n) \o <<TextChunk>>
<1>1. TextRun(0) = <<>>
  BY DEF TextRun
<1> DEFINE c == TextChunk
<1>2. \A k \in Nat : TextRun(k) = [i \in 1 .. k |-> c]
  BY DEF TextRun
<1> HIDE DEF c
<1>3. [i \in 1 .. n |-> c] \in Seq({c}) /\ c \in {c}
  BY SameMore
<1>4. Append([i \in 1 .. n |-> c], c) = [i \in 1 .. n + 1 |-> c]
  BY SameMore
<1>5. Append([i \in 1 .. n |-> c], c) = [i \in 1 .. n |-> c] \o <<c>>
  BY <1>3, AppendIs
<1>6. [i \in 1 .. 1 |-> c] = <<c>>
  OBVIOUS
<1>7. TextRun(1) = <<c>>
  BY <1>2, <1>6
<1>8. TextRun(n + 1) = TextRun(n) \o <<c>>
  BY <1>2, <1>4, <1>5
<1> QED
  BY <1>1, <1>7, <1>8 DEF c

\* What a run tells: as many texts as it is long.
LEMMA RunTells ==
  ASSUME NEW n \in Nat PROVE Tells(TextRun(n), <<>>, n, "") /\ NoDone(TextRun(n))
<1> DEFINE none == <<>>
           f == ""
           one == <<TextChunk>>
           S == {k \in Nat : Tells(TextRun(k), none, k, f) /\ NoDone(TextRun(k))}
<1>1. Tells(none, none, 0, f) /\ NoDone(none) /\ Tells(one, none, 1, f) /\ NoDone(one)
  BY ChunksTell DEF ArgKinds
<1>2. none \o none = none /\ TextRun(0) = none
  BY RunMore, NoneNone
<1>3. (IF f = "" THEN f ELSE f) = f
  OBVIOUS
<1> HIDE DEF none, f, one
<1>4. ASSUME NEW k \in S PROVE k + 1 \in S
  <2>1. k \in Nat /\ k + 1 \in Nat /\ Tells(TextRun(k), none, k, f) /\ NoDone(TextRun(k))
    OBVIOUS
  <2>2. TextRun(k + 1) = TextRun(k) \o one
    BY <2>1, RunMore DEF one
  <2>3. Tells(TextRun(k) \o one, none \o none, k + 1, IF f = "" THEN f ELSE f)
    BY <1>1, <2>1, TellsConcat
  <2>4. IsSeq(TextRun(k)) /\ IsSeq(one)
    BY <1>1, <2>1 DEF Tells, Sound
  <2>5. NoDone(TextRun(k) \o one)
    BY <1>1, <2>1, <2>4, DoneConcat
  <2>6. Tells(TextRun(k + 1), none, k + 1, f) /\ NoDone(TextRun(k + 1))
    BY <1>2, <1>3, <2>2, <2>3, <2>5
  <2> QED
    BY <2>1, <2>6
<1>5. 0 \in S /\ S \in SUBSET Nat
  BY <1>1, <1>2
<1> HIDE DEF S
<1>6. S = Nat
  BY <1>4, <1>5, Inductive
<1> QED
  BY <1>6 DEF S, none, f

\* With a finish reason after it, or without.
LEMMA RunSays ==
  ASSUME NEW n \in Nat, AllCalls(up.said)
  PROVE  /\ TextsMore(SaidWith(TextRun(n)), n)
         /\ TextsMore(SaidWith(Append(TextRun(n), FinishChunk("stop"))), n)
<1> DEFINE v == "text"
           w == <<v>>
           many(k) == [i \in 1 .. k |-> w]
           F(k) == FlattenSeq(many(k))
           none == <<>>
           S == {k \in Nat : F(k) \in Seq(Kinds) /\ TextsMore(up.said \o F(k), k)}
           stop == FinishChunk("stop")
<1>0. v \in Kinds /\ up.said \in Seq(Kinds)
  BY DEF AllCalls, Kinds
<1>1. \A said : AllCalls(said) => /\ AllCalls(Append(said, v)) /\ Wholes(Append(said, v)) = Wholes(said)
                                  /\ Len(SaidTexts(Append(said, v))) = Len(SaidTexts(said)) + 1
                                  /\ Len(SaidTexts(said)) \in Nat
  BY WholeMore
<1>s. SaidOf(TextChunk) = w /\ SaidOf(stop) = none
  BY ChunksSay
<1> HIDE DEF v, stop
<1>2. w \in Seq(Kinds) /\ none \in Seq(Kinds)
  BY <1>0, SingleSeq
<1>3. \A k \in Nat : /\ many(k) \in Seq({w}) /\ Len(many(k)) = k
                     /\ many(k + 1) = Append(many(k), w)
  BY SameMore
<1>4. \A k \in Nat : many(k) \in Seq(Seq(Kinds))
  BY <1>2
<1>5. many(0) = none
  OBVIOUS
<1>6. FlattenSeq(<<w>>) = w /\ FlattenSeq(<<none>>) = none /\ FlattenSeq(none) = none
  BY <1>2, FlattenOne
<1>7. <<w>> \in Seq(Seq(Kinds)) /\ <<none>> \in Seq(Seq(Kinds))
  BY <1>2, SingleSeq
<1>8. \A k \in Nat : Append(many(k), w) = many(k) \o <<w>> /\ Append(many(k), none) = many(k) \o <<none>>
  <2> HIDE DEF many, w, none
  <2> QED
    BY <1>2, <1>4, AppendIs
<1>9. up.said \o none = up.said /\ \A said \in Seq(Kinds) : said \o w = Append(said, v)
                                                            /\ said \o none = said
  <2>1. \A said \in Seq(Kinds) : said \o w = Append(said, v)
    BY <1>0, AppendIs
  <2> QED
    BY <1>0, <2>1, ConcatEmptySeq
<1> HIDE DEF many, w, none
<1>10. ASSUME NEW k \in Nat
       PROVE  /\ FlattenSeq(many(k) \o <<w>>) = F(k) \o w /\ F(k) \in Seq(Kinds)
              /\ FlattenSeq(many(k) \o <<none>>) = F(k)
  <2>1. many(k) \in Seq(Seq(Kinds))
    BY <1>4
  <2>2. FlattenSeq(many(k) \o <<w>>) = F(k) \o w /\ F(k) \in Seq(Kinds)
    BY <1>6, <1>7, <2>1, FlattenConcat
  <2>3. FlattenSeq(many(k) \o <<none>>) = F(k) \o none
    BY <1>6, <1>7, <2>1, FlattenConcat
  <2> QED
    BY <1>9, <2>2, <2>3
<1>11. ASSUME NEW k \in S PROVE k + 1 \in S
  <2> DEFINE said == up.said \o F(k)
  <2>1. k \in Nat /\ k + 1 \in Nat /\ F(k) \in Seq(Kinds) /\ TextsMore(said, k)
    <3>1. \A j \in S : j \in Nat /\ F(j) \in Seq(Kinds) /\ TextsMore(up.said \o F(j), j)
      <4> HIDE DEF F
      <4> QED
        OBVIOUS
    <3> HIDE DEF S, F
    <3>2. k \in Nat /\ F(k) \in Seq(Kinds) /\ TextsMore(up.said \o F(k), k)
      BY <3>1
    <3> QED
      BY <3>2
  <2>2. F(k + 1) = F(k) \o w
    BY <1>3, <1>8, <1>10, <2>1
  <2> HIDE DEF F
  <2>3. up.said \o (F(k) \o w) = said \o w /\ said \in Seq(Kinds)
    <3> HIDE DEF S
    <3>1. F(k) \in Seq(Kinds)
      BY <2>1
    <3>2. \A r, q, u \in Seq(Kinds) : r \o (q \o u) = (r \o q) \o u /\ r \o q \in Seq(Kinds)
      BY ConcatAssociative
    <3> QED
      BY <1>0, <1>2, <3>1, <3>2
  <2>4. up.said \o F(k + 1) = Append(said, v)
    BY <1>9, <2>2, <2>3
  <2> HIDE DEF said
  <2>5. /\ AllCalls(Append(said, v)) /\ Wholes(Append(said, v)) = Wholes(up.said)
        /\ Len(SaidTexts(Append(said, v))) = (Len(SaidTexts(up.said)) + k) + 1
    BY <1>1, <2>1 DEF TextsMore
  <2>6. Len(SaidTexts(up.said)) \in Nat
    BY <1>1
  <2>7. (Len(SaidTexts(up.said)) + k) + 1 = Len(SaidTexts(up.said)) + (k + 1)
    BY <2>1, <2>6
  <2>8. TextsMore(Append(said, v), k + 1)
    BY <2>5, <2>7 DEF TextsMore
  <2>9. F(k + 1) \in Seq(Kinds)
    BY <1>10, <2>1 DEF F
  <2> QED
    BY <2>1, <2>4, <2>8, <2>9
<1>12. 0 \in S /\ S \in SUBSET Nat
  <2>1. F(0) = none
    BY <1>5, <1>6
  <2>2. Len(SaidTexts(up.said)) + 0 = Len(SaidTexts(up.said))
    BY <1>1
  <2>3. TextsMore(up.said, 0)
    BY <2>2 DEF TextsMore
  <2> QED
    BY <1>2, <1>9, <2>1, <2>3
<1> HIDE DEF S
<1>13. S = Nat
  BY <1>11, <1>12, Inductive
<1>14. TextsMore(up.said \o F(n), n)
  BY <1>13 DEF S
<1>15. [i \in DOMAIN TextRun(n) |-> SaidOf(TextRun(n)[i])] = many(n)
  BY <1>s DEF TextRun, many
<1> DEFINE ended == Append(TextRun(n), stop)
<1>16. [i \in DOMAIN ended |-> SaidOf(ended[i])] = Append(many(n), none)
  <2> DEFINE R == {TextChunk, stop}
  <2>1. /\ TextRun(n) \in Seq(R) /\ Len(TextRun(n)) = n /\ \A i \in 1 .. n : TextRun(n)[i] = TextChunk
    BY DEF TextRun
  <2>2. stop \in R
    OBVIOUS
  <2> HIDE DEF R
  <2>3. ended = [i \in 1 .. n + 1 |-> ended[i]] /\ ended[n + 1] = stop
        /\ \A i \in 1 .. n : ended[i] = TextRun(n)[i]
    BY <2>1, <2>2, Appended
  <2> DEFINE said == [i \in DOMAIN ended |-> SaidOf(ended[i])]
             t == Append(many(n), none)
  <2>4. said = [i \in 1 .. n + 1 |-> said[i]] /\ said[n + 1] = none /\ \A i \in 1 .. n : said[i] = w
    <3>1. DOMAIN ended = 1 .. n + 1 /\ n + 1 \in 1 .. n + 1 /\ \A i \in 1 .. n : i \in 1 .. n + 1
      BY <2>3
    <3> HIDE DEF ended
    <3> QED
      BY <1>s, <2>1, <2>3, <3>1
  <2>5. t = [i \in 1 .. n + 1 |-> t[i]] /\ t[n + 1] = none /\ \A i \in 1 .. n : t[i] = w
    <3>1. many(n) \in Seq(Seq(Kinds)) /\ Len(many(n)) = n /\ \A i \in 1 .. n : many(n)[i] = w
      BY <1>3, <1>4 DEF many
    <3> QED
      BY <1>2, <3>1, Appended
  <2>6. \A i \in 1 .. n + 1 : i \in 1 .. n \/ i = n + 1
    OBVIOUS
  <2> HIDE DEF said, t
  <2>7. said = t
    BY <2>4, <2>5, <2>6
  <2> QED
    BY <2>7 DEF said, t
<1> HIDE DEF ended
<1>17. SaidWith(TextRun(n)) = up.said \o F(n)
  <2>1. SaidWith(TextRun(n)) = up.said \o FlattenSeq([i \in DOMAIN TextRun(n) |-> SaidOf(TextRun(n)[i])])
    BY DEF SaidWith, SaidOf
  <2> QED
    BY <1>15, <2>1
<1>18. SaidWith(ended) = up.said \o F(n)
  <2>1. SaidWith(ended) = up.said \o FlattenSeq([i \in DOMAIN ended |-> SaidOf(ended[i])])
    BY DEF SaidWith, SaidOf
  <2> QED
    BY <1>8, <1>10, <1>16, <2>1
<1> QED
  BY <1>14, <1>17, <1>18 DEF ended, stop

\* Whatever the next read of a passed-through stream is.
LEMMA OpenAIMakes ==
  ASSUME NEW x \in OpenAIReads, OpenAIStep(x) PROVE OpenAIMade(x.event)
<1> DEFINE stop == FinishChunk("stop")
           count == UsageChunk(Tokens(1, 1))
           none == <<>>
           f == "stop"
           n == ""
<1>1. up.said \in Seq(Kinds)
  BY DEF OpenAIStep, WholeTracks
<1>2. /\ Tells(<<RoleChunk>>, none, 0, n) /\ NoDone(<<RoleChunk>>)
      /\ Tells(<<stop>>, none, 0, f) /\ NoDone(<<stop>>)
      /\ Tells(<<count>>, none, 0, n) /\ NoDone(<<count>>)
      /\ Tells(<<DoneChunk>>, none, 0, n) /\ DoneLast(<<DoneChunk>>)
  BY ChunksTell DEF ArgKinds
<1>3. /\ SaidOf(RoleChunk) = none
      /\ SaidOf(count) = none /\ SaidOf(DoneChunk) = none /\ SaidOf(NextCall) = <<"call">>
  BY ChunksSay
<1>4. /\ up.said \o none = up.said /\ none \o none = none
      /\ up.said \o <<"call">> = Append(up.said, "call")
  <2>1. "call" \in Kinds
    BY DEF Kinds
  <2> QED
    BY <1>1, <2>1, ConcatEmptySeq, SaidMore, NoneNone
<1>5. NoDone(<<stop>>) => DoneLast(<<stop>>)
  BY DEF NoDone, DoneLast
<1>6. \A s : NoDone(s) => DoneLast(s)
  BY DEF NoDone, DoneLast
<1>7. f # "" /\ n = ""
  OBVIOUS
<1>8. f = "stop"
  OBVIOUS
<1> HIDE DEF stop, count, none, f, n
<1>9. CASE up.stage = "start"
  <2>1. x.event = <<RoleChunk>> /\ x.stage = "body" /\ x.said = SaidWith(<<RoleChunk>>)
    BY <1>9 DEF OpenAIReads, Event
  <2>2. x.said = up.said
    BY <1>3, <1>4, <2>1, ReadSays
  <2> QED
    BY <1>2, <1>6, <2>1, <2>2, OpenAIIsSilent DEF none
<1>10. CASE up.stage = "body"
  <2>0. AllCalls(up.said)
    BY DEF OpenAIStep, WholeTracks, AllCalls
  <2>1. \/ \E k \in Nat : x.event = TextRun(k) /\ x.stage = "body" /\ x.said = SaidWith(TextRun(k))
        \/ x.event = <<NextCall>> /\ x.stage = "body" /\ x.said = SaidWith(<<NextCall>>)
        \/ \E k \in Nat : /\ x.event = Append(TextRun(k), stop) /\ x.stage = "ending"
                          /\ x.said = SaidWith(Append(TextRun(k), stop))
    BY <1>10, StreamsAssumption DEF OpenAIReads, Event, stop
  <2>2. ASSUME NEW k \in Nat, x.event = TextRun(k), x.stage = "body", x.said = SaidWith(TextRun(k))
        PROVE  OpenAIMade(x.event)
    <3> DEFINE block == TextRun(k)
    <3>1. TextsMore(x.said, k) /\ Tells(block, none, k, n) /\ NoDone(block)
      BY <2>0, <2>2, RunSays, RunTells DEF none, n
    <3> HIDE DEF block
    <3>2. x.event = block
      BY <2>2 DEF block
    <3> QED
      BY <2>2, <3>1, <3>2, OpenAITalks DEF none
  <2>3. CASE x.event = <<NextCall>> /\ x.stage = "body" /\ x.said = SaidWith(<<NextCall>>)
    <3>1. x.said = Append(up.said, "call")
      BY <1>3, <1>4, <2>3, ReadSays
    <3> QED
      BY <2>3, <3>1, OpenAICalls
  <2>4. ASSUME NEW k \in Nat, x.event = Append(TextRun(k), stop), x.stage = "ending",
               x.said = SaidWith(Append(TextRun(k), stop))
        PROVE  OpenAIMade(x.event)
    <3> DEFINE block == Append(TextRun(k), stop)
               run == TextRun(k)
               end == <<stop>>
    <3>1. TextsMore(x.said, k) /\ Tells(run, none, k, n) /\ NoDone(run)
      BY <2>0, <2>4, RunSays, RunTells DEF none, n, stop
    <3>2. Tells(end, none, 0, f) /\ NoDone(end) /\ IsSeq(run) /\ IsSeq(end)
      BY <1>2, <3>1 DEF Tells, Sound
    <3>3. block = run \o end
      <4> DEFINE R == {TextChunk, stop}
      <4>1. run \in Seq(R) /\ stop \in R
        BY DEF TextRun
      <4> HIDE DEF R, run
      <4> QED
        BY <4>1, AppendIs DEF run
    <3> HIDE DEF run, end, block
    <3>4. Tells(run \o end, none \o none, k + 0, IF f = "" THEN n ELSE f) /\ NoDone(run \o end)
      BY <3>1, <3>2, TellsConcat, DoneConcat
    <3>5. k + 0 = k /\ (IF f = "" THEN n ELSE f) = f
      BY <1>7, Zenon, NoneMore
    <3>6. Tells(block, none, k, f) /\ NoDone(block)
      BY <1>4, <3>3, <3>4, <3>5
    <3>7. x.event = block
      BY <2>4 DEF block
    <3> QED
      BY <1>8, <2>4, <3>1, <3>6, <3>7, OpenAITalks DEF none
  <2> QED
    BY <2>1, <2>2, <2>3, <2>4
<1>11. ASSUME x.event = <<DoneChunk>>, x.stage = "said", x.said = SaidWith(<<DoneChunk>>),
              up.stage \in {"ending", "counted"}
       PROVE  OpenAIMade(x.event)
  <2>1. x.said = up.said
    BY <1>3, <1>4, <1>11, ReadSays
  <2> QED
    BY <1>2, <1>7, <1>11, <2>1, OpenAIIsSilent DEF none
<1>12. CASE up.stage = "ending"
  <2>1. \/ x.event = <<count>> /\ x.stage = "counted" /\ x.said = SaidWith(<<count>>)
        \/ x.event = <<count, DoneChunk>> /\ x.stage = "said" /\ x.said = SaidWith(<<count, DoneChunk>>)
        \/ x.event = <<DoneChunk>> /\ x.stage = "said" /\ x.said = SaidWith(<<DoneChunk>>)
    BY <1>12 DEF OpenAIReads, Event, count
  <2>2. CASE x.event = <<count>> /\ x.stage = "counted" /\ x.said = SaidWith(<<count>>)
    <3>1. x.said = up.said
      BY <1>3, <1>4, <2>2, ReadSays
    <3> QED
      BY <1>2, <1>6, <1>7, <1>12, <2>2, <3>1, OpenAIIsSilent DEF none
  <2>3. CASE x.event = <<count, DoneChunk>> /\ x.stage = "said" /\ x.said = SaidWith(<<count, DoneChunk>>)
    <3> DEFINE block == <<count, DoneChunk>>
    <3>1. x.said = up.said
      <4>1. SaidWith(<<count, DoneChunk>>) = up.said \o (SaidOf(count) \o SaidOf(DoneChunk))
        BY ReadSays, Zenon
      <4> QED
        BY <1>3, <1>4, <2>3, <4>1
    <3>2. 0 = 0 + 0 /\ n = IF n = "" THEN n ELSE n
      OBVIOUS
    <3>3. Tells(block, none, 0, n) /\ DoneLast(block)
      BY <1>2, <3>2, TwoTell DEF none
    <3> HIDE DEF block
    <3>4. x.event = block /\ x.stage = "said"
      BY <2>3 DEF block
    <3> QED
      BY <1>7, <1>12, <3>1, <3>3, <3>4, OpenAIIsSilent DEF none
  <2>4. CASE x.event = <<DoneChunk>> /\ x.stage = "said" /\ x.said = SaidWith(<<DoneChunk>>)
    BY <1>11, <1>12, <2>4
  <2> QED
    BY <2>1, <2>2, <2>3, <2>4
<1>13. CASE up.stage = "counted"
  <2>1. x.event = <<DoneChunk>> /\ x.stage = "said" /\ x.said = SaidWith(<<DoneChunk>>)
    BY <1>13 DEF OpenAIReads, Event
  <2> QED
    BY <1>11, <1>13, <2>1
<1> QED
  BY <1>9, <1>10, <1>12, <1>13 DEF OpenAIReads

\* What is said more is shown by the chunks made of it.
LEMMA Answered ==
  ASSUME NEW all, Content(all), Unfinished, NEW more, Answers(more) PROVE Content(all \o more)'
<1> DEFINE A == ArgsOf
           A2 == ArgsOf'
           n == Len(SaidTexts(up.said))
           n2 == Len(SaidTexts(up'.said))
           f == Finish
           f3 == Finish'
<1>1. Shown(all, A, n, f) /\ NoDone(all)
  BY DEF Content
<1>2. PICK t, f2 : /\ Adds(more, A, A2, t, f2) /\ n2 = n + t
                   /\ f3 = "" \/ f2 = f3 \/ (f2 = "" /\ f = f3)
                   /\ DoneLast(more) /\ (Unfinished' => NoDone(more))
  BY DEF Answers
<1>3. Content(all \o more)' <=> /\ Shown(all \o more, A2, n2, f3)
                                /\ Unfinished' => NoDone(all \o more)
  BY DEF Content
<1> HIDE DEF A, A2, n, n2, f, f3
<1>4. Shown(all \o more, A2, n + t, f3) /\ (NoDone(more) => NoDone(all \o more))
  BY <1>1, <1>2, ShownMore
<1> QED
  BY <1>2, <1>3, <1>4

\* Nothing is said.
LEMMA ContentStays ==
  ASSUME UNCHANGED <<source, up>>, gen'.tools = gen.tools, gen'.args = gen.args,
         gen'.flushed = gen.flushed, gen'.calls = gen.calls
  PROVE  /\ ArgsOf' = ArgsOf /\ Finish' = Finish /\ (Tracks => Tracks')
         /\ \A all : Content(all) /\ (Unfinished' => Unfinished) => Content(all)'
<1>1. ArgsOf' = ArgsOf
  BY DEF ArgsOf
<1>2. Finish' = Finish
  BY DEF Finish
<1>3. Tracks => Tracks'
  BY DEF Tracks, AnthropicTracks, WholeTracks
<1>4. Len(SaidTexts(up'.said)) = Len(SaidTexts(up.said))
  OBVIOUS
<1>5. ASSUME NEW all, Content(all), Unfinished' => Unfinished PROVE Content(all)'
  <2>1. Shown(all, ArgsOf', Len(SaidTexts(up'.said)), Finish')
    BY <1>1, <1>2, <1>4, <1>5 DEF Content
  <2>2. Unfinished' => NoDone(all)
    BY <1>5 DEF Content
  <2> QED
    BY <2>1, <2>2 DEF Content
<1> QED
  BY <1>1, <1>2, <1>3, <1>5

-----------------------------------------------------------------------------
(* Whatever an Anthropic upstream sends, stray events too                    *)

\* Chunks that take the pieces of n calls to those of n2 calls.
Widens(more, n, n2) ==
  Sound(more) /\ NoDone(more) /\ \A d0 : Opens(d0, n) => Opens(d0 \o Deltas(more), n2)

\* Chunks without pieces do not.
LEMMA WidensNone ==
  ASSUME NEW more, NEW t, NEW f, Tells(more, <<>>, t, f), NoDone(more), NEW n
  PROVE  Widens(more, n, n)
<1>1. ASSUME NEW d0, Opens(d0, n) PROVE Opens(d0 \o <<>>, n)
  <2>1. d0 \in Seq(Pieces)
    BY <1>1 DEF Opens
  <2>2. d0 \o <<>> = d0
    BY <2>1, ConcatEmptySeq
  <2> QED
    BY <1>1, <2>2
<1> QED
  BY <1>1 DEF Widens, Tells

\* A call begins.
LEMMA WidensBegun ==
  ASSUME NEW n \in Nat PROVE Widens(<<HeadChunk(n)>>, n, n + 1)
<1> DEFINE more == <<HeadChunk(n)>>
           p == [index |-> n, head |-> TRUE, args |-> ""]
<1>0. "" \in ArgKinds
  BY DEF ArgKinds
<1>1. Tells(more, <<p>>, 0, "") /\ NoDone(more)
  BY <1>0, ChunksTell
<1>2. \A d0 : Opens(d0, n) => Opens(d0 \o <<p>>, n + 1)
  BY <1>0, OpensBegun
<1> HIDE DEF more, p
<1>3. Widens(more, n, n + 1)
  BY <1>1, <1>2 DEF Widens, Tells
<1> QED
  BY <1>3 DEF more

\* Calls that have begun get arguments.
LEMMA WidensGiven ==
  ASSUME NEW more, NEW e \in Seq(Pieces), Tells(more, e, 0, ""), NoDone(more), NEW n,
         \A i \in DOMAIN e : ~e[i].head /\ e[i].index + 1 \in 1 .. n
  PROVE  Widens(more, n, n)
<1>1. ASSUME NEW d0, Opens(d0, n) PROVE Opens(d0 \o e, n)
  BY <1>1, OpensGiven
<1> QED
  BY <1>1 DEF Widens, Tells

\* The position of a block among the tool calls is one of theirs.
LEMMA IndexAmong ==
  ASSUME NEW tools \in Seq(Nat), NEW i \in DOMAIN tools
  PROVE  IndexOf(tools, tools[i]) \in Nat /\ IndexOf(tools, tools[i]) + 1 \in 1 .. Len(tools)
<1> DEFINE n == Len(tools)
           S == {j \in DOMAIN tools : tools[j] = tools[i]}
<1>1. n \in Nat /\ DOMAIN tools = 1 .. n
  BY PiecesSeq
<1>2. S \in SUBSET (1 .. n) /\ S # {}
  BY <1>1
<1> HIDE DEF S
<1>3. Max(S) \in 1 .. n
  BY <1>1, <1>2, MaxIs
<1> HIDE DEF n
<1>4. Max(S) - 1 \in Nat /\ (Max(S) - 1) + 1 \in 1 .. n
  BY <1>1, <1>3
<1> QED
  BY <1>4 DEF IndexOf, S, n

\* So they do when they are swept up.
LEMMA WidensSwept ==
  ASSUME NEW g0, DOMAIN g0 = GenFields, g0.tools \in Seq(Nat), NEW B, NEW g, g = flushEmptyToolArgs(g0, B)
  PROVE  /\ DOMAIN g = GenFields /\ g.tools = g0.tools /\ g.state = g0.state
         /\ Widens(g.out, Len(g0.tools), Len(g0.tools))
<1> DEFINE tools == g0.tools
           n == Len(tools)
           I == {i \in DOMAIN tools : /\ tools[i] \in B \ (g0.args \cup g0.flushed)
                                      /\ \A j \in 1 .. i - 1 : tools[j] # tools[i]}
           c == Cardinality(I)
           bare == Bare(g0, B)
           at(i) == IndexOf(tools, bare[i])
           e == [i \in 1 .. c |-> [index |-> at(i), head |-> FALSE, args |-> "{}"]]
<1>1. n \in Nat /\ DOMAIN tools = 1 .. n
  BY PiecesSeq
<1>2. I \in SUBSET (1 .. n)
  BY <1>1
<1>3. bare = Kept(tools, I)
  BY DEF Bare
<1> HIDE DEF I, bare, tools
<1>4. c \in Nat /\ bare = [i \in 1 .. c |-> tools[Place(I, i)]]
  BY <1>1, <1>2, <1>3, PlacesCounted DEF Kept
<1> HIDE DEF c
<1>5. \A i \in 1 .. c : Place(I, i) \in 1 .. n
  BY <1>1, <1>2, PlaceOf DEF c
<1>6. \A i \in 1 .. c : at(i) \in Nat /\ at(i) + 1 \in 1 .. n
  <2>1. \A i \in DOMAIN tools : IndexOf(tools, tools[i]) \in Nat /\ IndexOf(tools, tools[i]) + 1 \in 1 .. n
    BY IndexAmong DEF tools
  <2> SUFFICES ASSUME NEW i \in 1 .. c PROVE at(i) \in Nat /\ at(i) + 1 \in 1 .. n
    OBVIOUS
  <2> DEFINE p == Place(I, i)
  <2>2. bare[i] = tools[p] /\ p \in DOMAIN tools
    BY <1>1, <1>4, <1>5
  <2> HIDE DEF p, n
  <2> QED
    BY <2>1, <2>2
<1>7. /\ DOMAIN g = GenFields /\ g.tools = tools /\ g.state = g0.state
      /\ g.out = [i \in 1 .. c |-> ArgsChunk(at(i), "{}")]
  <2>1. DOMAIN bare = 1 .. c
    BY <1>4
  <2>2. g = [g0 EXCEPT !.flushed = g0.flushed \cup ToSet(bare),
                       !.out = [i \in DOMAIN bare |-> ArgsChunk(IndexOf(tools, bare[i]), "{}")]]
    BY DEF flushEmptyToolArgs, bare, tools
  <2> QED
    BY <2>1, <2>2 DEF GenFields, tools
<1> HIDE DEF at, n
<1>8. e \in Seq(Pieces) /\ Len(e) = c /\ DOMAIN e = 1 .. c
  <2>1. \A i \in 1 .. c : [index |-> at(i), head |-> FALSE, args |-> "{}"] \in Pieces
    BY <1>6 DEF Pieces
  <2>2. e \in [1 .. c -> Pieces]
    BY <2>1
  <2> HIDE DEF e
  <2> QED
    BY <1>4, <2>2
<1>9. \A i \in 1 .. c : /\ e[i] = [index |-> at(i), head |-> FALSE, args |-> "{}"]
                        /\ e[i].index = at(i) /\ ~e[i].head
  OBVIOUS
<1> HIDE DEF e
<1>10. Tells(g.out, e, 0, "") /\ NoDone(g.out)
  <2> DEFINE s == g.out
  <2>1. s = [i \in 1 .. Len(e) |-> s[i]]
    BY <1>7, <1>8
  <2>2. ASSUME NEW i \in 1 .. Len(e)
        PROVE  /\ s[i].calls = <<e[i]>> /\ s[i].text = 0 /\ s[i].finish = ""
               /\ s[i].choices /\ ~s[i].done
    <3>1. s[i] = ArgsChunk(at(i), "{}") /\ e[i] = [index |-> at(i), head |-> FALSE, args |-> "{}"]
      BY <1>7, <1>8, <1>9
    <3> HIDE DEF s
    <3> QED
      BY <3>1 DEF ArgsChunk, Chunk
  <2> HIDE DEF s
  <2>3. Tells(s, e, 0, "") /\ NoDone(s)
    BY <1>8, <2>1, <2>2, PiecesTell
  <2> QED
    BY <2>3 DEF s
<1>11. \A i \in DOMAIN e : ~e[i].head /\ e[i].index + 1 \in 1 .. n
  BY <1>6, <1>8, <1>9
<1>12. Widens(g.out, n, n)
  BY <1>8, <1>10, <1>11, WidensGiven
<1> QED
  BY <1>7, <1>12 DEF tools, n

\* With more chunks, without pieces, after it.
LEMMA WidensEnded ==
  ASSUME NEW more, NEW n, Widens(more, n, n), NEW last, NEW f, Tells(last, <<>>, 0, f), NoDone(last)
  PROVE  Widens(more \o last, n, n)
<1>1. Sound(more) /\ Sound(last) /\ Deltas(last) = <<>>
  BY DEF Widens, Tells
<1>2. Sound(more \o last) /\ Deltas(more \o last) = Deltas(more) \o <<>> /\ Deltas(more) \in Seq(Pieces)
  BY <1>1, SaysConcat
<1>3. Deltas(more \o last) = Deltas(more)
  BY <1>2, ConcatEmptySeq
<1>4. NoDone(more \o last)
  BY <1>1, DoneConcat DEF Widens, Sound
<1> QED
  BY <1>2, <1>3, <1>4 DEF Widens

\* Whatever event is translated.
LEMMA TranslateWidens ==
  ASSUME NEW g0, DOMAIN g0 = GenFields, g0.tools \in Seq(Nat), g0.out = <<>>, g0.state = "running",
         NEW e, e.block \in Nat, NEW g, g = translate(g0, e)
  PROVE  /\ DOMAIN g = GenFields /\ g.state \in {"running", "returning"}
         /\ g.tools \in Seq(Nat) /\ Widens(g.out, Len(g0.tools), Len(g.tools))
<1> DEFINE tools == g0.tools
           n == Len(tools)
           none == <<>>
           Good == /\ DOMAIN g = GenFields /\ g.state \in {"running", "returning"}
                   /\ g.tools \in Seq(Nat) /\ Widens(g.out, n, Len(g.tools))
<1>1. tools \in Seq(Nat) /\ n \in Nat /\ DOMAIN tools = 1 .. n
  BY PiecesSeq
<1>2. /\ Tells(none, none, 0, "") /\ NoDone(none) /\ Tells(<<RoleChunk>>, none, 0, "") /\ NoDone(<<RoleChunk>>)
      /\ Tells(<<TextChunk>>, none, 1, "") /\ NoDone(<<TextChunk>>)
      /\ \A f : Tells(<<FinishChunk(f)>>, none, 0, f) /\ NoDone(<<FinishChunk(f)>>)
      /\ \A u : Tells(<<UsageChunk(u)>>, none, 0, "") /\ NoDone(<<UsageChunk(u)>>)
  BY ChunksTell DEF ArgKinds
<1>3. \A more, t, f : Tells(more, none, t, f) /\ NoDone(more) => Widens(more, n, n)
  BY WidensNone
<1> HIDE DEF none
<1>4. ASSUME DOMAIN g = GenFields, g.state = "running", g.tools = tools, g.out = none PROVE Good
  <2>1. Widens(none, n, n)
    BY <1>2, <1>3
  <2> QED
    BY <1>1, <1>4, <2>1
<1>5. ASSUME g = g0 PROVE Good
  BY <1>4, <1>5 DEF none
<1>6. CASE e.type = "message_start"
  <2>1. g = MessageStart(g0)
    BY <1>6 DEF translate
  <2>2. DOMAIN g = GenFields /\ g.state = "running" /\ g.tools = tools /\ g.out = <<RoleChunk>>
    BY <2>1 DEF MessageStart, GenFields
  <2>3. Widens(<<RoleChunk>>, n, n)
    BY <1>2, <1>3
  <2> QED
    BY <1>1, <2>2, <2>3
<1>7. CASE e.type = "content_block_start"
  <2>1. g = BlockStart(g0, e)
    BY <1>7 DEF translate
  <2>2. CASE e.tool
    <3>1. /\ DOMAIN g = GenFields /\ g.state = "running" /\ g.tools = Append(tools, e.block)
          /\ g.out = <<HeadChunk(n)>>
      BY <2>1, <2>2 DEF BlockStart, GenFields
    <3>2. Append(tools, e.block) \in Seq(Nat) /\ Len(Append(tools, e.block)) = n + 1
      BY <1>1
    <3>3. Widens(<<HeadChunk(n)>>, n, n + 1)
      BY <1>1, WidensBegun
    <3> QED
      BY <3>1, <3>2, <3>3
  <2>3. CASE ~e.tool
    BY <1>5, <2>1, <2>3 DEF BlockStart
  <2> QED
    BY <2>2, <2>3
<1>8. CASE e.type = "content_block_delta"
  <2>1. g = BlockDelta(g0, e)
    BY <1>8 DEF translate
  <2>2. CASE ~e.tool
    <3>1. DOMAIN g = GenFields /\ g.state = "running" /\ g.tools = tools /\ g.out = <<TextChunk>>
      BY <2>1, <2>2 DEF BlockDelta, GenFields
    <3>2. Widens(<<TextChunk>>, n, n)
      BY <1>2, <1>3
    <3> QED
      BY <1>1, <3>1, <3>2
  <2>3. CASE e.tool /\ e.block \notin ToSet(tools)
    BY <1>5, <2>1, <2>3 DEF BlockDelta
  <2>4. CASE e.tool /\ e.block \in ToSet(tools)
    <3> DEFINE at == IndexOf(tools, e.block)
               p == [index |-> at, head |-> FALSE, args |-> "part"]
               s == <<p>>
    <3>1. /\ DOMAIN g = GenFields /\ g.state = "running" /\ g.tools = tools
          /\ g.out = <<ArgsChunk(at, "part")>>
      BY <2>1, <2>4 DEF BlockDelta, GenFields
    <3>2. at \in Nat /\ at + 1 \in 1 .. n
      <4>1. PICK i \in DOMAIN tools : tools[i] = e.block
        BY <2>4 DEF ToSet
      <4> QED
        BY <1>1, <4>1, IndexAmong
    <3> HIDE DEF at
    <3>3. "part" \in ArgKinds
      BY DEF ArgKinds
    <3>4. Tells(<<ArgsChunk(at, "part")>>, s, 0, "") /\ NoDone(<<ArgsChunk(at, "part")>>)
      BY <3>2, <3>3, ChunksTell
    <3>5. p \in Pieces /\ p.index = at /\ ~p.head
      BY <3>2 DEF Pieces
    <3> HIDE DEF p
    <3>6. s \in Seq(Pieces) /\ DOMAIN s = {1} /\ s[1] = p
      BY <3>5
    <3>7. \A i \in DOMAIN s : ~s[i].head /\ s[i].index + 1 \in 1 .. n
      BY <3>2, <3>5, <3>6
    <3> HIDE DEF s
    <3>8. Widens(<<ArgsChunk(at, "part")>>, n, n)
      BY <3>4, <3>6, <3>7, WidensGiven
    <3> QED
      BY <1>1, <3>1, <3>8
  <2> QED
    BY <2>2, <2>3, <2>4
<1>9. CASE e.type = "content_block_stop"
  <2>1. g = flushEmptyToolArgs(g0, {e.block})
    BY <1>9 DEF translate
  <2>2. DOMAIN g = GenFields /\ g.tools = tools /\ g.state = "running" /\ Widens(g.out, n, n)
    BY <2>1, WidensSwept
  <2> QED
    BY <1>1, <2>2
<1>10. CASE e.type = "message_delta"
  <2>1. g = MessageDelta(g0, e)
    BY <1>10 DEF translate
  <2>2. /\ DOMAIN g = GenFields /\ g.state = "running" /\ g.tools = tools
        /\ g.out = <<FinishChunk(mapStopReason(e.reason))>>
    BY <2>1 DEF MessageDelta, GenFields
  <2>3. \A f : Widens(<<FinishChunk(f)>>, n, n)
    BY <1>2, <1>3
  <2> QED
    BY <1>1, <2>2, <2>3
<1> DEFINE swept == flushEmptyToolArgs(g0, ToSet(tools))
<1>11. DOMAIN swept = GenFields /\ swept.tools = tools /\ Widens(swept.out, n, n)
  BY WidensSwept
<1>12. ASSUME DOMAIN g = GenFields, g.state = "returning", g.tools = tools,
              NEW last, NEW f, Tells(last, none, 0, f), NoDone(last), g.out = swept.out \o last
       PROVE  Good
  <2>1. Widens(swept.out \o last, n, n)
    BY <1>11, <1>12, WidensEnded DEF none
  <2> QED
    BY <1>1, <1>12, <2>1
<1>13. CASE e.type = "message_stop"
  <2>1. g = MessageStop(g0)
    BY <1>13 DEF translate
  <2> DEFINE last == IF opts.usage THEN <<UsageChunk(g0.saw)>> ELSE none
  <2>2. DOMAIN g = GenFields /\ g.state = "returning" /\ g.tools = tools /\ g.out = swept.out \o last
    <3>1. g = [swept EXCEPT !.state = "returning", !.out = swept.out \o last]
      BY <2>1 DEF MessageStop, none
    <3> HIDE DEF swept, last
    <3> QED
      BY <1>11, <3>1 DEF GenFields
  <2>3. Tells(last, none, 0, "") /\ NoDone(last)
    BY <1>2
  <2> HIDE DEF last, swept
  <2> QED
    BY <1>12, <2>2, <2>3
<1>14. CASE e.type = "error"
  <2>1. g = StreamError(g0)
    BY <1>14 DEF translate
  <2> DEFINE c == FinishChunk("stop")
             last == <<c>>
             U == ToSet(swept.out) \cup {c}
  <2>2. swept.out \in Seq(U) /\ c \in U
    BY <1>11 DEF Widens, Sound, IsSeq
  <2>3. Append(swept.out, c) = swept.out \o last
    <3> HIDE DEF U, c, swept
    <3> QED
      BY <2>2, AppendIs
  <2>4. DOMAIN g = GenFields /\ g.state = "returning" /\ g.tools = tools /\ g.out = swept.out \o last
    <3>1. g = [swept EXCEPT !.state = "returning", !.out = Append(swept.out, c)]
      BY <2>1 DEF StreamError
    <3> HIDE DEF swept, c
    <3> QED
      BY <1>11, <2>3, <3>1 DEF GenFields
  <2>5. Tells(last, none, 0, "stop") /\ NoDone(last)
    BY <1>2
  <2> HIDE DEF last, swept
  <2> QED
    BY <1>12, <2>4, <2>5
<1>15. CASE e.type \notin {"message_start", "content_block_start", "content_block_delta",
                          "content_block_stop", "message_delta", "message_stop", "error"}
  BY <1>5, <1>15 DEF translate
<1> HIDE DEF swept
<1>16. Good
  BY <1>6, <1>7, <1>8, <1>9, <1>10, <1>13, <1>14, <1>15
<1> QED
  BY <1>16

\* The events of an Anthropic upstream: stray ones break the protocol, the others
\* keep to it.
Typed(x) ==
  /\ x.event.block \in Nat /\ (x.event.type = "content_block_start" => x.event.tool \in BOOLEAN)
  /\ x.protocol \in {"broken", up.protocol}

\* So are they all.
LEMMA AnthropicTypes ==
  ASSUME up.blocks \in Seq(BOOLEAN), NEW x \in AnthropicEvents
  PROVE  Typed(x)
<1>1. Len(up.blocks) \in Nat /\ Len(up.blocks) + 1 \in Nat
  BY PiecesSeq
<1>2. ASSUME NEW type, NEW stage, x = Notice(type, stage), type # "content_block_start" PROVE Typed(x)
  BY <1>1, <1>2 DEF Notice, Event, AnthropicEvent, Typed
<1>3. ASSUME NEW reason, x = MessageEnds(reason) PROVE Typed(x)
  BY <1>1, <1>3 DEF MessageEnds, Event, AnthropicEvent, Typed
<1>4. ASSUME NEW tool \in BOOLEAN, x = BlockStarts(tool) PROVE Typed(x)
  BY <1>1, <1>4 DEF BlockStarts, Event, AnthropicEvent, Typed
<1>5. ASSUME x = BlockGoesOn PROVE Typed(x)
  BY <1>1, <1>5 DEF BlockGoesOn, Event, AnthropicEvent, Typed
<1>6. ASSUME x \in Strays PROVE Typed(x)
  <2>1. ASSUME NEW type, NEW b \in 1 .. Len(up.blocks), x = Stray(type, b) PROVE Typed(x)
    <3>1. b \in Nat
      BY <1>1
    <3> QED
      BY <2>1, <3>1 DEF Stray, Event, AnthropicEvent, Typed
  <2>2. CASE x \in {Stray("content_block_start", b) : b \in 1 .. Len(up.blocks)}
    BY <2>1, <2>2
  <2>3. CASE x \in {Stray(type, b) : type \in {"content_block_delta", "content_block_stop"},
                                    b \in 1 .. Len(up.blocks) \ {OpenBlock}}
    BY <2>1, <2>3
  <2> QED
    BY <1>6, <2>2, <2>3 DEF Strays
<1>7. CASE up.stage = "start"
  BY <1>1, <1>7 DEF AnthropicEvents, Notice, Event, AnthropicEvent, Typed
<1>8. ASSUME NEW stage, \/ x = Notice("ping", stage) \/ x = Notice("error", stage)
                       \/ x = Notice("message_stop", stage) \/ x = Notice("content_block_stop", stage)
      PROVE  Typed(x)
  <2>1. \A type \in {"ping", "error", "message_stop", "content_block_stop"} : type # "content_block_start"
    OBVIOUS
  <2> QED
    BY <1>2, <1>8, <2>1
<1>9. CASE up.stage = "between"
  <2>1. \/ x = BlockStarts(TRUE) \/ x = BlockStarts(FALSE)
        \/ x = MessageEnds("end_turn") \/ x = MessageEnds("tool_use")
        \/ x = Notice("ping", "between") \/ x = Notice("error", "failed") \/ x \in Strays
    BY <1>9 DEF AnthropicEvents
  <2> QED
    BY <1>3, <1>4, <1>6, <1>8, <2>1
<1>10. CASE up.stage = "block"
  <2>1. \/ x = BlockGoesOn \/ x = BlockStarts(TRUE) \/ x = MessageEnds("tool_use")
        \/ x = Notice("content_block_stop", "between") \/ x = Notice("error", "failed")
        \/ x \in Strays
    BY <1>10 DEF AnthropicEvents
  <2> QED
    BY <1>3, <1>4, <1>5, <1>6, <1>8, <2>1
<1>11. CASE up.stage = "ending"
  <2>1. x = Notice("message_stop", "said") \/ x = Notice("error", "failed")
    BY <1>11 DEF AnthropicEvents
  <2> QED
    BY <1>8, <2>1
<1> QED
  BY <1>7, <1>9, <1>10, <1>11 DEF AnthropicEvents

\* The events of the other upstreams keep to it.
LEMMA OthersKeep ==
  ASSUME NEW x, x \in GoogleEvents \/ x \in OpenAIReads PROVE x.protocol = up.protocol
<1>1. \A e, stage, said, told : Event(e, stage, said, told).protocol = up.protocol
  BY DEF Event
<1>2. CASE x \in GoogleEvents
  <2>1. \E candidate, parts, reason : x = GoogleEvent(candidate, parts, reason)
    <3>1. up.stage = "start"
      BY <1>2 DEF GoogleEvents
    <3>2. CASE x \in {GoogleEvent(TRUE, c[1], c[2]) : c \in EventParts \X {None, "STOP", "MAX_TOKENS"}}
      BY <3>2
    <3>3. CASE x \in {GoogleEvent(FALSE, <<FALSE, 0>>, r) :
                        r \in {None} \cup (IF up.said = <<>> THEN {"blocked"} ELSE {})}
      BY <3>3
    <3> QED
      BY <1>2, <3>1, <3>2, <3>3 DEF GoogleEvents
  <2> QED
    BY <1>1, <2>1 DEF GoogleEvent
<1>3. CASE x \in OpenAIReads
  <2>1. \E block, stage, told : x = Event(block, stage, SaidWith(block), told)
    <3>1. CASE up.stage = "start"
      BY <1>3, <3>1 DEF OpenAIReads
    <3>2. CASE up.stage = "body"
      BY <1>3, <3>2 DEF OpenAIReads
    <3>3. CASE up.stage = "ending"
      BY <1>3, <3>3 DEF OpenAIReads
    <3>4. CASE up.stage = "counted"
      BY <1>3, <3>4 DEF OpenAIReads
    <3> QED
      BY <1>3, <3>1, <3>2, <3>3, <3>4 DEF OpenAIReads
  <2> QED
    BY <1>1, <2>1
<1> QED
  BY <1>2, <1>3

\* Of all the chunks that were made of an Anthropic stream: their calls are the
\* tool calls that have begun, and [DONE] is last.
Loose(all) ==
  /\ gen.tools \in Seq(Nat) /\ Sound(all) /\ Opens(Deltas(all), Len(gen.tools))
  /\ DoneLast(all) /\ (Unfinished => NoDone(all))

\* More chunks, or none.
LEMMA LooseGrows ==
  ASSUME NEW all, Loose(all), Unfinished, NEW more, gen'.tools \in Seq(Nat),
         Widens(more, Len(gen.tools), Len(gen'.tools))
  PROVE  Loose(all \o more)'
<1>1. /\ Sound(all) /\ Opens(Deltas(all), Len(gen.tools)) /\ NoDone(all) /\ Sound(more) /\ NoDone(more)
  BY DEF Loose, Widens
<1> DEFINE both == all \o more
<1>2. Sound(both) /\ Deltas(both) = Deltas(all) \o Deltas(more)
  BY <1>1, SaysConcat
<1>3. Opens(Deltas(both), Len(gen'.tools))
  BY <1>1, <1>2 DEF Widens
<1>4. NoDone(both)
  BY <1>1, DoneConcat DEF Sound
<1> HIDE DEF both
<1>5. DoneLast(both)
  BY <1>4 DEF NoDone, DoneLast
<1>6. Loose(both)'
  BY <1>2, <1>3, <1>4, <1>5 DEF Loose
<1> QED
  BY <1>6 DEF both

\* Chunks that say nothing may follow, or none at all.
LEMMA LooseFollowed ==
  ASSUME gen'.tools = gen.tools, UNCHANGED <<source, up>>, Unfinished' => Unfinished,
         NEW all, Loose(all), NEW more,
         more = <<>> \/ (/\ Tells(more, <<>>, 0, "") /\ DoneLast(more)
                         /\ Unfinished /\ (Unfinished' => NoDone(more)))
  PROVE  Loose(all \o more)'
<1>1. /\ gen.tools \in Seq(Nat) /\ Sound(all) /\ Opens(Deltas(all), Len(gen.tools))
      /\ DoneLast(all) /\ (Unfinished => NoDone(all))
  BY DEF Loose
<1> DEFINE both == all \o more
<1>2. CASE more = <<>>
  <2>1. all \o <<>> = all
    BY <1>1, SoundAssociative
  <2>2. both = all
    BY <1>2, <2>1
  <2> HIDE DEF both
  <2>3. Loose(both)'
    BY <1>1, <2>2 DEF Loose
  <2> QED
    BY <2>3 DEF both
<1>3. CASE /\ Tells(more, <<>>, 0, "") /\ DoneLast(more)
           /\ Unfinished /\ (Unfinished' => NoDone(more))
  <2>1. Sound(more) /\ Deltas(more) = <<>> /\ IsSeq(more) /\ IsSeq(all)
    BY <1>1, <1>3 DEF Tells, Sound
  <2>2. Sound(both) /\ Deltas(both) = Deltas(all) \o <<>> /\ Deltas(all) \in Seq(Pieces)
    BY <1>1, <2>1, SaysConcat
  <2>3. Deltas(both) = Deltas(all)
    BY <2>2, ConcatEmptySeq
  <2>4. DoneLast(both) /\ (Unfinished' => NoDone(both))
    BY <1>1, <1>3, <2>1, DoneConcat
  <2> HIDE DEF both
  <2>5. Loose(both)'
    BY <1>1, <2>2, <2>3, <2>4 DEF Loose
  <2> QED
    BY <2>5 DEF both
<1> QED
  BY <1>2, <1>3

\* Only an Anthropic upstream breaks the protocol.
Protocol ==
  /\ up.protocol = "kept" \/ source = "anthropic"
  /\ source = "anthropic" => up.blocks \in Seq(BOOLEAN)

\* What all the chunks that were made are: of an Anthropic stream, well formed;
\* of a stream that keeps to the protocol, what its upstream has said.
Fits(all) ==
  /\ source = "anthropic" => Loose(all)
  /\ up.protocol = "kept" => Tracks /\ Content(all)

\* What the generator has made, when it has made it.
Ready(more) ==
  /\ more = Out' /\ DOMAIN gen' = GenFields /\ gen'.state \in {"running", "returning"}
  /\ IF source = "openai" THEN SoundBlocks(gen'.out) ELSE Sound(gen'.out)

\* Every event that keeps to the protocol is answered.
LEMMA SaysAnswers ==
  ASSUME Tracks, Seen, FlowTypes, UpstreamSays, up'.protocol = "kept"
  PROVE  \E more : Tracks' /\ Answers(more) /\ Ready(more) /\ Unfinished
<1>1. /\ gen.state = "running" /\ gen.out = <<>> /\ source' = source /\ source \in Sources
      /\ DOMAIN gen = GenFields /\ DOMAIN up = UpFields
  BY DEF UpstreamSays, Running, Seen
<1>2. PICK x \in Events :
       /\ up' = [up EXCEPT !.events = up.events + 1, !.stage = x.stage, !.said = x.said, !.told = x.told,
                  !.protocol = x.protocol,
                  !.blocks = IF /\ source = "anthropic" /\ x.event.type = "content_block_start"
                                /\ x.event.block > Len(up.blocks)
                               THEN Append(up.blocks, x.event.tool) ELSE up.blocks,
                  !.reason = IF source # "openai" /\ x.event.reason # None
                               THEN x.event.reason ELSE up.reason]
       /\ gen' = CASE source = "anthropic" -> translate(gen, x.event)
                    [] source = "google"    -> chunks(gen, x.event)
                    [] source = "openai"    -> noteMessage(gen, x.event)
  BY DEF UpstreamSays
<1>3. /\ up'.stage = x.stage /\ up'.said = x.said /\ x.protocol = "kept"
      /\ up'.blocks = IF /\ source = "anthropic" /\ x.event.type = "content_block_start"
                         /\ x.event.block > Len(up.blocks)
                        THEN Append(up.blocks, x.event.tool) ELSE up.blocks
      /\ up'.reason = IF source # "openai" /\ x.event.reason # None
                        THEN x.event.reason ELSE up.reason
  BY <1>1, <1>2 DEF UpFields
<1>4. CASE source = "anthropic"
  <2>1. gen' = translate(gen, x.event) /\ AnthropicTracks /\ x \in AnthropicEvents
    BY <1>2, <1>4 DEF Tracks, Events
  <2>2. AnthropicStep(x)
    BY <1>1, <1>3, <1>4, <2>1 DEF AnthropicStep
  <2>3. AnthropicMade
    BY <1>3, <2>1, <2>2, AnthropicMakes
  <2>4. Out' = gen'.out
    BY <1>1, <1>4 DEF Out
  <2>5. Tracks' /\ Unfinished
    BY <1>1, <1>4, <2>3 DEF Tracks, AnthropicMade, Unfinished
  <2>6. Answers(gen'.out) /\ Ready(gen'.out)
    BY <1>4, <2>3, <2>4 DEF AnthropicMade, Ready
  <2> QED
    BY <2>5, <2>6
<1>5. CASE source = "google"
  <2>1. gen' = chunks(gen, x.event) /\ WholeTracks /\ x \in GoogleEvents
    BY <1>2, <1>5 DEF Tracks, Events
  <2>2. GoogleStep(x)
    BY <1>1, <1>3, <1>5, <2>1 DEF GoogleStep
  <2>3. WholeMade
    BY <2>1, <2>2, GoogleMakes
  <2>4. Out' = gen'.out
    BY <1>1, <1>5 DEF Out
  <2>5. Tracks' /\ Unfinished
    BY <1>1, <1>5, <2>3 DEF Tracks, WholeMade, Unfinished
  <2>6. Answers(gen'.out) /\ Ready(gen'.out)
    BY <1>5, <2>3, <2>4 DEF WholeMade, Ready
  <2> QED
    BY <2>5, <2>6
<1>6. CASE source = "openai"
  <2>1. gen' = noteMessage(gen, x.event) /\ WholeTracks /\ x \in OpenAIReads
    BY <1>2, <1>6 DEF Tracks, Events
  <2>2. OpenAIStep(x)
    BY <1>1, <1>3, <1>6, <2>1 DEF OpenAIStep
  <2>3. OpenAIMade(x.event)
    BY <2>1, <2>2, OpenAIMakes
  <2> DEFINE block == x.event
  <2>4. gen'.out = <<block>> /\ Sound(block) /\ Answers(block) /\ WholeTracks'
        /\ DOMAIN gen' = GenFields /\ gen'.state = "running"
    BY <2>3 DEF OpenAIMade
  <2> HIDE DEF block
  <2>5. SoundBlocks(<<block>>) /\ FlattenSeq(<<block>>) = block
    BY <2>4, BlockAlone
  <2>6. Out' = block
    BY <1>1, <1>6, <2>4, <2>5 DEF Out
  <2>7. Tracks'
    BY <1>1, <1>6, <2>4 DEF Tracks
  <2>8. Unfinished
    <3>1. up.stage # "said"
      BY <2>1 DEF OpenAIReads
    <3> QED
      BY <1>6, <3>1 DEF Unfinished
  <2>9. Ready(block)
    BY <1>6, <2>4, <2>5, <2>6 DEF Ready
  <2> QED
    BY <2>4, <2>7, <2>8, <2>9
<1> QED
  BY <1>1, <1>4, <1>5, <1>6 DEF Sources

\* Every event is.
LEMMA SaysFits ==
  ASSUME FlowTypes, Seen, Protocol, UpstreamSays, NEW all, Fits(all)
  PROVE  \E more : Protocol' /\ Fits(all \o more)' /\ Ready(more)
<1>1. /\ gen.state = "running" /\ gen.out = <<>> /\ source' = source /\ source \in Sources
      /\ DOMAIN gen = GenFields /\ DOMAIN up = UpFields
  BY DEF UpstreamSays, Running, Seen
<1>2. PICK x \in Events :
       /\ up' = [up EXCEPT !.events = up.events + 1, !.stage = x.stage, !.said = x.said, !.told = x.told,
                  !.protocol = x.protocol,
                  !.blocks = IF /\ source = "anthropic" /\ x.event.type = "content_block_start"
                                /\ x.event.block > Len(up.blocks)
                               THEN Append(up.blocks, x.event.tool) ELSE up.blocks,
                  !.reason = IF source # "openai" /\ x.event.reason # None
                               THEN x.event.reason ELSE up.reason]
       /\ gen' = CASE source = "anthropic" -> translate(gen, x.event)
                    [] source = "google"    -> chunks(gen, x.event)
                    [] source = "openai"    -> noteMessage(gen, x.event)
  BY DEF UpstreamSays
<1>3. /\ up'.protocol = x.protocol
      /\ up'.blocks = IF /\ source = "anthropic" /\ x.event.type = "content_block_start"
                         /\ x.event.block > Len(up.blocks)
                        THEN Append(up.blocks, x.event.tool) ELSE up.blocks
  BY <1>1, <1>2 DEF UpFields
<1>4. ASSUME up.protocol = "kept", up'.protocol = "kept"
      PROVE  \E more : Tracks' /\ Content(all \o more)' /\ Ready(more)
  <2>1. Tracks /\ Content(all)
    BY <1>4 DEF Fits
  <2>2. PICK more : Tracks' /\ Answers(more) /\ Ready(more) /\ Unfinished
    BY <1>4, <2>1, SaysAnswers
  <2>3. Content(all \o more)'
    BY <2>1, <2>2, Answered
  <2> QED
    BY <2>2, <2>3
<1>5. CASE source = "anthropic"
  <2>1. gen' = translate(gen, x.event) /\ x \in AnthropicEvents /\ up.blocks \in Seq(BOOLEAN) /\ Loose(all)
    BY <1>2, <1>5 DEF Events, Protocol, Fits
  <2>2. Typed(x)
    BY <2>1, AnthropicTypes
  <2>3. gen.tools \in Seq(Nat) /\ x.event.block \in Nat
    BY <2>1, <2>2 DEF Loose, Typed
  <2>4. /\ DOMAIN gen' = GenFields /\ gen'.state \in {"running", "returning"}
        /\ gen'.tools \in Seq(Nat) /\ Widens(gen'.out, Len(gen.tools), Len(gen'.tools))
    BY <1>1, <2>1, <2>3, TranslateWidens
  <2>5. Unfinished /\ Out' = gen'.out /\ Sound(gen'.out)
    BY <1>1, <1>5, <2>4 DEF Unfinished, Out, Widens
  <2>6. Protocol'
    <3>1. up'.blocks \in Seq(BOOLEAN)
      <4>1. CASE x.event.type = "content_block_start" /\ x.event.block > Len(up.blocks)
        <5> DEFINE tool == x.event.tool
        <5>1. up'.blocks = Append(up.blocks, tool) /\ tool \in BOOLEAN
          BY <1>3, <1>5, <2>2, <4>1 DEF Typed
        <5> HIDE DEF tool
        <5> QED
          BY <2>1, <5>1
      <4>2. CASE ~(x.event.type = "content_block_start" /\ x.event.block > Len(up.blocks))
        BY <1>3, <2>1, <4>2
      <4> QED
        BY <4>1, <4>2
    <3> QED
      BY <1>1, <1>5, <3>1 DEF Protocol
  <2>7. up'.protocol = "kept" => up.protocol = "kept"
    BY <1>3, <2>2 DEF Typed
  <2>8. ASSUME NEW more, more = gen'.out, up'.protocol = "kept" => Tracks' /\ Content(all \o more)'
        PROVE  Fits(all \o more)' /\ Ready(more)
    <3>1. Loose(all \o more)'
      BY <2>1, <2>4, <2>5, <2>8, LooseGrows
    <3>2. Ready(more)
      BY <1>1, <1>5, <2>4, <2>5, <2>8 DEF Ready
    <3> DEFINE longer == all \o more
    <3>3. Loose(longer)' /\ (up'.protocol = "kept" => Tracks' /\ Content(longer)')
      BY <2>8, <3>1
    <3> HIDE DEF longer
    <3>4. Fits(longer)'
      BY <3>3 DEF Fits
    <3> QED
      BY <3>2, <3>4 DEF longer
  <2>9. CASE up'.protocol = "kept"
    <3>1. PICK more : Tracks' /\ Content(all \o more)' /\ Ready(more)
      BY <1>4, <2>7, <2>9
    <3>2. more = gen'.out
      BY <2>5, <3>1 DEF Ready
    <3> QED
      BY <2>6, <2>8, <3>1, <3>2
  <2>10. CASE up'.protocol # "kept"
    <3>1. PICK more : more = gen'.out
      OBVIOUS
    <3> QED
      BY <2>6, <2>8, <2>10, <3>1
  <2> QED
    BY <2>9, <2>10
<1>6. CASE source # "anthropic"
  <2>1. up.protocol = "kept"
    BY <1>6 DEF Protocol
  <2>2. x \in GoogleEvents \/ x \in OpenAIReads
    BY <1>1, <1>2, <1>6 DEF Events, Sources
  <2>3. up'.protocol = "kept" /\ Protocol'
    BY <1>1, <1>3, <1>6, <2>1, <2>2, OthersKeep DEF Protocol
  <2>4. PICK more : Tracks' /\ Content(all \o more)' /\ Ready(more)
    BY <1>4, <2>1, <2>3
  <2> DEFINE longer == all \o more
  <2>5. Tracks' /\ Content(longer)' /\ Ready(more)
    BY <2>4
  <2> HIDE DEF longer
  <2>6. Fits(longer)'
    BY <1>1, <1>6, <2>5 DEF Fits
  <2> QED
    BY <2>3, <2>5, <2>6 DEF longer
<1> QED
  BY <1>5, <1>6

\* Before anything is said.
LEMMA ContentStarts == StreamInit => Tracks /\ Content(<<>>)
<1> SUFFICES ASSUME StreamInit PROVE Tracks /\ Content(<<>>)
  OBVIOUS
<1>1. /\ up.said = <<>> /\ up.blocks = <<>> /\ up.stage = "start" /\ gen.tools = <<>> /\ gen.args = {}
      /\ gen.flushed = {} /\ gen.calls = 0 /\ source \in Sources
  BY DEF StreamInit
<1>2. SaidTexts(up.said) = <<>> /\ SaidCalls(up.said) = <<>>
  BY <1>1, SaidNothing
<1>3. Len(SaidTexts(up.said)) = 0 /\ Len(SaidCalls(up.said)) = 0 /\ DOMAIN gen.tools = {}
  BY <1>1, <1>2
<1>4. <<>> = [k \in {} |-> ""] /\ 1 .. 0 = {}
  OBVIOUS
<1>5. ArgsOf = <<>>
  BY <1>3, <1>4 DEF ArgsOf, ToolArgs
<1>6. Finish = ""
  BY <1>1 DEF Finish, Sources
<1>7. Tracks
  <2>1. AnthropicTracks
    <3>1. SaidCalls(up.said) = [k \in DOMAIN gen.tools |-> IF gen.tools[k] \in gen.args THEN "call" ELSE "bare"]
      BY <1>2, <1>3, <1>4
    <3>2. up.blocks \in Seq(BOOLEAN) /\ up.said \in Seq(Kinds) /\ gen.tools \in Seq(1 .. Len(up.blocks))
      BY <1>1
    <3> QED
      BY <1>1, <1>3, <3>1, <3>2 DEF AnthropicTracks
  <2>2. WholeTracks
    <3>1. SaidCalls(up.said) = [k \in 1 .. Len(SaidCalls(up.said)) |-> "call"]
      BY <1>2, <1>3, <1>4
    <3>2. up.said \in Seq(Kinds)
      BY <1>1
    <3> QED
      BY <1>1, <1>3, <3>1, <3>2 DEF WholeTracks
  <2> QED
    BY <2>1, <2>2 DEF Tracks
<1>8. NoDone(<<>>) /\ DoneLast(<<>>)
  BY DEF NoDone, DoneLast
<1> DEFINE none == <<>>
<1>9. Sound(none) /\ Deltas(none) = none /\ Texts(none) = 0 /\ Describes(none, none)
  BY SaysNothing, DescribesNone
<1> HIDE DEF none
<1>10. Shown(none, none, 0, "")
  BY <1>8, <1>9 DEF Shown, none
<1> QED
  BY <1>3, <1>5, <1>6, <1>7, <1>8, <1>10 DEF Content, none

\* Chunks that say nothing of the content may follow, or none at all.
LEMMA ContentFollowed ==
  ASSUME UNCHANGED <<source, up>>, gen'.tools = gen.tools, gen'.args = gen.args,
         gen'.flushed = gen.flushed, gen'.calls = gen.calls, Unfinished' => Unfinished, Tracks,
         NEW all, Content(all), NEW more,
         more = <<>> \/ (/\ Tells(more, <<>>, 0, "") /\ DoneLast(more)
                         /\ Unfinished /\ (Unfinished' => NoDone(more)))
  PROVE  Tracks' /\ Content(all \o more)'
<1>1. ArgsOf' = ArgsOf /\ Finish' = Finish /\ Tracks' /\ Content(all)'
  BY ContentStays
<1>2. CASE more = <<>>
  <2>1. Sound(all)
    BY DEF Content, Shown
  <2>2. all \o <<>> = all
    BY <2>1, SoundAssociative
  <2>3. all \o more = all
    BY <1>2, <2>2
  <2>4. PICK all2 : all2 = all \o more
    OBVIOUS
  <2>5. Content(all2)'
    BY <1>1, <2>3, <2>4
  <2> QED
    BY <1>1, <2>4, <2>5
<1>3. CASE /\ Tells(more, <<>>, 0, "") /\ DoneLast(more)
           /\ Unfinished /\ (Unfinished' => NoDone(more))
  <2> DEFINE A == ArgsOf
             none == ""
             n == Len(SaidTexts(up.said))
  <2>1. n \in Nat
    BY SaidMore DEF Tracks, AnthropicTracks, WholeTracks, Kinds
  <2>2. Adds(more, A, A, 0, none)
    <3> HIDE DEF A
    <3> QED
      BY <1>3, AddsNone
  <2>3. Len(SaidTexts(up'.said)) = n
    OBVIOUS
  <2>4. A = ArgsOf' /\ Finish' = Finish
    BY <1>1
  <2>5. n = n + 0
    BY <2>1, NoneMore
  <2> HIDE DEF A, n
  <2>6. /\ Adds(more, ArgsOf, ArgsOf', 0, none)
        /\ Len(SaidTexts(up'.said)) = Len(SaidTexts(up.said)) + 0
    BY <2>2, <2>3, <2>4, <2>5 DEF A, n
  <2>7. Finish' = "" \/ none = Finish' \/ (none = "" /\ Finish = Finish')
    BY <2>4
  <2> HIDE DEF none
  <2>8. Answers(more)
    BY <1>3, <2>6, <2>7 DEF Answers
  <2> QED
    BY <1>1, <1>3, <2>8, Answered
<1> QED
  BY <1>2, <1>3

\* Before anything is made.
LEMMA FitsStarts == StreamInit => Protocol /\ Fits(<<>>)
<1> SUFFICES ASSUME StreamInit PROVE Protocol /\ Fits(<<>>)
  OBVIOUS
<1> DEFINE none == <<>>
<1>1. gen.tools = none /\ up.protocol = "kept" /\ up.blocks = none
  BY DEF StreamInit
<1>2. Tracks /\ Content(none)
  BY ContentStarts
<1>3. Sound(none) /\ Deltas(none) = none /\ NoDone(none) /\ DoneLast(none)
  <2>1. DOMAIN none = {}
    OBVIOUS
  <2>2. Sound(none) /\ Deltas(none) = none
    BY SaysNothing
  <2> HIDE DEF none
  <2> QED
    BY <2>1, <2>2 DEF NoDone, DoneLast
<1>4. none \in Seq(Nat) /\ Len(none) = 0 /\ none \in Seq(BOOLEAN)
  OBVIOUS
<1>5. Opens(none, 0)
  BY <1>4, DescribesNone DEF Describes, Opens
<1> HIDE DEF none
<1>6. Loose(none) /\ Protocol
  BY <1>1, <1>3, <1>4, <1>5 DEF Loose, Protocol
<1>7. Fits(none)
  BY <1>2, <1>6 DEF Fits
<1> QED
  BY <1>6, <1>7 DEF none

\* Chunks that say nothing may follow, or none at all.
LEMMA FitsFollowed ==
  ASSUME UNCHANGED <<source, up>>, gen'.tools = gen.tools, gen'.args = gen.args,
         gen'.flushed = gen.flushed, gen'.calls = gen.calls, Unfinished' => Unfinished, Protocol,
         NEW all, Fits(all), NEW more,
         more = <<>> \/ (/\ Tells(more, <<>>, 0, "") /\ DoneLast(more)
                         /\ Unfinished /\ (Unfinished' => NoDone(more)))
  PROVE  Protocol' /\ Fits(all \o more)'
<1>1. Protocol'
  BY DEF Protocol
<1>2. ASSUME source = "anthropic" PROVE Loose(all \o more)'
  <2>1. Loose(all)
    BY <1>2 DEF Fits
  <2> QED
    BY <2>1, LooseFollowed
<1>3. ASSUME up.protocol = "kept" PROVE Tracks' /\ Content(all \o more)'
  <2>1. Tracks /\ Content(all)
    BY <1>3 DEF Fits
  <2> QED
    BY <2>1, ContentFollowed
<1> DEFINE longer == all \o more
<1>4. /\ source = "anthropic" => Loose(longer)'
      /\ up.protocol = "kept" => Tracks' /\ Content(longer)'
  BY <1>2, <1>3
<1> HIDE DEF longer
<1>5. Fits(longer)'
  BY <1>4 DEF Fits
<1> QED
  BY <1>1, <1>5 DEF longer

\* Nothing is made.
LEMMA FitsStays ==
  ASSUME UNCHANGED <<source, up>>, gen'.tools = gen.tools, gen'.args = gen.args,
         gen'.flushed = gen.flushed, gen'.calls = gen.calls, Unfinished' => Unfinished, Protocol,
         NEW all, Fits(all)
  PROVE  Protocol' /\ Fits(all)'
<1>1. Protocol'
  BY DEF Protocol
<1>2. ASSUME source = "anthropic" PROVE Loose(all)'
  BY <1>2 DEF Fits, Loose
<1>3. ASSUME up.protocol = "kept" PROVE Tracks' /\ Content(all)'
  <2>1. Tracks /\ Content(all)
    BY <1>3 DEF Fits
  <2> QED
    BY <2>1, ContentStays
<1> QED
  BY <1>1, <1>2, <1>3 DEF Fits

\* The end of the upstream's body.
LEMMA EndsFollow ==
  ASSUME FlowTypes, source \in Sources, Protocol, UpstreamEnds, NEW all, Fits(all)
  PROVE  \E more : Protocol' /\ Fits(all \o more)' /\ Ready(more)
<1>1. /\ gen.state = "running" /\ gen.out = <<>> /\ gen' = Epilogue(gen) /\ UNCHANGED <<source, up>>
      /\ DOMAIN gen = GenFields
  BY DEF UpstreamEnds, Running, FlowTypes
<1> DEFINE u == IF gen.saw = Null THEN Tokens(0, 0) ELSE gen.saw
<1>2. /\ DOMAIN gen' = GenFields /\ gen'.state = "returning" /\ gen'.tools = gen.tools
      /\ gen'.args = gen.args /\ gen'.flushed = gen.flushed /\ gen'.calls = gen.calls
      /\ gen'.out = <<>> \/ (source = "google" /\ gen'.out = <<UsageChunk(u)>>)
  BY <1>1 DEF Epilogue, GenFields
<1> HIDE DEF u
<1>3. Unfinished' => Unfinished
  BY <1>1 DEF Unfinished
<1>4. SoundBlocks(<<>>) /\ FlattenSeq(<<>>) = <<>> /\ Sound(<<>>)
  BY SaysNothing, BlockAlone
<1>5. CASE gen'.out = <<>>
  <2>1. Out' = <<>>
    BY <1>4, <1>5 DEF Out
  <2>2. PICK more : more = <<>>
    OBVIOUS
  <2>3. Protocol' /\ Fits(all \o more)'
    BY <1>1, <1>2, <1>3, <2>2, FitsFollowed
  <2>4. Ready(more)
    BY <1>2, <1>4, <1>5, <2>1, <2>2 DEF Ready
  <2> QED
    BY <2>3, <2>4
<1>6. CASE source = "google" /\ gen'.out = <<UsageChunk(u)>>
  <2>1. PICK more : more = <<UsageChunk(u)>>
    OBVIOUS
  <2>2. Tells(more, <<>>, 0, "") /\ NoDone(more)
    BY <2>1, ChunksTell DEF ArgKinds
  <2>3. DoneLast(more) /\ Unfinished /\ Sound(more) /\ Out' = more
    BY <1>1, <1>6, <2>1, <2>2 DEF NoDone, DoneLast, Unfinished, Tells, Out
  <2>4. Protocol' /\ Fits(all \o more)'
    BY <1>1, <1>2, <1>3, <2>2, <2>3, FitsFollowed
  <2>5. Ready(more)
    BY <1>1, <1>2, <1>6, <2>1, <2>3 DEF Ready
  <2> QED
    BY <2>4, <2>5
<1> QED
  BY <1>2, <1>5, <1>6

\* The end of the stream.
LEMMA ReturnsFollow ==
  ASSUME FlowTypes, Protocol, Returns, NEW all, Fits(all), NEW end, end = Ending
  PROVE  Protocol' /\ Fits(all \o end)'
<1>1. /\ gen' = [gen EXCEPT !.state = "returned"] /\ UNCHANGED <<source, up>> /\ gen.state = "returning"
      /\ DOMAIN gen = GenFields
  BY DEF Returns, FlowTypes
<1>2. /\ gen'.tools = gen.tools /\ gen'.args = gen.args /\ gen'.flushed = gen.flushed
      /\ gen'.calls = gen.calls /\ gen'.state = "returned"
  BY <1>1 DEF GenFields
<1>3. Unfinished' => Unfinished
  BY <1>1, <1>2 DEF Unfinished
<1>4. CASE source = "openai"
  <2>1. end = <<>>
    BY <1>4 DEF Ending
  <2> QED
    BY <1>1, <1>2, <1>3, <2>1, FitsFollowed
<1>5. CASE source # "openai"
  <2>1. end = <<DoneChunk>>
    BY <1>5 DEF Ending
  <2>2. Tells(end, <<>>, 0, "") /\ DoneLast(end)
    BY <2>1, ChunksTell DEF ArgKinds
  <2>3. Unfinished /\ ~Unfinished'
    BY <1>1, <1>2, <1>5 DEF Unfinished
  <2> QED
    BY <1>1, <1>2, <1>3, <2>2, <2>3, FitsFollowed
<1> QED
  BY <1>4, <1>5

\* Any other step.
LEMMA OthersFollow ==
  ASSUME FlowTypes, Protocol, NEW all, Fits(all),
         \/ Yield \/ Throws \/ CancelBody \/ CancelSource \/ Pipe \/ Deliver
         \/ BodyEnds \/ HangUp \/ Replay \/ UNCHANGED streamVars
  PROVE  Protocol' /\ Fits(all)'
<1>1. UNCHANGED <<source, up>> /\ DOMAIN gen = GenFields
  BY DEF FlowTypes, Yield, Throws, CancelBody, CancelSource, Pipe, Deliver, BodyEnds, HangUp, Replay,
         streamVars
<1>2. /\ gen'.tools = gen.tools /\ gen'.args = gen.args /\ gen'.flushed = gen.flushed
      /\ gen'.calls = gen.calls /\ (gen'.state = gen.state \/ gen'.state \in {"threw", "cancelled"})
  <2>1. CASE Yield \/ Throws \/ CancelSource
    BY <1>1, <2>1 DEF Yield, Throws, CancelSource, GenFields
  <2>2. CASE CancelBody \/ Pipe \/ Deliver \/ BodyEnds \/ HangUp \/ Replay \/ UNCHANGED streamVars
    BY <2>2 DEF CancelBody, Pipe, Deliver, BodyEnds, HangUp, Replay, streamVars
  <2> QED
    BY <2>1, <2>2
<1>3. Unfinished' => Unfinished
  BY <1>1, <1>2 DEF Unfinished
<1> QED
  BY <1>1, <1>2, <1>3, FitsStays

\* What arguments come to.
Meant(A) == [k \in 1 .. Len(A) |-> IF A[k] = "" THEN "" ELSE IF A[k] = "{}" THEN "{}" ELSE "args"]

\* When all has been said, the calls shown are those of the complete answer.
LEMMA CallsMeant ==
  ASSUME Tracks, up.stage = "said"
  PROVE  Meant(ArgsOf) = [k \in DOMAIN SaidCalls(up.said) |->
                            IF SaidCalls(up.said)[k] = "bare" THEN "{}" ELSE "args"]
<1> DEFINE c == SaidCalls(up.said)
           A == ArgsOf
           said(k) == IF c[k] = "bare" THEN "{}" ELSE "args"
           meant(k) == IF A[k] = "" THEN "" ELSE IF A[k] = "{}" THEN "{}" ELSE "args"
<1>1. CASE source = "anthropic"
  <2> DEFINE n == Len(gen.tools)
  <2>1. AnthropicTracks /\ A = ToolArgs(gen.tools, gen.args, gen.flushed)
    BY <1>1 DEF Tracks, ArgsOf
  <2>2. n \in Nat /\ DOMAIN gen.tools = 1 .. n
    BY <2>1 DEF AnthropicTracks
  <2> HIDE DEF n
  <2>3. /\ c = [k \in 1 .. n |-> IF gen.tools[k] \in gen.args THEN "call" ELSE "bare"]
        /\ \A k \in 1 .. n : gen.tools[k] \in gen.args \cup gen.flushed
    BY <2>1, <2>2 DEF AnthropicTracks
  <2>4. A = [k \in 1 .. n |-> IF gen.tools[k] \in gen.args THEN "part"
                              ELSE IF gen.tools[k] \in gen.flushed THEN "{}" ELSE ""]
    BY <2>1, <2>2 DEF ToolArgs
  <2>5. Len(A) = n
    <3>1. IsSeq(A)
      <4> HIDE DEF A
      <4> QED
        BY <2>2, <2>4, MappedIsSeq
    <3>2. DOMAIN A = 1 .. n /\ DOMAIN A = 1 .. Len(A) /\ Len(A) \in Nat
      BY <2>4, <3>1, SeqIs
    <3> HIDE DEF A
    <3> QED
      BY <2>2, <3>2
  <2> HIDE DEF A, c
  <2>6. DOMAIN c = 1 .. n
    BY <2>3
  <2>7. ASSUME NEW k \in 1 .. n PROVE meant(k) = said(k)
    BY <2>3, <2>4, <2>7
  <2>8. [k \in 1 .. Len(A) |-> meant(k)] = [k \in DOMAIN c |-> said(k)]
    BY <2>5, <2>6, <2>7
  <2> QED
    BY <2>8 DEF Meant, A, c
<1>2. CASE source # "anthropic"
  <2> DEFINE n == Len(c)
  <2>1. /\ up.said \in Seq(Kinds) /\ c = [k \in 1 .. n |-> "call"] /\ A = [k \in 1 .. n |-> "whole"]
    BY <1>2 DEF Tracks, ArgsOf, WholeTracks
  <2>2. n \in Nat
    <3>1. IsSeq(c)
      BY <2>1, SaidMore DEF Kinds
    <3> HIDE DEF c
    <3> QED
      BY <3>1, SeqIs
  <2>3. Len(A) = n
    <3> DEFINE v == "whole"
    <3> HIDE DEF v
    <3>1. Len([k \in 1 .. n |-> v]) = n
      <4> HIDE DEF n
      <4> QED
        BY <2>2, SameMore
    <3> QED
      BY <2>1, <3>1 DEF v
  <2> HIDE DEF A, c, n
  <2>4. DOMAIN c = 1 .. n
    BY <2>1
  <2>5. ASSUME NEW k \in 1 .. n PROVE meant(k) = said(k)
    BY <2>1, <2>5
  <2>6. [k \in 1 .. Len(A) |-> meant(k)] = [k \in DOMAIN c |-> said(k)]
    BY <2>3, <2>4, <2>5
  <2> QED
    BY <2>6 DEF Meant, A, c
<1> QED
  BY <1>1, <1>2

\* So is the whole answer.
LEMMA AnswerMeant ==
  ASSUME Tracks, source \in Sources, up.stage = "said"
  PROVE  /\ Reference = [texts |-> Len(SaidTexts(up.said)), calls |-> Meant(ArgsOf), finish |-> Finish]
         /\ Finish # ""
<1> DEFINE C == [k \in DOMAIN SaidCalls(up.said) |->
                   IF SaidCalls(up.said)[k] = "bare" THEN "{}" ELSE "args"]
<1>1. Meant(ArgsOf) = C
  BY CallsMeant
<1>2. \A f : Answer(up.said, f) = [texts |-> Len(SaidTexts(up.said)), calls |-> C, finish |-> f]
  BY DEF Answer
<1>3. Reference = Answer(up.said, Finish)
  <2>1. CASE source = "anthropic"
    BY <2>1 DEF Reference, Finish, toChatCompletion
  <2>2. CASE source = "google"
    <3>1. CASE up.reason = "blocked"
      <4>1. up.said = <<>>
        BY <2>2, <3>1 DEF Tracks, WholeTracks
      <4>2. Finish = "content_filter" /\ Reference = Answer(<<>>, "content_filter")
        BY <2>2, <3>1 DEF Reference, Finish, completionResult
      <4> QED
        BY <4>1, <4>2
    <3>2. CASE up.reason # "blocked"
      BY <2>2, <3>2 DEF Reference, Finish, completionResult
    <3> QED
      BY <3>1, <3>2
  <2>3. CASE source = "openai"
    BY <2>3 DEF Reference, Finish
  <2> QED
    BY <2>1, <2>2, <2>3 DEF Sources
<1>4. Finish # ""
  <2>1. \A r : mapStopReason(r) # ""
    BY DEF mapStopReason
  <2>2. \A r, s : mapFinishReason(r, s) # ""
    BY DEF mapFinishReason
  <2>3. Finish \in {mapStopReason(up.reason), "content_filter", "stop",
                    mapFinishReason(up.reason, SaidCalls(up.said) # <<>>)}
    BY DEF Finish, Sources
  <2> QED
    BY <2>1, <2>2, <2>3
<1> HIDE DEF C
<1> QED
  BY <1>1, <1>2, <1>3, <1>4

\* Chunks that show all that was said put the complete answer together.
LEMMA ShownIsReference ==
  ASSUME Tracks, source \in Sources, up.stage = "said", NEW all, Content(all)
  PROVE  Assembled(all) = Reference /\ Assembled(redacted(all)) = Reference
<1> DEFINE A == ArgsOf
           n == Len(SaidTexts(up.said))
           f == Finish
<1>1. Shown(all, A, n, f) /\ f # ""
  BY AnswerMeant DEF Content
<1>2. Reference = [texts |-> n, calls |-> Meant(A), finish |-> f]
  BY AnswerMeant
<1> HIDE DEF A, n, f
<1>3. Sound(all) /\ Describes(Deltas(all), A) /\ Texts(all) = n /\ FinishOf(all) = f
  BY <1>1 DEF Shown
<1>4. /\ Deltas(redacted(all)) = Deltas(all) /\ Texts(redacted(all)) = Texts(all)
      /\ FinishOf(redacted(all)) = FinishOf(all)
  BY <1>3, RedactedSays
<1>5. ASSUME NEW got, Describes(Deltas(got), A), Texts(got) = n, FinishOf(got) = f
      PROVE  Assembled(got) = Reference
  <2>1. Assembled(got) = [texts |-> Texts(got), calls |-> Meant(A), finish |-> FinishOf(got)]
    BY <1>5, AssembledIs DEF Meant
  <2> QED
    BY <1>2, <1>5, <2>1
<1> QED
  BY <1>3, <1>4, <1>5

\* No usage passes the redaction, and what is not [DONE] does not become it.
LEMMA RedactedPublic ==
  ASSUME NEW s, IsSeq(s)
  PROVE  /\ IsSeq(redacted(s)) /\ \A k \in DOMAIN redacted(s) : redacted(s)[k].usage = Null
         /\ NoDone(s) => NoDone(redacted(s))
<1> DEFINE I == {i \in DOMAIN s : s[i].choices \/ s[i].done}
           p == Kept(s, I)
           n == Cardinality(I)
           r == redacted(s)
<1>1. DOMAIN s = 1 .. Len(s) /\ Len(s) \in Nat
  BY SeqIs
<1>2. I \in SUBSET (1 .. Len(s))
  BY <1>1
<1>3. r = [k \in 1 .. n |-> redactChatCompletionChunk(p[k])] /\ p = [k \in 1 .. n |-> s[Place(I, k)]]
  BY DEF redacted, Kept
<1> HIDE DEF I, p, r
<1>4. n \in Nat
  BY <1>1, <1>2, PlacesCounted
<1>5. ASSUME NEW k \in 1 .. n PROVE Place(I, k) \in DOMAIN s
  BY <1>1, <1>2, <1>5, PlaceOf
<1> HIDE DEF n
<1>6. DOMAIN r = 1 .. n /\ \A k \in 1 .. n : /\ r[k] = redactChatCompletionChunk(p[k])
                                              /\ p[k] = s[Place(I, k)]
  BY <1>3
<1>7. IsSeq(r)
  <2>1. r = [k \in 1 .. n |-> r[k]]
    BY <1>3
  <2> QED
    BY <1>4, <2>1, MappedIsSeq
<1>8. ASSUME NEW k \in 1 .. n PROVE r[k].usage = Null /\ r[k].done = p[k].done
  BY <1>6 DEF redactChatCompletionChunk
<1>9. ASSUME NoDone(s) PROVE NoDone(r)
  BY <1>5, <1>6, <1>8, <1>9 DEF NoDone
<1> QED
  BY <1>6, <1>7, <1>8, <1>9 DEF r

\* [DONE] stays last.
LEMMA RedactedDoneLast ==
  ASSUME NEW s, IsSeq(s), DoneLast(s) PROVE DoneLast(redacted(s))
<1>1. Len(s) \in Nat /\ DOMAIN s = 1 .. Len(s) /\ s = [i \in 1 .. Len(s) |-> s[i]]
  BY SeqIs
<1>2. CASE NoDone(s)
  <2>1. NoDone(redacted(s))
    BY <1>2, RedactedPublic
  <2> QED
    BY <2>1 DEF NoDone, DoneLast
<1>3. CASE ~NoDone(s)
  <2>1. PICK i \in DOMAIN s : s[i].done
    BY <1>3 DEF NoDone
  <2>2. Len(s) > 0 /\ i = Len(s)
    BY <1>1, <2>1 DEF DoneLast
  <2> DEFINE m == Len(s) - 1
             a == [k \in 1 .. m |-> s[k]]
             c == s[Len(s)]
             b == <<c>>
  <2>3. m \in Nat /\ m + 1 = Len(s)
    BY <1>1, <2>2
  <2> HIDE DEF m
  <2>4. IsSeq(a) /\ DOMAIN a = 1 .. m /\ \A k \in 1 .. m : a[k] = s[k]
    BY <2>3, MappedIsSeq
  <2>5. Len(a) = m
    <3>1. DOMAIN a = 1 .. Len(a) /\ Len(a) \in Nat
      BY <2>4, SeqIs
    <3> HIDE DEF a
    <3> QED
      BY <2>3, <2>4, <3>1
  <2>6. IsSeq(b) /\ Len(b) = 1 /\ b[1] = c /\ DOMAIN b = {1}
    BY SingleIs
  <2> HIDE DEF a, b
  <2>7. s = a \o b
    <3> DEFINE t == a \o b
    <3>6. Joined(a, b, t)
      BY <2>4, <2>6, ConcatIs
    <3> HIDE DEF t
    <3>7. /\ IsSeq(t) /\ DOMAIN t = 1 .. Len(a) + Len(b) /\ Len(t) = Len(a) + Len(b)
          /\ \A k \in 1 .. Len(a) : t[k] = a[k]
          /\ \A k \in 1 .. Len(b) : t[Len(a) + k] = b[k]
      BY <3>6 DEF Joined
    <3>1. /\ IsSeq(t) /\ DOMAIN t = 1 .. m + 1 /\ Len(t) = m + 1
          /\ \A k \in 1 .. m : t[k] = a[k]
          /\ t[m + 1] = b[1]
      <4>1. 1 \in 1 .. Len(b)
        BY <2>6
      <4> QED
        BY <2>5, <2>6, <3>7, <4>1
    <3>2. t = [k \in 1 .. Len(t) |-> t[k]]
      BY <3>1, SeqIs
    <3>3. t[m + 1] = c
      BY <2>6, <3>1
    <3>4. \A k \in 1 .. m + 1 : t[k] = s[k]
      BY <2>3, <2>4, <3>1, <3>3 DEF c
    <3>5. t = s
      BY <1>1, <2>3, <3>1, <3>2, <3>4
    <3> QED
      BY <3>5 DEF t
  <2>8. NoDone(a)
    <3>1. ASSUME NEW k \in 1 .. m PROVE ~s[k].done
      BY <1>1, <2>3, <3>1 DEF DoneLast
    <3> QED
      BY <2>4, <3>1 DEF NoDone
  <2>9. redacted(s) = redacted(a) \o redacted(b)
    BY <2>4, <2>6, <2>7, RedactedConcat
  <2>10. NoDone(redacted(a)) /\ IsSeq(redacted(a))
    BY <2>4, <2>8, RedactedPublic
  <2>11. DoneLast(redacted(b)) /\ IsSeq(redacted(b))
    <3>1. redacted(b) = IF c.choices \/ c.done THEN <<redactChatCompletionChunk(c)>> ELSE <<>>
      BY RedactedOne DEF b
    <3>2. \A x : DoneLast(<<x>>) /\ IsSeq(<<x>>)
      BY SingleIs DEF DoneLast
    <3>3. DoneLast(<<>>) /\ IsSeq(<<>>)
      BY DEF DoneLast, IsSeq, ToSet
    <3> QED
      BY <3>1, <3>2, <3>3
  <2> QED
    BY <2>9, <2>10, <2>11, DoneConcat
<1> QED
  BY <1>2, <1>3

-----------------------------------------------------------------------------
(* Every stream, from its first chunk to its replays                         *)

\* What the generators are doing, what the chunks that were made show, and where
\* these are now.
StreamInv == UsageInv /\ CaptureInv /\ Protocol /\ \E all : Flow(all) /\ Fits(all)

\* It is inductive.
LEMMA InvStarts == StreamInit => StreamInv
<1> SUFFICES ASSUME StreamInit PROVE StreamInv
  OBVIOUS
<1>1. CaptureInv
  BY StreamsAssumption DEF StreamInit, CaptureInv, IsSeq, ToSet
<1>2. PICK all : all = <<>>
  OBVIOUS
<1>3. Flow(all) /\ Fits(all) /\ Protocol
  BY <1>2, FlowStarts, FitsStarts
<1> QED
  BY <1>1, <1>3, UsageStarts DEF StreamInv

\* No step breaks it.
LEMMA StreamKept == ASSUME StreamInv, [StreamNext]_streamVars PROVE StreamInv'
<1>1. UsageInv /\ CaptureInv /\ Protocol
  BY DEF StreamInv
<1>2. UsageInv' /\ CaptureInv'
  BY <1>1, UsageKept, CaptureKept
<1>3. PICK all : Flow(all) /\ Fits(all)
  BY DEF StreamInv
<1>4. FlowTypes /\ Seen /\ source \in Sources
  BY <1>1, <1>3 DEF Flow, UsageInv, Seen
<1>5. ASSUME NEW more, Protocol', Fits(all \o more)', Ready(more), UpstreamSays \/ UpstreamEnds
      PROVE  StreamInv'
  <2>1. /\ gen.state = "running" /\ gen.out = <<>> /\ client.state = "reading"
        /\ UNCHANGED <<source, serve, red, copy, client>>
    BY <1>5 DEF UpstreamSays, UpstreamEnds, Running, flow
  <2>2. Flow(all \o more)'
    BY <1>3, <1>5, <2>1, FlowGrows DEF Ready
  <2> DEFINE longer == all \o more
  <2>3. Flow(longer)' /\ Fits(longer)'
    BY <1>5, <2>2
  <2> HIDE DEF longer
  <2>4. \E a : Flow(a)' /\ Fits(a)'
    BY <2>3
  <2> QED
    BY <1>2, <1>5, <2>4 DEF StreamInv
<1>6. ASSUME Protocol', Flow(all)', Fits(all)' PROVE StreamInv'
  <2>1. \E a : Flow(a)' /\ Fits(a)'
    BY <1>6
  <2> QED
    BY <1>2, <1>6, <2>1 DEF StreamInv
<1>7. CASE UpstreamSays
  <2>1. PICK more : Protocol' /\ Fits(all \o more)' /\ Ready(more)
    BY <1>1, <1>3, <1>4, <1>7, SaysFits
  <2> QED
    BY <1>5, <1>7, <2>1
<1>8. CASE UpstreamEnds
  <2>1. PICK more : Protocol' /\ Fits(all \o more)' /\ Ready(more)
    BY <1>1, <1>3, <1>4, <1>8, EndsFollow
  <2> QED
    BY <1>5, <1>8, <2>1
<1>9. CASE Returns
  <2>1. PICK end : end = Ending
    OBVIOUS
  <2>2. Flow(all \o end)'
    BY <1>1, <1>3, <1>9, <2>1, FlowReturns
  <2>3. Protocol' /\ Fits(all \o end)'
    BY <1>1, <1>3, <1>4, <1>9, <2>1, ReturnsFollow
  <2>4. \E a : Flow(a)' /\ Fits(a)'
    BY <2>2, <2>3
  <2> QED
    BY <1>2, <2>3, <2>4 DEF StreamInv
<1>10. CASE \/ Yield \/ Throws \/ CancelBody \/ CancelSource \/ Pipe \/ Deliver
            \/ BodyEnds \/ HangUp \/ Replay \/ UNCHANGED streamVars
  <2>1. Flow(all)'
    BY <1>1, <1>3, <1>10, FlowYields, FlowBreaks, FlowPipes, FlowDelivers, FlowStops, FlowReplays
  <2>2. Protocol' /\ Fits(all)'
    BY <1>1, <1>3, <1>4, <1>10, OthersFollow
  <2> QED
    BY <1>6, <2>1, <2>2
<1> QED
  BY <1>7, <1>8, <1>9, <1>10 DEF StreamNext

\* Whatever a client has got, the chunks of it are well formed.
LEMMA GotWellFormed == ASSUME StreamInv PROVE StreamWellFormed
<1>1. PICK all : Flow(all) /\ Fits(all)
  BY DEF StreamInv
<1>2. FlowTypes
  BY <1>1 DEF Flow
<1>3. PICK seen, rest : Under(all, seen, rest)
  BY <1>1 DEF Flow
<1> DEFINE r == FlattenSeq(red)
           s == FlattenSeq(serve)
           e == r \o (s \o rest)
           got == client.got
<1>4. /\ Sound(seen) /\ Sound(rest) /\ got = redacted(seen) /\ all = seen \o e
  BY <1>3 DEF Under, Chained
<1>5. Sound(r) /\ Sound(s)
  BY <1>2, FlowSound
<1>6. Sound(e)
  <2> HIDE DEF r, s
  <2>1. Sound(s \o rest)
    BY <1>4, <1>5, SaysConcat
  <2> DEFINE u == s \o rest
  <2> HIDE DEF u
  <2>2. Sound(r \o u)
    BY <1>5, <2>1, SaysConcat DEF u
  <2> QED
    BY <2>2 DEF u
<1> HIDE DEF r, s, e, got
<1>7. /\ Deltas(seen) \in Seq(Pieces) /\ Deltas(e) \in Seq(Pieces)
      /\ Deltas(all) = Deltas(seen) \o Deltas(e)
  BY <1>4, <1>6, SaysConcat
<1>8. /\ Numbered(Deltas(all)) /\ Begun(Deltas(all)) /\ DoneLast(all)
      /\ up.protocol = "kept" => Alone(Deltas(all))
  <2>1. CASE up.protocol = "kept"
    <3>1. Describes(Deltas(all), ArgsOf) /\ DoneLast(all)
      BY <1>1, <2>1 DEF Fits, Content, Shown
    <3> QED
      BY <3>1 DEF Describes
  <2>2. CASE up.protocol # "kept"
    <3>1. Loose(all)
      BY <1>1, <2>2 DEF StreamInv, Protocol, Fits
    <3> QED
      BY <2>2, <3>1 DEF Loose, Opens
  <2> QED
    BY <2>1, <2>2
<1>10. /\ Numbered(Deltas(seen)) /\ Begun(Deltas(seen))
       /\ up.protocol = "kept" => Alone(Deltas(seen))
  <2> DEFINE d == Deltas(seen)
             d2 == Deltas(e)
  <2>1. /\ d \in Seq(Pieces) /\ d2 \in Seq(Pieces) /\ Numbered(d \o d2) /\ Begun(d \o d2)
        /\ up.protocol = "kept" => Alone(d \o d2)
    BY <1>7, <1>8
  <2> HIDE DEF d, d2
  <2>2. Numbered(d) /\ Begun(d) /\ (up.protocol = "kept" => Alone(d))
    BY <2>1, FormedFirst
  <2> QED
    BY <2>2 DEF d
<1>11. Deltas(got) = Deltas(seen)
  BY <1>4, RedactedSays
<1>12. IsSeq(seen) /\ IsSeq(e)
  BY <1>4, <1>6 DEF Sound
<1>13. DoneLast(seen)
  BY <1>4, <1>8, <1>12, DoneConcat
<1>14. DoneLast(got) /\ \A k \in DOMAIN got : got[k].usage = Null
  BY <1>4, <1>12, <1>13, RedactedDoneLast, RedactedPublic
<1>15. Numbered(Deltas(got)) /\ Begun(Deltas(got)) /\ (up.protocol = "kept" => Alone(Deltas(got)))
  BY <1>10, <1>11
<1> QED
  BY <1>14, <1>15 DEF StreamWellFormed, Numbered, Begun, Alone, DoneLast, got

\* A client that is done has got all the chunks there are, redacted.
LEMMA DoneHasAll ==
  ASSUME NEW all, Flow(all), client.state = "done"
  PROVE  Sound(all) /\ client.got = redacted(all) /\ Out = <<>>
<1>1. /\ FlowTypes /\ serve = <<>> /\ red = <<>> /\ gen.state = "returned" /\ gen.out = <<>>
  BY DEF Flow, FlowTypes
<1>2. PICK seen, rest : Under(all, seen, rest)
  BY DEF Flow
<1>3. FlattenSeq(<<>>) = <<>> /\ Sound(<<>>)
  BY SaysNothing, BlockAlone
<1>4. Out = <<>> /\ Live
  BY <1>1, <1>3 DEF Out, Live
<1>5. Sound(seen) /\ client.got = redacted(seen) /\ all = seen \o (<<>> \o (<<>> \o <<>>))
  BY <1>1, <1>2, <1>3, <1>4 DEF Under, Chained
<1>6. seen \o (<<>> \o (<<>> \o <<>>)) = seen
  <2>1. <<>> \o (<<>> \o <<>>) = <<>>
    BY NoneNone
  <2>2. seen \o <<>> = seen
    BY <1>5, SoundAssociative
  <2> QED
    BY <2>1, <2>2
<1> QED
  BY <1>4, <1>5, <1>6

\* A complete stream is the complete answer.
LEMMA DoneAgrees == ASSUME StreamInv PROVE StreamAgrees
<1> SUFFICES ASSUME Complete, up.protocol = "kept" PROVE Assembled(client.got) = Reference
  BY DEF StreamAgrees
<1>1. PICK all : Flow(all) /\ Fits(all)
  BY DEF StreamInv
<1>2. client.got = redacted(all)
  BY <1>1, DoneHasAll DEF Complete
<1>3. Tracks /\ Content(all) /\ source \in Sources /\ up.stage = "said"
  BY <1>1 DEF Fits, StreamInv, UsageInv, Seen, Complete
<1> QED
  BY <1>2, <1>3, ShownIsReference

\* What is stored is all of it.
LEMMA StoredAgrees == ASSUME StreamInv PROVE StoredWhole
<1>1. CaptureInv /\ UsageInv /\ source \in Sources
  BY DEF StreamInv, UsageInv, Seen
<1>2. StoredEntire
  BY <1>1 DEF CaptureInv, UsageInv, Settled, StoredEntire
<1>3. PICK all : Flow(all) /\ Fits(all)
  BY DEF StreamInv
<1>4. ASSUME stored # Null PROVE stored.chunks = all
  <2>1. /\ copy.state = "whole" /\ stored.chunks = FlattenSeq(copy.blocks) /\ gen.state = "returned"
    BY <1>1, <1>4 DEF CaptureInv
  <2>2. SoundBlocks(copy.blocks) /\ all = FlattenSeq(copy.blocks) \o Out
    BY <1>3, <2>1 DEF Flow, Copied
  <2>3. Out = <<>>
    <3>1. gen.out = <<>>
      BY <1>3, <2>1 DEF Flow, FlowTypes
    <3>2. FlattenSeq(<<>>) = <<>>
      BY SaysNothing, BlockAlone
    <3> QED
      BY <3>1, <3>2 DEF Out
  <2>4. Sound(FlattenSeq(copy.blocks))
    BY <2>2, BlocksConcat
  <2>5. FlattenSeq(copy.blocks) \o <<>> = FlattenSeq(copy.blocks)
    BY <2>4, SoundAssociative
  <2> QED
    BY <2>1, <2>2, <2>3, <2>5
<1>5. ASSUME stored # Null, up.stage = "said", up.protocol = "kept"
      PROVE  Assembled(stored.chunks) = Reference
  <2>1. Tracks /\ Content(all)
    BY <1>3, <1>5 DEF Fits
  <2> QED
    BY <1>1, <1>4, <1>5, <2>1, ShownIsReference
<1>6. ASSUME stored # Null, client.state = "done" PROVE client.got = redacted(stored.chunks)
  BY <1>3, <1>4, <1>6, DoneHasAll
<1> QED
  BY <1>2, <1>5, <1>6 DEF StoredWhole

\* StreamInv holds of every stream.
LEMMA StreamsKept == ProviderSpec => []StreamInv
<1>1. ProviderInit => StreamInv
  BY InvStarts DEF ProviderInit, Calling, Consuming
<1>2. ProviderNext => [StreamNext]_streamVars
  BY DEF ProviderNext
<1>3. StreamInv /\ [ProviderNext]_providerVars => StreamInv'
  BY <1>2, StreamKept DEF providerVars
<1> QED
  BY <1>1, <1>3, PTL DEF ProviderSpec

\* StreamWellFormed (providers/*.ts, server/response.ts): whatever a client has
\* got of a stream at any moment, live or replayed, tool calls are numbered in the
\* order they begin, begun before they get arguments, and nothing follows [DONE],
\* strays of an Anthropic upstream included; a call told to have no arguments gets
\* none as long as the upstream keeps to its protocol.
THEOREM StreamsAreWellFormed == ProviderSpec => []StreamWellFormed
<1>1. StreamInv => StreamWellFormed
  BY GotWellFormed
<1> QED
  BY <1>1, StreamsKept, PTL

\* StreamAgrees (providers/*.ts, server/response.ts): a stream that ended
\* properly, its upstream keeping to the protocol, adds up to the answer that
\* would have been made without streaming.
THEOREM StreamsAgree == ProviderSpec => []StreamAgrees
<1>1. StreamInv => StreamAgrees
  BY DoneAgrees
<1> QED
  BY <1>1, StreamsKept, PTL

\* StoredWhole (server/routes/chat.ts, server/pipeline.ts): what is stored of a
\* stream is everything its generator yielded to its return, which is what every
\* client that read the stream or a replay to its end has got; of a stream that
\* ended properly it is the complete answer.
THEOREM StoredIsWhole == ProviderSpec => []StoredWhole
<1>1. StreamInv => StoredWhole
  BY StoredAgrees
<1> QED
  BY <1>1, StreamsKept, PTL

=============================================================================
