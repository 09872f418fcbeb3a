----------------------------- MODULE NamingProofs ------------------------------
(***************************************************************************)
(* Proofs about Naming, for names, versions and arguments of any length     *)
(* and any number of versions.                                             *)
(*                                                                         *)
(* Paths and arguments are read back by where their first separator is;    *)
(* valid names have none, so a path stands for one reference, and an       *)
(* argument for at most one.                                               *)
(***************************************************************************)
EXTENDS Naming, FiniteSetTheorems, SequenceTheorems, TLAPS

\* A name or a version that validateReference accepts, of any length.
Plain(text) ==
  /\ text \in Seq(Piece)
  /\ Len(text) >= 1
  /\ text[1] = "a"
  /\ ~Has(text, "/") /\ ~Has(text, "@")

\* The segment pattern has no separator in it.
LEMMA SegmentIsPlain ==
  ASSUME NEW text \in Seq(Piece), Segment(text) PROVE Plain(text)
  BY DEF Segment, Plain

-------------------------------------------------------------------------------
(* Paths.                                                                  *)

\* What two texts have that are joined.
LEMMA Joined ==
  ASSUME NEW s \in Seq(Piece), NEW t \in Seq(Piece)
  PROVE  /\ s \o t \in Seq(Piece)
         /\ Len(s) \in Nat /\ Len(t) \in Nat
         /\ Len(s \o t) = Len(s) + Len(t)
         /\ \A i \in 1..Len(s) : (s \o t)[i] = s[i]
         /\ \A i \in 1..Len(t) : (s \o t)[Len(s) + i] = t[i]
<1>1. Len(s) \in Nat /\ Len(t) \in Nat
  BY LenProperties
<1>2. /\ s \o t \in Seq(Piece)
      /\ Len(s \o t) = Len(s) + Len(t)
      /\ \A i \in 1..(Len(s) + Len(t)) :
           (s \o t)[i] = IF i <= Len(s) THEN s[i] ELSE t[i - Len(s)]
  BY ConcatProperties
<1> QED
  BY <1>1, <1>2

\* What a path has at each of its places.
LEMMA PathShape ==
  ASSUME NEW n \in Seq(Piece), NEW v \in Seq(Piece)
  PROVE  /\ ManifestPath(n, v) \in Seq(Piece)
         /\ Len(ManifestPath(n, v)) = Len(n) + Len(v) + 3
         /\ \A i \in 1..Len(n) : ManifestPath(n, v)[i + 1] = n[i]
         /\ ManifestPath(n, v)[Len(n) + 2] = "/"
         /\ \A i \in 1..Len(v) : ManifestPath(n, v)[Len(n) + 2 + i] = v[i]
<1>1. PICK slash : slash = <<"/">>
  OBVIOUS
<1>2. PICK json : json = <<".json">>
  OBVIOUS
<1>3. slash \in Seq(Piece) /\ Len(slash) = 1 /\ slash[1] = "/"
  BY <1>1 DEF Piece
<1>4. json \in Seq(Piece) /\ Len(json) = 1
  BY <1>2 DEF Piece
<1>5. PICK p1 : p1 = slash \o n
  OBVIOUS
<1>6. PICK p2 : p2 = p1 \o slash
  OBVIOUS
<1>7. PICK p3 : p3 = p2 \o v
  OBVIOUS
<1>8. PICK p4 : p4 = p3 \o json
  OBVIOUS
<1>n. Len(n) \in Nat /\ Len(v) \in Nat
  BY LenProperties
<1>9. /\ p1 \in Seq(Piece)
      /\ Len(p1) = Len(slash) + Len(n)
      /\ \A i \in 1..Len(n) : p1[Len(slash) + i] = n[i]
  BY <1>3, <1>5, Joined
<1>10. /\ p2 \in Seq(Piece)
       /\ Len(p2) = Len(p1) + Len(slash)
       /\ \A i \in 1..Len(p1) : p2[i] = p1[i]
       /\ \A i \in 1..Len(slash) : p2[Len(p1) + i] = slash[i]
  BY <1>3, <1>6, <1>9, Joined
<1>11. /\ p3 \in Seq(Piece)
       /\ Len(p3) = Len(p2) + Len(v)
       /\ \A i \in 1..Len(p2) : p3[i] = p2[i]
       /\ \A i \in 1..Len(v) : p3[Len(p2) + i] = v[i]
  BY <1>7, <1>10, Joined
<1>12. /\ p4 \in Seq(Piece)
       /\ Len(p4) = Len(p3) + Len(json)
       /\ \A i \in 1..Len(p3) : p4[i] = p3[i]
  BY <1>4, <1>8, <1>11, Joined
<1>13. ManifestPath(n, v) = p4
  BY <1>1, <1>2, <1>5, <1>6, <1>7, <1>8 DEF ManifestPath
<1>14. Len(p1) = Len(n) + 1 /\ Len(p2) = Len(n) + 2 /\ Len(p3) = Len(n) + 2 + Len(v)
  BY <1>3, <1>n, <1>9, <1>10, <1>11
<1>15. ASSUME NEW i \in 1..Len(n) PROVE p4[i + 1] = n[i]
  <2>1. i + 1 \in 1..Len(p1) /\ i + 1 \in 1..Len(p2) /\ i + 1 \in 1..Len(p3)
    BY <1>n, <1>14
  <2>2. p4[i + 1] = p1[i + 1]
    BY <1>10, <1>11, <1>12, <2>1
  <2> QED
    BY <1>3, <1>9, <2>2
<1>16. p4[Len(n) + 2] = "/"
  <2>1. Len(n) + 2 \in 1..Len(p2) /\ Len(n) + 2 \in 1..Len(p3)
    BY <1>n, <1>14
  <2>2. p4[Len(n) + 2] = p2[Len(n) + 2]
    BY <1>11, <1>12, <2>1
  <2>3. p2[Len(p1) + 1] = "/"
    BY <1>3, <1>10
  <2> QED
    BY <1>n, <1>14, <2>2, <2>3
<1>17. ASSUME NEW i \in 1..Len(v) PROVE p4[Len(n) + 2 + i] = v[i]
  <2>1. Len(n) + 2 + i \in 1..Len(p3)
    BY <1>n, <1>14
  <2> QED
    BY <1>11, <1>12, <1>14, <2>1
<1>18. Len(p4) = Len(n) + Len(v) + 3
  BY <1>4, <1>n, <1>12, <1>14
<1> QED
  BY <1>12, <1>13, <1>15, <1>16, <1>17, <1>18

\* A path ends its name at its first slash: it is the path of one reference.
LEMMA PathInjective ==
  ASSUME NEW n \in Seq(Piece), NEW v \in Seq(Piece), ~Has(n, "/"),
         NEW m \in Seq(Piece), NEW w \in Seq(Piece), ~Has(m, "/"),
         ManifestPath(n, v) = ManifestPath(m, w)
  PROVE  n = m /\ v = w
<1> DEFINE p == ManifestPath(n, v)
           q == ManifestPath(m, w)
<1>1. /\ Len(n) \in Nat /\ Len(v) \in Nat /\ Len(m) \in Nat /\ Len(w) \in Nat
      /\ DOMAIN n = 1..Len(n) /\ DOMAIN m = 1..Len(m)
  BY LenProperties
<1>2. /\ Len(p) = Len(n) + Len(v) + 3
      /\ \A i \in 1..Len(n) : p[i + 1] = n[i]
      /\ p[Len(n) + 2] = "/"
      /\ \A i \in 1..Len(v) : p[Len(n) + 2 + i] = v[i]
  BY PathShape
<1>3. /\ Len(q) = Len(m) + Len(w) + 3
      /\ \A i \in 1..Len(m) : q[i + 1] = m[i]
      /\ q[Len(m) + 2] = "/"
      /\ \A i \in 1..Len(w) : q[Len(m) + 2 + i] = w[i]
  BY PathShape
<1>e. p = q
  OBVIOUS
<1> HIDE DEF p, q
<1>4. Len(m) <= Len(n)
  <2> SUFFICES ASSUME ~(Len(m) <= Len(n)) PROVE FALSE
    OBVIOUS
  <2>1. Len(n) + 1 \in 1..Len(m)
    BY <1>1
  <2>2. m[Len(n) + 1] = "/"
    BY <1>1, <1>2, <1>3, <1>e, <2>1
  <2> QED
    BY <1>1, <2>1, <2>2 DEF Has
<1>5. Len(n) <= Len(m)
  <2> SUFFICES ASSUME ~(Len(n) <= Len(m)) PROVE FALSE
    OBVIOUS
  <2>1. Len(m) + 1 \in 1..Len(n)
    BY <1>1
  <2>2. n[Len(m) + 1] = "/"
    BY <1>1, <1>2, <1>3, <1>e, <2>1
  <2> QED
    BY <1>1, <2>1, <2>2 DEF Has
<1>6. Len(n) = Len(m) /\ Len(v) = Len(w)
  <2>1. \A x, y \in Nat : x <= y /\ y <= x => x = y
    OBVIOUS
  <2>2. Len(n) = Len(m)
    BY <1>1, <1>4, <1>5, <2>1, Zenon
  <2>3. Len(n) + Len(v) + 3 = Len(m) + Len(w) + 3
    BY <1>2, <1>3, <1>e
  <2> QED
    BY <1>1, <2>2, <2>3
<1>7. n = m
  BY <1>2, <1>3, <1>e, <1>6, SeqEqual
<1>8. v = w
  BY <1>2, <1>3, <1>e, <1>6, SeqEqual
<1> QED
  BY <1>7, <1>8

\* A part of a text is a text.
LEMMA PartOfText ==
  ASSUME NEW t \in Seq(Piece), NEW i \in 1..(Len(t) + 1), NEW j \in 0..Len(t)
  PROVE  /\ SubSeq(t, i, j) \in Seq(Piece)
         /\ Len(SubSeq(t, i, j)) = IF i <= j THEN j - i + 1 ELSE 0
         /\ \A k \in 1..(j - i + 1) : SubSeq(t, i, j)[k] = t[i + k - 1]
<1>1. Len(t) \in Nat /\ \A k \in 1..Len(t) : t[k] \in Piece
  BY LenProperties, ElementOfSeq
<1>2. i \in Int /\ j \in Int /\ \A k \in i..j : t[k] \in Piece
  BY <1>1
<1> QED
  BY <1>2, SubSeqProperties

\* The pattern of listManifests takes the path of a reference back to it, and to
\* nothing else.
LEMMA PathPartsOfPath ==
  ASSUME NEW n, NEW v, Plain(n), Plain(v)
  PROVE  PathParts(ManifestPath(n, v)) = {[name |-> n, version |-> v]}
<1> DEFINE p == ManifestPath(n, v)
           part(k) == [name |-> SubSeq(p, 2, k - 1),
                       version |-> SubSeq(p, k + 1, Len(p) - 1)]
<1>1. /\ n \in Seq(Piece) /\ v \in Seq(Piece)
      /\ Len(n) \in Nat /\ Len(v) \in Nat /\ Len(n) >= 1 /\ Len(v) >= 1
  BY LenProperties DEF Plain
<1>2. /\ p \in Seq(Piece)
      /\ Len(p) = Len(n) + Len(v) + 3
      /\ \A i \in 1..Len(n) : p[i + 1] = n[i]
      /\ \A i \in 1..Len(v) : p[Len(n) + 2 + i] = v[i]
  BY <1>1, PathShape
<1>3. n # << >> /\ v # << >> /\ ~Has(n, "/") /\ ~Has(v, "/")
  BY <1>1 DEF Plain
<1>4. \A k \in 3..Len(p) : part(k).name \in Seq(Piece) /\ part(k).version \in Seq(Piece)
  BY <1>1, <1>2, PartOfText
<1>5. PICK k \in 3..Len(p) : k = Len(n) + 2
  BY <1>1, <1>2
<1>6. part(k) = [name |-> n, version |-> v]
  <2>1. SubSeq(p, 2, k - 1) = n
    <3>1. PICK s : s = SubSeq(p, 2, k - 1)
      OBVIOUS
    <3>2. /\ s \in Seq(Piece) /\ Len(s) = Len(n)
          /\ \A i \in 1..Len(n) : s[i] = p[i + 1]
      BY <1>1, <1>2, <1>5, <3>1, PartOfText
    <3>3. s = n
      BY <1>1, <1>2, <3>2, SeqEqual
    <3> QED
      BY <3>1, <3>3
  <2>2. SubSeq(p, k + 1, Len(p) - 1) = v
    <3>1. PICK s : s = SubSeq(p, k + 1, Len(p) - 1)
      OBVIOUS
    <3>2. /\ s \in Seq(Piece) /\ Len(s) = Len(v)
          /\ \A i \in 1..Len(v) : s[i] = p[Len(n) + 2 + i]
      BY <1>1, <1>2, <1>5, <3>1, PartOfText
    <3>3. s = v
      BY <1>1, <1>2, <3>2, SeqEqual
    <3> QED
      BY <3>1, <3>3
  <2> QED
    BY <2>1, <2>2
<1>7. [name |-> n, version |-> v] \in PathParts(p)
  BY <1>3, <1>6 DEF PathParts
<1>8. ASSUME NEW r \in PathParts(p) PROVE r = [name |-> n, version |-> v]
  <2>1. PICK i \in 3..Len(p) : r = part(i)
    BY DEF PathParts
  <2>2. r.name \in Seq(Piece) /\ r.version \in Seq(Piece)
    BY <1>4, <2>1
  <2>3. ~Has(r.name, "/") /\ p = ManifestPath(r.name, r.version)
    BY DEF PathParts
  <2>4. r.name = n /\ r.version = v
    BY <1>1, <1>3, <2>2, <2>3, PathInjective
  <2> QED
    BY <2>1, <2>4
<1> QED
  BY <1>7, <1>8

-------------------------------------------------------------------------------
(* Arguments.                                                              *)

\* What is on both sides of an "@" makes the argument.
LEMMA PartsOfArgument ==
  ASSUME NEW t \in Seq(Piece), NEW i \in 1..Len(t), t[i] = "@"
  PROVE  /\ SubSeq(t, 1, i - 1) \in Seq(Piece)
         /\ SubSeq(t, i + 1, Len(t)) \in Seq(Piece)
         /\ SubSeq(t, 1, i - 1) \o <<"@">> \o SubSeq(t, i + 1, Len(t)) = t
<1>1. Len(t) \in Nat
  BY LenProperties
<1>2. PICK n : n = SubSeq(t, 1, i - 1)
  OBVIOUS
<1>3. PICK v : v = SubSeq(t, i + 1, Len(t))
  OBVIOUS
<1>4. PICK at : at = <<"@">>
  OBVIOUS
<1>5. /\ n \in Seq(Piece) /\ Len(n) = i - 1
      /\ \A k \in 1..(i - 1) : n[k] = t[k]
  <2>1. /\ SubSeq(t, 1, i - 1) \in Seq(Piece)
        /\ Len(SubSeq(t, 1, i - 1)) = IF 1 <= i - 1 THEN i - 1 - 1 + 1 ELSE 0
        /\ \A k \in 1..(i - 1 - 1 + 1) : SubSeq(t, 1, i - 1)[k] = t[1 + k - 1]
    BY <1>1, PartOfText
  <2> QED
    BY <1>2, <2>1
<1>6. /\ v \in Seq(Piece) /\ Len(v) = Len(t) - i
      /\ \A k \in 1..(Len(t) - i) : v[k] = t[i + k]
  <2>1. i + 1 \in 1..(Len(t) + 1) /\ Len(t) \in 0..Len(t)
    BY <1>1
  <2>2. /\ SubSeq(t, i + 1, Len(t)) \in Seq(Piece)
        /\ Len(SubSeq(t, i + 1, Len(t))) =
             IF i + 1 <= Len(t) THEN Len(t) - (i + 1) + 1 ELSE 0
        /\ \A k \in 1..(Len(t) - (i + 1) + 1) :
             SubSeq(t, i + 1, Len(t))[k] = t[i + 1 + k - 1]
    BY <2>1, PartOfText
  <2> QED
    BY <1>1, <1>3, <2>2
<1>7. at \in Seq(Piece) /\ Len(at) = 1 /\ at[1] = "@"
  BY <1>4 DEF Piece
<1>8. PICK a : a = n \o at
  OBVIOUS
<1>9. PICK b : b = a \o v
  OBVIOUS
<1>10. /\ a \in Seq(Piece) /\ Len(a) = Len(n) + Len(at)
       /\ \A k \in 1..Len(n) : a[k] = n[k]
       /\ \A k \in 1..Len(at) : a[Len(n) + k] = at[k]
  BY <1>5, <1>7, <1>8, Joined
<1>11. /\ b \in Seq(Piece) /\ Len(b) = Len(a) + Len(v)
       /\ \A k \in 1..Len(a) : b[k] = a[k]
       /\ \A k \in 1..Len(v) : b[Len(a) + k] = v[k]
  BY <1>6, <1>9, <1>10, Joined
<1>12. Len(a) = i /\ Len(b) = Len(t)
  BY <1>1, <1>5, <1>6, <1>7, <1>10, <1>11
<1>13. ASSUME NEW k \in 1..Len(t) PROVE b[k] = t[k]
  <2>1. CASE k < i
    BY <1>1, <1>5, <1>10, <1>11, <1>12, <2>1
  <2>2. CASE k = i
    <3>1. a[i - 1 + 1] = "@"
      BY <1>5, <1>7, <1>10
    <3> QED
      BY <1>1, <1>11, <1>12, <2>2, <3>1
  <2>3. CASE k > i
    <3>1. k - i \in 1..(Len(t) - i) /\ i + (k - i) = k
      BY <1>1, <2>3
    <3>2. b[i + (k - i)] = t[i + (k - i)]
      BY <1>6, <1>11, <1>12, <3>1
    <3> QED
      BY <3>1, <3>2
  <2> QED
    BY <1>1, <2>1, <2>2, <2>3
<1>14. b = t
  BY <1>11, <1>12, <1>13, SeqEqual
<1> QED
  BY <1>2, <1>3, <1>4, <1>5, <1>6, <1>8, <1>9, <1>14

\* What NAME@VERSION has at each of its places.
Names(t, n, v) ==
  /\ Len(t) = Len(n) + 1 + Len(v)
  /\ \A k \in 1..Len(n) : t[k] = n[k]
  /\ t[Len(n) + 1] = "@"
  /\ \A k \in 1..Len(v) : t[Len(n) + 1 + k] = v[k]

\* A name, an "@" and a version are NAME@VERSION.
LEMMA ReferenceShape ==
  ASSUME NEW n \in Seq(Piece), NEW v \in Seq(Piece)
  PROVE  Names(n \o <<"@">> \o v, n, v)
<1>1. Len(n) \in Nat /\ Len(v) \in Nat
  BY LenProperties
<1>2. PICK at : at = <<"@">>
  OBVIOUS
<1>3. at \in Seq(Piece) /\ Len(at) = 1 /\ at[1] = "@"
  BY <1>2 DEF Piece
<1>4. PICK a : a = n \o at
  OBVIOUS
<1>5. PICK t : t = a \o v
  OBVIOUS
<1>6. /\ a \in Seq(Piece) /\ Len(a) = Len(n) + Len(at)
      /\ \A k \in 1..Len(n) : a[k] = n[k]
      /\ \A k \in 1..Len(at) : a[Len(n) + k] = at[k]
  BY <1>3, <1>4, Joined
<1>7. /\ Len(t) = Len(a) + Len(v)
      /\ \A k \in 1..Len(a) : t[k] = a[k]
      /\ \A k \in 1..Len(v) : t[Len(a) + k] = v[k]
  BY <1>5, <1>6, Joined
<1>8. Len(a) = Len(n) + 1 /\ Len(t) = Len(n) + 1 + Len(v)
  BY <1>1, <1>3, <1>6, <1>7
<1>9. \A k \in 1..Len(n) : t[k] = n[k]
  BY <1>1, <1>6, <1>7, <1>8
<1>10. t[Len(n) + 1] = "@"
  <2>1. a[Len(n) + 1] = "@"
    BY <1>3, <1>6
  <2> QED
    BY <1>1, <1>7, <1>8, <2>1
<1>11. \A k \in 1..Len(v) : t[Len(n) + 1 + k] = v[k]
  BY <1>7, <1>8
<1>12. t = n \o <<"@">> \o v
  BY <1>2, <1>4, <1>5
<1> QED
  BY <1>8, <1>9, <1>10, <1>11, <1>12 DEF Names

\* Such a text has its only "@" after the name, and the two around it.
LEMMA ArgumentShape ==
  ASSUME NEW n, NEW v, Plain(n), Plain(v),
         NEW t \in Seq(Piece), Names(t, n, v)
  PROVE  /\ {i \in DOMAIN t : t[i] = "@"} = {Len(n) + 1}
         /\ SubSeq(t, 1, Len(n)) = n
         /\ SubSeq(t, Len(n) + 2, Len(t)) = v
<1>1. /\ n \in Seq(Piece) /\ v \in Seq(Piece)
      /\ Len(n) \in Nat /\ Len(v) \in Nat /\ Len(n) >= 1 /\ Len(v) >= 1
      /\ DOMAIN n = 1..Len(n) /\ DOMAIN v = 1..Len(v) /\ DOMAIN t = 1..Len(t)
  BY LenProperties DEF Plain
<1> USE DEF Names
<1>2. ASSUME NEW i \in DOMAIN t, t[i] = "@" PROVE i = Len(n) + 1
  <2>1. i \in 1..(Len(n) + 1 + Len(v))
    BY <1>1
  <2>2. ~(i <= Len(n))
    BY <1>1, <1>2, <2>1 DEF Plain, Has
  <2>3. ~(i > Len(n) + 1)
    <3> SUFFICES ASSUME i > Len(n) + 1 PROVE FALSE
      OBVIOUS
    <3>1. i - (Len(n) + 1) \in 1..Len(v) /\ Len(n) + 1 + (i - (Len(n) + 1)) = i
      BY <1>1, <2>1
    <3>2. v[i - (Len(n) + 1)] = "@"
      BY <1>2, <3>1
    <3> QED
      BY <1>1, <3>1, <3>2 DEF Plain, Has
  <2> QED
    BY <1>1, <2>1, <2>2, <2>3
<1>3. Len(n) + 1 \in DOMAIN t
  BY <1>1
<1>4. {i \in DOMAIN t : t[i] = "@"} = {Len(n) + 1}
  BY <1>2, <1>3
<1>5. SubSeq(t, 1, Len(n)) = n
  <2>1. PICK s : s = SubSeq(t, 1, Len(n))
    OBVIOUS
  <2>2. 1 \in 1..(Len(t) + 1) /\ Len(n) \in 0..Len(t)
    BY <1>1
  <2>3. /\ s \in Seq(Piece) /\ Len(s) = Len(n)
        /\ \A k \in 1..Len(n) : s[k] = t[k]
    <3>1. /\ SubSeq(t, 1, Len(n)) \in Seq(Piece)
          /\ Len(SubSeq(t, 1, Len(n))) = IF 1 <= Len(n) THEN Len(n) - 1 + 1 ELSE 0
          /\ \A k \in 1..(Len(n) - 1 + 1) : SubSeq(t, 1, Len(n))[k] = t[1 + k - 1]
      BY <2>2, PartOfText
    <3> QED
      BY <1>1, <2>1, <3>1
  <2>4. s = n
    BY <1>1, <2>3, SeqEqual
  <2> QED
    BY <2>1, <2>4
<1>6. SubSeq(t, Len(n) + 2, Len(t)) = v
  <2>1. PICK s : s = SubSeq(t, Len(n) + 2, Len(t))
    OBVIOUS
  <2>2. Len(n) + 2 \in 1..(Len(t) + 1) /\ Len(t) \in 0..Len(t)
    BY <1>1
  <2>3. /\ s \in Seq(Piece) /\ Len(s) = Len(v)
        /\ \A k \in 1..Len(v) : s[k] = t[Len(n) + 1 + k]
    <3>1. /\ SubSeq(t, Len(n) + 2, Len(t)) \in Seq(Piece)
          /\ Len(SubSeq(t, Len(n) + 2, Len(t))) =
               IF Len(n) + 2 <= Len(t) THEN Len(t) - (Len(n) + 2) + 1 ELSE 0
          /\ \A k \in 1..(Len(t) - (Len(n) + 2) + 1) :
               SubSeq(t, Len(n) + 2, Len(t))[k] = t[Len(n) + 2 + k - 1]
      BY <2>2, PartOfText
    <3> QED
      BY <1>1, <2>1, <3>1
  <2>4. s = v
    BY <1>1, <2>3, SeqEqual
  <2> QED
    BY <2>1, <2>4
<1> QED
  BY <1>4, <1>5, <1>6

\* parseReference reads a reference from NAME@VERSION and from nothing else.
LEMMA ParseReads ==
  ASSUME NEW t \in Seq(Piece), NEW n, NEW v, n \in Seq(Piece), v \in Seq(Piece),
         ValidReference(n, v)
  PROVE  [name |-> n, version |-> v] \in ParseReference(t) <=> n \o <<"@">> \o v = t
<1> DEFINE ats == {i \in DOMAIN t : t[i] = "@"}
           parts(i) == [name |-> SubSeq(t, 1, i - 1), version |-> SubSeq(t, i + 1, Len(t))]
<1>1. Plain(n) /\ Plain(v) /\ Len(n) \in Nat
  BY SegmentIsPlain, LenProperties DEF ValidReference
<1>2. ASSUME [name |-> n, version |-> v] \in ParseReference(t)
      PROVE  n \o <<"@">> \o v = t
  <2>1. PICK i \in ats : [name |-> n, version |-> v] = parts(i)
    BY <1>2 DEF ParseReference
  <2>2. n = SubSeq(t, 1, i - 1) /\ v = SubSeq(t, i + 1, Len(t))
    BY <2>1
  <2>3. i \in 1..Len(t) /\ t[i] = "@"
    BY LenProperties
  <2> QED
    BY <2>2, <2>3, PartsOfArgument
<1>3. ASSUME n \o <<"@">> \o v = t
      PROVE  [name |-> n, version |-> v] \in ParseReference(t)
  <2>r. Names(t, n, v)
    BY <1>3, ReferenceShape
  <2>1. /\ ats = {Len(n) + 1}
        /\ SubSeq(t, 1, Len(n)) = n
        /\ SubSeq(t, Len(n) + 2, Len(t)) = v
    BY <1>1, <2>r, ArgumentShape
  <2>2. Cardinality(ats) = 1
    BY <2>1, FS_Singleton
  <2>3. PICK i \in ats : i = Len(n) + 1
    BY <2>1
  <2>4. i - 1 = Len(n) /\ i + 1 = Len(n) + 2
    BY <1>1, <2>3
  <2>5. parts(i) = [name |-> n, version |-> v]
    BY <2>1, <2>4
  <2> QED
    BY <2>2, <2>5 DEF ParseReference
<1> QED
  BY <1>2, <1>3

-------------------------------------------------------------------------------
(* The invariant.                                                          *)

\* The drive has what was printed, each manifest at its path; manifests are valid,
\* and there is one for a name and a version.
Stored == drive = {[path |-> ManifestPath(m.name, m.version), manifest |-> m] :
                     m \in published}

Valid == \A m \in published : m \in Manifest /\ ValidManifest(m)

Unique ==
  \A m, o \in published : m.name = o.name /\ m.version = o.version => m = o

IInv == Stored /\ Valid /\ Unique /\ IsFiniteSet(published)

\* A published manifest has plain texts for names.
LEMMA PublishedIsPlain ==
  ASSUME Valid, NEW m \in published
  PROVE  /\ m.name \in Seq(Piece) /\ m.version \in Seq(Piece)
         /\ ValidReference(m.name, m.version)
         /\ Plain(m.name) /\ Plain(m.version)
<1>1. m.name \in Seq(Piece) /\ m.version \in Seq(Piece)
  BY TextAssumption DEF Valid, Manifest
<1>2. ValidReference(m.name, m.version)
  BY DEF Valid, ValidManifest
<1> QED
  BY <1>1, <1>2, SegmentIsPlain DEF ValidReference

\* Reading the path of a reference gives the manifests of that reference.
LEMMA ReadsItsReference ==
  ASSUME Stored, Valid, NEW n \in Seq(Piece), NEW v \in Seq(Piece), ~Has(n, "/")
  PROVE  ReadManifest(n, v) = {m \in published : m.name = n /\ m.version = v}
<1>1. ASSUME NEW m \in published
      PROVE  ManifestPath(m.name, m.version) = ManifestPath(n, v)
               <=> m.name = n /\ m.version = v
  BY PublishedIsPlain, PathInjective DEF Plain
<1>2. ReadManifest(n, v) =
        {m \in published : ManifestPath(m.name, m.version) = ManifestPath(n, v)}
  <2>1. ASSUME NEW m \in ReadManifest(n, v)
        PROVE  m \in published /\ ManifestPath(m.name, m.version) = ManifestPath(n, v)
    <3>1. PICK e \in drive : e.path = ManifestPath(n, v) /\ e.manifest = m
      BY DEF ReadManifest
    <3>2. PICK o \in published :
            e = [path |-> ManifestPath(o.name, o.version), manifest |-> o]
      BY DEF Stored
    <3> QED
      BY <3>1, <3>2
  <2>2. ASSUME NEW m \in published, ManifestPath(m.name, m.version) = ManifestPath(n, v)
        PROVE  m \in ReadManifest(n, v)
    <3> DEFINE e == [path |-> ManifestPath(m.name, m.version), manifest |-> m]
    <3>1. e \in drive
      BY DEF Stored
    <3>2. e \in {f \in drive : f.path = ManifestPath(n, v)}
      BY <2>2, <3>1
    <3>3. m = e.manifest
      OBVIOUS
    <3> QED
      BY <3>2, <3>3 DEF ReadManifest
  <2> QED
    BY <2>1, <2>2
<1> QED
  BY <1>1, <1>2

\* Nothing is published at first.
LEMMA Initially == Init => IInv
  BY FS_EmptySet DEF Init, IInv, Stored, Valid, Unique

\* A publish command adds the manifest of a reference that had none.
LEMMA PublishKeeps ==
  ASSUME IInv, NEW m \in Manifest, Publish(m) PROVE IInv'
<1>1. /\ ValidManifest(m) /\ ValidReference(m.name, m.version)
      /\ ReadManifest(m.name, m.version) = {}
      /\ drive' = drive \cup {[path |-> ManifestPath(m.name, m.version), manifest |-> m]}
      /\ published' = published \cup {m}
  BY DEF Publish, Put
<1>2. Stored'
  BY <1>1 DEF IInv, Stored
<1>3. Valid'
  BY <1>1 DEF IInv, Valid
<1>4. m.name \in Seq(Piece) /\ m.version \in Seq(Piece) /\ ~Has(m.name, "/")
  BY <1>1, TextAssumption DEF Manifest, ValidReference, Segment
<1>5. \A o \in published : ~(o.name = m.name /\ o.version = m.version)
  BY <1>1, <1>4, ReadsItsReference DEF IInv
<1>6. Unique'
  BY <1>1, <1>5 DEF IInv, Unique
<1>7. IsFiniteSet(published)'
  BY <1>1, FS_AddElement DEF IInv
<1> QED
  BY <1>2, <1>3, <1>6, <1>7 DEF IInv

\* Every reachable state satisfies the inductive invariant.
THEOREM Invariance == Spec => []IInv
<1>1. IInv /\ [Next]_vars => IInv'
  BY PublishKeeps DEF Next, vars, IInv, Stored, Valid, Unique
<1> QED
  BY <1>1, Initially, PTL DEF Spec

-------------------------------------------------------------------------------
(* What fetch and list find.                                               *)

\* An argument finds the manifest whose NAME@VERSION it is, and nothing else,
\* whatever is published and however long it is.
THEOREM ArgumentsNameOne == Spec => []FetchNamesPublished
<1>1. ASSUME IInv, NEW t \in Argument
      PROVE  Fetched(t) = {m \in published : m.name \o <<"@">> \o m.version = t}
  <2>1. t \in Seq(Piece)
    BY TextAssumption
  <2>2. ASSUME NEW m \in Fetched(t)
        PROVE  m \in published /\ m.name \o <<"@">> \o m.version = t
    <3>1. PICK r \in ParseReference(t) :
            /\ m \in ReadManifest(r.name, r.version)
            /\ m.name = r.name /\ m.version = r.version
      BY DEF Fetched
    <3>2. m \in published
      BY <1>1, <3>1 DEF ReadManifest, IInv, Stored
    <3>3. r = [name |-> r.name, version |-> r.version]
      BY DEF ParseReference
    <3>4. [name |-> m.name, version |-> m.version] \in ParseReference(t)
      BY <3>1, <3>3
    <3> QED
      BY <1>1, <2>1, <3>2, <3>4, PublishedIsPlain, ParseReads DEF IInv
  <2>3. ASSUME NEW m \in published, m.name \o <<"@">> \o m.version = t
        PROVE  m \in Fetched(t)
    <3> DEFINE r == [name |-> m.name, version |-> m.version]
    <3>1. /\ m.name \in Seq(Piece) /\ m.version \in Seq(Piece)
          /\ ValidReference(m.name, m.version) /\ ~Has(m.name, "/")
          /\ ValidManifest(m)
      BY <1>1, PublishedIsPlain DEF IInv, Plain, Valid
    <3>2. r \in ParseReference(t)
      BY <2>1, <2>3, <3>1, ParseReads
    <3>3. m \in ReadManifest(m.name, m.version)
      BY <1>1, <3>1, ReadsItsReference DEF IInv
    <3> QED
      BY <3>1, <3>2, <3>3 DEF Fetched
  <2> QED
    BY <2>2, <2>3
<1>2. IInv => FetchNamesPublished
  BY <1>1 DEF FetchNamesPublished
<1> QED
  BY <1>2, Invariance, PTL

\* list reads one reference for each manifest, the one it was published under.
LEMMA ListedReferences ==
  ASSUME IInv
  PROVE  Listed = {[name |-> m.name, version |-> m.version] : m \in published}
<1>1. \A m \in published :
        PathParts(ManifestPath(m.name, m.version))
          = {[name |-> m.name, version |-> m.version]}
  BY PublishedIsPlain, PathPartsOfPath DEF IInv
<1>2. ASSUME NEW r \in Listed
      PROVE  \E m \in published : r = [name |-> m.name, version |-> m.version]
  <2>1. PICK e \in drive : r \in PathParts(e.path)
    BY DEF Listed
  <2>2. PICK m \in published : e.path = ManifestPath(m.name, m.version)
    BY DEF IInv, Stored
  <2> QED
    BY <1>1, <2>1, <2>2
<1>3. ASSUME NEW m \in published
      PROVE  [name |-> m.name, version |-> m.version] \in Listed
  <2> DEFINE e == [path |-> ManifestPath(m.name, m.version), manifest |-> m]
  <2>1. e \in drive
    BY DEF IInv, Stored
  <2>2. [name |-> m.name, version |-> m.version] \in PathParts(e.path)
    BY <1>1
  <2> QED
    BY <2>1, <2>2 DEF Listed
<1> QED
  BY <1>2, <1>3

\* list shows every published manifest once, and none makes it fail.
THEOREM ListsAreComplete == Spec => []ListShowsPublished
<1>1. ASSUME IInv, NEW r \in Listed
      PROVE  /\ PathPart(r.name) /\ PathPart(r.version)
             /\ ReadManifest(r.name, r.version)
                  = {m \in published : m.name = r.name /\ m.version = r.version}
  <2>1. PICK o \in published : r = [name |-> o.name, version |-> o.version]
    BY <1>1, ListedReferences
  <2>2. /\ r.name \in Seq(Piece) /\ r.version \in Seq(Piece)
        /\ Plain(r.name) /\ Plain(r.version)
    BY <1>1, <2>1, PublishedIsPlain DEF IInv
  <2>3. ASSUME NEW text, Plain(text) PROVE PathPart(text)
    BY <2>3 DEF Plain, PathPart
  <2> QED
    BY <1>1, <2>2, <2>3, ReadsItsReference DEF IInv, Plain
<1>2. ASSUME IInv PROVE ~ListFails
  BY <1>1, <1>2 DEF ListFails, IInv, Valid
<1>3. ASSUME IInv PROVE UNION {ReadManifest(r.name, r.version) : r \in Listed} = published
  <2>1. ASSUME NEW r \in Listed PROVE ReadManifest(r.name, r.version) \subseteq published
    BY <1>1, <1>3
  <2>2. ASSUME NEW m \in published
        PROVE  \E r \in Listed : m \in ReadManifest(r.name, r.version)
    <3>1. PICK r \in Listed : r = [name |-> m.name, version |-> m.version]
      BY <1>3, ListedReferences
    <3>2. m \in ReadManifest(r.name, r.version)
      BY <1>1, <1>3, <3>1
    <3> QED
      BY <3>2
  <2> QED
    BY <2>1, <2>2
<1>4. ASSUME IInv PROVE Cardinality(Listed) = Cardinality(published)
  <2> DEFINE ref(m) == [name |-> m.name, version |-> m.version]
             f == [m \in published |-> ref(m)]
  <2>1. Listed = {ref(m) : m \in published}
    BY <1>4, ListedReferences
  <2>2. f \in Surjection(published, Listed)
    BY <2>1 DEF Surjection
  <2>3. f \in Injection(published, Listed)
    <3>1. f \in [published -> Listed]
      BY <2>1
    <3>2. ASSUME NEW m \in published, NEW o \in published, f[m] = f[o] PROVE m = o
      BY <1>4, <3>2 DEF IInv, Unique
    <3> QED
      BY <3>1, <3>2 DEF Injection, IsInjective
  <2> QED
    BY <1>4, <2>2, <2>3, FS_Surjection DEF IInv
<1>5. IInv => ListShowsPublished
  BY <1>2, <1>3, <1>4 DEF ListShowsPublished
<1> QED
  BY <1>5, Invariance, PTL
===============================================================================
