-------------------------- MODULE InjectionProofs --------------------------
(***************************************************************************)
(* Theorems about Injection.tla, for any specs, pods and containers.        *)
(***************************************************************************)
EXTENDS Injection, WellFoundedInduction, NaturalsInduction, SequenceTheorems, FiniteSetTheorems,
        TLAPS

-----------------------------------------------------------------------------
(* Numbers and prefixes *)

LEMMA Least ==
    ASSUME NEW T, T \subseteq Nat, T # {}
    PROVE  \E n \in T : \A m \in T : n <= m
  <1> DEFINE R == {r \in Nat \X Nat : r[1] < r[2]}
  <1>1. IsWellFoundedOn(R, Nat)
    BY NatLessThanWellFounded, Zenon DEF OpToRel
  <1>2. PICK n \in T : \A m \in T : ~ (<<m, n>> \in R)
    BY <1>1, WFMin
  <1>3. ASSUME NEW m \in T PROVE n <= m
    <2>1. m \in Nat /\ n \in Nat
      OBVIOUS
    <2>2. m < n => <<m, n>> \in R
      BY <2>1
    <2>3. ~ (m < n)
      BY <1>2, <2>2
    <2> QED BY <2>1, <2>3
  <1> QED BY <1>3

(* Bounded numbers have a greatest one.                                     *)
LEMMA Greatest ==
    ASSUME NEW T, T \subseteq Nat, T # {}, NEW b \in Nat, \A m \in T : m <= b
    PROVE  \E n \in T : \A m \in T : m <= n
  <1> DEFINE U == {b - m : m \in T}
  <1>1. U \subseteq Nat /\ U # {}
    <2>1. \A m \in T : m \in Nat /\ m <= b
      OBVIOUS
    <2>2. \A m \in T : b - m \in Nat
      BY <2>1
    <2>3. \A u \in U : \E m \in T : u = b - m
      OBVIOUS
    <2>4. PICK m \in T : TRUE
      OBVIOUS
    <2>5. b - m \in U
      OBVIOUS
    <2> QED BY <2>2, <2>3, <2>5
  <1> HIDE DEF U
  <1>2. PICK u \in U : \A w \in U : u <= w
    BY <1>1, Least
  <1> USE DEF U
  <1>3. PICK n \in T : u = b - n
    OBVIOUS
  <1>4. \A m \in T : b - m \in U
    OBVIOUS
  <1>5. \A m \in T : m <= n
    BY <1>2, <1>3, <1>4
  <1> QED BY <1>5

LEMMA PrefixIs ==
    ASSUME NEW s \in Text, NEW t \in Text
    PROVE  IsPrefix(s, t) <=> /\ Len(s) <= Len(t)
                              /\ \A i \in 1 .. Len(s) : s[i] = t[i]
  <1>1. Len(s) \in Nat /\ Len(t) \in Nat
    BY LenProperties DEF Text
  <1>2. SubSeq(s, 1, Len(s)) = s
    BY SubSeqFull DEF Text
  <1>3. CASE Len(s) <= Len(t)
    <2>1. \A i \in 1 .. Len(s) : t[i] \in STRING
      BY <1>1, <1>3, ElementOfSeq DEF Text
    <2>2. /\ SubSeq(t, 1, Len(s)) \in Seq(STRING)
          /\ Len(SubSeq(t, 1, Len(s))) = Len(s)
          /\ \A i \in 1 .. Len(s) : SubSeq(t, 1, Len(s))[i] = t[i]
      <3>1. /\ SubSeq(t, 1, Len(s)) \in Seq(STRING)
            /\ Len(SubSeq(t, 1, Len(s))) = IF 1 <= Len(s) THEN Len(s) - 1 + 1 ELSE 0
            /\ \A i \in 1 .. Len(s) - 1 + 1 : SubSeq(t, 1, Len(s))[i] = t[1 + i - 1]
        BY <1>1, <2>1, SubSeqProperties
      <3> QED BY <1>1, <3>1
    <2>3. (\A i \in 1 .. Len(s) : s[i] = t[i]) => s = SubSeq(t, 1, Len(s))
      BY <2>2, SeqEqual DEF Text
    <2> QED BY <1>2, <1>3, <2>2, <2>3 DEF IsPrefix
  <1>4. CASE ~ (Len(s) <= Len(t))
    BY <1>4 DEF IsPrefix
  <1> QED BY <1>3, <1>4

(* Of two prefixes of one path, the one that is not longer is a prefix of   *)
(* the other.                                                               *)
LEMMA PrefixesCompare ==
    ASSUME NEW s \in Text, NEW t \in Text, NEW p \in Text,
           IsPrefix(s, p), IsPrefix(t, p), Len(s) <= Len(t)
    PROVE  IsPrefix(s, t)
  <1>1. Len(s) \in Nat /\ Len(t) \in Nat
    BY LenProperties DEF Text
  <1>2. \A i \in 1 .. Len(s) : s[i] = p[i]
    BY PrefixIs
  <1>3. \A i \in 1 .. Len(t) : t[i] = p[i]
    BY PrefixIs
  <1> QED BY <1>1, <1>2, <1>3, PrefixIs

LEMMA ShortSeqs ==
    ASSUME NEW S, NEW a \in S, NEW b \in S
    PROVE  <<a>> \in Seq(S) /\ <<a, b>> \in Seq(S)
  OBVIOUS

-----------------------------------------------------------------------------
(* Recursion: what holds at 0 and is passed on holds up to n *)

LEMMA Upwards ==
    ASSUME NEW n \in Nat, NEW T, 0 \in T, \A i \in 1 .. n : i - 1 \in T => i \in T
    PROVE  \A i \in 0 .. n : i \in T
  <1> DEFINE missing == {i \in 0 .. n : i \notin T}
  <1>1. SUFFICES ASSUME missing # {} PROVE FALSE
    OBVIOUS
  <1>2. PICK m \in missing : \A i \in missing : m <= i
    <2>1. missing \subseteq Nat
      OBVIOUS
    <2> HIDE DEF missing
    <2> QED BY <1>1, <2>1, Least
  <1>3. m \in 1 .. n /\ m - 1 \in 0 .. n
    OBVIOUS
  <1>4. m - 1 \in T
    BY <1>2, <1>3
  <1> QED BY <1>3, <1>4

(* The functions that are defined by recursion here exist, and so are what  *)
(* their equations say.                                                     *)
LEMMA AllButIs ==
    ASSUME NEW S, NEW seq \in Seq(S), NEW x
    PROVE  \E kept : /\ AllBut(seq, x) = kept[Len(seq)]
                     /\ kept[0] = <<>>
                     /\ \A i \in 1 .. Len(seq) :
                           kept[i] = IF seq[i] = x THEN kept[i - 1]
                                     ELSE Append(kept[i - 1], seq[i])
  <1> DEFINE n == Len(seq)
             Turn(g, i) == IF i = 0 THEN <<>>
                           ELSE IF seq[i] = x THEN g[i - 1] ELSE Append(g[i - 1], seq[i])
             Upto(m) == \E g : g = [i \in 0 .. m |-> Turn(g, i)]
             T == {m \in 0 .. n : Upto(m)}
  <1>1. n \in Nat
    BY LenProperties
  <1>2. Upto(0)
    <2> DEFINE g == [i \in 0 .. 0 |-> <<>>]
    <2>1. g = [i \in 0 .. 0 |-> Turn(g, i)]
      OBVIOUS
    <2> QED BY <2>1
  <1>3. ASSUME NEW m \in 1 .. n, Upto(m - 1) PROVE Upto(m)
    <2>1. PICK g : g = [i \in 0 .. m - 1 |-> Turn(g, i)]
      BY <1>3
    <2>2. PICK h : h = [i \in 0 .. m |-> IF i = m THEN Turn(g, m) ELSE g[i]]
      OBVIOUS
    <2>3. \A i \in 0 .. m - 1 : h[i] = g[i] /\ g[i] = Turn(g, i)
      <3> HIDE DEF Turn
      <3>1. \A i \in 0 .. m - 1 : g[i] = Turn(g, i)
        BY <2>1, Zenon
      <3>2. \A i \in 0 .. m - 1 : i \in 0 .. m /\ i # m
        BY <1>1
      <3>3. \A i \in 0 .. m - 1 : h[i] = g[i]
        BY <2>2, <3>2, Zenon
      <3> QED BY <3>1, <3>3
    <2>4. h[m] = Turn(g, m)
      <3> HIDE DEF Turn
      <3> QED BY <1>1, <2>2
    <2>5. \A i \in 0 .. m : Turn(h, i) = Turn(g, i)
      BY <1>1, <2>3
    <2> HIDE DEF Turn
    <2>6. \A i \in 0 .. m : h[i] = Turn(h, i)
      BY <1>1, <2>3, <2>4, <2>5
    <2>7. h = [i \in 0 .. m |-> Turn(h, i)]
      <3>1. h = [i \in 0 .. m |-> h[i]]
        BY <2>2, Zenon
      <3> QED BY <2>6, <3>1, Zenon
    <2> QED BY <2>7
  <1>4. Upto(n)
    <2> HIDE DEF Upto
    <2>1. 0 \in T /\ \A i \in 1 .. n : i - 1 \in T => i \in T
      BY <1>1, <1>2, <1>3
    <2> HIDE DEF T
    <2>2. \A i \in 0 .. n : i \in T
      BY <1>1, <2>1, Upwards, Zenon
    <2>3. n \in T
      BY <1>1, <2>2
    <2> QED BY <2>3 DEF T
  <1> DEFINE kept == CHOOSE g : g = [i \in 0 .. n |-> Turn(g, i)]
  <1>5. kept = [i \in 0 .. n |-> Turn(kept, i)]
    BY <1>4, Zenon
  <1>6. AllBut(seq, x) = kept[n]
    BY DEF AllBut
  <1> HIDE DEF kept
  <1>7. kept[0] = <<>> /\ \A i \in 1 .. n : kept[i] = Turn(kept, i)
    <2> HIDE DEF Turn
    <2>1. \A i \in 0 .. n : kept[i] = Turn(kept, i)
      BY <1>5, Zenon
    <2>2. \A i \in 1 .. n : i \in 0 .. n
      OBVIOUS
    <2>3. 0 \in 0 .. n
      BY <1>1
    <2>4. Turn(kept, 0) = <<>>
      BY DEF Turn
    <2> QED BY <2>1, <2>2, <2>3, <2>4
  <1> QED BY <1>1, <1>6, <1>7

LEMMA AllButTyped ==
    ASSUME NEW S, NEW seq \in Seq(S), NEW x
    PROVE  AllBut(seq, x) \in Seq(S)
  <1>1. PICK kept : /\ AllBut(seq, x) = kept[Len(seq)]
                    /\ kept[0] = <<>>
                    /\ \A i \in 1 .. Len(seq) :
                          kept[i] = IF seq[i] = x THEN kept[i - 1]
                                    ELSE Append(kept[i - 1], seq[i])
    BY AllButIs
  <1> DEFINE T == {i \in 0 .. Len(seq) : kept[i] \in Seq(S)}
  <1>2. Len(seq) \in Nat /\ \A i \in 1 .. Len(seq) : seq[i] \in S
    BY LenProperties, ElementOfSeq
  <1>3. 0 \in T
    <2>1. <<>> \in Seq(S)
      OBVIOUS
    <2>2. 0 \in 0 .. Len(seq)
      BY <1>2
    <2>3. kept[0] \in Seq(S)
      BY <1>1, <2>1, Zenon
    <2> QED BY <2>2, <2>3
  <1>4. \A i \in 1 .. Len(seq) : i - 1 \in T => i \in T
    <2> SUFFICES ASSUME NEW i \in 1 .. Len(seq), i - 1 \in T PROVE kept[i] \in Seq(S)
      BY <1>2
    <2>1. kept[i - 1] \in Seq(S) /\ seq[i] \in S
      BY <1>2
    <2>2. kept[i] \in {kept[i - 1], Append(kept[i - 1], seq[i])}
      BY <1>1
    <2>3. Append(kept[i - 1], seq[i]) \in Seq(S)
      BY <2>1, AppendProperties
    <2> QED BY <2>1, <2>2, <2>3
  <1> HIDE DEF T
  <1>5. \A i \in 0 .. Len(seq) : i \in T
    BY <1>2, <1>3, <1>4, Upwards, Zenon
  <1>6. Len(seq) \in T
    BY <1>2, <1>5
  <1> QED BY <1>1, <1>6 DEF T

LEMMA NamedTexts ==
    ASSUME NEW texts \in Seq(Text)
    PROVE  Named(texts) \in Seq(Text)
  BY AllButTyped DEF Named

(* A sequence of two, the first of which is dropped, or both.               *)
LEMMA AllButPair ==
    ASSUME NEW S, NEW a \in S, NEW b \in S
    PROVE  AllBut(<<a, b>>, a) = IF b = a THEN <<>> ELSE <<b>>
  <1>1. <<a, b>> \in Seq(S) /\ Len(<<a, b>>) = 2 /\ <<a, b>>[1] = a /\ <<a, b>>[2] = b
    OBVIOUS
  <1>2. PICK seq \in Seq(S) : seq = <<a, b>> /\ Len(seq) = 2 /\ seq[1] = a /\ seq[2] = b
    BY <1>1
  <1>3. PICK kept : /\ AllBut(seq, a) = kept[Len(seq)]
                    /\ kept[0] = <<>>
                    /\ \A i \in 1 .. Len(seq) :
                          kept[i] = IF seq[i] = a THEN kept[i - 1]
                                    ELSE Append(kept[i - 1], seq[i])
    BY AllButIs
  <1>4. 1 \in 1 .. 2 /\ 2 \in 1 .. 2 /\ 1 - 1 = 0 /\ 2 - 1 = 1
    OBVIOUS
  <1>5. kept[1] = <<>>
    BY <1>2, <1>3, <1>4
  <1>6. kept[2] = IF b = a THEN <<>> ELSE Append(<<>>, b)
    BY <1>2, <1>3, <1>4, <1>5
  <1>7. Append(<<>>, b) = <<b>>
    OBVIOUS
  <1> QED BY <1>2, <1>3, <1>6, <1>7

-----------------------------------------------------------------------------
(* Paths and places *)

LEMMA PlaceText ==
    ASSUME NEW path \in Text
    PROVE  Place(path) \in Text
  BY AllButTyped DEF Place, Text

LEMMA PlacesAre ==
    /\ TufPath \in Text /\ Root \in Text
    /\ Place(TufPath) = <<".sigstore">> /\ Place(Root) = <<>>
  <1>1. "/" \in STRING /\ ".sigstore" \in STRING
    BY WordsAssumption
  <1>2. TufPath \in Text /\ Root \in Text
    BY <1>1, ShortSeqs DEF TufPath, Root, Text
  <1>3. ".sigstore" # "/"
    OBVIOUS
  <1>4. Place(TufPath) = <<".sigstore">>
    BY <1>1, <1>3, AllButPair, Zenon DEF Place, TufPath
  <1>5. Place(Root) = <<>>
    BY <1>1, AllButPair, Zenon DEF Place, Root
  <1> QED BY <1>2, <1>4, <1>5

(* There is nothing above the agent's own mount but the root.               *)
LEMMA AboveTufPath ==
    ASSUME NEW s \in Text, IsPrefix(s, Place(TufPath))
    PROVE  s \in {<<>>, Place(TufPath)}
  <1>1. PICK t \in Text : t = Place(TufPath)
    BY PlacesAre, PlaceText
  <1>2. Len(s) \in Nat /\ Len(t) = 1
    <2>1. Len(s) \in Nat
      BY LenProperties DEF Text
    <2> QED BY <1>1, <2>1, PlacesAre
  <1>3. Len(s) <= 1 /\ \A i \in 1 .. Len(s) : s[i] = t[i]
    BY <1>1, <1>2, PrefixIs
  <1>4. CASE Len(s) = 0
    BY <1>4, EmptySeq DEF Text
  <1>5. CASE Len(s) = 1
    BY <1>1, <1>2, <1>3, <1>5, SeqEqual DEF Text
  <1> QED BY <1>2, <1>3, <1>4, <1>5

LEMMA BareIs ==
    ASSUME NEW path \in Text
    PROVE  Bare(path) \in Text /\ IsPrefix(Bare(path), path) /\ Len(Bare(path)) <= Len(path)
  <1>1. Len(path) \in Nat /\ IsPrefix(path, path)
    <2>1. Len(path) \in Nat
      BY LenProperties DEF Text
    <2> QED BY <2>1, PrefixIs
  <1>2. CASE Bare(path) = path
    BY <1>1, <1>2
  <1>3. CASE Bare(path) # path
    <2>1. Len(path) > 1 /\ Bare(path) = SubSeq(path, 1, Len(path) - 1)
      BY <1>3 DEF Bare, Front
    <2>2. \A i \in 1 .. Len(path) - 1 : path[i] \in STRING
      BY <1>1, ElementOfSeq DEF Text
    <2>3. /\ Bare(path) \in Seq(STRING)
          /\ Len(Bare(path)) = Len(path) - 1
          /\ \A i \in 1 .. Len(path) - 1 : Bare(path)[i] = path[i]
      <3>1. PICK n \in Nat : n = Len(path) - 1 /\ n >= 1
        BY <1>1, <2>1
      <3>2. /\ SubSeq(path, 1, n) \in Seq(STRING)
            /\ Len(SubSeq(path, 1, n)) = IF 1 <= n THEN n - 1 + 1 ELSE 0
            /\ \A i \in 1 .. n - 1 + 1 : SubSeq(path, 1, n)[i] = path[1 + i - 1]
        BY <1>1, <2>2, <3>1, SubSeqProperties
      <3> QED BY <2>1, <3>1, <3>2
    <2>4. Bare(path) \in Text
      BY <2>3 DEF Text
    <2> QED BY <1>1, <2>3, <2>4, PrefixIs
  <1> QED BY <1>2, <1>3

(* What is behind the slash an absolute path begins with.                   *)
LEMMA BehindSlash ==
    ASSUME NEW s \in Text
    PROVE  /\ <<"/">> \o s \in Text /\ Len(<<"/">> \o s) = 1 + Len(s) /\ Len(s) \in Nat
           /\ (<<"/">> \o s)[1] = "/"
           /\ \A i \in 1 .. Len(s) : (<<"/">> \o s)[1 + i] = s[i]
  <1>1. PICK w \in Seq(STRING) : w = <<"/">> /\ Len(w) = 1 /\ w[1] = "/"
    <2>1. "/" \in STRING
      BY WordsAssumption
    <2>2. <<"/">> \in Seq(STRING)
      BY <2>1, ShortSeqs
    <2> QED BY <2>2
  <1>2. s \in Seq(STRING) /\ Len(s) \in Nat
    BY LenProperties DEF Text
  <1>3. /\ w \o s \in Seq(STRING) /\ Len(w \o s) = Len(w) + Len(s)
        /\ \A i \in 1 .. Len(w) + Len(s) :
              (w \o s)[i] = IF i <= Len(w) THEN w[i] ELSE s[i - Len(w)]
    BY <1>2, ConcatProperties
  <1>4. 1 \in 1 .. Len(w) + Len(s)
    BY <1>1, <1>2
  <1>5. (w \o s)[1] = "/"
    BY <1>1, <1>3, <1>4
  <1>6. ASSUME NEW i \in 1 .. Len(s) PROVE (w \o s)[1 + i] = s[i]
    <2>1. 1 + i \in 1 .. Len(w) + Len(s) /\ ~ (1 + i <= Len(w)) /\ 1 + i - Len(w) = i
      BY <1>1, <1>2
    <2> QED BY <1>3, <2>1
  <1> QED BY <1>1, <1>2, <1>3, <1>5, <1>6 DEF Text

LEMMA PrefixBehindSlash ==
    ASSUME NEW s \in Text, NEW t \in Text, IsPrefix(s, t)
    PROVE  IsPrefix(<<"/">> \o s, <<"/">> \o t)
  <1>1. PICK x \in Text : /\ x = <<"/">> \o s /\ Len(x) = 1 + Len(s) /\ Len(s) \in Nat
                          /\ x[1] = "/" /\ \A i \in 1 .. Len(s) : x[1 + i] = s[i]
    BY BehindSlash
  <1>2. PICK y \in Text : /\ y = <<"/">> \o t /\ Len(y) = 1 + Len(t) /\ Len(t) \in Nat
                          /\ y[1] = "/" /\ \A i \in 1 .. Len(t) : y[1 + i] = t[i]
    BY BehindSlash
  <1>3. Len(s) <= Len(t) /\ \A i \in 1 .. Len(s) : s[i] = t[i]
    BY PrefixIs
  <1>4. ASSUME NEW i \in 1 .. Len(x) PROVE x[i] = y[i]
    <2>1. CASE i = 1
      BY <1>1, <1>2, <2>1
    <2>2. CASE i # 1
      <3>1. i - 1 \in 1 .. Len(s) /\ i - 1 \in 1 .. Len(t) /\ 1 + (i - 1) = i
        BY <1>1, <1>2, <1>3, <2>2
      <3>2. x[1 + (i - 1)] = s[i - 1] /\ y[1 + (i - 1)] = t[i - 1] /\ s[i - 1] = t[i - 1]
        BY <1>1, <1>2, <1>3, <3>1
      <3> QED BY <3>1, <3>2
    <2> QED BY <2>1, <2>2
  <1>5. Len(x) <= Len(y)
    BY <1>1, <1>2, <1>3
  <1>6. IsPrefix(x, y)
    BY <1>4, <1>5, PrefixIs
  <1> QED BY <1>1, <1>2, <1>6

LEMMA PrefixThrough ==
    ASSUME NEW s \in Text, NEW t \in Text, NEW p \in Text, IsPrefix(s, t), IsPrefix(t, p)
    PROVE  IsPrefix(s, p)
  <1>1. Len(s) \in Nat /\ Len(t) \in Nat /\ Len(p) \in Nat
    BY LenProperties DEF Text
  <1>2. Len(s) <= Len(t) /\ \A i \in 1 .. Len(s) : s[i] = t[i]
    BY PrefixIs
  <1>3. Len(t) <= Len(p) /\ \A i \in 1 .. Len(t) : t[i] = p[i]
    BY PrefixIs
  <1> QED BY <1>1, <1>2, <1>3, PrefixIs

(* The webhook gives the agent the mounts in which the path is.             *)
LEMMA ComparableCovers ==
    ASSUME NEW q \in Text, NEW p \in Text,
           Place(q) # <<>>, IsPrefix(Place(q), Place(p)), Comparable(q, p)
    PROVE  q # Root /\ Covers(q, p)
  <1>1. q # Root
    BY PlacesAre
  <1>2. Bare(q) = <<"/">> \o Place(q) /\ Bare(p) = <<"/">> \o Place(p)
    BY DEF Comparable, PlainPath
  <1>3. /\ Bare(q) \in Text /\ Bare(p) \in Text
        /\ IsPrefix(Bare(p), p) /\ Len(Bare(p)) <= Len(p)
        /\ Place(q) \in Text /\ Place(p) \in Text
    BY BareIs, PlaceText
  <1>4. CASE Place(q) = Place(p)
    <2>1. q \in {p, Bare(p)} /\ Bare(q) = Bare(p)
      BY <1>2, <1>4 DEF Comparable
    <2> QED BY <1>1, <1>3, <2>1 DEF Covers, IsStrictPrefix
  <1>5. CASE Place(q) # Place(p)
    <2>1. IsPrefix(Bare(q), p)
      <3>1. IsPrefix(Bare(q), Bare(p))
        BY <1>2, <1>3, PrefixBehindSlash
      <3> QED BY <1>3, <3>1, PrefixThrough
    <2>2. Len(Place(q)) < Len(Place(p))
      <3>1. /\ Len(Place(q)) <= Len(Place(p))
            /\ \A i \in 1 .. Len(Place(q)) : Place(q)[i] = Place(p)[i]
        BY <1>3, PrefixIs
      <3>2. Len(Place(q)) \in Nat /\ Len(Place(p)) \in Nat
        BY <1>3, LenProperties DEF Text
      <3>3. Len(Place(q)) # Len(Place(p))
        BY <1>3, <1>5, <3>1, SeqEqual DEF Text
      <3> QED BY <3>1, <3>2, <3>3
    <2>3. Len(Bare(q)) < Len(p)
      <3>1. /\ Len(Bare(q)) = 1 + Len(Place(q)) /\ Len(Bare(p)) = 1 + Len(Place(p))
            /\ Len(Place(q)) \in Nat /\ Len(Place(p)) \in Nat
        BY <1>2, <1>3, BehindSlash
      <3>2. Len(p) \in Nat
        BY LenProperties DEF Text
      <3> QED BY <1>3, <2>2, <3>1, <3>2
    <2>4. Bare(q) # p
      <3>1. Len(p) \in Nat
        BY LenProperties DEF Text
      <3> QED BY <2>3, <3>1
    <2> QED BY <1>1, <2>1, <2>4 DEF Covers, IsStrictPrefix
  <1> QED BY <1>4, <1>5

-----------------------------------------------------------------------------
(* The mounts the agent gets *)

LEMMA FirstIs ==
    ASSUME NEW containers, IsContainers(containers),
           NEW q \in UNION {DOMAIN containers[i] : i \in DOMAIN containers}
    PROVE  /\ FirstWith(containers, q) \in DOMAIN containers
           /\ q \in DOMAIN containers[FirstWith(containers, q)]
  <1> DEFINE T == {i \in DOMAIN containers : q \in DOMAIN containers[i]}
  <1>1. DOMAIN containers \subseteq Nat
    BY DEF IsContainers
  <1>2. T \subseteq Nat /\ T # {}
    BY <1>1
  <1>3. PICK n \in T : \A m \in T : n <= m
    <2> HIDE DEF T
    <2> QED BY <1>2, Least
  <1>4. \A j \in 1 .. n - 1 : j \in DOMAIN containers /\ j \in Nat /\ n \in Nat /\ j < n
    BY <1>1, <1>3 DEF IsContainers
  <1>5. \A j \in 1 .. n - 1 : q \notin DOMAIN containers[j]
    <2> SUFFICES ASSUME NEW j \in 1 .. n - 1, q \in DOMAIN containers[j] PROVE FALSE
      OBVIOUS
    <2>1. j \in T
      BY <1>4
    <2> QED BY <1>3, <1>4, <2>1
  <1> QED BY <1>3, <1>5 DEF FirstWith

LEMMA FilterIs ==
    ASSUME NEW containers, IsContainers(containers), NEW needed
    PROVE  LET own == filterVolumeMounts(containers, needed) IN
           /\ IsMap(own, Text, Mount)
           /\ DOMAIN own = WantedMounts(containers, needed)
           /\ \A q \in DOMAIN own : Place(q) # Place(TufPath)
           /\ \A q \in DOMAIN own : \E i \in DOMAIN containers :
                 q \in DOMAIN containers[i] /\ own[q].volume = containers[i][q].volume
  <1> DEFINE own == filterVolumeMounts(containers, needed)
  <1>1. DOMAIN own = WantedMounts(containers, needed)
    BY DEF filterVolumeMounts
  <1>2. ASSUME NEW q \in DOMAIN own
        PROVE  /\ q \in Text /\ Place(q) # Place(TufPath)
               /\ own[q] \in Mount
               /\ \E i \in DOMAIN containers :
                     q \in DOMAIN containers[i] /\ own[q].volume = containers[i][q].volume
    <2>1. q \in UNION {DOMAIN containers[i] : i \in DOMAIN containers}
      BY <1>1 DEF WantedMounts
    <2>2. PICK i \in DOMAIN containers :
             i = FirstWith(containers, q) /\ q \in DOMAIN containers[i]
      BY <2>1, FirstIs
    <2>3. own[q] = [volume |-> containers[i][q].volume, readOnly |-> TRUE]
      BY <1>1, <2>2 DEF filterVolumeMounts
    <2>4. /\ q \in Text /\ Place(q) # Place(TufPath)
          /\ containers[i][q] \in Mount
      BY <2>2 DEF IsContainers, IsMap
    <2> QED BY <2>2, <2>3, <2>4 DEF Mount
  <1>3. own = [q \in DOMAIN own |-> own[q]]
    BY DEF filterVolumeMounts
  <1> HIDE DEF own
  <1>4. IsMap(own, Text, Mount)
    BY <1>2, <1>3 DEF IsMap
  <1> QED BY <1>1, <1>2, <1>4 DEF own

(* The deepest mounts above a path.                                         *)
Deepest(mounts, path) ==
    {d \in Above(mounts, path) :
        \A r \in Above(mounts, path) : Len(Place(r)) <= Len(Place(d))}

LEMMA SeesIs ==
    ASSUME NEW mounts, NEW path
    PROVE  Sees(mounts, path) = {mounts[q].volume : q \in Deepest(mounts, path)}
  BY DEF Sees, Deepest

LEMMA SomeDeepest ==
    ASSUME NEW mounts, DOMAIN mounts \subseteq Text, NEW path \in Text,
           Above(mounts, path) # {}
    PROVE  Deepest(mounts, path) # {}
  <1> DEFINE T == {Len(Place(q)) : q \in Above(mounts, path)}
             n == Len(Place(path))
  <1>1. \A q \in Above(mounts, path) : Place(q) \in Text /\ IsPrefix(Place(q), Place(path))
    BY PlaceText DEF Above
  <1>2. n \in Nat /\ \A q \in Text : Len(q) \in Nat
    BY PlaceText, LenProperties DEF Text
  <1>3. \A q \in Above(mounts, path) : Len(Place(q)) <= n
    BY <1>1, PlaceText, PrefixIs
  <1>4. T \subseteq Nat /\ T # {} /\ \A m \in T : m <= n
    BY <1>1, <1>2, <1>3
  <1>5. \E k \in T : \A m \in T : m <= k
    <2> HIDE DEF T, n
    <2> QED BY <1>2, <1>4, Greatest
  <1>6. PICK q \in Above(mounts, path) : \A m \in T : m <= Len(Place(q))
    BY <1>5
  <1>7. \A r \in Above(mounts, path) : Len(Place(r)) \in T
    OBVIOUS
  <1> QED BY <1>6, <1>7 DEF Deepest

(* What the containers see together, the selected mounts show as well.      *)
LEMMA OwnSees ==
    ASSUME NEW containers, IsContainers(containers), NEW needed,
           NEW p \in needed, p \in Text, NEW v,
           SeenAt(containers, p) = {v}, AllComparable(containers, p)
    PROVE  LET own == filterVolumeMounts(containers, needed) IN
           /\ Deepest(own, p) # {}
           /\ \A d \in Deepest(own, p) : own[d].volume = v
  <1> DEFINE own == filterVolumeMounts(containers, needed)
  <1>1. /\ DOMAIN own = WantedMounts(containers, needed)
        /\ DOMAIN own \subseteq Text
        /\ \A q \in DOMAIN own : \E i \in DOMAIN containers :
              q \in DOMAIN containers[i] /\ own[q].volume = containers[i][q].volume
    BY FilterIs DEF IsMap
  <1>2. \A i \in DOMAIN containers : Above(containers[i], p) \subseteq Above(own, p)
    <2> SUFFICES ASSUME NEW i \in DOMAIN containers, NEW q \in Above(containers[i], p)
                 PROVE  q \in Above(own, p)
      OBVIOUS
    <2>1. /\ q \in DOMAIN containers[i] /\ q \in Text
          /\ Place(q) # <<>> /\ IsPrefix(Place(q), Place(p)) /\ Comparable(q, p)
      BY DEF Above, AllComparable, IsContainers, IsMap
    <2>2. q # Root /\ Covers(q, p)
      BY <2>1, ComparableCovers
    <2>3. q \in WantedMounts(containers, needed)
      BY <2>1, <2>2 DEF WantedMounts
    <2> QED BY <1>1, <2>1, <2>3 DEF Above
  <1>3. PICK i \in DOMAIN containers : Sees(containers[i], p) # {}
    BY DEF SeenAt
  <1>4. Above(containers[i], p) # {}
    BY <1>3, SeesIs DEF Deepest
  <1>5. Deepest(own, p) # {}
    <2> HIDE DEF own
    <2> QED BY <1>1, <1>2, <1>4, SomeDeepest
  <1>6. ASSUME NEW d \in Deepest(own, p)
        PROVE  own[d].volume = v
    <2>1. d \in Above(own, p) /\ \A r \in Above(own, p) : Len(Place(r)) <= Len(Place(d))
      BY DEF Deepest
    <2>2. PICK j \in DOMAIN containers :
             d \in DOMAIN containers[j] /\ own[d].volume = containers[j][d].volume
      BY <1>1, <2>1 DEF Above
    <2>3. d \in Above(containers[j], p)
      BY <2>1, <2>2 DEF Above
    <2>4. d \in Deepest(containers[j], p)
      BY <1>2, <2>1, <2>3 DEF Deepest
    <2>5. own[d].volume \in Sees(containers[j], p)
      BY <2>2, <2>4, SeesIs
    <2> QED BY <2>5 DEF SeenAt
  <1> QED BY <1>5, <1>6

(* A mount of its own at TufPath hides none of them: whatever else is above *)
(* a path below TufPath is below TufPath itself.                            *)
LEMMA TufHidesNothing ==
    ASSUME NEW own, DOMAIN own \subseteq Text,
           \A q \in DOMAIN own : Place(q) # Place(TufPath), NEW w,
           NEW p \in Text, Deepest(own, p) # {}
    PROVE  LET mounts == Put(own, TufPath, w) IN
           /\ Deepest(mounts, p) = Deepest(own, p)
           /\ \A d \in Deepest(own, p) : mounts[d] = own[d]
  <1> DEFINE mounts == Put(own, TufPath, w)
  <1>1. /\ DOMAIN mounts = DOMAIN own \cup {TufPath}
        /\ \A q \in DOMAIN own : mounts[q] = own[q]
    BY DEF Put
  <1>2. /\ Above(own, p) \subseteq Above(mounts, p)
        /\ Above(mounts, p) \subseteq Above(own, p) \cup {TufPath}
    BY <1>1 DEF Above
  <1> DEFINE tuf == Place(TufPath)
  <1>3. tuf \in Text /\ Place(p) \in Text
    BY PlacesAre, PlaceText
  <1>4. \A q \in Above(own, p) : /\ q \in DOMAIN own /\ Place(q) \in Text
                                 /\ Place(q) \notin {<<>>, tuf} /\ IsPrefix(Place(q), Place(p))
    BY PlaceText DEF Above
  <1>5. \A q \in Text : Len(q) \in Nat
    BY LenProperties DEF Text
  <1>6. ASSUME NEW q \in Above(own, p), TufPath \in Above(mounts, p)
        PROVE  Len(tuf) < Len(Place(q))
    <2>1. IsPrefix(tuf, Place(p))
      BY <1>6 DEF Above
    <2>2. Len(Place(q)) <= Len(tuf) => IsPrefix(Place(q), tuf)
      BY <1>3, <1>4, <2>1, PrefixesCompare
    <2>3. ~ IsPrefix(Place(q), tuf)
      BY <1>4, AboveTufPath
    <2>4. Len(Place(q)) \in Nat /\ Len(tuf) \in Nat
      BY <1>3, <1>4, <1>5
    <2> QED BY <2>2, <2>3, <2>4
  <1>7. PICK d \in Deepest(own, p) : TRUE
    OBVIOUS
  <1>8. d \in Above(own, p)
    BY <1>7 DEF Deepest
  <1>9. \A q \in Above(own, p) : q # TufPath
    BY <1>4
  <1>10. Len(Place(d)) \in Nat /\ Len(tuf) \in Nat
    BY <1>3, <1>4, <1>5, <1>8
  <1>11. ASSUME NEW q \in Deepest(mounts, p)
         PROVE  q \in Deepest(own, p)
    <2>1. q # TufPath
      <3> SUFFICES ASSUME q = TufPath PROVE FALSE
        OBVIOUS
      <3>1. TufPath \in Above(mounts, p) /\ Len(Place(d)) <= Len(tuf)
        BY <1>2, <1>8 DEF Deepest
      <3> QED BY <1>6, <1>8, <1>10, <3>1
    <2>2. q \in Above(own, p)
      BY <1>2, <2>1 DEF Deepest
    <2> QED BY <1>2, <2>2 DEF Deepest
  <1>12. ASSUME NEW q \in Deepest(own, p)
         PROVE  q \in Deepest(mounts, p)
    <2>1. q \in Above(own, p) /\ \A r \in Above(own, p) : Len(Place(r)) <= Len(Place(q))
      BY DEF Deepest
    <2>2. TufPath \in Above(mounts, p) => Len(tuf) <= Len(Place(q))
      BY <1>3, <1>4, <1>5, <1>6, <2>1
    <2>3. \A r \in Above(mounts, p) : Len(Place(r)) <= Len(Place(q))
      BY <1>2, <2>1, <2>2
    <2> QED BY <1>2, <2>1, <2>3 DEF Deepest
  <1>13. \A q \in Deepest(own, p) : q \in DOMAIN own
    BY <1>4 DEF Deepest
  <1> HIDE DEF mounts
  <1>14. Deepest(mounts, p) = Deepest(own, p)
    BY <1>11, <1>12
  <1>15. \A q \in Deepest(own, p) : mounts[q] = own[q]
    BY <1>1, <1>13
  <1> QED BY <1>14, <1>15 DEF mounts

MountsFor(s, annotations, containers) ==
    agentMounts(s, mergeModelWithAnnotations(s.model, annotations), containers)

(* Annotations do not change which paths are needed.                        *)
LEMMA SamePaths ==
    ASSUME NEW s \in Specs, NEW annotations
    PROVE  collectNeededPaths(mergeModelWithAnnotations(s.model, annotations), s.config)
           = collectNeededPaths(s.model, s.config)
  <1>1. s.model \in Model
    BY InjectionAssumption DEF ModelValidationSpec
  <1>2. /\ mergeModelWithAnnotations(s.model, annotations).path = s.model.path
        /\ mergeModelWithAnnotations(s.model, annotations).signaturePath
           = s.model.signaturePath
    BY <1>1 DEF mergeModelWithAnnotations, Model
  <1> QED BY <1>2 DEF collectNeededPaths

LEMMA NeededTexts ==
    ASSUME NEW s \in Specs
    PROVE  collectNeededPaths(s.model, s.config) \subseteq Text
  <1>1. s.model \in Model /\ s.config \in ValidationConfig
    BY InjectionAssumption DEF ModelValidationSpec
  <1>2. s.model.path \in Text /\ s.model.signaturePath \in Text
    BY <1>1 DEF Model
  <1>3. /\ s.config.pki \in Optional(Text) /\ s.config.publicKey \in Optional(Text)
        /\ s.config.trust \in Optional(Text)
    BY <1>1 DEF ValidationConfig
  <1>4. s.config.pki \subseteq Text /\ s.config.publicKey \subseteq Text
        /\ s.config.trust \subseteq Text
    BY <1>3 DEF Optional
  <1> QED BY <1>2, <1>4 DEF collectNeededPaths

LEMMA MountsTyped ==
    ASSUME NEW s \in Specs, NEW annotations, NEW containers, IsContainers(containers)
    PROVE  IsMap(MountsFor(s, annotations, containers), Text, Mount)
  <1> DEFINE own == filterVolumeMounts(containers, collectNeededPaths(s.model, s.config))
             w   == [volume |-> "sigstore-tuf-cache", readOnly |-> FALSE]
  <1>1. IsMap(own, Text, Mount)
    BY FilterIs
  <1>2. MountsFor(s, annotations, containers) \in {own, Put(own, TufPath, w)}
    BY SamePaths DEF MountsFor, agentMounts
  <1>3. w \in Mount /\ TufPath \in Text
    BY PlacesAre, WordsAssumption DEF Mount
  <1> HIDE DEF own, w
  <1>4. IsMap(Put(own, TufPath, w), Text, Mount)
    BY <1>1, <1>3 DEF Put, IsMap
  <1> QED BY <1>1, <1>2, <1>4

LEMMA MountsSee ==
    ASSUME NEW s \in Specs, NEW annotations, NEW containers, IsContainers(containers),
           NEW p \in collectNeededPaths(s.model, s.config), NEW v,
           SeenAt(containers, p) = {v}, AllComparable(containers, p)
    PROVE  Sees(MountsFor(s, annotations, containers), p) = {v}
  <1> DEFINE own == filterVolumeMounts(containers, collectNeededPaths(s.model, s.config))
             w   == [volume |-> "sigstore-tuf-cache", readOnly |-> FALSE]
  <1>1. p \in Text
    BY NeededTexts
  <1>2. /\ Deepest(own, p) # {}
        /\ \A d \in Deepest(own, p) : own[d].volume = v
    BY <1>1, OwnSees
  <1>3. DOMAIN own \subseteq Text /\ \A q \in DOMAIN own : Place(q) # Place(TufPath)
    BY FilterIs DEF IsMap
  <1>4. MountsFor(s, annotations, containers) \in {own, Put(own, TufPath, w)}
    BY SamePaths DEF MountsFor, agentMounts
  <1> HIDE DEF own, w
  <1>5. /\ Deepest(Put(own, TufPath, w), p) = Deepest(own, p)
        /\ \A d \in Deepest(own, p) : Put(own, TufPath, w)[d] = own[d]
    BY <1>1, <1>2, <1>3, TufHidesNothing
  <1>6. Sees(own, p) = {v}
    BY <1>2, SeesIs
  <1>7. Sees(Put(own, TufPath, w), p) = {v}
    BY <1>2, <1>5, SeesIs
  <1> QED BY <1>4, <1>6, <1>7

-----------------------------------------------------------------------------
(* ParseArgs is a recursion over the arguments *)

ReadArg(cfg, arg)  == Read(cfg, arg, FALSE)
ReadLast(cfg, arg) == Read(cfg, arg, TRUE)

(* What ParseArgs has read after the i-th argument.                         *)
Parses(read, args) ==
    /\ \A i \in 3 .. Len(args) - 1 : read[i] = ReadArg(read[i - 1], args[i])
    /\ read[Len(args)] = ReadLast(read[Len(args) - 1], args[Len(args)])

LEMMA ParseArgsIs ==
    ASSUME NEW args, Len(args) \in Nat, Len(args) >= 3, args[1] = <<"verify">>,
           NEW method \in Method, args[2] = <<method>>
    PROVE  \E read : /\ Parses(read, args)
                     /\ read[2] = NewConfig(method)
                     /\ LET cfg == read[Len(args)] IN
                        ParseArgs(args) = IF cfg.failed \/ cfg.value # "none" \/ cfg.text["model"] = <<>>
                                          THEN {} ELSE {cfg}
  <1> DEFINE n == Len(args)
             Turn(g, i) == IF i = 2 THEN NewConfig(args[2][1]) ELSE Read(g[i - 1], args[i], i = n)
             Upto(m) == \E g : g = [i \in 2 .. m + 2 |-> Turn(g, i)]
             T == {m \in 0 .. n - 2 : Upto(m)}
  <1> HIDE DEF Turn
  <1>1. n \in Nat /\ n - 2 \in Nat
    OBVIOUS
  <1>2. Upto(0)
    <2> DEFINE g == [i \in 2 .. 0 + 2 |-> NewConfig(args[2][1])]
    <2>1. g = [i \in 2 .. 0 + 2 |-> Turn(g, i)]
      BY DEF Turn
    <2> QED BY <2>1
  <1>3. ASSUME NEW m \in 1 .. n - 2, Upto(m - 1) PROVE Upto(m)
    <2>1. PICK g : g = [i \in 2 .. m + 1 |-> Turn(g, i)]
      <3>1. m - 1 + 2 = m + 1
        OBVIOUS
      <3> QED BY <1>3, <3>1
    <2>2. PICK h : h = [i \in 2 .. m + 2 |-> IF i = m + 2 THEN Turn(g, m + 2) ELSE g[i]]
      OBVIOUS
    <2>3. \A i \in 2 .. m + 1 : h[i] = g[i] /\ g[i] = Turn(g, i)
      <3>1. \A i \in 2 .. m + 1 : g[i] = Turn(g, i)
        BY <2>1, Zenon
      <3>2. \A i \in 2 .. m + 1 : i \in 2 .. m + 2 /\ i # m + 2
        BY <1>1
      <3>3. \A i \in 2 .. m + 1 : h[i] = g[i]
        BY <2>2, <3>2, Zenon
      <3> QED BY <3>1, <3>3
    <2>4. h[m + 2] = Turn(g, m + 2)
      BY <1>1, <2>2
    <2>5. \A i \in 2 .. m + 2 : Turn(h, i) = Turn(g, i)
      <3> SUFFICES ASSUME NEW i \in 2 .. m + 2, i # 2 PROVE h[i - 1] = g[i - 1]
        BY DEF Turn
      <3>1. i - 1 \in 2 .. m + 1
        BY <1>1
      <3> QED BY <2>3, <3>1
    <2>6. \A i \in 2 .. m + 2 : h[i] = Turn(h, i)
      BY <1>1, <2>3, <2>4, <2>5
    <2>7. h = [i \in 2 .. m + 2 |-> Turn(h, i)]
      BY <2>2, <2>6
    <2> QED BY <2>7
  <1>4. Upto(n - 2)
    <2> HIDE DEF Upto
    <2>1. 0 \in T /\ \A i \in 1 .. n - 2 : i - 1 \in T => i \in T
      BY <1>2, <1>3
    <2> HIDE DEF T
    <2>2. \A i \in 0 .. n - 2 : i \in T
      BY <1>1, <2>1, Upwards, Zenon
    <2>3. n - 2 \in T
      BY <1>1, <2>2
    <2> QED BY <2>3 DEF T
  <1> DEFINE read == CHOOSE g : g = [i \in 2 .. n |-> Turn(g, i)]
  <1>5. read = [i \in 2 .. n |-> Turn(read, i)]
    <2>1. n - 2 + 2 = n
      OBVIOUS
    <2> QED BY <1>4, <2>1
  <1>6. LET cfg == read[n] IN
        ParseArgs(args) = IF cfg.failed \/ cfg.value # "none" \/ cfg.text["model"] = <<>>
                          THEN {} ELSE {cfg}
    BY DEF ParseArgs, Turn
  <1> HIDE DEF read
  <1>7. \A i \in 2 .. n : read[i] = Turn(read, i)
    BY <1>5
  <1>8. read[2] = NewConfig(method)
    BY <1>7 DEF Turn
  <1>9. Parses(read, args)
    <2>1. \A i \in 3 .. n - 1 : i \in 2 .. n /\ i # 2 /\ ~(i = n)
      OBVIOUS
    <2>2. n \in 2 .. n /\ n # 2
      <3>1. n \in Nat /\ n >= 3
        BY <1>1
      <3> HIDE DEF n
      <3> QED BY <3>1
    <2>3. ASSUME NEW i \in 3 .. n - 1 PROVE read[i] = ReadArg(read[i - 1], args[i])
      <3>1. read[i] = Read(read[i - 1], args[i], i = n)
        BY <1>7, <2>1 DEF Turn
      <3>2. (i = n) = FALSE
        BY <2>1
      <3> QED BY <3>1, <3>2, Zenon DEF ReadArg
    <2>4. read[n] = Read(read[n - 1], args[n], n = n)
      BY <1>7, <2>2 DEF Turn
    <2>5. (n = n) = TRUE
      OBVIOUS
    <2>6. read[n] = ReadLast(read[n - 1], args[n])
      BY <2>4, <2>5, Zenon DEF ReadLast
    <2> QED BY <2>3, <2>6 DEF Parses
  <1> QED BY <1>6, <1>8, <1>9

-----------------------------------------------------------------------------
(* Reading arguments *)

(* What has been read, between two flags.                                   *)
Cfg(method, text, paths, switches) ==
    [method |-> method, text |-> text, ignorePaths |-> paths, switches |-> switches,
     value |-> "none", failed |-> FALSE]

TextOf   == [Field -> Text]
SwitchOf == [Switch -> SUBSET BOOLEAN]

LEMMA ReadSignature ==
    ASSUME NEW m, NEW t \in TextOf, NEW p, NEW o, NEW arg,
           Is(arg, "--signature=")
    PROVE  ReadArg(Cfg(m, t, p, o), arg) = Cfg(m, [t EXCEPT !["signature"] = Tail(arg)], p, o)
  BY DEF ReadArg, Read, Cfg

LEMMA ReadText ==
    ASSUME NEW m, NEW t \in TextOf, NEW p, NEW o, NEW flag, NEW arg,
           ~Is(flag, "--signature="), Value(flag) \in Field
    PROVE  ReadArg(ReadArg(Cfg(m, t, p, o), flag), arg)
           = Cfg(m, [t EXCEPT ![Value(flag)] = arg], p, o)
  BY ZenonT(30) DEF ReadArg, Read, Cfg, Field

LEMMA ReadIgnored ==
    ASSUME NEW m, NEW t, NEW p, NEW o, NEW flag, NEW arg,
           ~Is(flag, "--signature="), Value(flag) = "ignorePaths"
    PROVE  ReadArg(ReadArg(Cfg(m, t, p, o), flag), arg) = Cfg(m, t, Append(p, arg), o)
  BY DEF ReadArg, Read, Cfg

On  == {TRUE}
Off == {FALSE}

(* A flag that sets a switch.                                               *)
SetsTo(flag, switch, set) ==
    /\ ~Is(flag, "--signature=") /\ Value(flag) = "none" /\ SwitchSet(flag) # <<>>
    /\ SwitchSet(flag)[1] = switch /\ {SwitchSet(flag)[2]} = set

WordSets(word, switch, set) == SetsTo(<<word>>, switch, set)

LEMMA ReadSwitch ==
    ASSUME NEW m, NEW t, NEW p, NEW o \in SwitchOf, NEW flag, NEW s \in Switch, NEW set,
           SetsTo(flag, s, set)
    PROVE  ReadArg(Cfg(m, t, p, o), flag) = Cfg(m, t, p, [o EXCEPT ![s] = set])
  <1>1. PICK cfg : cfg = Cfg(m, t, p, o)
    OBVIOUS
  <1>2. cfg.value = "none"
    BY <1>1 DEF Cfg
  <1>3. ReadArg(cfg, flag) = [cfg EXCEPT !.switches[s] = set]
    BY <1>2 DEF ReadArg, Read, SetsTo
  <1> QED BY <1>1, <1>3 DEF Cfg

(* What an agent takes for the path of the model, not for a flag.           *)
ReadsAsPath(path) ==
    path # <<>> /\ ~Is(path, "--signature=") /\ Value(path) = "none" /\ SwitchSet(path) = <<>>

LEMMA ReadModel ==
    ASSUME NEW m, NEW t \in TextOf, NEW p, NEW o, NEW arg, ReadsAsPath(arg)
    PROVE  ReadLast(Cfg(m, t, p, o), arg) = Cfg(m, [t EXCEPT !["model"] = arg], p, o)
  BY DEF ReadLast, Read, Cfg, ReadsAsPath

(* What the flags are taken for.                                            *)
LEMMA FlagsAre ==
    /\ Value(<<"--identity">>) = "identity" /\ Value(<<"--identity_provider">>) = "identityProvider"
    /\ Value(<<"--public_key">>) = "publicKey"
    /\ Value(<<"--certificate_chain">>) = "certificateChain"
    /\ Value(<<"--trust_config">>) = "trustConfig" /\ Value(<<"--ignore-paths">>) = "ignorePaths"
    /\ \A w \in {"--identity", "--identity_provider", "--public_key", "--certificate_chain",
                 "--trust_config", "--ignore-paths", "--ignore-git-paths", "--no-ignore-git-paths",
                 "--ignore_unsigned_files", "--no-ignore_unsigned_files", "--allow_symlinks"} :
          ~Is(<<w>>, "--signature=")
  BY DEF Value, Is

LEMMA SwitchesAre ==
    /\ WordSets("--ignore-git-paths", "ignoreGitPaths", On)
    /\ WordSets("--no-ignore-git-paths", "ignoreGitPaths", Off)
    /\ WordSets("--ignore_unsigned_files", "ignoreUnsignedFiles", On)
    /\ WordSets("--no-ignore_unsigned_files", "ignoreUnsignedFiles", Off)
    /\ WordSets("--allow_symlinks", "allowSymlinks", On)
  <1>1. \A w \in {"--ignore-git-paths", "--no-ignore-git-paths", "--ignore_unsigned_files",
                  "--no-ignore_unsigned_files", "--allow_symlinks"} :
           Value(<<w>>) = "none" /\ ~Is(<<w>>, "--signature=")
    BY DEF Value, Is
  <1>2. /\ SwitchSet(<<"--ignore-git-paths">>) = <<"ignoreGitPaths", TRUE>>
        /\ SwitchSet(<<"--no-ignore-git-paths">>) = <<"ignoreGitPaths", FALSE>>
        /\ SwitchSet(<<"--ignore_unsigned_files">>) = <<"ignoreUnsignedFiles", TRUE>>
        /\ SwitchSet(<<"--no-ignore_unsigned_files">>) = <<"ignoreUnsignedFiles", FALSE>>
        /\ SwitchSet(<<"--allow_symlinks">>) = <<"allowSymlinks", TRUE>>
    BY DEF SwitchSet
  <1>3. ASSUME NEW x, NEW s, NEW b, x = <<s, b>>
        PROVE  x # <<>> /\ x[1] = s /\ {x[2]} = {b}
    BY <1>3
  <1>4. ASSUME NEW flag, NEW s, NEW b, SwitchSet(flag) = <<s, b>>, Value(flag) = "none",
               ~Is(flag, "--signature=")
        PROVE  SetsTo(flag, s, {b})
    BY <1>3, <1>4, Zenon DEF SetsTo
  <1>5. \A w \in {"--ignore-git-paths", "--ignore_unsigned_files", "--allow_symlinks"} :
           \A s : SwitchSet(<<w>>) = <<s, TRUE>> => SetsTo(<<w>>, s, On)
    BY <1>1, <1>4, Zenon DEF On
  <1>6. \A w \in {"--no-ignore-git-paths", "--no-ignore_unsigned_files"} :
           \A s : SwitchSet(<<w>>) = <<s, FALSE>> => SetsTo(<<w>>, s, Off)
    BY <1>1, <1>4, Zenon DEF Off
  <1> QED BY <1>2, <1>5, <1>6, Zenon DEF WordSets

(* The arguments after the n-th are those of seg, and more follow.          *)
Spans(args, n, seg) == /\ n + Len(seg) < Len(args)
                       /\ \A j \in 1 .. Len(seg) : args[n + j] = seg[j]

LEMMA SpansParts ==
    ASSUME NEW args, Len(args) \in Nat, NEW n \in Nat, NEW S, NEW s \in Seq(S), NEW t \in Seq(S),
           Spans(args, n, s \o t)
    PROVE  /\ Spans(args, n, s) /\ Spans(args, n + Len(s), t)
           /\ Len(s \o t) = Len(s) + Len(t) /\ Len(s) \in Nat /\ Len(t) \in Nat
  <1>1. Len(s) \in Nat /\ Len(t) \in Nat /\ Len(s \o t) = Len(s) + Len(t)
    BY LenProperties, ConcatProperties
  <1>2. ASSUME NEW j \in 1 .. Len(s) PROVE args[n + j] = s[j]
    <2>1. (s \o t)[j] = s[j] /\ j \in 1 .. Len(s \o t)
      BY <1>1, ConcatProperties
    <2> QED BY <2>1 DEF Spans
  <1>3. ASSUME NEW j \in 1 .. Len(t) PROVE args[n + Len(s) + j] = t[j]
    <2>1. Len(s) + j \in 1 .. Len(s \o t) /\ Len(s) + j - Len(s) = j /\ ~(Len(s) + j <= Len(s))
      BY <1>1
    <2>2. (s \o t)[Len(s) + j] = t[j]
      BY <1>1, <2>1, ConcatProperties
    <2>3. args[n + (Len(s) + j)] = (s \o t)[Len(s) + j]
      BY <2>1 DEF Spans
    <2>4. n + (Len(s) + j) = n + Len(s) + j
      BY <1>1
    <2> QED BY <2>2, <2>3, <2>4
  <1> QED BY <1>1, <1>2, <1>3 DEF Spans

(* The first n arguments have been read.                                    *)
ReadSoFar(args, read, n, m, t, p, o) ==
    /\ Len(args) \in Nat /\ Parses(read, args) /\ n \in Nat /\ n >= 2
    /\ t \in TextOf /\ o \in SwitchOf /\ read[n] = Cfg(m, t, p, o)

(* A flag and its value, and a flag alone, somewhere among the arguments.   *)
LEMMA Take ==
    ASSUME NEW args, Len(args) \in Nat, NEW read, Parses(read, args),
           NEW n \in Nat, n >= 2, n + 1 < Len(args)
    PROVE  read[n + 1] = ReadArg(read[n], args[n + 1])
  <1>1. n + 1 \in 3 .. Len(args) - 1 /\ n + 1 - 1 = n
    OBVIOUS
  <1>2. read[n + 1] = ReadArg(read[n + 1 - 1], args[n + 1])
    BY <1>1 DEF Parses
  <1> QED BY <1>1, <1>2

LEMMA TakeTwo ==
    ASSUME NEW args, Len(args) \in Nat, NEW read, Parses(read, args),
           NEW n \in Nat, n >= 2, n + 2 < Len(args)
    PROVE  read[n + 2] = ReadArg(ReadArg(read[n], args[n + 1]), args[n + 2])
  <1>1. n + 1 \in Nat /\ n + 1 >= 2 /\ n + 1 < Len(args) /\ n + 1 + 1 = n + 2
    OBVIOUS
  <1>2. read[n + 1] = ReadArg(read[n], args[n + 1])
    BY <1>1, Take
  <1>3. read[n + 1 + 1] = ReadArg(read[n + 1], args[n + 1 + 1])
    BY <1>1, Take
  <1> QED BY <1>1, <1>2, <1>3

LEMMA TakeText ==
    ASSUME NEW args, Len(args) \in Nat, NEW read, Parses(read, args),
           NEW n \in Nat, n >= 2, n + 2 < Len(args),
           NEW m, NEW t \in TextOf, NEW p, NEW o, read[n] = Cfg(m, t, p, o),
           ~Is(args[n + 1], "--signature="), Value(args[n + 1]) \in Field
    PROVE  read[n + 2] = Cfg(m, [t EXCEPT ![Value(args[n + 1])] = args[n + 2]], p, o)
  BY TakeTwo, ReadText

LEMMA TakeIgnored ==
    ASSUME NEW args, Len(args) \in Nat, NEW read, Parses(read, args),
           NEW n \in Nat, n >= 2, n + 2 < Len(args),
           NEW m, NEW t, NEW p, NEW o, read[n] = Cfg(m, t, p, o),
           args[n + 1] = <<"--ignore-paths">>
    PROVE  read[n + 2] = Cfg(m, t, Append(p, args[n + 2]), o)
  <1>1. ~Is(args[n + 1], "--signature=") /\ Value(args[n + 1]) = "ignorePaths"
    BY FlagsAre
  <1> QED BY <1>1, TakeTwo, ReadIgnored

(* The method, and who is to be trusted.                                    *)
NoText   == [f \in Field |-> <<>>]
NoSwitch == [s \in Switch |-> {}]

MethodOf(config) == IF config.sigstore # {} THEN "sigstore"
                    ELSE IF config.publicKey # {} THEN "key" ELSE "certificate"

(* The texts a verifier of the method gets, but for those that may be given *)
(* to every method.                                                         *)
MethodTexts(config, t) ==
    IF config.sigstore # {}
    THEN /\ t["identity"] = Only(config.sigstore).identity
         /\ t["identityProvider"] = Only(config.sigstore).issuer
    ELSE IF config.publicKey # {} THEN t["publicKey"] = Only(config.publicKey)
    ELSE t["certificateChain"] = Only(config.pki)

LEMMA OnlyIs ==
    ASSUME NEW S, NEW o \in Optional(S), o # {}
    PROVE  Only(o) \in S /\ o = {Only(o)}
  BY DEF Optional, Only

LEMMA ConfigHasOne ==
    ASSUME NEW config \in ValidationConfig
    PROVE  /\ config.sigstore # {} => /\ Only(config.sigstore) \in [identity : Text, issuer : Text]
                                      /\ config.sigstore = {Only(config.sigstore)}
           /\ config.publicKey # {} => /\ Only(config.publicKey) \in Text
                                       /\ config.publicKey = {Only(config.publicKey)}
           /\ config.pki # {} => Only(config.pki) \in Text /\ config.pki = {Only(config.pki)}
           /\ config.trust # {} => Only(config.trust) \in Text /\ config.trust = {Only(config.trust)}
           /\ config.sigstore = {} /\ config.publicKey = {} => config.pki # {}
           /\ config.sigstore # {} => config.publicKey = {} /\ config.pki = {}
           /\ config.publicKey # {} => config.pki = {}
  <1>1. /\ config.sigstore \in Optional([identity : Text, issuer : Text])
        /\ config.publicKey \in Optional(Text) /\ config.pki \in Optional(Text)
        /\ config.trust \in Optional(Text)
    BY DEF ValidationConfig
  <1>2. PICK given \in {"sigstore", "publicKey", "pki"} :
            \A m \in {"sigstore", "publicKey", "pki"} : config[m] # {} <=> m = given
    BY DEF ValidationConfig
  <1>3. /\ config.sigstore # {} <=> given = "sigstore"
        /\ config.publicKey # {} <=> given = "publicKey"
        /\ config.pki # {} <=> given = "pki"
    BY <1>2
  <1> QED BY <1>1, <1>3, OnlyIs

MethodRead(args, read, n, config, signaturePath) ==
    \E t \in TextOf :
        /\ ReadSoFar(args, read, n, MethodOf(config), t, <<>>, NoSwitch)
        /\ t["signature"] = signaturePath /\ t["trustConfig"] = <<>> /\ MethodTexts(config, t)

LEMMA ReadsMethod ==
    ASSUME NEW config \in ValidationConfig, NEW signature, NEW sig,
           Is(signature, "--signature="), Tail(signature) = sig, sig \in Text,
           NEW args, NEW read,
           ReadSoFar(args, read, 2, MethodOf(config), NoText, <<>>, NoSwitch),
           Spans(args, 1, MethodArgs(config, signature))
    PROVE  MethodRead(args, read, 1 + Len(MethodArgs(config, signature)), config, sig)
  <1> DEFINE M  == MethodArgs(config, signature)
             m  == MethodOf(config)
             t1 == [NoText EXCEPT !["signature"] = sig]
  <1>0. /\ Len(args) \in Nat /\ Parses(read, args) /\ NoSwitch \in SwitchOf
        /\ read[2] = Cfg(m, NoText, <<>>, NoSwitch)
    BY DEF ReadSoFar
  <1>1. NoText \in TextOf /\ t1 \in TextOf /\ t1["signature"] = sig /\ t1["trustConfig"] = <<>>
    <2>1. <<>> \in Text
      BY DEF Text
    <2> QED BY <2>1 DEF NoText, TextOf, Field
  <1>2. ASSUME Len(M) \in Nat, Len(M) >= 4, args[3] = signature PROVE read[3] = Cfg(m, t1, <<>>, NoSwitch)
    <2>1. 3 \in 3 .. Len(args) - 1 /\ 3 - 1 = 2
      <3>1. 1 + Len(M) < Len(args)
        BY DEF Spans
      <3> HIDE DEF M
      <3> QED BY <1>0, <1>2, <3>1
    <2>2. read[3] = ReadArg(read[2], signature)
      BY <1>0, <1>2, <2>1 DEF Parses
    <2> QED BY <1>0, <1>1, <2>2, ReadSignature
  <1> HIDE DEF m, t1
  <1>3. CASE config.sigstore # {}
    <2> DEFINE id == Only(config.sigstore).identity
               by == Only(config.sigstore).issuer
               t2 == [t1 EXCEPT !["identity"] = id]
               t3 == [t2 EXCEPT !["identityProvider"] = by]
    <2>1. M = << <<"sigstore">>, signature, <<"--identity">>, id, <<"--identity_provider">>, by >>
      BY <1>3 DEF MethodArgs
    <2>2. id \in Text /\ by \in Text
      BY <1>3, ConfigHasOne
    <2> HIDE DEF id, by
    <2>3. /\ Len(M) = 6 /\ M[2] = signature /\ M[3] = <<"--identity">> /\ M[4] = id
          /\ M[5] = <<"--identity_provider">> /\ M[6] = by
      BY <2>1
    <2> HIDE DEF M
    <2>4. /\ args[3] = signature /\ args[4] = <<"--identity">> /\ args[5] = id
          /\ args[6] = <<"--identity_provider">> /\ args[7] = by /\ 7 < Len(args)
      <3>1. \A j \in 1 .. 6 : args[1 + j] = M[j]
        BY <2>3 DEF M, Spans
      <3>2. 1 + 6 < Len(args)
        BY <2>3 DEF M, Spans
      <3> QED BY <2>3, <3>1, <3>2
    <2>5. read[3] = Cfg(m, t1, <<>>, NoSwitch)
      BY <1>2, <2>3, <2>4
    <2>6. read[5] = Cfg(m, t2, <<>>, NoSwitch)
      <3>1. ~Is(args[3 + 1], "--signature=") /\ Value(args[3 + 1]) = "identity" /\ args[3 + 2] = id
        <4>1. args[3 + 1] = <<"--identity">> /\ args[3 + 2] = id
          BY <2>4
        <4> QED BY <4>1, FlagsAre
      <3>2. 3 + 2 < Len(args) /\ "identity" \in Field /\ 3 + 2 = 5
        BY <2>4 DEF Field
      <3>3. read[3 + 2] = Cfg(m, [t1 EXCEPT ![Value(args[3 + 1])] = args[3 + 2]], <<>>, NoSwitch)
        BY <1>1, <2>5, <3>1, <3>2, <1>0, TakeText
      <3> QED BY <3>1, <3>2, <3>3
    <2>7. t2 \in TextOf /\ t3 \in TextOf
      BY <1>1, <2>2 DEF TextOf
    <2>8. read[7] = Cfg(m, t3, <<>>, NoSwitch)
      <3> HIDE DEF t2
      <3>1. /\ ~Is(args[5 + 1], "--signature=") /\ Value(args[5 + 1]) = "identityProvider"
            /\ args[5 + 2] = by
        <4>1. args[5 + 1] = <<"--identity_provider">> /\ args[5 + 2] = by
          BY <2>4
        <4> QED BY <4>1, FlagsAre
      <3>2. 5 + 2 < Len(args) /\ "identityProvider" \in Field /\ 5 + 2 = 7
        BY <2>4 DEF Field
      <3>3. read[5 + 2] = Cfg(m, [t2 EXCEPT ![Value(args[5 + 1])] = args[5 + 2]], <<>>, NoSwitch)
        BY <2>6, <2>7, <3>1, <3>2, <1>0, TakeText
      <3> QED BY <3>1, <3>2, <3>3
    <2>9. /\ t3["identity"] = id /\ t3["identityProvider"] = by
          /\ t3["signature"] = sig /\ t3["trustConfig"] = <<>>
      BY <1>1 DEF TextOf, Field
    <2>10. MethodTexts(config, t3)
      <3> HIDE DEF t3
      <3> QED BY <1>3, <2>9 DEF MethodTexts, id, by
    <2>11. 1 + Len(M) = 7
      BY <2>3
    <2> HIDE DEF t3
    <2>12. ReadSoFar(args, read, 1 + Len(M), m, t3, <<>>, NoSwitch)
      BY <1>0, <2>7, <2>8, <2>11 DEF ReadSoFar
    <2>13. t3 \in TextOf
      BY <2>7
    <2> QED BY <2>9, <2>10, <2>12, <2>13, Zenon DEF M, m, MethodRead
  <1>4. CASE config.sigstore = {} /\ config.publicKey # {}
    <2> DEFINE key == Only(config.publicKey)
               t2  == [t1 EXCEPT !["publicKey"] = key]
    <2>1. M = << <<"key">>, signature, <<"--public_key">>, key >>
      BY <1>4 DEF MethodArgs
    <2>2. key \in Text
      BY <1>4, ConfigHasOne
    <2> HIDE DEF key
    <2>3. Len(M) = 4 /\ M[2] = signature /\ M[3] = <<"--public_key">> /\ M[4] = key
      BY <2>1
    <2> HIDE DEF M
    <2>4. args[3] = signature /\ args[4] = <<"--public_key">> /\ args[5] = key /\ 5 < Len(args)
      <3>1. \A j \in 1 .. 4 : args[1 + j] = M[j]
        BY <2>3 DEF M, Spans
      <3>2. 1 + 4 < Len(args)
        BY <2>3 DEF M, Spans
      <3> QED BY <2>3, <3>1, <3>2
    <2>5. read[3] = Cfg(m, t1, <<>>, NoSwitch)
      BY <1>2, <2>3, <2>4
    <2>6. read[5] = Cfg(m, t2, <<>>, NoSwitch)
      <3>1. ~Is(args[3 + 1], "--signature=") /\ Value(args[3 + 1]) = "publicKey" /\ args[3 + 2] = key
        <4>1. args[3 + 1] = <<"--public_key">> /\ args[3 + 2] = key
          BY <2>4
        <4> QED BY <4>1, FlagsAre
      <3>2. 3 + 2 < Len(args) /\ "publicKey" \in Field /\ 3 + 2 = 5
        BY <2>4 DEF Field
      <3>3. read[3 + 2] = Cfg(m, [t1 EXCEPT ![Value(args[3 + 1])] = args[3 + 2]], <<>>, NoSwitch)
        BY <1>1, <2>5, <3>1, <3>2, <1>0, TakeText
      <3> QED BY <3>1, <3>2, <3>3
    <2>7. t2 \in TextOf
      BY <1>1, <2>2 DEF TextOf
    <2>8. t2["publicKey"] = key /\ t2["signature"] = sig /\ t2["trustConfig"] = <<>>
      BY <1>1 DEF TextOf, Field
    <2> HIDE DEF t2
    <2>9. MethodTexts(config, t2)
      BY <1>4, <2>8 DEF MethodTexts, key
    <2>10. 1 + Len(M) = 5
      BY <2>3
    <2>11. ReadSoFar(args, read, 1 + Len(M), m, t2, <<>>, NoSwitch)
      BY <1>0, <2>6, <2>7, <2>10 DEF ReadSoFar
    <2> QED BY <2>7, <2>8, <2>9, <2>11, Zenon DEF M, m, MethodRead
  <1>5. CASE config.sigstore = {} /\ config.publicKey = {}
    <2> DEFINE key == Only(config.pki)
               t2  == [t1 EXCEPT !["certificateChain"] = key]
    <2>1. M = << <<"certificate">>, signature, <<"--certificate_chain">>, key >>
      BY <1>5 DEF MethodArgs
    <2>2. key \in Text
      BY <1>5, ConfigHasOne
    <2> HIDE DEF key
    <2>3. Len(M) = 4 /\ M[2] = signature /\ M[3] = <<"--certificate_chain">> /\ M[4] = key
      BY <2>1
    <2> HIDE DEF M
    <2>4. /\ args[3] = signature /\ args[4] = <<"--certificate_chain">> /\ args[5] = key
          /\ 5 < Len(args)
      <3>1. \A j \in 1 .. 4 : args[1 + j] = M[j]
        BY <2>3 DEF M, Spans
      <3>2. 1 + 4 < Len(args)
        BY <2>3 DEF M, Spans
      <3> QED BY <2>3, <3>1, <3>2
    <2>5. read[3] = Cfg(m, t1, <<>>, NoSwitch)
      BY <1>2, <2>3, <2>4
    <2>6. read[5] = Cfg(m, t2, <<>>, NoSwitch)
      <3>1. /\ ~Is(args[3 + 1], "--signature=") /\ Value(args[3 + 1]) = "certificateChain"
            /\ args[3 + 2] = key
        <4>1. args[3 + 1] = <<"--certificate_chain">> /\ args[3 + 2] = key
          BY <2>4
        <4> QED BY <4>1, FlagsAre
      <3>2. 3 + 2 < Len(args) /\ "certificateChain" \in Field /\ 3 + 2 = 5
        BY <2>4 DEF Field
      <3>3. read[3 + 2] = Cfg(m, [t1 EXCEPT ![Value(args[3 + 1])] = args[3 + 2]], <<>>, NoSwitch)
        BY <1>1, <2>5, <3>1, <3>2, <1>0, TakeText
      <3> QED BY <3>1, <3>2, <3>3
    <2>7. t2 \in TextOf
      BY <1>1, <2>2 DEF TextOf
    <2>8. t2["certificateChain"] = key /\ t2["signature"] = sig /\ t2["trustConfig"] = <<>>
      BY <1>1 DEF TextOf, Field
    <2> HIDE DEF t2
    <2>9. MethodTexts(config, t2)
      BY <1>5, <2>8 DEF MethodTexts, key
    <2>10. 1 + Len(M) = 5
      BY <2>3
    <2>11. ReadSoFar(args, read, 1 + Len(M), m, t2, <<>>, NoSwitch)
      BY <1>0, <2>6, <2>7, <2>10 DEF ReadSoFar
    <2> QED BY <2>7, <2>8, <2>9, <2>11, Zenon DEF M, m, MethodRead
  <1> QED BY <1>3, <1>4, <1>5

(* Who else is to be trusted.                                               *)
TrustArgs(config) ==
    IF config.trust = {} THEN <<>> ELSE << <<"--trust_config">>, Only(config.trust) >>

TrustRead(args, read, n, m, t, p, o, config) ==
    \E u \in TextOf :
        /\ ReadSoFar(args, read, n, m, u, p, o)
        /\ u["trustConfig"] = IF config.trust = {} THEN <<>> ELSE Only(config.trust)
        /\ \A f \in Field : f # "trustConfig" => u[f] = t[f]

LEMMA ReadsTrust ==
    ASSUME NEW config \in ValidationConfig,
           NEW args, NEW read, NEW n, NEW m, NEW t, NEW p, NEW o,
           ReadSoFar(args, read, n, m, t, p, o), t["trustConfig"] = <<>>,
           Spans(args, n, TrustArgs(config))
    PROVE  TrustRead(args, read, n + Len(TrustArgs(config)), m, t, p, o, config)
  <1>0. /\ Len(args) \in Nat /\ Parses(read, args) /\ n \in Nat /\ n >= 2
        /\ t \in TextOf /\ o \in SwitchOf /\ read[n] = Cfg(m, t, p, o)
    BY DEF ReadSoFar
  <1>1. CASE config.trust = {}
    <2>1. TrustArgs(config) = <<>>
      BY <1>1 DEF TrustArgs
    <2>2. n + Len(TrustArgs(config)) = n
      BY <1>0, <2>1
    <2>3. ReadSoFar(args, read, n + Len(TrustArgs(config)), m, t, p, o)
      BY <2>2, Zenon
    <2> QED BY <1>0, <1>1, <2>3 DEF TrustRead
  <1>2. CASE config.trust # {}
    <2> DEFINE x == Only(config.trust)
               u == [t EXCEPT !["trustConfig"] = x]
    <2>1. TrustArgs(config) = << <<"--trust_config">>, x >>
      BY <1>2 DEF TrustArgs
    <2>2. x \in Text
      BY <1>2, ConfigHasOne
    <2> HIDE DEF x
    <2>3. /\ args[n + 1] = <<"--trust_config">> /\ args[n + 2] = x /\ n + 2 < Len(args)
          /\ Len(TrustArgs(config)) = 2
      BY <2>1 DEF Spans
    <2>4. /\ ~Is(args[n + 1], "--signature=") /\ Value(args[n + 1]) = "trustConfig"
          /\ "trustConfig" \in Field
      BY <2>3, FlagsAre DEF Field
    <2>5. read[n + 2] = Cfg(m, [t EXCEPT ![Value(args[n + 1])] = args[n + 2]], p, o)
      <3>1. n + 2 < Len(args)
        BY <2>3
      <3> HIDE <2>3
      <3> QED BY <1>0, <2>4, <3>1, TakeText
    <2>6. read[n + 2] = Cfg(m, u, p, o)
      BY <2>3, <2>4, <2>5
    <2>7. /\ u \in TextOf /\ u["trustConfig"] = x
          /\ \A f \in Field : f # "trustConfig" => u[f] = t[f]
      BY <1>0, <2>2 DEF TextOf, Field
    <2> HIDE DEF u
    <2>8. ReadSoFar(args, read, n + Len(TrustArgs(config)), m, u, p, o)
      <3>1. n + Len(TrustArgs(config)) = n + 2
        BY <2>3
      <3>2. ReadSoFar(args, read, n + 2, m, u, p, o)
        BY <1>0, <2>6, <2>7 DEF ReadSoFar
      <3> QED BY <3>1, <3>2, Zenon
    <2> QED BY <1>2, <2>7, <2>8 DEF x, TrustRead
  <1> QED BY <1>1, <1>2

(* The paths to ignore.                                                     *)
IgnoreArgs(paths) ==
    [i \in 1 .. 2 * Len(paths) |-> IF i % 2 = 1 THEN <<"--ignore-paths">> ELSE paths[i \div 2]]

LEMMA IgnoreArgsAre ==
    ASSUME NEW paths \in Seq(Text)
    PROVE  /\ Len(IgnoreArgs(paths)) = 2 * Len(paths)
           /\ \A i \in 1 .. Len(paths) : /\ IgnoreArgs(paths)[2 * i - 1] = <<"--ignore-paths">>
                                         /\ IgnoreArgs(paths)[2 * i] = paths[i]
  <1>1. Len(paths) \in Nat
    BY LenProperties
  <1>2. Len(IgnoreArgs(paths)) = 2 * Len(paths)
    BY <1>1 DEF IgnoreArgs
  <1>3. ASSUME NEW i \in 1 .. Len(paths)
        PROVE  /\ 2 * i - 1 \in 1 .. 2 * Len(paths) /\ 2 * i \in 1 .. 2 * Len(paths)
               /\ (2 * i - 1) % 2 = 1 /\ (2 * i) % 2 # 1 /\ (2 * i) \div 2 = i
    BY <1>1
  <1> QED BY <1>2, <1>3 DEF IgnoreArgs

LEMMA ReadsIgnored ==
    ASSUME NEW paths \in Seq(Text),
           NEW args, NEW read, NEW n, NEW m, NEW t, NEW o,
           ReadSoFar(args, read, n, m, t, <<>>, o), Spans(args, n, IgnoreArgs(paths))
    PROVE  ReadSoFar(args, read, n + Len(IgnoreArgs(paths)), m, t, paths, o)
  <1>0. /\ Len(args) \in Nat /\ Parses(read, args) /\ n \in Nat /\ n >= 2
        /\ t \in TextOf /\ o \in SwitchOf /\ read[n] = Cfg(m, t, <<>>, o)
    BY DEF ReadSoFar
  <1> DEFINE upto(i) == SubSeq(paths, 1, i)
             T == {i \in 0 .. Len(paths) : read[n + 2 * i] = Cfg(m, t, upto(i), o)}
  <1>1. /\ Len(paths) \in Nat /\ Len(IgnoreArgs(paths)) = 2 * Len(paths)
        /\ n + 2 * Len(paths) < Len(args)
    BY LenProperties, IgnoreArgsAre DEF Spans
  <1>2. 0 \in T
    <2>1. upto(0) = <<>>
      BY SubSeqEmpty
    <2> HIDE DEF upto
    <2>2. n + 2 * 0 = n /\ 0 \in 0 .. Len(paths)
      BY <1>0, <1>1
    <2> QED BY <1>0, <2>1, <2>2
  <1>3. \A i \in 1 .. Len(paths) : i - 1 \in T => i \in T
    <2> SUFFICES ASSUME NEW i \in 1 .. Len(paths), read[n + 2 * (i - 1)] = Cfg(m, t, upto(i - 1), o)
                 PROVE  read[n + 2 * i] = Cfg(m, t, upto(i), o)
      BY <1>1
    <2>1. PICK k \in Nat : k = n + 2 * (i - 1)
      BY <1>0, <1>1
    <2>2. /\ k >= 2 /\ k + 2 < Len(args) /\ k + 1 = n + (2 * i - 1) /\ k + 2 = n + 2 * i
          /\ 2 * i - 1 \in 1 .. 2 * Len(paths) /\ 2 * i \in 1 .. 2 * Len(paths)
      BY <1>0, <1>1, <2>1
    <2>3. args[n + (2 * i - 1)] = <<"--ignore-paths">> /\ args[n + 2 * i] = paths[i]
      <3>1. /\ args[n + (2 * i - 1)] = IgnoreArgs(paths)[2 * i - 1]
            /\ args[n + 2 * i] = IgnoreArgs(paths)[2 * i]
        BY <1>1, <2>2 DEF Spans
      <3> QED BY <3>1, IgnoreArgsAre
    <2>4. args[k + 1] = <<"--ignore-paths">> /\ args[k + 2] = paths[i]
      BY <2>2, <2>3
    <2>5. Append(upto(i - 1), paths[i]) = upto(i)
      <3>1. upto(i) = upto(i - 1) \o << paths[i] >>
        <4>1. 1 \in 1 .. Len(paths) /\ i \in 1 .. Len(paths) /\ i \in 1 .. Len(paths)
          BY <1>1
        <4> QED BY <4>1, SubSeqRecursiveSecond
      <3>2. upto(i - 1) \in Seq(Text) /\ paths[i] \in Text
        <4>1. \A j \in 1 .. i - 1 : paths[j] \in Text
          BY <1>1, ElementOfSeq
        <4>2. 1 \in Int /\ i - 1 \in Int
          BY <1>1
        <4> QED BY <4>1, <4>2, SubSeqProperties, ElementOfSeq
      <3> HIDE DEF upto
      <3> QED BY <3>1, <3>2, AppendIsConcat
    <2> HIDE DEF upto
    <2>6. read[k] = Cfg(m, t, upto(i - 1), o)
      BY <2>1
    <2>7. read[k + 2] = Cfg(m, t, Append(upto(i - 1), args[k + 2]), o)
      BY <1>0, <2>2, <2>4, <2>6, TakeIgnored
    <2> QED BY <2>2, <2>4, <2>5, <2>7
  <1>4. \A i \in 0 .. Len(paths) : i \in T
    <2> HIDE DEF T
    <2> QED BY <1>1, <1>2, <1>3, Upwards, Zenon
  <1>5. read[n + 2 * Len(paths)] = Cfg(m, t, upto(Len(paths)), o)
    BY <1>1, <1>4
  <1>6. upto(Len(paths)) = paths
    BY SubSeqFull
  <1> HIDE DEF upto
  <1>7. /\ n + Len(IgnoreArgs(paths)) \in Nat /\ n + Len(IgnoreArgs(paths)) >= 2
        /\ read[n + Len(IgnoreArgs(paths))] = Cfg(m, t, paths, o)
    BY <1>0, <1>1, <1>5, <1>6
  <1> QED BY <1>0, <1>7 DEF ReadSoFar

NoWord == ""

(* What switches a switch on and, where there is such a word, off.          *)
Flagged(s, on, off) == WordSets(on, s, On) /\ (off = NoWord \/ WordSets(off, s, Off))

SwitchRead(args, read, n, m, t, p, o, s, given) ==
    \E w \in SwitchOf : /\ ReadSoFar(args, read, n, m, t, p, w)
                        /\ w[s] = On <=> given = On
                        /\ \A r \in Switch : r # s => w[r] = o[r]

(* A switch, where it is on or off.                                         *)
LEMMA ReadsSwitch ==
    ASSUME NEW s \in Switch, NEW given \in {{}, On, Off}, NEW on, NEW off, Flagged(s, on, off),
           NEW args, NEW read, NEW n, NEW m, NEW t, NEW p, NEW o, o[s] = {},
           ReadSoFar(args, read, n, m, t, p, o), Spans(args, n, SwitchArgs(given, on, off))
    PROVE  SwitchRead(args, read, n + Len(SwitchArgs(given, on, off)), m, t, p, o, s, given)
  <1> DEFINE A == SwitchArgs(given, on, off)
  <1>1. /\ Len(args) \in Nat /\ Parses(read, args) /\ n \in Nat /\ n >= 2
        /\ t \in TextOf /\ o \in SwitchOf /\ read[n] = Cfg(m, t, p, o)
    BY DEF ReadSoFar
  <1>2. WordSets(on, s, On) /\ (off # NoWord => WordSets(off, s, Off))
    BY DEF Flagged
  <1>3. ASSUME NEW word, A = << <<word>> >>, NEW set \in SUBSET BOOLEAN,
               WordSets(word, s, set), set = On <=> given = On
        PROVE  SwitchRead(args, read, n + Len(A), m, t, p, o, s, given)
    <2>1. Len(A) = 1 /\ args[n + 1] = <<word>> /\ n + 1 < Len(args)
      <3> HIDE DEF A
      <3>1. Len(A) = 1 /\ A[1] = <<word>>
        BY <1>3
      <3>2. n + Len(A) < Len(args) /\ \A j \in 1 .. Len(A) : args[n + j] = A[j]
        BY DEF Spans, A
      <3>3. args[n + 1] = A[1]
        BY <3>1, <3>2
      <3> QED BY <3>1, <3>2, <3>3
    <2> HIDE DEF A
    <2> DEFINE w == [o EXCEPT ![s] = set]
    <2>2. read[n + 1] = Cfg(m, t, p, w)
      <3>1. SetsTo(args[n + 1], s, set) /\ n + 1 < Len(args)
        BY <1>3, <2>1, Zenon DEF WordSets
      <3>2. read[n + 1] = ReadArg(read[n], args[n + 1])
        BY <1>1, <3>1, Take
      <3>3. ReadArg(Cfg(m, t, p, o), args[n + 1]) = Cfg(m, t, p, w)
        BY <1>1, <3>1, ReadSwitch
      <3> QED BY <1>1, <3>2, <3>3
    <2>3. w \in SwitchOf /\ w[s] = set /\ \A r \in Switch : r # s => w[r] = o[r]
      BY <1>1 DEF SwitchOf
    <2> HIDE DEF w
    <2>4. n + Len(A) \in Nat /\ n + Len(A) >= 2 /\ read[n + Len(A)] = Cfg(m, t, p, w)
      BY <1>1, <2>1, <2>2
    <2> QED BY <1>1, <1>3, <2>3, <2>4 DEF SwitchRead, ReadSoFar
  <1>4. CASE given = On
    <2>1. A = << <<on>> >>
      BY <1>4 DEF SwitchArgs, On
    <2>2. On \in SUBSET BOOLEAN
      BY DEF On
    <2> HIDE DEF A
    <2>3. SwitchRead(args, read, n + Len(A), m, t, p, o, s, given)
      BY <1>2, <1>3, <1>4, <2>1, <2>2, Zenon
    <2> QED BY <2>3 DEF A
  <1>5. CASE given = Off /\ off # NoWord
    <2>1. Off # On /\ Off \in SUBSET BOOLEAN
      BY DEF On, Off
    <2>2. A = << <<off>> >>
      BY <1>5, <2>1 DEF SwitchArgs, On, Off, NoWord
    <2> HIDE DEF A
    <2>3. WordSets(off, s, Off) /\ given # On
      BY <1>2, <1>5, <2>1, Zenon
    <2>4. SwitchRead(args, read, n + Len(A), m, t, p, o, s, given)
      BY <1>3, <2>1, <2>2, <2>3, Zenon
    <2> QED BY <2>4 DEF A
  <1>6. CASE given # On /\ ~(given = Off /\ off # NoWord)
    <2>1. A = <<>>
      BY <1>6 DEF SwitchArgs, On, Off, NoWord
    <2> HIDE DEF A
    <2>2. n + Len(A) = n
      <3>1. Len(A) = 0
        BY <2>1
      <3> QED BY <1>1, <3>1
    <2>3. o[s] # On
      BY DEF On
    <2>4. SwitchRead(args, read, n, m, t, p, o, s, given)
      BY <1>1, <1>6, <2>3 DEF SwitchRead, ReadSoFar
    <2>5. SwitchRead(args, read, n + Len(A), m, t, p, o, s, given)
      BY <2>2, <2>4, Zenon
    <2> QED BY <2>5 DEF A
  <1> QED BY <1>4, <1>5, <1>6

-----------------------------------------------------------------------------
(* The arguments of verify *)

LEMMA FlagText ==
    ASSUME NEW word \in STRING, NEW t \in Text
    PROVE  <<word>> \o t \in Text /\ Is(<<word>> \o t, word) /\ Tail(<<word>> \o t) = t
  <1> DEFINE x == <<word>> \o t
  <1>1. <<word>> \in Seq(STRING) /\ t \in Seq(STRING) /\ Len(<<word>>) = 1 /\ Len(t) \in Nat
    <2>1. t \in Seq(STRING)
      BY DEF Text
    <2>2. Len(t) \in Nat
      BY <2>1, LenProperties
    <2> QED BY <2>1, <2>2, ShortSeqs
  <1>2. /\ x \in Seq(STRING) /\ Len(x) = 1 + Len(t)
        /\ \A i \in 1 .. 1 + Len(t) : x[i] = IF i <= 1 THEN <<word>>[i] ELSE t[i - 1]
    BY <1>1, ConcatProperties
  <1> HIDE DEF x
  <1>3. x # <<>> /\ x[1] = word
    <2>1. 1 \in 1 .. 1 + Len(t)
      BY <1>1
    <2>2. Len(x) # 0
      BY <1>1, <1>2
    <2>3. x[1] = word
      <3>1. PICK h : h = <<word>>
        OBVIOUS
      <3>2. x[1] = IF 1 <= 1 THEN h[1] ELSE t[1 - 1]
        BY <1>2, <2>1, <3>1
      <3>3. h[1] = word
        BY <3>1
      <3> HIDE <3>1
      <3> QED BY <3>2, <3>3
    <2>4. Len(<<>>) = 0
      OBVIOUS
    <2> QED BY <2>2, <2>3, <2>4
  <1>4. Tail(x) = t
    <2>1. Tail(x) \in Seq(STRING) /\ Len(Tail(x)) = Len(t)
      BY <1>1, <1>2, <1>3, HeadTailProperties
    <2>2. ASSUME NEW i \in 1 .. Len(t) PROVE Tail(x)[i] = t[i]
      <3>1. Tail(x)[i] = x[i + 1]
        BY <1>2, <1>3, <2>1, HeadTailProperties
      <3>2. i + 1 \in 1 .. 1 + Len(t) /\ ~(i + 1 <= 1) /\ i + 1 - 1 = i
        BY <1>1
      <3> QED BY <1>2, <3>1, <3>2
    <2> QED BY <1>1, <2>1, <2>2, SeqEqual
  <1> QED BY <1>2, <1>3, <1>4 DEF x, Text, Is

LEMMA TupleSeqs ==
    ASSUME NEW S, NEW a \in S, NEW b \in S, NEW c \in S, NEW d \in S
    PROVE  <<a, b, c, d>> \in Seq(S) /\ \A e \in S, f \in S : <<a, b, c, d, e, f>> \in Seq(S)
  OBVIOUS

LEMMA ArgsTyped ==
    ASSUME NEW config \in ValidationConfig, NEW signature \in Text
    PROVE  MethodArgs(config, signature) \in Seq(Text) /\ TrustArgs(config) \in Seq(Text)
  <1>1. /\ <<"sigstore">> \in Text /\ <<"key">> \in Text /\ <<"certificate">> \in Text
        /\ <<"--identity">> \in Text /\ <<"--identity_provider">> \in Text
        /\ <<"--public_key">> \in Text /\ <<"--certificate_chain">> \in Text
        /\ <<"--trust_config">> \in Text
    BY WordsAssumption, ShortSeqs, Zenon DEF Text
  <1>2. TrustArgs(config) \in Seq(Text)
    <2>1. CASE config.trust = {}
      BY <2>1 DEF TrustArgs
    <2>2. CASE config.trust # {}
      <3>1. Only(config.trust) \in Text
        BY <2>2, ConfigHasOne
      <3>2. << <<"--trust_config">>, Only(config.trust) >> \in Seq(Text)
        BY <1>1, <3>1, ShortSeqs
      <3> QED BY <2>2, <3>2 DEF TrustArgs
    <2> QED BY <2>1, <2>2
  <1>3. CASE config.sigstore # {}
    <2>1. /\ Only(config.sigstore).identity \in Text
          /\ Only(config.sigstore).issuer \in Text
      BY <1>3, ConfigHasOne
    <2>2. << <<"sigstore">>, signature, <<"--identity">>, Only(config.sigstore).identity,
             <<"--identity_provider">>, Only(config.sigstore).issuer >> \in Seq(Text)
      BY <1>1, <2>1, TupleSeqs
    <2> QED BY <1>2, <1>3, <2>2 DEF MethodArgs
  <1>4. CASE config.sigstore = {} /\ config.publicKey # {}
    <2>1. Only(config.publicKey) \in Text
      BY <1>4, ConfigHasOne
    <2>2. << <<"key">>, signature, <<"--public_key">>, Only(config.publicKey) >> \in Seq(Text)
      BY <1>1, <2>1, TupleSeqs
    <2> QED BY <1>2, <1>4, <2>2 DEF MethodArgs
  <1>5. CASE config.sigstore = {} /\ config.publicKey = {}
    <2>1. Only(config.pki) \in Text
      BY <1>5, ConfigHasOne
    <2>2. << <<"certificate">>, signature, <<"--certificate_chain">>, Only(config.pki) >>
            \in Seq(Text)
      BY <1>1, <2>1, TupleSeqs
    <2> QED BY <1>2, <1>5, <2>2 DEF MethodArgs
  <1> QED BY <1>3, <1>4, <1>5

LEMMA IgnoreArgsTyped ==
    ASSUME NEW paths \in Seq(Text)
    PROVE  IgnoreArgs(paths) \in Seq(Text)
  <1>1. Len(paths) \in Nat /\ 2 * Len(paths) \in Nat
    BY LenProperties
  <1>2. <<"--ignore-paths">> \in Text
    BY WordsAssumption, ShortSeqs, Zenon DEF Text
  <1>3. ASSUME NEW i \in 1 .. 2 * Len(paths), i % 2 # 1 PROVE paths[i \div 2] \in Text
    <2>1. i \div 2 \in 1 .. Len(paths)
      BY <1>1, <1>3
    <2> QED BY <2>1, ElementOfSeq
  <1>4. IgnoreArgs(paths) \in [1 .. 2 * Len(paths) -> Text]
    BY <1>2, <1>3 DEF IgnoreArgs
  <1> QED BY <1>1, <1>4, SeqDef

LEMMA SwitchArgsTyped ==
    ASSUME NEW given, NEW on, NEW off, <<on>> \in Text, off = NoWord \/ <<off>> \in Text
    PROVE  SwitchArgs(given, on, off) \in Seq(Text)
  <1>1. SwitchArgs(given, on, off) \in {<<>>, << <<on>> >>, << <<off>> >>}
    BY DEF SwitchArgs
  <1>2. off # NoWord => SwitchArgs(given, on, off) # << <<off>> >> \/ << <<off>> >> \in Seq(Text)
    BY ShortSeqs
  <1>3. off = NoWord => SwitchArgs(given, on, off) \in {<<>>, << <<on>> >>}
    BY DEF SwitchArgs, NoWord
  <1>4. <<>> \in Seq(Text) /\ << <<on>> >> \in Seq(Text)
    BY ShortSeqs
  <1> QED BY <1>1, <1>2, <1>3, <1>4

MethodTextFields == {"identity", "identityProvider", "publicKey", "certificateChain"}

LEMMA MethodTextsKept ==
    ASSUME NEW config, NEW t, NEW u, \A f \in MethodTextFields : u[f] = t[f],
           MethodTexts(config, t)
    PROVE  MethodTexts(config, u)
  BY DEF MethodTexts, MethodTextFields

Sw1(model) == SwitchArgs(model.switches["ignoreGitPaths"],
                         "--ignore-git-paths", "--no-ignore-git-paths")
Sw2(model) == SwitchArgs(model.switches["ignoreUnsignedFiles"],
                         "--ignore_unsigned_files", "--no-ignore_unsigned_files")
Sw3(model) == SwitchArgs(model.switches["allowSymlinks"], "--allow_symlinks", "")

Signature(model) == <<"--signature=">> \o model.signaturePath

LEMMA ValidationArgsAre ==
    ASSUME NEW config, NEW model
    PROVE  validationConfigToArgs(config, model)
           = MethodArgs(config, Signature(model)) \o TrustArgs(config)
             \o IgnoreArgs(model.ignorePaths) \o Sw1(model) \o Sw2(model) \o Sw3(model)
  BY Zenon DEF validationConfigToArgs, Signature, TrustArgs, IgnoreArgs, Sw1, Sw2, Sw3

LEMMA ModelTyped ==
    ASSUME NEW model \in Model
    PROVE  /\ model.path \in Text /\ model.signaturePath \in Text
           /\ model.ignorePaths \in Seq(Text)
           /\ \A s \in Switch : model.switches[s] \in {{}, On, Off}
           /\ Signature(model) \in Text /\ Is(Signature(model), "--signature=")
           /\ Tail(Signature(model)) = model.signaturePath
           /\ Sw1(model) \in Seq(Text) /\ Sw2(model) \in Seq(Text) /\ Sw3(model) \in Seq(Text)
  <1>1. /\ model.path \in Text /\ model.signaturePath \in Text
        /\ model.ignorePaths \in Seq(Text)
        /\ model.switches \in [Switch -> Optional(BOOLEAN)]
    BY DEF Model
  <1>2. ASSUME NEW s \in Switch PROVE model.switches[s] \in {{}, On, Off}
    <2>1. PICK o \in Optional(BOOLEAN) : o = model.switches[s]
      BY <1>1
    <2>2. o \in {{}, {TRUE}, {FALSE}}
      BY Zenon DEF Optional
    <2> QED BY <2>1, <2>2 DEF On, Off
  <1>3. /\ Signature(model) \in Text /\ Is(Signature(model), "--signature=")
        /\ Tail(Signature(model)) = model.signaturePath
    BY <1>1, WordsAssumption, FlagText, Zenon DEF Signature
  <1>4. /\ <<"--ignore-git-paths">> \in Text /\ <<"--no-ignore-git-paths">> \in Text
        /\ <<"--ignore_unsigned_files">> \in Text /\ <<"--no-ignore_unsigned_files">> \in Text
        /\ <<"--allow_symlinks">> \in Text
    BY WordsAssumption, ShortSeqs, Zenon DEF Text
  <1>5. Sw1(model) \in Seq(Text) /\ Sw2(model) \in Seq(Text) /\ Sw3(model) \in Seq(Text)
    BY <1>4, SwitchArgsTyped, Zenon DEF Sw1, Sw2, Sw3, NoWord
  <1> QED BY <1>1, <1>2, <1>3, <1>5

(* How the arguments of verify are made up.                                 *)
LEMMA VerifyArgsAre ==
    ASSUME NEW config \in ValidationConfig, NEW model \in Model
    PROVE  LET V == VerifyArgs(config, model)
               W == validationConfigToArgs(config, model)
           IN /\ V \in Seq(Text) /\ W \in Seq(Text) /\ Len(W) \in Nat /\ Len(V) = Len(W) + 2
              /\ V[1] = <<"verify">> /\ V[Len(V)] = model.path
              /\ Spans(V, 1, W)
  <1> DEFINE V == VerifyArgs(config, model)
             W == validationConfigToArgs(config, model)
             U == << <<"verify">> >> \o W
  <1>1. W \in Seq(Text) /\ Len(W) \in Nat
    <2>1. /\ MethodArgs(config, Signature(model)) \in Seq(Text) /\ TrustArgs(config) \in Seq(Text)
          /\ IgnoreArgs(model.ignorePaths) \in Seq(Text)
          /\ Sw1(model) \in Seq(Text) /\ Sw2(model) \in Seq(Text) /\ Sw3(model) \in Seq(Text)
      BY ModelTyped, ArgsTyped, IgnoreArgsTyped
    <2>2. \A s, t \in Seq(Text) : s \o t \in Seq(Text)
      BY ConcatProperties
    <2>3. W \in Seq(Text)
      BY <2>1, <2>2, ValidationArgsAre, Zenon
    <2> QED BY <2>3, LenProperties
  <1>2. V = U \o << model.path >>
    BY Zenon DEF VerifyArgs
  <1> HIDE DEF V, W
  <1>3. <<"verify">> \in Text /\ model.path \in Text
    BY WordsAssumption, ShortSeqs, ModelTyped, Zenon DEF Text
  <1>4. PICK h : h = <<"verify">>
    OBVIOUS
  <1>5. <<h>> \in Seq(Text) /\ << model.path >> \in Seq(Text)
    BY <1>3, <1>4, ShortSeqs
  <1>6. /\ U \in Seq(Text) /\ Len(U) = 1 + Len(W)
        /\ \A i \in 1 .. 1 + Len(W) : U[i] = IF i <= 1 THEN h ELSE W[i - 1]
    <2>1. U = <<h>> \o W
      BY <1>4
    <2> HIDE DEF U
    <2>2. Len(<<h>>) = 1 /\ <<h>>[1] = h
      OBVIOUS
    <2>3. /\ U \in Seq(Text) /\ Len(U) = Len(<<h>>) + Len(W)
          /\ \A i \in 1 .. Len(<<h>>) + Len(W) :
                U[i] = IF i <= Len(<<h>>) THEN <<h>>[i] ELSE W[i - Len(<<h>>)]
      BY <1>1, <1>5, <2>1, ConcatProperties
    <2>4. ASSUME NEW i \in 1 .. 1 + Len(W) PROVE U[i] = IF i <= 1 THEN h ELSE W[i - 1]
      BY <1>1, <2>2, <2>3
    <2> QED BY <2>2, <2>3, <2>4
  <1> HIDE DEF U
  <1>7. /\ V \in Seq(Text) /\ Len(V) = Len(W) + 2
        /\ \A i \in 1 .. Len(W) + 2 : V[i] = IF i <= Len(W) + 1 THEN U[i] ELSE model.path
    <2>1. PICK p : p = model.path
      OBVIOUS
    <2>2. Len(<<p>>) = 1 /\ <<p>>[1] = p
      OBVIOUS
    <2>3. /\ V \in Seq(Text) /\ Len(V) = Len(U) + Len(<<p>>)
          /\ \A i \in 1 .. Len(U) + Len(<<p>>) :
                V[i] = IF i <= Len(U) THEN U[i] ELSE <<p>>[i - Len(U)]
      BY <1>2, <1>5, <1>6, <2>1, ConcatProperties
    <2>4. ASSUME NEW i \in 1 .. Len(W) + 2
          PROVE  V[i] = IF i <= Len(W) + 1 THEN U[i] ELSE p
      <3>1. ~(i <= Len(W) + 1) => i - Len(U) = 1
        BY <1>1, <1>6
      <3> QED BY <1>1, <1>6, <2>2, <2>3, <3>1
    <2> QED BY <1>1, <1>6, <2>1, <2>2, <2>3, <2>4
  <1>8. V[1] = h /\ V[Len(V)] = model.path
    BY <1>1, <1>6, <1>7
  <1>9. Spans(V, 1, W)
    <2>1. 1 + Len(W) < Len(V)
      BY <1>1, <1>7
    <2>2. ASSUME NEW j \in 1 .. Len(W) PROVE V[1 + j] = W[j]
      <3>1. /\ 1 + j \in 1 .. Len(W) + 2 /\ 1 + j <= Len(W) + 1 /\ ~(1 + j <= 1)
            /\ 1 + j \in 1 .. 1 + Len(W) /\ 1 + j - 1 = j
        BY <1>1
      <3> QED BY <1>6, <1>7, <3>1
    <2> QED BY <2>1, <2>2 DEF Spans
  <1> QED BY <1>1, <1>4, <1>7, <1>8, <1>9 DEF V, W

(* x is u and then v.                                                       *)
Splits(x, u, v) == x = u \o v

LEMMA SplitSpans ==
    ASSUME NEW args, Len(args) \in Nat, NEW n \in Nat, NEW S, NEW u \in Seq(S), NEW v \in Seq(S),
           NEW x, Splits(x, u, v), Spans(args, n, x)
    PROVE  /\ Spans(args, n, u) /\ Spans(args, n + Len(u), v)
           /\ Len(u) \in Nat /\ Len(v) \in Nat /\ Len(x) = Len(u) + Len(v)
  BY SpansParts DEF Splits

LEMMA MethodArgsFirst ==
    ASSUME NEW config, NEW signature
    PROVE  /\ MethodArgs(config, signature)[1] = << MethodOf(config) >>
           /\ Len(MethodArgs(config, signature)) >= 4 /\ Len(MethodArgs(config, signature)) \in Nat
           /\ MethodOf(config) \in Method
  <1>1. CASE config.sigstore # {}
    BY <1>1 DEF MethodArgs, MethodOf, Method
  <1>2. CASE config.sigstore = {} /\ config.publicKey # {}
    BY <1>2 DEF MethodArgs, MethodOf, Method
  <1>3. CASE config.sigstore = {} /\ config.publicKey = {}
    BY <1>3 DEF MethodArgs, MethodOf, Method
  <1> QED BY <1>1, <1>2, <1>3

(* The switches, one after the other.                                       *)
LEMMA ReadsSwitches ==
    ASSUME NEW model \in Model,
           NEW args, NEW read, NEW n \in Nat, NEW m, NEW t, NEW p,
           ReadSoFar(args, read, n, m, t, p, NoSwitch), NEW k1, NEW k2, NEW k3,
           Spans(args, n, Sw1(model)), k1 = n + Len(Sw1(model)),
           Spans(args, k1, Sw2(model)), k2 = k1 + Len(Sw2(model)),
           Spans(args, k2, Sw3(model)), k3 = k2 + Len(Sw3(model))
    PROVE  \E w \in SwitchOf : /\ ReadSoFar(args, read, k3, m, t, p, w)
                               /\ \A s \in Switch : w[s] = On <=> model.switches[s] = On
  <1> DEFINE g1 == "ignoreGitPaths"
             g2 == "ignoreUnsignedFiles"
             g3 == "allowSymlinks"
  <1>1. /\ g1 \in Switch /\ g2 \in Switch /\ g3 \in Switch
        /\ g1 # g2 /\ g1 # g3 /\ g2 # g3
        /\ \A s \in Switch : s = g1 \/ s = g2 \/ s = g3
        /\ \A s \in Switch : NoSwitch[s] = {}
    BY DEF Switch, NoSwitch, SwitchOf
  <1>2. \A s \in Switch : model.switches[s] \in {{}, On, Off}
    BY ModelTyped
  <1>3. /\ Flagged(g1, "--ignore-git-paths", "--no-ignore-git-paths")
        /\ Flagged(g2, "--ignore_unsigned_files", "--no-ignore_unsigned_files")
        /\ Flagged(g3, "--allow_symlinks", NoWord)
    BY SwitchesAre, Zenon DEF Flagged
  <1>4. /\ Sw1(model) = SwitchArgs(model.switches[g1], "--ignore-git-paths", "--no-ignore-git-paths")
        /\ Sw2(model) = SwitchArgs(model.switches[g2],
                                   "--ignore_unsigned_files", "--no-ignore_unsigned_files")
        /\ Sw3(model) = SwitchArgs(model.switches[g3], "--allow_symlinks", NoWord)
    BY Zenon DEF Sw1, Sw2, Sw3, NoWord
  <1> HIDE DEF g1, g2, g3
  <1>5. PICK w1 \in SwitchOf : /\ ReadSoFar(args, read, k1, m, t, p, w1)
                               /\ w1[g1] = On <=> model.switches[g1] = On
                               /\ \A r \in Switch : r # g1 => w1[r] = NoSwitch[r]
    <2>1. NoSwitch[g1] = {} /\ model.switches[g1] \in {{}, On, Off} /\ g1 \in Switch
      BY <1>1, <1>2
    <2>2. SwitchRead(args, read, k1, m, t, p, NoSwitch, g1, model.switches[g1])
      BY <1>3, <1>4, <2>1, ReadsSwitch, Zenon
    <2> QED BY <2>2 DEF SwitchRead
  <1>6. PICK w2 \in SwitchOf : /\ ReadSoFar(args, read, k2, m, t, p, w2)
                               /\ w2[g2] = On <=> model.switches[g2] = On
                               /\ \A r \in Switch : r # g2 => w2[r] = w1[r]
    <2>1. /\ w1[g2] = {} /\ model.switches[g2] \in {{}, On, Off} /\ g2 \in Switch
          /\ ReadSoFar(args, read, k1, m, t, p, w1)
      BY <1>1, <1>2, <1>5
    <2>2. SwitchRead(args, read, k2, m, t, p, w1, g2, model.switches[g2])
      BY <1>3, <1>4, <2>1, ReadsSwitch, Zenon
    <2> QED BY <2>2 DEF SwitchRead
  <1>7. PICK w3 \in SwitchOf : /\ ReadSoFar(args, read, k3, m, t, p, w3)
                               /\ w3[g3] = On <=> model.switches[g3] = On
                               /\ \A r \in Switch : r # g3 => w3[r] = w2[r]
    <2>1. /\ w2[g3] = {} /\ model.switches[g3] \in {{}, On, Off} /\ g3 \in Switch
          /\ ReadSoFar(args, read, k2, m, t, p, w2)
      BY <1>1, <1>2, <1>5, <1>6
    <2>2. SwitchRead(args, read, k3, m, t, p, w2, g3, model.switches[g3])
      BY <1>3, <1>4, <2>1, ReadsSwitch, Zenon
    <2> QED BY <2>2 DEF SwitchRead
  <1>8. w3[g1] = w1[g1] /\ w3[g2] = w2[g2]
    BY <1>1, <1>6, <1>7
  <1>9. \A s \in Switch : w3[s] = On <=> model.switches[s] = On
    BY <1>1, <1>5, <1>6, <1>7, <1>8
  <1> QED BY <1>7, <1>9

(* Where each part of the arguments of verify is.                           *)
LEMMA VerifyArgsSpan ==
    ASSUME NEW config \in ValidationConfig, NEW model \in Model
    PROVE  \E p, q, r, s, t \in Nat :
              LET V == VerifyArgs(config, model)
                  M == MethodArgs(config, Signature(model))
                  T == TrustArgs(config)
                  I == IgnoreArgs(model.ignorePaths)
              IN /\ Spans(V, 1, M) /\ p = 1 + Len(M)
                 /\ Spans(V, p, T) /\ q = p + Len(T)
                 /\ Spans(V, q, I) /\ r = q + Len(I)
                 /\ Spans(V, r, Sw1(model)) /\ s = r + Len(Sw1(model))
                 /\ Spans(V, s, Sw2(model)) /\ t = s + Len(Sw2(model))
                 /\ Spans(V, t, Sw3(model)) /\ Len(V) = t + Len(Sw3(model)) + 1
  <1> DEFINE V == VerifyArgs(config, model)
             W == validationConfigToArgs(config, model)
             S == Signature(model)
             M == MethodArgs(config, S)
             T == TrustArgs(config)
             I == IgnoreArgs(model.ignorePaths)
             x2 == M \o T
             x3 == x2 \o I
             x4 == x3 \o Sw1(model)
             x5 == x4 \o Sw2(model)
  <1>1. /\ V \in Seq(Text) /\ W \in Seq(Text) /\ Len(W) \in Nat /\ Len(V) = Len(W) + 2
        /\ V[1] = <<"verify">> /\ V[Len(V)] = model.path /\ Spans(V, 1, W)
    BY VerifyArgsAre, Zenon
  <1>2. /\ M \in Seq(Text) /\ T \in Seq(Text) /\ I \in Seq(Text)
        /\ Sw1(model) \in Seq(Text) /\ Sw2(model) \in Seq(Text) /\ Sw3(model) \in Seq(Text)
    <2>1. S \in Text /\ model.ignorePaths \in Seq(Text)
      BY ModelTyped, Zenon
    <2> HIDE DEF S
    <2>2. M \in Seq(Text) /\ T \in Seq(Text) /\ I \in Seq(Text)
      BY <2>1, ArgsTyped, IgnoreArgsTyped
    <2> QED BY <2>2, ModelTyped, Zenon
  <1>3. /\ Splits(x2, M, T) /\ Splits(x3, x2, I) /\ Splits(x4, x3, Sw1(model))
        /\ Splits(x5, x4, Sw2(model)) /\ Splits(W, x5, Sw3(model))
    BY ValidationArgsAre, Zenon DEF Splits
  <1>4. x2 \in Seq(Text) /\ x3 \in Seq(Text) /\ x4 \in Seq(Text) /\ x5 \in Seq(Text)
    <2>1. \A u, v \in Seq(Text) : u \o v \in Seq(Text)
      BY ConcatProperties
    <2> HIDE DEF V, W, S, M, T, I
    <2>2. x2 \in Seq(Text)
      BY <1>2, <2>1, Zenon
    <2>3. x3 \in Seq(Text)
      BY <1>2, <2>1, <2>2, Zenon
    <2>4. x4 \in Seq(Text)
      BY <1>2, <2>1, <2>3, Zenon
    <2>5. x5 \in Seq(Text)
      BY <1>2, <2>1, <2>4, Zenon
    <2> QED BY <2>2, <2>3, <2>4, <2>5
  <1> HIDE DEF V, W, x2, x3, x4, x5, M, T, I, S
  <1>5. Len(V) \in Nat
    BY <1>1
  <1>6. /\ Spans(V, 1, x5) /\ Spans(V, 1 + Len(x5), Sw3(model))
        /\ Len(x5) \in Nat /\ Len(Sw3(model)) \in Nat /\ Len(W) = Len(x5) + Len(Sw3(model))
    BY <1>1, <1>2, <1>3, <1>4, <1>5, SplitSpans, SMTT(30)
  <1>7. /\ Spans(V, 1, x4) /\ Spans(V, 1 + Len(x4), Sw2(model))
        /\ Len(x4) \in Nat /\ Len(Sw2(model)) \in Nat /\ Len(x5) = Len(x4) + Len(Sw2(model))
    BY <1>2, <1>3, <1>4, <1>5, <1>6, SplitSpans, SMTT(30)
  <1>8. /\ Spans(V, 1, x3) /\ Spans(V, 1 + Len(x3), Sw1(model))
        /\ Len(x3) \in Nat /\ Len(Sw1(model)) \in Nat /\ Len(x4) = Len(x3) + Len(Sw1(model))
    BY <1>2, <1>3, <1>4, <1>5, <1>7, SplitSpans, SMTT(30)
  <1>9. /\ Spans(V, 1, x2) /\ Spans(V, 1 + Len(x2), I)
        /\ Len(x2) \in Nat /\ Len(I) \in Nat /\ Len(x3) = Len(x2) + Len(I)
    BY <1>2, <1>3, <1>4, <1>5, <1>8, SplitSpans, SMTT(30)
  <1>10. /\ Spans(V, 1, M) /\ Spans(V, 1 + Len(M), T)
         /\ Len(M) \in Nat /\ Len(T) \in Nat /\ Len(x2) = Len(M) + Len(T)
    BY <1>2, <1>3, <1>4, <1>5, <1>9, SplitSpans, SMTT(30)
  <1>11. /\ 1 + Len(M) \in Nat /\ 1 + Len(x2) \in Nat /\ 1 + Len(x3) \in Nat
         /\ 1 + Len(x4) \in Nat /\ 1 + Len(x5) \in Nat
         /\ 1 + Len(x2) = 1 + Len(M) + Len(T) /\ 1 + Len(x3) = 1 + Len(x2) + Len(I)
         /\ 1 + Len(x4) = 1 + Len(x3) + Len(Sw1(model))
         /\ 1 + Len(x5) = 1 + Len(x4) + Len(Sw2(model))
         /\ Len(V) = 1 + Len(x5) + Len(Sw3(model)) + 1
    <2>1. /\ Len(M) \in Nat /\ Len(T) \in Nat /\ Len(I) \in Nat /\ Len(Sw1(model)) \in Nat
          /\ Len(Sw2(model)) \in Nat /\ Len(Sw3(model)) \in Nat /\ Len(x2) \in Nat
          /\ Len(x3) \in Nat /\ Len(x4) \in Nat /\ Len(x5) \in Nat /\ Len(W) \in Nat
          /\ Len(x2) = Len(M) + Len(T) /\ Len(x3) = Len(x2) + Len(I)
          /\ Len(x4) = Len(x3) + Len(Sw1(model)) /\ Len(x5) = Len(x4) + Len(Sw2(model))
          /\ Len(W) = Len(x5) + Len(Sw3(model)) /\ Len(V) = Len(W) + 2
      BY <1>1, <1>6, <1>7, <1>8, <1>9, <1>10
    <2> QED BY <2>1
  <1>12. \E p, q, r, s, t \in Nat :
            /\ Spans(V, 1, M) /\ p = 1 + Len(M)
            /\ Spans(V, p, T) /\ q = p + Len(T)
            /\ Spans(V, q, I) /\ r = q + Len(I)
            /\ Spans(V, r, Sw1(model)) /\ s = r + Len(Sw1(model))
            /\ Spans(V, s, Sw2(model)) /\ t = s + Len(Sw2(model))
            /\ Spans(V, t, Sw3(model)) /\ Len(V) = t + Len(Sw3(model)) + 1
    BY <1>6, <1>7, <1>8, <1>9, <1>10, <1>11, ZenonT(30)
  <1> QED BY <1>12, Zenon DEF V, M, T, I, S

(* What the agent reads in the arguments of verify is what they are made    *)
(* from, whatever the texts are, as long as the path of the model is not    *)
(* taken for a flag.                                                        *)
ReadsBack(config, model) ==
    \E t \in TextOf, w \in SwitchOf :
        /\ ParseArgs(VerifyArgs(config, model))
             = {Cfg(MethodOf(config), t, model.ignorePaths, w)}
        /\ t["model"] = model.path /\ t["signature"] = model.signaturePath
        /\ t["trustConfig"] = IF config.trust = {} THEN <<>> ELSE Only(config.trust)
        /\ MethodTexts(config, t)
        /\ \A s \in Switch : w[s] = On <=> model.switches[s] = On

LEMMA ParsesVerifyArgs ==
    ASSUME NEW config \in ValidationConfig, NEW model \in Model, ReadsAsPath(model.path)
    PROVE  ReadsBack(config, model)
  <1> DEFINE V == VerifyArgs(config, model)
             S == Signature(model)
             M == MethodArgs(config, S)
             T == TrustArgs(config)
             I == IgnoreArgs(model.ignorePaths)
             m == MethodOf(config)
  <1>1. /\ V \in Seq(Text) /\ V[1] = <<"verify">> /\ V[Len(V)] = model.path
    BY VerifyArgsAre, Zenon
  <1>2. Len(V) \in Nat
    <2> HIDE DEF V
    <2> QED BY <1>1, LenProperties
  <1>3. PICK p, q, r, s, t \in Nat :
           /\ Spans(V, 1, M) /\ p = 1 + Len(M)
           /\ Spans(V, p, T) /\ q = p + Len(T)
           /\ Spans(V, q, I) /\ r = q + Len(I)
           /\ Spans(V, r, Sw1(model)) /\ s = r + Len(Sw1(model))
           /\ Spans(V, s, Sw2(model)) /\ t = s + Len(Sw2(model))
           /\ Spans(V, t, Sw3(model)) /\ Len(V) = t + Len(Sw3(model)) + 1
    BY VerifyArgsSpan, Zenon
  <1>4. M[1] = <<m>> /\ Len(M) \in Nat /\ Len(M) >= 4 /\ m \in Method
    BY MethodArgsFirst, Zenon
  <1>5. /\ Is(S, "--signature=") /\ Tail(S) = model.signaturePath
        /\ model.signaturePath \in Text /\ model.ignorePaths \in Seq(Text) /\ model.path \in Text
    BY ModelTyped, Zenon
  <1> HIDE DEF V, T, I, m, M, S
  <1>6. Len(V) >= 3 /\ V[2] = <<m>>
    <2>1. 1 + Len(M) < Len(V) /\ \A j \in 1 .. Len(M) : V[1 + j] = M[j]
      BY <1>3 DEF Spans
    <2>2. 1 \in 1 .. Len(M) /\ 1 + 1 = 2 /\ Len(V) >= 3
      BY <1>2, <1>4, <2>1
    <2>3. V[1 + 1] = M[1]
      BY <2>1, <2>2, Zenon
    <2> QED BY <1>4, <2>2, <2>3, Zenon
  <1>7. PICK read : /\ Parses(read, V)
                    /\ read[2] = NewConfig(m)
                    /\ LET cfg == read[Len(V)] IN
                       ParseArgs(V) = IF cfg.failed \/ cfg.value # "none" \/ cfg.text["model"] = <<>>
                                      THEN {} ELSE {cfg}
    BY <1>1, <1>2, <1>4, <1>6, ParseArgsIs
  <1>8. ReadSoFar(V, read, 2, m, NoText, <<>>, NoSwitch)
    <2>1. read[2] = Cfg(m, NoText, <<>>, NoSwitch)
      BY <1>7 DEF NewConfig, Cfg, NoText, NoSwitch
    <2>2. NoText \in TextOf /\ NoSwitch \in SwitchOf
      <3>1. <<>> \in Text
        BY DEF Text
      <3> QED BY <3>1 DEF NoText, NoSwitch, TextOf, SwitchOf
    <2> QED BY <1>2, <1>7, <2>1, <2>2 DEF ReadSoFar
  <1>9. PICK t1 \in TextOf :
           /\ ReadSoFar(V, read, p, m, t1, <<>>, NoSwitch)
           /\ t1["signature"] = model.signaturePath /\ t1["trustConfig"] = <<>>
           /\ MethodTexts(config, t1)
    <2>1. Spans(V, 1, MethodArgs(config, S)) /\ p = 1 + Len(MethodArgs(config, S))
      BY <1>3 DEF M
    <2>2. ReadSoFar(V, read, 2, MethodOf(config), NoText, <<>>, NoSwitch)
      BY <1>8 DEF m
    <2>3. MethodRead(V, read, p, config, model.signaturePath)
      BY <1>5, <2>1, <2>2, ReadsMethod, Zenon
    <2> QED BY <2>3 DEF MethodRead, m
  <1>10. PICK t2 \in TextOf :
            /\ ReadSoFar(V, read, q, m, t2, <<>>, NoSwitch)
            /\ t2["trustConfig"] = IF config.trust = {} THEN <<>> ELSE Only(config.trust)
            /\ \A f \in Field : f # "trustConfig" => t2[f] = t1[f]
    <2>1. Spans(V, p, TrustArgs(config)) /\ q = p + Len(TrustArgs(config))
      BY <1>3 DEF T
    <2>2. TrustRead(V, read, q, m, t1, <<>>, NoSwitch, config)
      BY <1>9, <2>1, ReadsTrust, Zenon
    <2> QED BY <2>2 DEF TrustRead
  <1>11. ReadSoFar(V, read, r, m, t2, model.ignorePaths, NoSwitch)
    <2>1. /\ Spans(V, q, IgnoreArgs(model.ignorePaths))
          /\ r = q + Len(IgnoreArgs(model.ignorePaths))
      BY <1>3 DEF I
    <2> QED BY <1>5, <1>10, <2>1, ReadsIgnored, Zenon
  <1>12. PICK w \in SwitchOf :
            /\ ReadSoFar(V, read, t + Len(Sw3(model)), m, t2, model.ignorePaths, w)
            /\ \A g \in Switch : w[g] = On <=> model.switches[g] = On
    BY <1>3, <1>11, ReadsSwitches
  <1> DEFINE t3 == [t2 EXCEPT !["model"] = model.path]
  <1>13. read[Len(V)] = Cfg(m, t3, model.ignorePaths, w)
    <2>1. PICK k : k = t + Len(Sw3(model))
      OBVIOUS
    <2>2. k \in Nat /\ read[k] = Cfg(m, t2, model.ignorePaths, w)
      BY <1>12, <2>1 DEF ReadSoFar
    <2>3. Len(V) - 1 = k
      BY <1>3, <2>1, <2>2
    <2>4. read[Len(V)] = ReadLast(read[Len(V) - 1], V[Len(V)])
      BY <1>7 DEF Parses
    <2>5. read[Len(V)] = ReadLast(Cfg(m, t2, model.ignorePaths, w), model.path)
      BY <1>1, <2>2, <2>3, <2>4
    <2> QED BY <2>5, ReadModel
  <1>14. /\ t3 \in TextOf /\ t3["model"] = model.path
         /\ \A f \in Field : f # "model" => t3[f] = t2[f]
    BY <1>5 DEF TextOf, Field
  <1> HIDE DEF t3
  <1>15. ParseArgs(V) = {Cfg(m, t3, model.ignorePaths, w)}
    <2>1. PICK cfg : cfg = Cfg(m, t3, model.ignorePaths, w)
      OBVIOUS
    <2>2. cfg.failed = FALSE /\ cfg.value = "none" /\ cfg.text = t3
      BY <2>1 DEF Cfg
    <2>3. t3["model"] # <<>>
      BY <1>14 DEF ReadsAsPath
    <2> QED BY <1>7, <1>13, <2>1, <2>2, <2>3
  <1>16. /\ t3["signature"] = model.signaturePath
         /\ t3["trustConfig"] = IF config.trust = {} THEN <<>> ELSE Only(config.trust)
         /\ \A f \in MethodTextFields : t3[f] = t1[f]
    <2>1. "signature" \in Field /\ "trustConfig" \in Field /\ MethodTextFields \subseteq Field
      BY DEF Field, MethodTextFields
    <2>2. \A f \in MethodTextFields : f # "model" /\ f # "trustConfig"
      BY DEF MethodTextFields
    <2> QED BY <1>9, <1>10, <1>14, <2>1, <2>2
  <1>17. MethodTexts(config, t3)
    BY <1>9, <1>16, MethodTextsKept
  <1> QED BY <1>12, <1>14, <1>15, <1>16, <1>17 DEF ReadsBack, V, m

-----------------------------------------------------------------------------
(* What was asked for *)

(* The switches that are on, and the paths that are ignored, where the      *)
(* annotations take precedence.                                             *)
SwitchesAsked(model, annotations, switches) ==
    \A s \in Switch : switches[s] = On
                        <=> \/ annotations.switches[s] = "true"
                            \/ /\ annotations.switches[s] \in {"absent", "unreadable"}
                               /\ model.switches[s] = On

IgnoredAsked(model, annotations, paths) ==
    paths = IF Named(annotations.ignorePaths) = <<>> THEN model.ignorePaths
            ELSE Named(annotations.ignorePaths)

LEMMA MergedIs ==
    ASSUME NEW model \in Model, NEW annotations \in Annotations
    PROVE  LET merged == mergeModelWithAnnotations(model, annotations)
           IN /\ merged \in Model
              /\ merged.path = model.path /\ merged.signaturePath = model.signaturePath
              /\ IgnoredAsked(model, annotations, merged.ignorePaths)
              /\ SwitchesAsked(model, annotations, merged.switches)
  <1> DEFINE merged == mergeModelWithAnnotations(model, annotations)
             named  == Named(annotations.ignorePaths)
             Set(s) == parseBoolAnnotation(annotations.switches[s])
             paths  == IF named = <<>> THEN model.ignorePaths ELSE named
             switches == [s \in Switch |-> IF Set(s) = {} THEN model.switches[s] ELSE Set(s)]
  <1>1. /\ annotations.ignorePaths \in Seq(Text)
        /\ \A s \in Switch : annotations.switches[s] \in {"absent", "true", "false", "unreadable"}
    BY DEF Annotations
  <1>2. /\ model.path \in Text /\ model.signaturePath \in Text
        /\ model.ignorePaths \in Seq(Text)
        /\ model.switches \in [Switch -> Optional(BOOLEAN)]
        /\ model = [path |-> model.path, signaturePath |-> model.signaturePath,
                    ignorePaths |-> model.ignorePaths, switches |-> model.switches]
    BY DEF Model
  <1>3. named \in Seq(Text)
    BY <1>1, NamedTexts
  <1>4. \A s \in Switch : /\ annotations.switches[s] = "true" => Set(s) = On
                          /\ annotations.switches[s] = "false" => Set(s) = Off
                          /\ annotations.switches[s] \in {"absent", "unreadable"} => Set(s) = {}
    BY <1>1 DEF parseBoolAnnotation, On, Off
  <1>5. /\ On # Off /\ On # {} /\ Off # {}
        /\ On \in Optional(BOOLEAN) /\ Off \in Optional(BOOLEAN)
    BY DEF On, Off, Optional
  <1> HIDE DEF Set, named
  <1>6. merged = [path |-> model.path, signaturePath |-> model.signaturePath,
                  ignorePaths |-> paths, switches |-> switches]
    <2>1. merged = [model EXCEPT !.ignorePaths = paths, !.switches = switches]
      BY DEF mergeModelWithAnnotations, named, Set
    <2> HIDE DEF merged, paths, switches
    <2> QED BY <1>2, <2>1
  <1>7. switches \in [Switch -> Optional(BOOLEAN)]
    <2>1. ASSUME NEW s \in Switch
          PROVE  (IF Set(s) = {} THEN model.switches[s] ELSE Set(s)) \in Optional(BOOLEAN)
      BY <1>1, <1>2, <1>4, <1>5
    <2> QED BY <2>1
  <1>8. ASSUME NEW s \in Switch
        PROVE  switches[s] = On
                 <=> \/ annotations.switches[s] = "true"
                     \/ /\ annotations.switches[s] \in {"absent", "unreadable"}
                        /\ model.switches[s] = On
    <2>1. switches[s] = IF Set(s) = {} THEN model.switches[s] ELSE Set(s)
      OBVIOUS
    <2> HIDE DEF switches
    <2> QED BY <1>1, <1>4, <1>5, <2>1
  <1>9. paths \in Seq(Text)
    BY <1>2, <1>3
  <1> HIDE DEF merged, paths, switches
  <1>10. /\ merged.path = model.path /\ merged.signaturePath = model.signaturePath
         /\ merged.ignorePaths = paths /\ merged.switches = switches
    BY <1>6
  <1>11. merged \in Model
    BY <1>2, <1>6, <1>7, <1>9 DEF Model
  <1>12. SwitchesAsked(model, annotations, switches)
    BY <1>8 DEF SwitchesAsked
  <1>13. IgnoredAsked(model, annotations, paths)
    BY DEF IgnoredAsked, paths, named
  <1> QED BY <1>10, <1>11, <1>12, <1>13, Zenon DEF merged

Fields(method) == {"model", "signature"} \cup Credentials(method)

(* The texts a verifier is given are those that were asked for.             *)
TextsAsked(model, config, t) ==
    /\ t["model"] = model.path /\ t["signature"] = model.signaturePath
    /\ t["trustConfig"] = IF config.trust = {} THEN <<>> ELSE Only(config.trust)
    /\ MethodTexts(config, t)

LEMMA OptionsAre ==
    ASSUME NEW model, NEW config \in ValidationConfig, NEW annotations, NEW t,
           TextsAsked(model, config, t), NEW paths, NEW w,
           IgnoredAsked(model, annotations, paths), SwitchesAsked(model, annotations, w)
    PROVE  Options(Cfg(MethodOf(config), t, paths, w)) = Asked(model, config, annotations)
  <1> DEFINE text == [model |-> model.path, signature |-> model.signaturePath,
                      identity |-> {c.identity : c \in config.sigstore},
                      identityProvider |-> {c.issuer : c \in config.sigstore},
                      publicKey |-> config.publicKey, certificateChain |-> config.pki,
                      trustConfig |-> config.trust]
             Given(f) == IF f \in {"model", "signature"} THEN text[f]
                         ELSE IF text[f] = {} THEN <<>> ELSE Only(text[f])
             on == {s \in Switch : \/ annotations.switches[s] = "true"
                                   \/ /\ annotations.switches[s] \in {"absent", "unreadable"}
                                      /\ model.switches[s] = {TRUE}}
             m == MethodOf(config)
  <1>1. on = {s \in Switch : w[s] = {TRUE}}
    BY DEF On, SwitchesAsked
  <1>2. \A f \in Fields(m) : t[f] = Given(f)
    <2>1. t["model"] = Given("model") /\ t["signature"] = Given("signature")
      BY DEF TextsAsked
    <2>2. t["trustConfig"] = Given("trustConfig")
      BY DEF TextsAsked
    <2>3. CASE config.sigstore # {}
      <3>1. /\ t["identity"] = Only(config.sigstore).identity
            /\ t["identityProvider"] = Only(config.sigstore).issuer
        BY <2>3 DEF TextsAsked, MethodTexts
      <3>2. config.sigstore = {Only(config.sigstore)}
        BY <2>3, ConfigHasOne
      <3>3. \A x : Only({x}) = x
        BY DEF Only
      <3>4. t["identity"] = Given("identity") /\ t["identityProvider"] = Given("identityProvider")
        <4>1. PICK c : c = Only(config.sigstore)
          OBVIOUS
        <4>2. /\ text["identity"] = {c.identity} /\ text["identityProvider"] = {c.issuer}
          BY <3>2, <4>1
        <4> HIDE DEF text
        <4> QED BY <3>1, <3>3, <4>1, <4>2
      <3>5. Fields(m) = {"model", "signature", "identity", "identityProvider", "trustConfig"}
        BY <2>3 DEF Fields, MethodOf, Credentials
      <3> HIDE DEF Given, m
      <3> QED BY <2>1, <2>2, <3>4, <3>5
    <2>4. CASE config.sigstore = {} /\ config.publicKey # {}
      <3>1. t["publicKey"] = Given("publicKey")
        BY <2>4 DEF TextsAsked, MethodTexts
      <3>2. Fields(m) = {"model", "signature", "publicKey"}
        BY <2>4 DEF Fields, MethodOf, Credentials
      <3> HIDE DEF Given, m
      <3> QED BY <2>1, <3>1, <3>2
    <2>5. CASE config.sigstore = {} /\ config.publicKey = {}
      <3>1. config.pki # {}
        BY <2>5, ConfigHasOne
      <3>2. t["certificateChain"] = Given("certificateChain")
        BY <2>5, <3>1 DEF TextsAsked, MethodTexts
      <3>3. Fields(m) = {"model", "signature", "certificateChain"}
        BY <2>5 DEF Fields, MethodOf, Credentials
      <3> HIDE DEF Given, m
      <3> QED BY <2>1, <3>2, <3>3
    <2> QED BY <2>3, <2>4, <2>5
  <1>3. Options(Cfg(m, t, paths, w))
        = [method |-> m, texts |-> [f \in Fields(m) |-> t[f]], ignorePaths |-> paths,
           on |-> {s \in Switch : w[s] = {TRUE}}]
    BY Zenon DEF Options, Cfg, Fields
  <1>4. Asked(model, config, annotations)
        = [method |-> m, texts |-> [f \in Fields(m) |-> Given(f)], ignorePaths |-> paths, on |-> on]
    BY Zenon DEF Asked, MethodOf, Fields, IgnoredAsked
  <1>5. [f \in Fields(m) |-> t[f]] = [f \in Fields(m) |-> Given(f)]
    <2> HIDE DEF Given, m
    <2> QED BY <1>2
  <1> HIDE DEF Given, on, m
  <1> QED BY <1>1, <1>3, <1>4, <1>5, Zenon DEF m

(* The agent makes of the arguments what was asked for.                     *)
LEMMA VerifiesAsAsked ==
    ASSUME NEW model \in Model, NEW config \in ValidationConfig, NEW annotations \in Annotations,
           ReadsAsPath(model.path)
    PROVE  {Options(cfg) : cfg \in
                ParseArgs(VerifyArgs(config, mergeModelWithAnnotations(model, annotations)))}
           = {Asked(model, config, annotations)}
  <1>1. PICK merged : merged = mergeModelWithAnnotations(model, annotations)
    OBVIOUS
  <1>2. /\ merged \in Model
        /\ merged.path = model.path /\ merged.signaturePath = model.signaturePath
        /\ IgnoredAsked(model, annotations, merged.ignorePaths)
        /\ SwitchesAsked(model, annotations, merged.switches)
    BY <1>1, MergedIs
  <1>3. ReadsBack(config, merged)
    BY <1>2, ParsesVerifyArgs
  <1>4. PICK t \in TextOf, w \in SwitchOf :
           /\ ParseArgs(VerifyArgs(config, merged))
                = {Cfg(MethodOf(config), t, merged.ignorePaths, w)}
           /\ t["model"] = merged.path /\ t["signature"] = merged.signaturePath
           /\ t["trustConfig"] = IF config.trust = {} THEN <<>> ELSE Only(config.trust)
           /\ MethodTexts(config, t)
           /\ \A s \in Switch : w[s] = On <=> merged.switches[s] = On
    BY <1>3 DEF ReadsBack
  <1>5. TextsAsked(model, config, t)
    BY <1>2, <1>4 DEF TextsAsked
  <1>6. SwitchesAsked(model, annotations, w)
    BY <1>2, <1>4 DEF SwitchesAsked
  <1>7. Options(Cfg(MethodOf(config), t, merged.ignorePaths, w)) = Asked(model, config, annotations)
    <2>1. PICK paths : paths = merged.ignorePaths
      OBVIOUS
    <2>2. IgnoredAsked(model, annotations, paths)
      BY <1>2, <2>1
    <2> HIDE <2>1
    <2>3. Options(Cfg(MethodOf(config), t, paths, w)) = Asked(model, config, annotations)
      BY <1>5, <1>6, <2>2, OptionsAre
    <2> QED BY <2>1, <2>3
  <1> QED BY <1>1, <1>4, <1>7

-----------------------------------------------------------------------------
(* What main takes from the arguments before those of verify *)

IsFlag(arg) == Is(arg, "--interval=") \/ Is(arg, "--skip-initial")

LEMMA BeforeVerify ==
    ASSUME NEW before \in Seq(Text), \A i \in 1 .. Len(before) : IsFlag(before[i]),
           NEW V \in Seq(Text), Len(V) >= 1, ~IsFlag(V[1])
    PROVE  /\ Flags(before \o V) = 1 .. Len(before)
           /\ \A i \in 1 .. Len(before) : (before \o V)[i] = before[i]
           /\ flagArgs(before \o V) = V
  <1> DEFINE args == before \o V
             n == Len(before)
  <1>1. /\ args \in Seq(Text) /\ n \in Nat /\ Len(V) \in Nat /\ Len(args) = n + Len(V)
        /\ \A i \in 1 .. n + Len(V) : args[i] = IF i <= n THEN before[i] ELSE V[i - n]
        /\ DOMAIN args = 1 .. Len(args)
    <2>1. args \in Seq(Text) /\ n \in Nat /\ Len(V) \in Nat /\ Len(args) = n + Len(V)
      BY LenProperties, ConcatProperties
    <2>2. \A i \in 1 .. n + Len(V) : args[i] = IF i <= n THEN before[i] ELSE V[i - n]
      BY ConcatProperties
    <2>3. DOMAIN args = 1 .. Len(args)
      <3> HIDE DEF args
      <3> QED BY <2>1, LenProperties
    <2> QED BY <2>1, <2>2, <2>3
  <1> HIDE DEF args, n
  <1>2. \A i \in 1 .. n : args[i] = before[i] /\ IsFlag(args[i]) /\ i \in DOMAIN args
    BY <1>1 DEF n
  <1>3. args[n + 1] = V[1] /\ n + 1 \in DOMAIN args
    <2>1. n + 1 \in 1 .. n + Len(V) /\ ~(n + 1 <= n) /\ n + 1 - n = 1
      BY <1>1
    <2> QED BY <1>1, <2>1
  <1>4. Flags(args) = 1 .. n
    <2>1. Flags(args) = {i \in DOMAIN args : \A j \in 1 .. i : IsFlag(args[j])}
      BY Zenon DEF Flags, IsFlag
    <2>2. ASSUME NEW i \in DOMAIN args, \A j \in 1 .. i : IsFlag(args[j]) PROVE i \in 1 .. n
      <3>1. ~(n + 1 \in 1 .. i)
        BY <1>3, <2>2
      <3> QED BY <1>1, <3>1
    <2>3. ASSUME NEW i \in 1 .. n PROVE i \in DOMAIN args /\ \A j \in 1 .. i : IsFlag(args[j])
      BY <1>1, <1>2
    <2> QED BY <2>1, <2>2, <2>3
  <1>5. Cardinality(Flags(args)) = n
    BY <1>1, <1>4, FS_Interval
  <1>6. flagArgs(args) = V
    <2>1. flagArgs(args) = SubSeq(args, n + 1, Len(args))
      BY <1>5 DEF flagArgs
    <2>2. n + 1 \in n + 1 .. n + Len(V) /\ n + Len(V) \in n + 1 .. n + Len(V)
      BY <1>1
    <2>3. SubSeq(args, n + 1, Len(args)) = SubSeq(V, n + 1 - n, n + Len(V) - n)
      BY <1>1, <2>2, SubSeqOfConcat2 DEF args, n
    <2>4. n + 1 - n = 1 /\ n + Len(V) - n = Len(V)
      BY <1>1
    <2> QED BY <2>1, <2>3, <2>4, SubSeqFull
  <1> QED BY <1>2, <1>4, <1>6 DEF args, n

VerifyFirst(V) == V \in Seq(Text) /\ Len(V) \in Nat /\ Len(V) >= 1 /\ V[1] = <<"verify">>

LEMMA VerifyIsNoFlag ==
    /\ ~IsFlag(<<"verify">>) /\ IsFlag(<<"--skip-initial">>)
    /\ ~Is(<<"--skip-initial">>, "--interval=")
  BY DEF IsFlag, Is

(* Started without flags, with an interval, and with that and without a     *)
(* first validation.                                                        *)
LEMMA NoFlags ==
    ASSUME NEW V, VerifyFirst(V)
    PROVE  flagArgs(V) = V /\ IntervalOf(V) = {} /\ ~SkipsInitial(V)
  <1>1. V \in Seq(Text) /\ Len(V) >= 1 /\ ~IsFlag(V[1])
    BY VerifyIsNoFlag DEF VerifyFirst
  <1>2. <<>> \in Seq(Text) /\ Len(<<>>) = 0 /\ <<>> \o V = V
    BY <1>1, ConcatEmptySeq, EmptySeq
  <1>3. PICK none : none = <<>>
    OBVIOUS
  <1>4. none \in Seq(Text) /\ \A i \in 1 .. Len(none) : IsFlag(none[i])
    BY <1>2, <1>3
  <1>5. Flags(none \o V) = 1 .. Len(none) /\ flagArgs(none \o V) = V
    BY <1>1, <1>4, BeforeVerify
  <1>6. Flags(V) = {} /\ flagArgs(V) = V
    <2>1. none \o V = V /\ 1 .. Len(none) = {}
      BY <1>2, <1>3
    <2> QED BY <1>5, <2>1, Zenon
  <1> QED BY <1>6 DEF IntervalOf, SkipsInitial

LEMMA IntervalFlag ==
    ASSUME NEW V, VerifyFirst(V), NEW every \in Text
    PROVE  LET args == << <<"--interval=">> \o every >> \o V IN
           flagArgs(args) = V /\ IntervalOf(args) = {every} /\ ~SkipsInitial(args)
  <1>1. PICK x : x = <<"--interval=">> \o every
    OBVIOUS
  <1>2. x \in Text /\ Is(x, "--interval=") /\ Tail(x) = every
    BY <1>1, WordsAssumption, FlagText, Zenon
  <1>3. ~Is(x, "--skip-initial") /\ IsFlag(x)
    BY <1>2 DEF Is, IsFlag
  <1>4. V \in Seq(Text) /\ Len(V) >= 1 /\ ~IsFlag(V[1])
    BY VerifyIsNoFlag DEF VerifyFirst
  <1>5. PICK before : before = <<x>>
    OBVIOUS
  <1>6. before \in Seq(Text) /\ Len(before) = 1 /\ before[1] = x
    BY <1>2, <1>5, ShortSeqs
  <1>7. \A i \in 1 .. Len(before) : IsFlag(before[i])
    BY <1>3, <1>6
  <1> DEFINE args == before \o V
  <1>8. Flags(args) = 1 .. 1 /\ args[1] = x /\ flagArgs(args) = V
    <2>1. /\ Flags(args) = 1 .. Len(before) /\ flagArgs(args) = V
          /\ \A i \in 1 .. Len(before) : args[i] = before[i]
      BY <1>4, <1>6, <1>7, BeforeVerify
    <2> HIDE DEF args
    <2> QED BY <1>6, <2>1
  <1> HIDE DEF args
  <1>9. \A i \in 1 .. 1 : i = 1
    OBVIOUS
  <1>10. IntervalOf(args) = {every}
    <2>1. {f \in Flags(args) : Is(args[f], "--interval=")} = {1}
      BY <1>2, <1>8, <1>9
    <2> QED BY <1>2, <1>8, <2>1 DEF IntervalOf
  <1>11. ~SkipsInitial(args)
    BY <1>3, <1>8, <1>9 DEF SkipsInitial
  <1> QED BY <1>1, <1>5, <1>8, <1>10, <1>11, Zenon DEF args

LEMMA BothFlags ==
    ASSUME NEW V, VerifyFirst(V), NEW every \in Text
    PROVE  LET args == << <<"--interval=">> \o every, <<"--skip-initial">> >> \o V IN
           flagArgs(args) = V /\ IntervalOf(args) = {every}
  <1>1. PICK x : x = <<"--interval=">> \o every
    OBVIOUS
  <1>2. PICK y : y = <<"--skip-initial">>
    OBVIOUS
  <1>3. x \in Text /\ Is(x, "--interval=") /\ Tail(x) = every /\ IsFlag(x)
    BY <1>1, WordsAssumption, FlagText, Zenon DEF IsFlag
  <1>4. y \in Text /\ ~Is(y, "--interval=") /\ IsFlag(y)
    <2>1. <<"--skip-initial">> \in Text
      BY WordsAssumption, ShortSeqs, Zenon DEF Text
    <2> QED BY <1>2, <2>1, VerifyIsNoFlag, Zenon
  <1>5. V \in Seq(Text) /\ Len(V) >= 1 /\ ~IsFlag(V[1])
    BY VerifyIsNoFlag DEF VerifyFirst
  <1>6. PICK before : before = <<x, y>>
    OBVIOUS
  <1>7. before \in Seq(Text) /\ Len(before) = 2 /\ before[1] = x /\ before[2] = y
    BY <1>3, <1>4, <1>6, ShortSeqs
  <1>8. \A i \in 1 .. Len(before) : IsFlag(before[i])
    BY <1>3, <1>4, <1>7
  <1> DEFINE args == before \o V
  <1>9. Flags(args) = 1 .. 2 /\ args[1] = x /\ args[2] = y /\ flagArgs(args) = V
    <2>1. /\ Flags(args) = 1 .. Len(before) /\ flagArgs(args) = V
          /\ \A i \in 1 .. Len(before) : args[i] = before[i]
      BY <1>5, <1>7, <1>8, BeforeVerify
    <2> HIDE DEF args
    <2> QED BY <1>7, <2>1
  <1> HIDE DEF args
  <1>10. \A i : i \in 1 .. 2 <=> i = 1 \/ i = 2
    OBVIOUS
  <1>11. {f \in Flags(args) : Is(args[f], "--interval=")} = {1}
    BY <1>3, <1>4, <1>9, <1>10
  <1>12. IntervalOf(args) = {every}
    BY <1>3, <1>9, <1>11 DEF IntervalOf
  <1> QED BY <1>1, <1>2, <1>6, <1>9, <1>12, Zenon DEF args

(* What the containers that are added were asked for.                       *)
LEMMA VerifyArgsFirst ==
    ASSUME NEW s \in Specs, NEW annotations \in Annotations
    PROVE  VerifyFirst(VerifyArgs(s.config, mergeModelWithAnnotations(s.model, annotations)))
  <1>1. s.model \in Model /\ s.config \in ValidationConfig
    BY InjectionAssumption DEF ModelValidationSpec
  <1>2. PICK merged : merged = mergeModelWithAnnotations(s.model, annotations)
    OBVIOUS
  <1>3. merged \in Model
    BY <1>1, <1>2, MergedIs
  <1>4. PICK V : V = VerifyArgs(s.config, merged)
    OBVIOUS
  <1>5. PICK W : W = validationConfigToArgs(s.config, merged)
    OBVIOUS
  <1>6. V \in Seq(Text) /\ Len(W) \in Nat /\ Len(V) = Len(W) + 2 /\ V[1] = <<"verify">>
    BY <1>1, <1>3, <1>4, <1>5, VerifyArgsAre, Zenon
  <1>7. VerifyFirst(V)
    BY <1>6 DEF VerifyFirst
  <1> QED BY <1>2, <1>4, <1>7

LEMMA IntervalText ==
    ASSUME NEW s \in Specs, continuousEnabled(s)
    PROVE  interval(s) \in Text
  <1>1. s.continuousValidation \in Optional([enabled : BOOLEAN, interval : Text])
    BY InjectionAssumption DEF ModelValidationSpec
  <1>2. s.continuousValidation # {}
    BY DEF continuousEnabled
  <1>3. Only(s.continuousValidation) \in [enabled : BOOLEAN, interval : Text]
    BY <1>1, <1>2, OnlyIs
  <1>4. Only(s.continuousValidation).interval \in Text
    BY <1>3
  <1>5. <<"5m">> \in Text
    BY WordsAssumption, ShortSeqs, Zenon DEF Text
  <1> QED BY <1>4, <1>5 DEF interval

LEMMA InitContainer ==
    ASSUME NEW s, NEW args, NEW mounts, NEW tc, NEW withNative \in BOOLEAN
    PROVE  LET a == buildValidationContainer(s, args, mounts, tc, withNative) IN
           /\ a.name = "init"
           /\ a.restartAlways <=> continuousEnabled(s) /\ withNative
           /\ continuousEnabled(s) /\ withNative =>
                 a.args = << <<"--interval=">> \o interval(s) >> \o args
           /\ ~(continuousEnabled(s) /\ withNative) => a.args = args
  BY DEF buildValidationContainer, Agent, continuousEnabled

LEMMA LegacyContainer ==
    ASSUME NEW s, NEW args, NEW mounts
    PROVE  LET a == buildLegacySidecarContainer(s, args, mounts) IN
           /\ a.name = "sidecar"
           /\ a.args = << <<"--interval=">> \o interval(s), <<"--skip-initial">> >> \o args
  BY DEF buildLegacySidecarContainer, Agent

LEMMA InjectedAsAsked ==
    ASSUME NEW s \in Specs, ReadsAsPath(s.model.path), NEW annotations \in Annotations,
           NEW withNative \in BOOLEAN, NEW tc, NEW containers,
           NEW agents, agents = Injected(s, withNative, tc, annotations, containers)
    PROVE  /\ \A a \in agents : OptionsOf(a) = {Asked(s.model, s.config, annotations)}
           /\ RevalidatesAs(agents, s)
  <1> DEFINE model   == mergeModelWithAnnotations(s.model, annotations)
             V       == VerifyArgs(s.config, model)
             mounts  == agentMounts(s, model, containers)
             init    == buildValidationContainer(s, V, mounts, tc, withNative)
             sidecar == buildLegacySidecarContainer(s, V, mounts)
  <1>1. VerifyFirst(V)
    BY VerifyArgsFirst
  <1>2. {Options(cfg) : cfg \in ParseArgs(V)} = {Asked(s.model, s.config, annotations)}
    <2>1. s.model \in Model /\ s.config \in ValidationConfig
      BY InjectionAssumption DEF ModelValidationSpec
    <2> QED BY <2>1, VerifiesAsAsked
  <1>3. ASSUME NEW a, flagArgs(a.args) = V
        PROVE  OptionsOf(a) = {Asked(s.model, s.config, annotations)}
    <2> HIDE DEF V
    <2> QED BY <1>2, <1>3, Zenon DEF OptionsOf
  <1>4. agents = {init} \cup (IF continuousEnabled(s) /\ ~withNative THEN {sidecar} ELSE {})
    BY Zenon DEF Injected
  <1>5. /\ init.name = "init"
        /\ init.restartAlways <=> continuousEnabled(s) /\ withNative
        /\ continuousEnabled(s) /\ withNative =>
              init.args = << <<"--interval=">> \o interval(s) >> \o V
        /\ ~(continuousEnabled(s) /\ withNative) => init.args = V
    <2> HIDE DEF V, mounts
    <2> QED BY InitContainer
  <1>6. /\ sidecar.name = "sidecar"
        /\ sidecar.args = << <<"--interval=">> \o interval(s), <<"--skip-initial">> >> \o V
    BY LegacyContainer, Zenon
  <1> DEFINE blocking == {a \in agents : a.name = "init" /\ ~a.restartAlways}
             periodic == {a \in agents : IntervalOf(a.args) # {}}
  <1> HIDE DEF V, init, sidecar
  <1>7. CASE continuousEnabled(s) /\ withNative
    <2>1. agents = {init}
      BY <1>4, <1>7
    <2>2. /\ flagArgs(init.args) = V /\ IntervalOf(init.args) = {interval(s)}
          /\ ~SkipsInitial(init.args)
      <3>1. interval(s) \in Text /\ init.args = << <<"--interval=">> \o interval(s) >> \o V
        BY <1>5, <1>7, IntervalText
      <3> QED BY <1>1, <3>1, IntervalFlag, Zenon
    <2>3. periodic = {init} /\ blocking = {}
      <3>1. {interval(s)} # {}
        OBVIOUS
      <3>2. periodic = {init}
        BY <2>1, <2>2, <3>1
      <3>3. init.restartAlways
        BY <1>5, <1>7
      <3>4. blocking = {}
        BY <2>1, <3>3, Zenon
      <3> QED BY <3>2, <3>4
    <2>4. \A a \in agents : OptionsOf(a) = {Asked(s.model, s.config, annotations)}
      BY <1>3, <2>1, <2>2
    <2>5. RevalidatesAs(agents, s)
      <3>1. /\ init \in periodic \ blocking /\ periodic = {init}
            /\ IntervalOf(init.args) = {interval(s)} /\ ~SkipsInitial(init.args)
        BY <2>2, <2>3
      <3> QED BY <1>7, <3>1, Zenon DEF RevalidatesAs
    <2> QED BY <2>4, <2>5
  <1>8. CASE continuousEnabled(s) /\ ~withNative
    <2>1. agents = {init, sidecar}
      BY <1>4, <1>8
    <2>2. /\ flagArgs(sidecar.args) = V /\ IntervalOf(sidecar.args) = {interval(s)}
      <3>1. interval(s) \in Text
        BY <1>8, IntervalText
      <3> QED BY <1>1, <1>6, <3>1, BothFlags, Zenon
    <2>3. flagArgs(init.args) = V /\ IntervalOf(init.args) = {} /\ ~SkipsInitial(init.args)
      <3>1. init.args = V
        BY <1>5, <1>8
      <3> QED BY <1>1, <3>1, NoFlags, Zenon
    <2>4. periodic = {sidecar} /\ init \in blocking /\ sidecar \notin blocking
      <3>1. {interval(s)} # {}
        OBVIOUS
      <3>2. periodic = {sidecar}
        BY <2>1, <2>2, <2>3, <3>1
      <3>3. ~init.restartAlways /\ init.name = "init" /\ sidecar.name # "init"
        BY <1>5, <1>6, <1>8
      <3>4. init \in blocking /\ sidecar \notin blocking
        BY <2>1, <3>3
      <3> QED BY <3>2, <3>4
    <2>5. \A a \in agents : OptionsOf(a) = {Asked(s.model, s.config, annotations)}
      BY <1>3, <2>1, <2>2, <2>3
    <2>6. RevalidatesAs(agents, s)
      <3>1. /\ sidecar \in periodic \ blocking /\ periodic = {sidecar}
            /\ IntervalOf(sidecar.args) = {interval(s)}
            /\ init \in blocking /\ init.name = "init" /\ ~SkipsInitial(init.args)
        BY <1>5, <2>2, <2>3, <2>4
      <3> QED BY <1>8, <3>1, Zenon DEF RevalidatesAs
    <2> QED BY <2>5, <2>6
  <1>9. CASE ~continuousEnabled(s)
    <2>1. agents = {init}
      BY <1>4, <1>9
    <2>2. flagArgs(init.args) = V /\ IntervalOf(init.args) = {}
      <3>1. init.args = V
        BY <1>5, <1>9
      <3> QED BY <1>1, <3>1, NoFlags, Zenon
    <2>3. periodic = {} /\ init \in blocking
      <3>1. ~init.restartAlways /\ init.name = "init"
        BY <1>5, <1>9
      <3> QED BY <2>1, <2>2, <3>1
    <2>4. \A a \in agents : OptionsOf(a) = {Asked(s.model, s.config, annotations)}
      BY <1>3, <2>1, <2>2
    <2>5. RevalidatesAs(agents, s)
      <3>1. blocking # {}
        BY <2>3
      <3> QED BY <1>9, <2>3, <3>1, Zenon DEF RevalidatesAs
    <2> QED BY <2>4, <2>5
  <1> QED BY <1>7, <1>8, <1>9

-----------------------------------------------------------------------------
(* The hash *)

(* Two texts with the same beginning.                                       *)
LEMMA SameLength ==
    ASSUME NEW a \in Text, NEW b \in Text, NEW x \in Text, NEW y \in Text,
           a \o x = b \o y, Len(a) = Len(b)
    PROVE  a = b /\ x = y
  <1>1. /\ a \o x \in Text /\ Len(a \o x) = Len(a) + Len(x)
        /\ \A i \in 1 .. Len(a) + Len(x) :
              (a \o x)[i] = IF i <= Len(a) THEN a[i] ELSE x[i - Len(a)]
    BY ConcatProperties DEF Text
  <1>2. /\ b \o y \in Text /\ Len(b \o y) = Len(b) + Len(y)
        /\ \A i \in 1 .. Len(b) + Len(y) :
              (b \o y)[i] = IF i <= Len(b) THEN b[i] ELSE y[i - Len(b)]
    BY ConcatProperties DEF Text
  <1>3. Len(a) \in Nat /\ Len(x) \in Nat /\ Len(y) \in Nat
    BY DEF Text
  <1>4. Len(x) = Len(y)
    BY <1>1, <1>2, <1>3
  <1>5. ASSUME NEW i \in 1 .. Len(a) PROVE a[i] = b[i]
    BY <1>1, <1>2, <1>3, <1>4
  <1>6. ASSUME NEW i \in 1 .. Len(x) PROVE x[i] = y[i]
    <2>1. /\ Len(a) + i \in 1 .. Len(a) + Len(x) /\ ~(Len(a) + i <= Len(a))
          /\ Len(a) + i - Len(a) = i
      BY <1>3
    <2>2. (a \o x)[Len(a) + i] = x[i] /\ (b \o y)[Len(a) + i] = y[i]
      BY <1>1, <1>2, <1>4, <2>1
    <2> QED BY <2>2
  <1> QED BY <1>4, <1>5, <1>6, SeqEqual DEF Text

Without(a, w) == \A i \in 1 .. Len(a) : a[i] # w
StartsWith(x, w) == x = <<>> \/ x[1] = w

LEMMA NotShorter ==
    ASSUME NEW a \in Text, NEW b \in Text, NEW x \in Text, NEW y \in Text, NEW w,
           a \o x = b \o y, Without(b, w), StartsWith(x, w)
    PROVE  Len(b) <= Len(a)
  <1> SUFFICES ASSUME Len(a) < Len(b) PROVE FALSE
    BY DEF Text
  <1>1. /\ Len(a) \in Nat /\ Len(b) \in Nat /\ Len(x) \in Nat /\ Len(y) \in Nat
        /\ Len(a \o x) = Len(a) + Len(x) /\ Len(b \o y) = Len(b) + Len(y)
    BY ConcatProperties DEF Text
  <1>2. Len(x) # 0 /\ x # <<>>
    BY <1>1
  <1>3. x[1] = w
    BY <1>2 DEF StartsWith
  <1>4. (a \o x)[Len(a) + 1] = x[1] /\ (b \o y)[Len(a) + 1] = b[Len(a) + 1]
    <2>1. Len(a) + 1 \in 1 .. Len(a) + Len(x) /\ Len(a) + 1 \in 1 .. Len(b) + Len(y)
      BY <1>1, <1>2
    <2>2. \A i \in 1 .. Len(a) + Len(x) :
             (a \o x)[i] = IF i <= Len(a) THEN a[i] ELSE x[i - Len(a)]
      BY ConcatProperties DEF Text
    <2>3. \A i \in 1 .. Len(b) + Len(y) :
             (b \o y)[i] = IF i <= Len(b) THEN b[i] ELSE y[i - Len(b)]
      BY ConcatProperties DEF Text
    <2>4. Len(a) + 1 - Len(a) = 1 /\ ~(Len(a) + 1 <= Len(a)) /\ Len(a) + 1 <= Len(b)
      BY <1>1
    <2> QED BY <2>1, <2>2, <2>3, <2>4
  <1>5. b[Len(a) + 1] # w
    BY <1>1 DEF Without
  <1> QED BY <1>3, <1>4, <1>5

(* Where a word stands that neither beginning has.                          *)
LEMMA CutAtWord ==
    ASSUME NEW a \in Text, NEW b \in Text, NEW x \in Text, NEW y \in Text, NEW w,
           a \o x = b \o y, Without(a, w), Without(b, w), StartsWith(x, w), StartsWith(y, w)
    PROVE  a = b /\ x = y
  <1>1. Len(b) <= Len(a) /\ Len(a) <= Len(b)
    BY NotShorter
  <1>2. Len(a) = Len(b)
    BY <1>1 DEF Text
  <1> QED BY <1>2, SameLength

Trust == "clienttrust"

(* The word that announces the trust configuration is in no text before it. *)
NoTrustWord(config) ==
    /\ \A c \in config.sigstore : Without(c.identity, Trust) /\ Without(c.issuer, Trust)
    /\ \A p \in config.pki \cup config.publicKey : Without(p, Trust)

TrustHash(config) == IF config.trust = {} THEN <<>> ELSE <<Trust>> \o Only(config.trust)

LEMMA OneOf ==
    ASSUME NEW S, NEW w \in S
    PROVE  <<w>> \in Seq(S) /\ Len(<<w>>) = 1 /\ <<w>>[1] = w
  OBVIOUS

LEMMA OneWord ==
    ASSUME NEW w \in STRING
    PROVE  <<w>> \in Text /\ Len(<<w>>) = 1 /\ <<w>>[1] = w
  BY OneOf, Zenon DEF Text

LEMMA Joined ==
    ASSUME NEW a \in Text, NEW b \in Text
    PROVE  /\ a \o b \in Text
           /\ \A w : Without(a, w) /\ Without(b, w) => Without(a \o b, w)
  <1>1. /\ a \o b \in Text /\ Len(a \o b) = Len(a) + Len(b)
        /\ \A i \in 1 .. Len(a) + Len(b) :
              (a \o b)[i] = IF i <= Len(a) THEN a[i] ELSE b[i - Len(a)]
    BY ConcatProperties DEF Text
  <1>2. ASSUME NEW w, Without(a, w), Without(b, w), NEW i \in 1 .. Len(a \o b)
        PROVE  (a \o b)[i] # w
    <2>1. Len(a) \in Nat /\ Len(b) \in Nat
      BY DEF Text
    <2>2. CASE i <= Len(a)
      BY <1>1, <1>2, <2>1, <2>2 DEF Without
    <2>3. CASE ~(i <= Len(a))
      <3>1. i - Len(a) \in 1 .. Len(b)
        BY <1>1, <2>1, <2>3
      <3> QED BY <1>1, <1>2, <2>3, <3>1 DEF Without
    <2> QED BY <2>2, <2>3
  <1> QED BY <1>1, <1>2 DEF Without

LEMMA HeadKept ==
    ASSUME NEW p \in Text, Len(p) # 0, NEW x \in Text
    PROVE  p \o x \in Text /\ (p \o x)[1] = p[1] /\ p \o x # <<>>
  <1>1. p \o x \in Text /\ Len(p \o x) = Len(p) + Len(x) /\ Len(x) \in Nat /\ Len(p) \in Nat
    BY ConcatProperties DEF Text
  <1>2. \A i \in 1 .. Len(p) + Len(x) : (p \o x)[i] = IF i <= Len(p) THEN p[i] ELSE x[i - Len(p)]
    BY ConcatProperties DEF Text
  <1>3. (p \o x)[1] = p[1]
    BY <1>1, <1>2
  <1>4. p \o x # <<>>
    BY <1>1
  <1> QED BY <1>1, <1>3, <1>4

LEMMA HeadOf ==
    ASSUME NEW w, <<w>> \in Text, NEW x \in Text
    PROVE  <<w>> \o x \in Text /\ (<<w>> \o x)[1] = w /\ <<w>> \o x # <<>>
  BY HeadKept

(* A word, and a text after it.                                             *)
IsWord(w)   == <<w>> \in Text
After(w, x) == <<w>> \o x

LEMMA SameAfter ==
    ASSUME NEW w, IsWord(w), NEW x \in Text, NEW y \in Text, After(w, x) = After(w, y)
    PROVE  x = y
  <1>1. <<w>> \in Text /\ <<w>> \o x = <<w>> \o y
    BY DEF IsWord, After
  <1> QED BY <1>1, SameLength, Zenon

LEMMA TrustText == IsWord(Trust) /\ <<Trust>> \in Text
  <1>1. Trust \in STRING
    BY WordsAssumption DEF Trust
  <1> QED BY <1>1, OneWord DEF IsWord

LEMMA TrustIs ==
    ASSUME NEW c \in ValidationConfig
    PROVE  /\ TrustHash(c) \in Text /\ StartsWith(TrustHash(c), Trust)
           /\ c.trust = {} => TrustHash(c) = <<>>
           /\ c.trust # {} => TrustHash(c) # <<>>
           /\ ConfigHash(c) = MethodHash(c) \o TrustHash(c)
  <1>1. <<Trust>> \in Text
    BY TrustText
  <1>2. CASE c.trust = {}
    BY <1>2 DEF TrustHash, StartsWith, ConfigHash, Text
  <1>3. CASE c.trust # {}
    <2>1. Only(c.trust) \in Text
      BY <1>3, ConfigHasOne
    <2>2. TrustHash(c) = <<Trust>> \o Only(c.trust)
      BY <1>3 DEF TrustHash
    <2>3. ConfigHash(c) = MethodHash(c) \o TrustHash(c)
      BY <1>3, <2>2 DEF ConfigHash, Trust
    <2>4. /\ <<Trust>> \o Only(c.trust) \in Text /\ (<<Trust>> \o Only(c.trust))[1] = Trust
          /\ <<Trust>> \o Only(c.trust) # <<>>
      BY <1>1, <2>1, HeadOf
    <2> QED BY <1>3, <2>2, <2>3, <2>4 DEF StartsWith
  <1> QED BY <1>2, <1>3

LEMMA SameTrust ==
    ASSUME NEW c \in ValidationConfig, NEW d \in ValidationConfig, TrustHash(c) = TrustHash(d)
    PROVE  c.trust = d.trust
  <1>1. CASE c.trust = {}
    BY <1>1, TrustIs
  <1>2. CASE c.trust # {}
    <2>1. d.trust # {}
      BY <1>2, TrustIs
    <2>2. /\ Only(c.trust) \in Text /\ c.trust = {Only(c.trust)}
          /\ Only(d.trust) \in Text /\ d.trust = {Only(d.trust)}
      BY <1>2, <2>1, ConfigHasOne
    <2>3. After(Trust, Only(c.trust)) = After(Trust, Only(d.trust))
      BY <1>2, <2>1, Zenon DEF TrustHash, After
    <2>4. Only(c.trust) = Only(d.trust)
      BY <2>2, <2>3, TrustText, SameAfter
    <2>5. c.trust = d.trust
      BY <2>2, <2>4
    <2> QED BY <2>2, <2>5
  <1> QED BY <1>1, <1>2

(* What MethodHash is made of.                                              *)
LEMMA MethodWords ==
    /\ <<"sigstore">> \in Text /\ <<"pki">> \in Text /\ <<"publickey">> \in Text
    /\ IsWord("sigstore") /\ IsWord("pki") /\ IsWord("publickey")
    /\ Without(<<"sigstore">>, Trust) /\ Without(<<"pki">>, Trust)
    /\ Without(<<"publickey">>, Trust)
  <1>1. "sigstore" \in STRING /\ "pki" \in STRING /\ "publickey" \in STRING
    BY WordsAssumption
  <1>2. <<"sigstore">> \in Text /\ <<"pki">> \in Text /\ <<"publickey">> \in Text
    BY <1>1, OneWord, Zenon
  <1>3. /\ Without(<<"sigstore">>, Trust) /\ Without(<<"pki">>, Trust)
        /\ Without(<<"publickey">>, Trust)
    BY DEF Trust, Without
  <1> QED BY <1>2, <1>3 DEF IsWord

LEMMA TextsJoin ==
    ASSUME NEW a \in Text, NEW b \in Text, NEW c \in Text
    PROVE  (a \o b) \o c = a \o (b \o c)
  BY ConcatAssociative DEF Text

LEMMA AfterBoth ==
    ASSUME NEW w, <<w>> \in Text, NEW a \in Text, NEW b \in Text
    PROVE  (<<w>> \o a) \o b = <<w>> \o (a \o b)
  BY TextsJoin

LEMMA MethodHashIs ==
    ASSUME NEW c \in ValidationConfig, NoTrustWord(c)
    PROVE  /\ MethodHash(c) \in Text /\ Without(MethodHash(c), Trust)
           /\ c.sigstore # {} =>
                 /\ Only(c.sigstore).identity \o Only(c.sigstore).issuer \in Text
                 /\ MethodHash(c) = After("sigstore",
                                          Only(c.sigstore).identity \o Only(c.sigstore).issuer)
           /\ c.pki # {} => MethodHash(c) = After("pki", Only(c.pki))
           /\ c.publicKey # {} => MethodHash(c) = After("publickey", Only(c.publicKey))
  <1>1. CASE c.sigstore # {}
    <2> DEFINE m == Only(c.sigstore)
    <2>1. m.identity \in Text /\ m.issuer \in Text /\ m \in c.sigstore
      BY <1>1, ConfigHasOne
    <2>2. Without(m.identity, Trust) /\ Without(m.issuer, Trust)
      BY <2>1 DEF NoTrustWord
    <2>3. m.identity \o m.issuer \in Text /\ Without(m.identity \o m.issuer, Trust)
      BY <2>1, <2>2, Joined
    <2>4. MethodHash(c) = <<"sigstore">> \o m.identity \o m.issuer
      BY <1>1 DEF MethodHash
    <2>5. <<"sigstore">> \in Text
      BY MethodWords
    <2>6. ASSUME NEW w, <<w>> \in Text
          PROVE  (<<w>> \o m.identity) \o m.issuer = <<w>> \o (m.identity \o m.issuer)
      <3> HIDE DEF m
      <3> QED BY <2>1, <2>6, AfterBoth
    <2>7. MethodHash(c) = <<"sigstore">> \o (m.identity \o m.issuer)
      BY <2>4, <2>5, <2>6, Zenon
    <2>8. MethodHash(c) \in Text /\ Without(MethodHash(c), Trust)
      BY <2>3, <2>5, <2>7, MethodWords, Joined
    <2>9. c.publicKey = {} /\ c.pki = {}
      BY <1>1, ConfigHasOne
    <2>10. MethodHash(c) = After("sigstore", m.identity \o m.issuer)
      BY <2>7, Zenon DEF After
    <2> QED BY <2>3, <2>8, <2>9, <2>10
  <1>2. CASE c.pki # {}
    <2>1. c.sigstore = {} /\ c.publicKey = {} /\ Only(c.pki) \in Text /\ Only(c.pki) \in c.pki
      BY <1>2, ConfigHasOne
    <2>2. MethodHash(c) = <<"pki">> \o Only(c.pki) /\ Without(Only(c.pki), Trust)
      BY <1>2, <2>1 DEF MethodHash, NoTrustWord
    <2>3. MethodHash(c) \in Text /\ Without(MethodHash(c), Trust)
      BY <2>1, <2>2, MethodWords, Joined
    <2>4. MethodHash(c) = After("pki", Only(c.pki))
      BY <2>2, Zenon DEF After
    <2> QED BY <1>2, <2>1, <2>3, <2>4
  <1>3. CASE c.sigstore = {} /\ c.pki = {}
    <2>1. c.publicKey # {}
      BY <1>3, ConfigHasOne
    <2>2. Only(c.publicKey) \in Text /\ Only(c.publicKey) \in c.publicKey
      BY <2>1, ConfigHasOne
    <2>3. MethodHash(c) = <<"publickey">> \o Only(c.publicKey) /\ Without(Only(c.publicKey), Trust)
      BY <1>3, <2>2 DEF MethodHash, NoTrustWord
    <2>4. MethodHash(c) \in Text /\ Without(MethodHash(c), Trust)
      BY <2>2, <2>3, MethodWords, Joined
    <2>5. MethodHash(c) = After("publickey", Only(c.publicKey))
      BY <2>3, Zenon DEF After
    <2> QED BY <1>3, <2>4, <2>5
  <1> QED BY <1>1, <1>2, <1>3

(* The identity with the issuer behind it, as the hash has them.            *)
SignerOf(config) == IF config.sigstore # {}
                    THEN Only(config.sigstore).identity \o Only(config.sigstore).issuer ELSE <<>>

(* What a configuration's hash tells of it.                                 *)
SameCredentials(c, d) ==
    /\ MethodOf(c) = MethodOf(d) /\ SignerOf(c) = SignerOf(d)
    /\ c.pki = d.pki /\ c.publicKey = d.publicKey /\ c.trust = d.trust

LEMMA SameMethod ==
    ASSUME NEW s \in Specs, NEW t \in Specs,
           NoTrustWord(s.config), NoTrustWord(t.config),
           GetAuthMethod(s) = GetAuthMethod(t), MethodHash(s.config) = MethodHash(t.config)
    PROVE  /\ MethodOf(s.config) = MethodOf(t.config)
           /\ SignerOf(s.config) = SignerOf(t.config)
           /\ s.config.pki = t.config.pki /\ s.config.publicKey = t.config.publicKey
  <1> DEFINE c == s.config
             d == t.config
  <1>1. c \in ValidationConfig /\ d \in ValidationConfig
    BY InjectionAssumption DEF ModelValidationSpec
  <1>2. /\ c.sigstore # {} <=> d.sigstore # {}
        /\ c.pki # {} <=> d.pki # {}
        /\ c.publicKey # {} <=> d.publicKey # {}
    BY <1>1, ConfigHasOne DEF GetAuthMethod
  <1>3. CASE c.sigstore # {}
    <2>1. /\ SignerOf(c) \in Text /\ SignerOf(d) \in Text
          /\ After("sigstore", SignerOf(c)) = After("sigstore", SignerOf(d))
      BY <1>1, <1>2, <1>3, MethodHashIs DEF SignerOf
    <2>2. SignerOf(c) = SignerOf(d)
      BY <2>1, SameAfter, MethodWords
    <2>3. c.pki = {} /\ d.pki = {} /\ c.publicKey = {} /\ d.publicKey = {}
      BY <1>1, <1>2, <1>3, ConfigHasOne
    <2> QED BY <1>2, <1>3, <2>2, <2>3 DEF MethodOf
  <1>4. CASE c.pki # {}
    <2>1. /\ Only(c.pki) \in Text /\ c.pki = {Only(c.pki)}
          /\ Only(d.pki) \in Text /\ d.pki = {Only(d.pki)}
          /\ c.sigstore = {} /\ d.sigstore = {} /\ c.publicKey = {} /\ d.publicKey = {}
      BY <1>1, <1>2, <1>4, ConfigHasOne
    <2>2. After("pki", Only(c.pki)) = After("pki", Only(d.pki))
      BY <1>1, <1>2, <1>4, MethodHashIs
    <2>3. Only(c.pki) = Only(d.pki)
      BY <2>1, <2>2, SameAfter, MethodWords
    <2> QED BY <2>1, <2>3 DEF MethodOf, SignerOf
  <1>5. CASE c.sigstore = {} /\ c.pki = {}
    <2>1. c.publicKey # {} /\ d.publicKey # {}
      BY <1>1, <1>2, <1>5, ConfigHasOne
    <2>2. /\ Only(c.publicKey) \in Text /\ c.publicKey = {Only(c.publicKey)}
          /\ Only(d.publicKey) \in Text /\ d.publicKey = {Only(d.publicKey)}
      BY <1>1, <2>1, ConfigHasOne
    <2>3. After("publickey", Only(c.publicKey)) = After("publickey", Only(d.publicKey))
      BY <1>1, <2>1, MethodHashIs
    <2>4. Only(c.publicKey) = Only(d.publicKey)
      BY <2>2, <2>3, SameAfter, MethodWords
    <2> QED BY <1>2, <1>5, <2>2, <2>4 DEF MethodOf, SignerOf
  <1> QED BY <1>3, <1>4, <1>5

LEMMA SameConfig ==
    ASSUME NEW s \in Specs, NEW t \in Specs,
           NoTrustWord(s.config), NoTrustWord(t.config),
           GetAuthMethod(s) = GetAuthMethod(t), ConfigHash(s.config) = ConfigHash(t.config)
    PROVE  SameCredentials(s.config, t.config)
  <1>1. s.config \in ValidationConfig /\ t.config \in ValidationConfig
    BY InjectionAssumption DEF ModelValidationSpec
  <1>2. MethodHash(s.config) \o TrustHash(s.config) = MethodHash(t.config) \o TrustHash(t.config)
    BY <1>1, TrustIs
  <1>3. /\ MethodHash(s.config) = MethodHash(t.config)
        /\ TrustHash(s.config) = TrustHash(t.config)
    <2>1. /\ MethodHash(s.config) \in Text /\ Without(MethodHash(s.config), Trust)
          /\ MethodHash(t.config) \in Text /\ Without(MethodHash(t.config), Trust)
      BY <1>1, MethodHashIs
    <2>2. /\ TrustHash(s.config) \in Text /\ StartsWith(TrustHash(s.config), Trust)
          /\ TrustHash(t.config) \in Text /\ StartsWith(TrustHash(t.config), Trust)
      BY <1>1, TrustIs
    <2> QED BY <1>2, <2>1, <2>2, CutAtWord
  <1>4. s.config.trust = t.config.trust
    BY <1>1, <1>3, SameTrust
  <1>5. /\ MethodOf(s.config) = MethodOf(t.config) /\ SignerOf(s.config) = SignerOf(t.config)
        /\ s.config.pki = t.config.pki /\ s.config.publicKey = t.config.publicKey
    BY <1>3, SameMethod
  <1> QED BY <1>4, <1>5 DEF SameCredentials

(* The rest of the hash.                                                    *)
Res == "resources"

NoResWord(s) ==
    \A c \in s.continuousValidation : Without(c.interval, Res)

LEMMA RestWords ==
    /\ IsWord(Res) /\ IsWord("continuous-enabled") /\ IsWord("continuous-disabled")
    /\ IsWord("req-cpu") /\ IsWord("req-mem") /\ IsWord("lim-cpu") /\ IsWord("lim-mem")
    /\ Without(<<"continuous-enabled">>, Res) /\ Without(<<"continuous-disabled">>, Res)
  <1>1. /\ Res \in STRING /\ "continuous-enabled" \in STRING /\ "continuous-disabled" \in STRING
        /\ "req-cpu" \in STRING /\ "req-mem" \in STRING /\ "lim-cpu" \in STRING
        /\ "lim-mem" \in STRING
    BY WordsAssumption DEF Res
  <1>2. \A w \in STRING : IsWord(w)
    BY OneWord, Zenon DEF IsWord
  <1>3. Without(<<"continuous-enabled">>, Res) /\ Without(<<"continuous-disabled">>, Res)
    BY DEF Res, Without
  <1> QED BY <1>1, <1>2, <1>3, Zenon

LEMMA ContinuousHashIs ==
    ASSUME NEW s \in Specs, NoResWord(s)
    PROVE  LET given == s.continuousValidation IN
           /\ ContinuousHash(given) \in Text /\ Without(ContinuousHash(given), Res)
           /\ continuousEnabled(s) =>
                 /\ Only(given).interval \in Text
                 /\ ContinuousHash(given) = After("continuous-enabled", Only(given).interval)
           /\ ~continuousEnabled(s) =>
                 ContinuousHash(given) \in {<<>>, <<"continuous-disabled">>}
  <1> DEFINE given == s.continuousValidation
  <1>1. given \in Optional([enabled : BOOLEAN, interval : Text])
    BY InjectionAssumption DEF ModelValidationSpec
  <1>2. CASE given = {}
    <2>1. ContinuousHash(given) = <<>>
      BY <1>2 DEF ContinuousHash
    <2>2. ~continuousEnabled(s)
      BY <1>2 DEF continuousEnabled
    <2>3. <<>> \in Text /\ Without(<<>>, Res)
      BY DEF Text, Without
    <2> QED BY <2>1, <2>2, <2>3
  <1>3. CASE given # {}
    <2>1. /\ Only(given) \in [enabled : BOOLEAN, interval : Text]
          /\ given = {Only(given)}
      BY <1>1, <1>3, OnlyIs
    <2>2. Only(given).interval \in Text /\ Without(Only(given).interval, Res)
      BY <2>1 DEF NoResWord
    <2>3. continuousEnabled(s) <=> Only(given).enabled
      BY <2>1 DEF continuousEnabled
    <2>4. CASE Only(given).enabled
      <3>1. ContinuousHash(given) = <<"continuous-enabled">> \o Only(given).interval
        BY <1>3, <2>4 DEF ContinuousHash
      <3>2. <<"continuous-enabled">> \in Text
        BY RestWords DEF IsWord
      <3>3. ContinuousHash(given) \in Text /\ Without(ContinuousHash(given), Res)
        BY <2>2, <3>1, <3>2, RestWords, Joined
      <3>4. ContinuousHash(given) = After("continuous-enabled", Only(given).interval)
        BY <3>1, Zenon DEF After
      <3> QED BY <2>2, <2>3, <2>4, <3>3, <3>4
    <2>5. CASE ~Only(given).enabled
      <3>1. ContinuousHash(given) = <<"continuous-disabled">>
        BY <1>3, <2>5 DEF ContinuousHash
      <3> QED BY <2>3, <2>5, <3>1, RestWords DEF IsWord
    <2> QED BY <2>4, <2>5
  <1> QED BY <1>2, <1>3

LEMMA SameContinuous ==
    ASSUME NEW s \in Specs, NEW t \in Specs, NoResWord(s), NoResWord(t),
           ContinuousHash(s.continuousValidation) = ContinuousHash(t.continuousValidation)
    PROVE  /\ continuousEnabled(s) <=> continuousEnabled(t)
           /\ continuousEnabled(s) => interval(s) = interval(t)
  <1>1. ASSUME NEW a \in Specs, NoResWord(a), continuousEnabled(a)
        PROVE  ContinuousHash(a.continuousValidation) \notin {<<>>, <<"continuous-disabled">>}
    <2> DEFINE i == Only(a.continuousValidation).interval
    <2>1. /\ i \in Text
          /\ ContinuousHash(a.continuousValidation) = After("continuous-enabled", i)
      BY <1>1, ContinuousHashIs
    <2> HIDE DEF i
    <2>2. /\ After("continuous-enabled", i)[1] = "continuous-enabled"
          /\ After("continuous-enabled", i) # <<>>
      <3>1. \A w : IsWord(w) => After(w, i)[1] = w /\ After(w, i) # <<>>
        BY <2>1, HeadOf DEF IsWord, After
      <3> QED BY <3>1, RestWords
    <2>3. <<"continuous-disabled">>[1] = "continuous-disabled"
      OBVIOUS
    <2> QED BY <2>1, <2>2, <2>3
  <1>2. continuousEnabled(s) <=> continuousEnabled(t)
    BY <1>1, ContinuousHashIs
  <1>3. ASSUME continuousEnabled(s) PROVE interval(s) = interval(t)
    <2> DEFINE i == Only(s.continuousValidation).interval
               j == Only(t.continuousValidation).interval
    <2>1. /\ i \in Text /\ j \in Text
          /\ After("continuous-enabled", i) = After("continuous-enabled", j)
      BY <1>2, <1>3, ContinuousHashIs
    <2> HIDE DEF i, j
    <2>2. i = j
      BY <2>1, SameAfter, RestWords
    <2> QED BY <2>2 DEF interval, i, j
  <1> QED BY <1>2, <1>3

(* One amount after the other: what follows an amount never begins with the *)
(* word that announces it.                                                  *)
LEMMA AmountIs ==
    ASSUME NEW m, NEW r
    PROVE  /\ m[r] = NoWord => AmountHash(m, r) = <<>>
           /\ m[r] # NoWord => AmountHash(m, r) = <<r, m[r]>>
  BY Zenon DEF AmountHash, NoWord

LEMMA PairOf ==
    ASSUME NEW D, NEW S, NEW m \in [D -> S], NEW r \in DOMAIN m, <<r>> \in Seq(S)
    PROVE  <<r, m[r]>> \in Seq(S) /\ Len(<<r, m[r]>>) = 2 /\ <<r, m[r]>>[1] = r
  <1>1. m[r] \in S
    OBVIOUS
  <1>2. r \in S
    <2>1. <<r>>[1] \in S
      BY ElementOfSeq
    <2> QED BY <2>1
  <1> QED BY <1>1, <1>2

LEMMA AmountText ==
    ASSUME NEW m \in Resources, NEW r \in DOMAIN m, IsWord(r)
    PROVE  <<r, m[r]>> \in Text /\ Len(<<r, m[r]>>) = 2 /\ <<r, m[r]>>[1] = r
  BY PairOf, Zenon DEF Resources, IsWord, Text

StartsIn(x, W) == x = <<>> \/ \E w \in W : x[1] = w

LEMMA Announced ==
    ASSUME NEW m \in Resources, NEW r \in DOMAIN m, IsWord(r), NEW x \in Text
    PROVE  /\ AmountHash(m, r) \o x \in Text
           /\ m[r] = NoWord => AmountHash(m, r) \o x = x
           /\ m[r] # NoWord => /\ AmountHash(m, r) \o x = <<r, m[r]>> \o x
                               /\ (AmountHash(m, r) \o x)[1] = r /\ AmountHash(m, r) \o x # <<>>
  <1>1. CASE m[r] = NoWord
    <2>1. AmountHash(m, r) \o x = x
      BY <1>1, AmountIs DEF Text
    <2> QED BY <1>1, <2>1
  <1>2. CASE m[r] # NoWord
    <2>1. <<r, m[r]>> \in Text /\ Len(<<r, m[r]>>) = 2 /\ <<r, m[r]>>[1] = r
      BY AmountText
    <2>2. <<r, m[r]>> \o x \in Text /\ (<<r, m[r]>> \o x)[1] = r /\ <<r, m[r]>> \o x # <<>>
      BY <2>1, HeadKept
    <2> QED BY <1>2, <2>2, AmountIs
  <1> QED BY <1>1, <1>2

Joins(a, b) == a \o b

AfterAmount(m, r, x) == Joins(AmountHash(m, r), x)

LEMMA SameAmount ==
    ASSUME NEW m \in Resources, NEW n \in Resources, NEW r, IsWord(r), r \in DOMAIN m, r \in DOMAIN n,
           NEW x \in Text, NEW y \in Text, NEW W, StartsIn(x, W), StartsIn(y, W), r \notin W,
           AfterAmount(m, r, x) = AfterAmount(n, r, y)
    PROVE  m[r] = n[r] /\ x = y
  <1>0. AmountHash(m, r) \o x = AmountHash(n, r) \o y
    BY Zenon DEF AfterAmount, Joins
  <1>1. /\ m[r] = NoWord => AmountHash(m, r) \o x = x
        /\ m[r] # NoWord => /\ AmountHash(m, r) \o x = <<r, m[r]>> \o x
                            /\ (AmountHash(m, r) \o x)[1] = r /\ AmountHash(m, r) \o x # <<>>
    BY Announced, Zenon
  <1>2. /\ n[r] = NoWord => AmountHash(n, r) \o y = y
        /\ n[r] # NoWord => /\ AmountHash(n, r) \o y = <<r, n[r]>> \o y
                            /\ (AmountHash(n, r) \o y)[1] = r /\ AmountHash(n, r) \o y # <<>>
    BY Announced, Zenon
  <1>3. CASE m[r] = NoWord /\ n[r] = NoWord
    BY <1>0, <1>1, <1>2, <1>3
  <1>4. CASE m[r] = NoWord /\ n[r] # NoWord
    BY <1>0, <1>1, <1>2, <1>4 DEF StartsIn
  <1>5. CASE m[r] # NoWord /\ n[r] = NoWord
    BY <1>0, <1>1, <1>2, <1>5 DEF StartsIn
  <1>6. CASE m[r] # NoWord /\ n[r] # NoWord
    <2>2. <<r, m[r]>> \in Text /\ <<r, n[r]>> \in Text
      BY AmountText, Zenon
    <2>3. Len(<<r, m[r]>>) = Len(<<r, n[r]>>)
      OBVIOUS
    <2>4. <<r, m[r]>> \o x = <<r, n[r]>> \o y
      BY <1>0, <1>1, <1>2, <1>6, Zenon
    <2>5. <<r, m[r]>> = <<r, n[r]>> /\ x = y
      BY <2>2, <2>3, <2>4, SameLength, Zenon
    <2>6. m[r] = n[r]
      BY <2>5
    <2> QED BY <2>5, <2>6
  <1> QED BY <1>3, <1>4, <1>5, <1>6

Amounts4(m) == <<Res>> \o AmountHash(m, "req-cpu") \o AmountHash(m, "req-mem")
                       \o AmountHash(m, "lim-cpu") \o AmountHash(m, "lim-mem")

LEMMA AmountTyped ==
    ASSUME NEW m \in Resources, NEW r \in DOMAIN m, IsWord(r)
    PROVE  AmountHash(m, r) \in Text
  <1>1. <<>> \in Text
    BY DEF Text
  <1> QED BY <1>1, AmountIs, AmountText

LEMMA ComputeIs ==
    ASSUME NEW m \in Resources
    PROVE  /\ {"req-cpu", "req-mem", "lim-cpu", "lim-mem"} \subseteq DOMAIN m
           /\ Compute = {"req-cpu", "req-mem", "lim-cpu", "lim-mem"}
  BY DEF Resources, Compute

(* The same with the parentheses the other way round.                       *)
LEMMA JoinsIs ==
    ASSUME NEW a \in Text, NEW b \in Text
    PROVE  /\ Joins(a, b) \in Text
           /\ \A c \in Text : Joins(Joins(a, b), c) = Joins(a, Joins(b, c))
  BY Joined, TextsJoin DEF Joins

LEMMA FiveJoined ==
    ASSUME NEW v \in Text, NEW a \in Text, NEW b \in Text, NEW c \in Text, NEW d \in Text
    PROVE  Joins(Joins(Joins(Joins(v, a), b), c), d) = Joins(v, Joins(a, Joins(b, Joins(c, d))))
  <1>1. /\ Joins(c, d) \in Text /\ Joins(b, Joins(c, d)) \in Text /\ Joins(v, a) \in Text
        /\ Joins(Joins(v, a), b) \in Text
    BY JoinsIs
  <1>2. Joins(Joins(Joins(Joins(v, a), b), c), d) = Joins(Joins(Joins(v, a), b), Joins(c, d))
    BY <1>1, JoinsIs
  <1>3. Joins(Joins(Joins(v, a), b), Joins(c, d)) = Joins(Joins(v, a), Joins(b, Joins(c, d)))
    BY <1>1, JoinsIs
  <1>4. Joins(Joins(v, a), Joins(b, Joins(c, d))) = Joins(v, Joins(a, Joins(b, Joins(c, d))))
    BY <1>1, JoinsIs
  <1> QED BY <1>2, <1>3, <1>4

LEMMA Amounts4Is ==
    ASSUME NEW m \in Resources
    PROVE  Amounts4(m) =
           After(Res, AfterAmount(m, "req-cpu", AfterAmount(m, "req-mem",
                         AfterAmount(m, "lim-cpu", AfterAmount(m, "lim-mem", <<>>)))))
  <1> DEFINE a == AmountHash(m, "req-cpu")
             b == AmountHash(m, "req-mem")
             c == AmountHash(m, "lim-cpu")
             d == AmountHash(m, "lim-mem")
             v == <<Res>>
  <1>1. a \in Text /\ b \in Text /\ c \in Text /\ d \in Text
    BY AmountTyped, ComputeIs, RestWords
  <1>2. v \in Text
    BY RestWords DEF IsWord
  <1>3. Joins(d, <<>>) = d
    BY <1>1 DEF Text, Joins
  <1>4. Amounts4(m) = Joins(Joins(Joins(Joins(v, a), b), c), d)
    BY Zenon DEF Amounts4, Joins
  <1> HIDE DEF a, b, c, d, v
  <1>5. Amounts4(m) = Joins(v, Joins(a, Joins(b, Joins(c, d))))
    BY <1>1, <1>2, <1>4, FiveJoined
  <1>6. Amounts4(m) = Joins(v, Joins(a, Joins(b, Joins(c, Joins(d, <<>>)))))
    BY <1>3, <1>5, Zenon
  <1> QED BY <1>6, Zenon DEF AfterAmount, After, Joins, a, b, c, d, v

LEMMA NextAmount ==
    ASSUME NEW m \in Resources, NEW r \in DOMAIN m, IsWord(r), NEW x \in Text, NEW W, StartsIn(x, W)
    PROVE  /\ AfterAmount(m, r, x) \in Text
           /\ StartsIn(AfterAmount(m, r, x), W \cup {r})
  <1>1. CASE m[r] = NoWord
    BY <1>1, Announced DEF StartsIn, AfterAmount, Joins
  <1>2. CASE m[r] # NoWord
    BY <1>2, Announced DEF StartsIn, AfterAmount, Joins
  <1> QED BY <1>1, <1>2

LEMMA AmountsTyped ==
    ASSUME NEW q \in Resources
    PROVE  LET x4 == AfterAmount(q, "lim-mem", <<>>)
               x3 == AfterAmount(q, "lim-cpu", x4)
               x2 == AfterAmount(q, "req-mem", x3)
           IN /\ x4 \in Text /\ StartsIn(x4, {"lim-mem"})
              /\ x3 \in Text /\ StartsIn(x3, {"lim-mem", "lim-cpu"})
              /\ x2 \in Text /\ StartsIn(x2, {"lim-mem", "lim-cpu", "req-mem"})
              /\ AfterAmount(q, "req-cpu", x2) \in Text
  <1> DEFINE x4 == AfterAmount(q, "lim-mem", <<>>)
             x3 == AfterAmount(q, "lim-cpu", x4)
             x2 == AfterAmount(q, "req-mem", x3)
  <1>1. <<>> \in Text /\ StartsIn(<<>>, {})
    BY DEF StartsIn, Text
  <1>2. /\ {} \cup {"lim-mem"} = {"lim-mem"}
        /\ {"lim-mem"} \cup {"lim-cpu"} = {"lim-mem", "lim-cpu"}
        /\ {"lim-mem", "lim-cpu"} \cup {"req-mem"} = {"lim-mem", "lim-cpu", "req-mem"}
    OBVIOUS
  <1>3. x4 \in Text /\ StartsIn(x4, {"lim-mem"})
    BY <1>1, <1>2, ComputeIs, RestWords, NextAmount
  <1> HIDE DEF x4
  <1>4. x3 \in Text /\ StartsIn(x3, {"lim-mem", "lim-cpu"})
    BY <1>2, <1>3, ComputeIs, RestWords, NextAmount
  <1> HIDE DEF x3
  <1>5. x2 \in Text /\ StartsIn(x2, {"lim-mem", "lim-cpu", "req-mem"})
    BY <1>2, <1>4, ComputeIs, RestWords, NextAmount
  <1> HIDE DEF x2
  <1>6. AfterAmount(q, "req-cpu", x2) \in Text
    BY <1>5, ComputeIs, RestWords, NextAmount
  <1> QED BY <1>3, <1>4, <1>5, <1>6 DEF x2, x3, x4

LEMMA SameAmounts ==
    ASSUME NEW m \in Resources, NEW n \in Resources, Amounts4(m) = Amounts4(n)
    PROVE  \A r \in Compute : m[r] = n[r]
  <1> DEFINE x4(q) == AfterAmount(q, "lim-mem", <<>>)
             x3(q) == AfterAmount(q, "lim-cpu", x4(q))
             x2(q) == AfterAmount(q, "req-mem", x3(q))
             x1(q) == AfterAmount(q, "req-cpu", x2(q))
             W4 == {"lim-mem"}
             W3 == {"lim-mem", "lim-cpu"}
             W2 == {"lim-mem", "lim-cpu", "req-mem"}
  <1>0. <<>> \in Text /\ StartsIn(<<>>, {})
    BY DEF StartsIn, Text
  <1>1. ASSUME NEW q \in Resources
        PROVE  /\ x4(q) \in Text /\ StartsIn(x4(q), W4)
               /\ x3(q) \in Text /\ StartsIn(x3(q), W3)
               /\ x2(q) \in Text /\ StartsIn(x2(q), W2)
               /\ x1(q) \in Text
    BY AmountsTyped, Zenon
  <1>2. /\ "lim-mem" \notin {} /\ "lim-cpu" \notin W4 /\ "req-mem" \notin W3 /\ "req-cpu" \notin W2
    OBVIOUS
  <1>3. After(Res, x1(m)) = After(Res, x1(n))
    BY Amounts4Is
  <1>4. x1(m) = x1(n)
    <2> HIDE DEF x1
    <2> QED BY <1>1, <1>3, RestWords, SameAfter
  <1> HIDE DEF W2, W3, W4
  <1>5. m["req-cpu"] = n["req-cpu"] /\ x2(m) = x2(n)
    <2> HIDE DEF x2
    <2> QED BY <1>1, <1>2, <1>4, RestWords, ComputeIs, SameAmount
  <1>6. m["req-mem"] = n["req-mem"] /\ x3(m) = x3(n)
    <2> HIDE DEF x1, x3
    <2> QED BY <1>1, <1>2, <1>5, RestWords, ComputeIs, SameAmount
  <1>7. m["lim-cpu"] = n["lim-cpu"] /\ x4(m) = x4(n)
    <2> HIDE DEF x1, x2, x4
    <2> QED BY <1>1, <1>2, <1>6, RestWords, ComputeIs, SameAmount
  <1>8. m["lim-mem"] = n["lim-mem"]
    <2> HIDE DEF x1, x2, x3
    <2> QED BY <1>0, <1>2, <1>7, RestWords, ComputeIs, SameAmount
  <1> QED BY <1>5, <1>6, <1>7, <1>8, ComputeIs

ResourcesHashOf(s) == ResourcesHash(s.resources)

LEMMA ResourcesHashIs ==
    ASSUME NEW s \in Specs
    PROVE  /\ ResourcesHashOf(s) \in Text /\ StartsWith(ResourcesHashOf(s), Res)
           /\ s.resources = {} => ResourcesHashOf(s) = <<>>
           /\ s.resources # {} => /\ Only(s.resources) \in Resources
                                  /\ ResourcesHashOf(s) = Amounts4(Only(s.resources))
                                  /\ ResourcesHashOf(s) # <<>>
  <1>1. CASE s.resources = {}
    <2>1. ResourcesHashOf(s) = <<>>
      BY <1>1, Zenon DEF ResourcesHashOf, ResourcesHash
    <2>2. <<>> \in Text /\ StartsWith(<<>>, Res)
      BY DEF Text, StartsWith
    <2> QED BY <1>1, <2>1, <2>2
  <1>2. CASE s.resources # {}
    <2> DEFINE m == Only(s.resources)
               x == AfterAmount(m, "req-cpu", AfterAmount(m, "req-mem",
                       AfterAmount(m, "lim-cpu", AfterAmount(m, "lim-mem", <<>>))))
    <2>1. m \in Resources
      <3>1. s.resources \in Optional(Resources)
        BY InjectionAssumption, Zenon DEF ModelValidationSpec
      <3> QED BY <1>2, <3>1, OnlyIs
    <2>2. ResourcesHashOf(s) = Amounts4(m)
      BY <1>2, Zenon DEF ResourcesHashOf, ResourcesHash, Amounts4, Res
    <2>3. ResourcesHashOf(s) = After(Res, x)
      BY <2>1, <2>2, Amounts4Is
    <2>4. x \in Text
      <3> HIDE DEF m
      <3> QED BY <2>1, AmountsTyped, Zenon
    <2> HIDE DEF x
    <2>5. /\ After(Res, x) \in Text /\ After(Res, x)[1] = Res /\ After(Res, x) # <<>>
      <3>1. <<Res>> \in Text
        BY RestWords DEF IsWord
      <3> QED BY <2>4, <3>1, HeadOf DEF After
    <2> QED BY <1>2, <2>1, <2>2, <2>3, <2>5 DEF StartsWith
  <1> QED BY <1>1, <1>2

(* Two specs of the same hash agree in what the agents are given of them.   *)
LEMMA SameRest ==
    ASSUME NEW s \in Specs, NEW t \in Specs, NoResWord(s), NoResWord(t),
           GetConfigHash(s) = GetConfigHash(t)
    PROVE  /\ ConfigHash(s.config) = ConfigHash(t.config)
           /\ s.imagePullPolicy = t.imagePullPolicy
           /\ ContinuousHash(s.continuousValidation) = ContinuousHash(t.continuousValidation)
           /\ ResourcesHashOf(s) = ResourcesHashOf(t)
  <1> DEFINE p(a) == a.imagePullPolicy
             C(a) == ContinuousHash(a.continuousValidation)
             R(a) == ResourcesHashOf(a)
  <1>1. ConfigHash(s.config) = ConfigHash(t.config)
    BY DEF GetConfigHash
  <1>2. <<p(s)>> \o C(s) \o R(s) = <<p(t)>> \o C(t) \o R(t)
    BY DEF GetConfigHash, ResourcesHashOf
  <1>3. ASSUME NEW a \in Specs, NoResWord(a)
        PROVE  /\ <<p(a)>> \in Text
               /\ C(a) \in Text /\ Without(C(a), Res)
               /\ R(a) \in Text /\ StartsWith(R(a), Res)
               /\ C(a) \o R(a) \in Text
    <2>1. p(a) \in STRING
      BY InjectionAssumption, Zenon DEF ModelValidationSpec
    <2>2. <<p(a)>> \in Text
      BY <2>1, OneWord
    <2>3. C(a) \in Text /\ Without(C(a), Res)
      BY <1>3, ContinuousHashIs
    <2>4. R(a) \in Text /\ StartsWith(R(a), Res)
      BY ResourcesHashIs
    <2> QED BY <2>2, <2>3, <2>4, Joined
  <1> HIDE DEF p, C, R
  <1>4. /\ <<p(s)>> \o C(s) \o R(s) = <<p(s)>> \o (C(s) \o R(s))
        /\ <<p(t)>> \o C(t) \o R(t) = <<p(t)>> \o (C(t) \o R(t))
    <2>1. <<p(s)>> \in Text /\ C(s) \in Text /\ R(s) \in Text
      BY <1>3
    <2>2. <<p(t)>> \in Text /\ C(t) \in Text /\ R(t) \in Text
      BY <1>3
    <2>3. <<p(s)>> \o C(s) \o R(s) = <<p(s)>> \o (C(s) \o R(s))
      BY <2>1, AfterBoth
    <2>4. <<p(t)>> \o C(t) \o R(t) = <<p(t)>> \o (C(t) \o R(t))
      BY <2>2, AfterBoth
    <2> QED BY <2>3, <2>4
  <1>5. <<p(s)>> \o (C(s) \o R(s)) = <<p(t)>> \o (C(t) \o R(t))
    BY <1>2, <1>4, Zenon
  <1>6. Len(<<p(s)>>) = Len(<<p(t)>>)
    OBVIOUS
  <1>7. <<p(s)>> = <<p(t)>> /\ C(s) \o R(s) = C(t) \o R(t)
    <2>1. /\ <<p(s)>> \in Text /\ <<p(t)>> \in Text
          /\ C(s) \o R(s) \in Text /\ C(t) \o R(t) \in Text
      BY <1>3
    <2> QED BY <1>5, <1>6, <2>1, SameLength, Zenon
  <1>8. p(s) = p(t)
    BY <1>7
  <1>9. C(s) = C(t) /\ R(s) = R(t)
    BY <1>3, <1>7, CutAtWord
  <1> QED BY <1>1, <1>8, <1>9 DEF p, C, R

LEMMA SameResources ==
    ASSUME NEW s \in Specs, NEW t \in Specs, ResourcesHashOf(s) = ResourcesHashOf(t)
    PROVE  \A r \in Compute : resources(s)[r] = resources(t)[r]
  <1>1. CASE s.resources = {}
    <2>1. t.resources = {}
      BY <1>1, ResourcesHashIs
    <2> QED BY <1>1, <2>1, Zenon DEF resources
  <1>2. CASE s.resources # {}
    <2>1. t.resources # {}
      BY <1>2, ResourcesHashIs
    <2>2. resources(s) = Only(s.resources) /\ resources(t) = Only(t.resources)
      BY <1>2, <2>1, Zenon DEF resources
    <2>3. /\ Only(s.resources) \in Resources /\ Only(t.resources) \in Resources
          /\ Amounts4(Only(s.resources)) = Amounts4(Only(t.resources))
      BY <1>2, <2>1, ResourcesHashIs
    <2> QED BY <2>2, <2>3, SameAmounts
  <1> QED BY <1>1, <1>2

(* Whom an agent is to trust does not depend on the model.                  *)
OneOrNone(o) == IF o = {} THEN <<>> ELSE Only(o)

(* What a verifier is asked to trust, as the configuration has it.          *)
TrustedOf(config) ==
    [method |-> MethodOf(config), signer |-> SignerOf(config),
     texts  |-> [f \in Credentials(MethodOf(config)) \ {"identity", "identityProvider"} |->
                    IF f = "publicKey" THEN OneOrNone(config.publicKey)
                    ELSE IF f = "certificateChain" THEN OneOrNone(config.pki)
                    ELSE OneOrNone(config.trust)]]

(* The same of one of the texts it may ask for.                             *)
AskedText(config, f) ==
    IF f = "identity" THEN OneOrNone({c.identity : c \in config.sigstore})
    ELSE IF f = "identityProvider" THEN OneOrNone({c.issuer : c \in config.sigstore})
    ELSE IF f = "publicKey" THEN OneOrNone(config.publicKey)
    ELSE IF f = "certificateChain" THEN OneOrNone(config.pki)
    ELSE OneOrNone(config.trust)

LEMMA AskedIs ==
    ASSUME NEW model, NEW config \in ValidationConfig, NEW annotations
    PROVE  /\ Asked(model, config, annotations).method = MethodOf(config)
           /\ \A f \in Credentials(MethodOf(config)) :
                 Asked(model, config, annotations).texts[f] = AskedText(config, f)
  <1> DEFINE text == [model |-> model.path, signature |-> model.signaturePath,
                      identity |-> {c.identity : c \in config.sigstore},
                      identityProvider |-> {c.issuer : c \in config.sigstore},
                      publicKey |-> config.publicKey, certificateChain |-> config.pki,
                      trustConfig |-> config.trust]
             Given(f) == IF f \in {"model", "signature"} THEN text[f]
                         ELSE IF text[f] = {} THEN <<>> ELSE Only(text[f])
             m == MethodOf(config)
             a == Asked(model, config, annotations)
  <1>1. a.method = m /\ a.texts = [f \in Fields(m) |-> Given(f)]
    BY Zenon DEF Asked, MethodOf, Fields
  <1>2. Credentials(m) \subseteq Fields(m)
        /\ Credentials(m) \subseteq
              {"identity", "identityProvider", "publicKey", "certificateChain", "trustConfig"}
    BY DEF Credentials, Fields, MethodOf
  <1>3. \A f \in Credentials(m) : a.texts[f] = Given(f)
    <2> HIDE DEF a, m, Given
    <2> QED BY <1>1, <1>2
  <1>4. /\ text["identity"] = {c.identity : c \in config.sigstore}
        /\ text["identityProvider"] = {c.issuer : c \in config.sigstore}
        /\ text["publicKey"] = config.publicKey /\ text["certificateChain"] = config.pki
        /\ text["trustConfig"] = config.trust
    OBVIOUS
  <1> HIDE DEF text, m, a
  <1>5. ASSUME NEW f \in {"identity", "identityProvider", "publicKey", "certificateChain",
                          "trustConfig"}
        PROVE  Given(f) = AskedText(config, f)
    <2>1. Given(f) = OneOrNone(text[f])
      BY DEF OneOrNone
    <2> HIDE DEF Given
    <2> QED BY <1>4, <2>1 DEF AskedText
  <1> HIDE DEF Given
  <1> QED BY <1>1, <1>2, <1>3, <1>5 DEF m, a

LEMMA AskedTrusted ==
    ASSUME NEW model, NEW config \in ValidationConfig, NEW annotations
    PROVE  Trusted(Asked(model, config, annotations)) = TrustedOf(config)
  <1> DEFINE a    == Asked(model, config, annotations)
             m    == MethodOf(config)
             rest == Credentials(m) \ {"identity", "identityProvider"}
             Own(f) == IF f = "publicKey" THEN OneOrNone(config.publicKey)
                       ELSE IF f = "certificateChain" THEN OneOrNone(config.pki)
                       ELSE OneOrNone(config.trust)
  <1>1. a.method = m /\ \A f \in rest : a.texts[f] = Own(f)
    <2>1. a.method = m /\ \A f \in rest : a.texts[f] = AskedText(config, f)
      BY AskedIs
    <2> HIDE DEF a, m
    <2>2. \A f \in rest : AskedText(config, f) = Own(f)
      BY Zenon DEF AskedText
    <2> QED BY <2>1, <2>2
  <1>2. [f \in rest |-> a.texts[f]] = [f \in rest |-> Own(f)]
    <2> HIDE DEF a, m, rest, Own
    <2> QED BY <1>1
  <1>3. SignerOf(config) = IF m = "sigstore"
                           THEN a.texts["identity"] \o a.texts["identityProvider"] ELSE <<>>
    <2>1. CASE config.sigstore # {}
      <3>1. m = "sigstore" /\ {"identity", "identityProvider"} \subseteq Credentials(m)
        BY <2>1 DEF MethodOf, Credentials
      <3>2. PICK c : c = Only(config.sigstore) /\ config.sigstore = {c}
        BY <2>1, ConfigHasOne
      <3>3. \A x : Only({x}) = x
        BY DEF Only
      <3>4. \A x : OneOrNone({x}) = x
        BY <3>3 DEF OneOrNone
      <3>5. /\ {d.identity : d \in config.sigstore} = {c.identity}
            /\ {d.issuer : d \in config.sigstore} = {c.issuer}
        BY <3>2
      <3>6. /\ a.texts["identity"] = OneOrNone({d.identity : d \in config.sigstore})
            /\ a.texts["identityProvider"] = OneOrNone({d.issuer : d \in config.sigstore})
        <4>1. /\ a.texts["identity"] = AskedText(config, "identity")
              /\ a.texts["identityProvider"] = AskedText(config, "identityProvider")
          BY <3>1, AskedIs
        <4> HIDE DEF a, m
        <4> QED BY <4>1, Zenon DEF AskedText
      <3>7. a.texts["identity"] = c.identity /\ a.texts["identityProvider"] = c.issuer
        BY <3>4, <3>5, <3>6, Zenon
      <3> HIDE DEF a, m
      <3> QED BY <2>1, <3>1, <3>2, <3>7, Zenon DEF SignerOf
    <2>2. CASE config.sigstore = {}
      <3>1. m # "sigstore"
        BY <2>2 DEF MethodOf
      <3> HIDE DEF a, m
      <3> QED BY <2>2, <3>1, Zenon DEF SignerOf
    <2> QED BY <2>1, <2>2
  <1>4. Trusted(a) = [method |-> m,
                      signer |-> IF m = "sigstore"
                                 THEN a.texts["identity"] \o a.texts["identityProvider"] ELSE <<>>,
                      texts  |-> [f \in rest |-> a.texts[f]]]
    BY <1>1, Zenon DEF Trusted
  <1>5. TrustedOf(config) = [method |-> m, signer |-> SignerOf(config),
                             texts |-> [f \in rest |-> Own(f)]]
    BY Zenon DEF TrustedOf
  <1> HIDE DEF m, rest, Own
  <1> QED BY <1>2, <1>3, <1>4, <1>5, Zenon

LEMMA SameTrusted ==
    ASSUME NEW m, NEW n, NEW c \in ValidationConfig, NEW d \in ValidationConfig,
           SameCredentials(c, d), NEW annotations
    PROVE  Trusted(Asked(m, c, annotations)) = Trusted(Asked(n, d, annotations))
  <1>1. TrustedOf(c) = TrustedOf(d)
    BY Zenon DEF TrustedOf, SameCredentials
  <1> QED BY <1>1, AskedTrusted

LEMMA SameRevalidation ==
    ASSUME NEW agents, NEW s, NEW t, continuousEnabled(s) <=> continuousEnabled(t),
           continuousEnabled(s) => interval(s) = interval(t), RevalidatesAs(agents, s)
    PROVE  RevalidatesAs(agents, t)
  <1>1. CASE continuousEnabled(s)
    BY <1>1, Zenon DEF RevalidatesAs
  <1>2. CASE ~continuousEnabled(s)
    BY <1>2, Zenon DEF RevalidatesAs
  <1> QED BY <1>1, <1>2

LEMMA AgentsGiven ==
    ASSUME NEW s, NEW withNative, NEW tc, NEW annotations, NEW containers,
           NEW a \in Injected(s, withNative, tc, annotations, containers)
    PROVE  a.imagePullPolicy = imagePullPolicy(s) /\ a.resources = resources(s)
  <1> PICK policy : policy = imagePullPolicy(s)
    OBVIOUS
  <1> PICK amounts : amounts = resources(s)
    OBVIOUS
  <1>1. ASSUME NEW args, NEW mounts
        PROVE  /\ buildValidationContainer(s, args, mounts, tc, withNative).imagePullPolicy = policy
               /\ buildValidationContainer(s, args, mounts, tc, withNative).resources = amounts
               /\ buildLegacySidecarContainer(s, args, mounts).imagePullPolicy = policy
               /\ buildLegacySidecarContainer(s, args, mounts).resources = amounts
    BY DEF buildValidationContainer, buildLegacySidecarContainer, Agent
  <1>2. \E args, mounts :
           \/ a = buildValidationContainer(s, args, mounts, tc, withNative)
           \/ a = buildLegacySidecarContainer(s, args, mounts)
    BY Zenon DEF Injected
  <1> QED BY <1>1, <1>2

(* The premise of DriftDetectedAlways: the word that announces the trust    *)
(* configuration is not a part of an identity, an issuer or the path of a   *)
(* key, nor "resources" one of an interval, which is a duration             *)
(* (modelvalidation_types.go).                                              *)
HashReadsBack == \A s \in Specs : NoTrustWord(s.config) /\ NoResWord(s)

-----------------------------------------------------------------------------
(* What the webhook does to a pod *)

LEMMA InjectedIs ==
    ASSUME NEW s, NEW withNative, NEW tc, NEW annotations, NEW containers
    PROVE  LET agents == Injected(s, withNative, tc, annotations, containers) IN
           /\ agents # {}
           /\ \A a \in agents : /\ a.name \in {"init", "sidecar"}
                                /\ a.mounts = MountsFor(s, annotations, containers)
           /\ \A a, b \in agents : a.name = b.name => a = b
  <1> DEFINE model   == mergeModelWithAnnotations(s.model, annotations)
             args    == VerifyArgs(s.config, model)
             mounts  == agentMounts(s, model, containers)
             init    == buildValidationContainer(s, args, mounts, tc, withNative)
             sidecar == buildLegacySidecarContainer(s, args, mounts)
  <1>1. init.name = "init" /\ init.mounts = mounts
    BY DEF buildValidationContainer, Agent
  <1>2. sidecar.name = "sidecar" /\ sidecar.mounts = mounts
    BY DEF buildLegacySidecarContainer, Agent
  <1>3. mounts = MountsFor(s, annotations, containers)
    BY DEF MountsFor
  <1>4. Injected(s, withNative, tc, annotations, containers) \in {{init}, {init, sidecar}}
    BY DEF Injected
  <1> HIDE DEF init, sidecar, mounts
  <1> QED BY <1>1, <1>2, <1>3, <1>4

PodFields == {"annotations", "containers", "agents", "hash", "auth", "admitted"}

LEMMA HandleNew ==
    ASSUME NEW r, NEW tc
    PROVE  LET pod == Handle(NewPod(r), tc) IN
           /\ DOMAIN pod = PodFields
           /\ pod.containers = r.containers
           /\ pod.agents = Injected(spec, native, tc, r.annotations, r.containers)
           /\ pod.admitted = {[spec |-> spec, annotations |-> r.annotations]}
           /\ pod.hash = {GetConfigHash(spec)} /\ pod.auth = {GetAuthMethod(spec)}
  BY DEF Handle, NewPod, PodFields

(* A pod that has its agents keeps them, and what it was admitted under.    *)
LEMMA HandleAgain ==
    ASSUME NEW pod, DOMAIN pod = PodFields, NEW annotations, NEW tc,
           \E a \in pod.agents : a.name \in {"init", "sidecar"}
    PROVE  LET again == Handle([pod EXCEPT !.annotations = annotations], tc) IN
           /\ DOMAIN again = PodFields
           /\ again.containers = pod.containers
           /\ again.agents = pod.agents
           /\ again.admitted = pod.admitted
           /\ again.hash = pod.hash /\ again.auth = pod.auth
  <1> DEFINE edited == [pod EXCEPT !.annotations = annotations]
  <1>1. /\ DOMAIN edited = PodFields
        /\ edited.containers = pod.containers
        /\ edited.agents = pod.agents
        /\ edited.admitted = pod.admitted
        /\ edited.hash = pod.hash /\ edited.auth = pod.auth
    BY DEF PodFields
  <1> HIDE DEF edited
  <1>2. Handle(edited, tc) = edited
    BY <1>1 DEF Handle
  <1> QED BY <1>1, <1>2 DEF edited

-----------------------------------------------------------------------------
(* The invariant *)

(* What InjectionTypeOK says of one pod, and that its agents, their mounts  *)
(* and its hash are those the webhook chose when it was admitted.           *)
Admitted(pod) ==
    /\ DOMAIN pod = PodFields
    /\ IsContainers(pod.containers)
    /\ pod.agents # {}
    /\ \A a, b \in pod.agents : a.name = b.name => a = b
    /\ \E x \in pod.admitted :
          /\ pod.admitted = {x} /\ x.spec \in Specs /\ x.annotations \in Annotations
          /\ \A a \in pod.agents :
                /\ a.name \in {"init", "sidecar"}
                /\ a.mounts = MountsFor(x.spec, x.annotations, pod.containers)
          /\ \E withNative \in BOOLEAN : \E tc :
                pod.agents = Injected(x.spec, withNative, tc, x.annotations, pod.containers)
          /\ pod.hash = {GetConfigHash(x.spec)} /\ pod.auth = {GetAuthMethod(x.spec)}

IInv == /\ spec \in Specs /\ native \in BOOLEAN
        /\ DOMAIN pods \subseteq Pod
        /\ \A k \in DOMAIN pods : Admitted(pods[k])

LEMMA AdmitsNew ==
    ASSUME spec \in Specs, native \in BOOLEAN, NEW r \in Requests, NEW tc
    PROVE  Admitted(Handle(NewPod(r), tc))
  <1> DEFINE pod == Handle(NewPod(r), tc)
             x   == [spec |-> spec, annotations |-> r.annotations]
  <1>1. /\ DOMAIN pod = PodFields
        /\ pod.containers = r.containers
        /\ pod.agents = Injected(spec, native, tc, r.annotations, r.containers)
        /\ pod.admitted = {x}
        /\ pod.hash = {GetConfigHash(spec)} /\ pod.auth = {GetAuthMethod(spec)}
    BY HandleNew
  <1>2. r.annotations \in Annotations /\ IsContainers(r.containers)
    BY InjectionAssumption
  <1>3. /\ pod.agents # {}
        /\ \A a \in pod.agents : /\ a.name \in {"init", "sidecar"}
                                 /\ a.mounts = MountsFor(spec, r.annotations, r.containers)
        /\ \A a, b \in pod.agents : a.name = b.name => a = b
    BY <1>1, InjectedIs
  <1>4. x.spec = spec /\ x.annotations = r.annotations
    OBVIOUS
  <1> HIDE DEF pod, x
  <1>5. \E withNative \in BOOLEAN : \E c :
           pod.agents = Injected(x.spec, withNative, c, x.annotations, pod.containers)
    BY <1>1, <1>4, Zenon
  <1>6. pod.hash = {GetConfigHash(x.spec)} /\ pod.auth = {GetAuthMethod(x.spec)}
    BY <1>1, <1>4, Zenon
  <1>7. Admitted(pod)
    BY <1>1, <1>2, <1>3, <1>4, <1>5, <1>6 DEF Admitted
  <1> QED BY <1>7 DEF pod

LEMMA AdmitsAgain ==
    ASSUME NEW pod, Admitted(pod), NEW annotations, NEW tc
    PROVE  Admitted(Handle([pod EXCEPT !.annotations = annotations], tc))
  <1>1. \E a \in pod.agents : a.name \in {"init", "sidecar"}
    BY DEF Admitted
  <1> DEFINE again == Handle([pod EXCEPT !.annotations = annotations], tc)
  <1>2. /\ DOMAIN again = PodFields
        /\ again.containers = pod.containers
        /\ again.agents = pod.agents
        /\ again.admitted = pod.admitted
        /\ again.hash = pod.hash /\ again.auth = pod.auth
    <2>1. DOMAIN pod = PodFields
      BY DEF Admitted
    <2> QED BY <1>1, <2>1, HandleAgain
  <1> HIDE DEF again
  <1>3. Admitted(again)
    BY <1>2 DEF Admitted
  <1> QED BY <1>3 DEF again

LEMMA StartsInv == Init => IInv
  BY DEF Init, IInv, EmptyMap

LEMMA PutKeepsInv ==
    ASSUME IInv, NEW k \in Pod, NEW pod, Admitted(pod),
           pods' = Put(pods, k, pod), UNCHANGED <<spec, native>>
    PROVE  IInv'
  <1>1. /\ DOMAIN pods' = DOMAIN pods \cup {k}
        /\ pods'[k] = pod
        /\ \A x \in DOMAIN pods \ {k} : pods'[x] = pods[x]
    BY DEF Put
  <1>2. DOMAIN pods' \subseteq Pod
    BY <1>1 DEF IInv
  <1>3. ASSUME NEW x \in DOMAIN pods'
        PROVE  Admitted(pods'[x])
    BY <1>1 DEF IInv
  <1>4. \A x \in DOMAIN pods' : Admitted(pods[x])'
    BY <1>3 DEF Admitted
  <1> QED BY <1>2, <1>4 DEF IInv

LEMMA StepsKeepInv == IInv /\ [Next]_vars => IInv'
  <1> SUFFICES ASSUME IInv, [Next]_vars PROVE IInv'
    OBVIOUS
  <1>0. spec \in Specs /\ native \in BOOLEAN
    BY DEF IInv
  <1>1. CASE StartOperator
    <2>1. native' \in BOOLEAN
      BY <1>1 DEF StartOperator, Starts
    <2> QED BY <1>1, <2>1 DEF StartOperator, IInv
  <1>2. ASSUME NEW s \in Specs, EditSpec(s) PROVE IInv'
    BY <1>2 DEF EditSpec, IInv
  <1>3. ASSUME NEW k \in Pod, DeletePod(k) PROVE IInv'
    BY <1>3 DEF DeletePod, IInv, Drop
  <1>4. ASSUME NEW k \in Pod, NEW r \in Requests, NEW tc \in Telemetry, CreatePod(k, r, tc)
        PROVE  IInv'
    <2> DEFINE pod == Handle(NewPod(r), tc)
    <2>1. Admitted(pod)
      BY AdmitsNew DEF IInv
    <2>2. pods' = Put(pods, k, pod) /\ UNCHANGED <<spec, native>>
      BY <1>4 DEF CreatePod
    <2> HIDE DEF pod
    <2> QED BY <1>0, <2>1, <2>2, PutKeepsInv
  <1>5. ASSUME NEW k \in Pod, NEW r \in Requests, NEW tc \in Telemetry,
               AnnotatePod(k, r.annotations, tc)
        PROVE  IInv'
    <2> DEFINE pod == Handle([pods[k] EXCEPT !.annotations = r.annotations], tc)
    <2>1. Admitted(pod)
      <3>1. Admitted(pods[k])
        BY <1>5 DEF IInv, AnnotatePod
      <3> QED BY <3>1, AdmitsAgain
    <2>2. pods' = Put(pods, k, pod) /\ UNCHANGED <<spec, native>>
      BY <1>5 DEF AnnotatePod
    <2> HIDE DEF pod
    <2> QED BY <1>0, <2>1, <2>2, PutKeepsInv
  <1>6. CASE UNCHANGED vars
    BY <1>6 DEF vars, IInv
  <1> QED BY <1>1, <1>2, <1>3, <1>4, <1>5, <1>6 DEF Next

LEMMA InvTypes == IInv => InjectionTypeOK
  <1> SUFFICES ASSUME IInv PROVE InjectionTypeOK
    OBVIOUS
  <1>1. ASSUME NEW k \in DOMAIN pods, NEW pod, pod = pods[k]
        PROVE  /\ IsContainers(pod.containers)
               /\ \E x \in pod.admitted :
                     pod.admitted = {x} /\ x.spec \in Specs /\ x.annotations \in Annotations
               /\ pod.agents # {}
               /\ \A a \in pod.agents : /\ a.name \in {"init", "sidecar"}
                                        /\ IsMap(a.mounts, Text, Mount)
               /\ \A a, b \in pod.agents : a.name = b.name => a = b
    <2>1. Admitted(pod)
      BY <1>1 DEF IInv
    <2>2. PICK x \in pod.admitted :
             /\ pod.admitted = {x} /\ x.spec \in Specs /\ x.annotations \in Annotations
             /\ \A a \in pod.agents :
                   /\ a.name \in {"init", "sidecar"}
                   /\ a.mounts = MountsFor(x.spec, x.annotations, pod.containers)
      BY <2>1 DEF Admitted
    <2>3. IsContainers(pod.containers)
      BY <2>1 DEF Admitted
    <2>4. IsMap(MountsFor(x.spec, x.annotations, pod.containers), Text, Mount)
      BY <2>2, <2>3, MountsTyped
    <2> QED BY <2>1, <2>2, <2>4 DEF Admitted
  <1>2. \A k \in DOMAIN pods :
           /\ IsContainers(pods[k].containers)
           /\ \E x \in pods[k].admitted :
                 pods[k].admitted = {x} /\ x.spec \in Specs /\ x.annotations \in Annotations
           /\ pods[k].agents # {}
           /\ \A a \in pods[k].agents : /\ a.name \in {"init", "sidecar"}
                                        /\ IsMap(a.mounts, Text, Mount)
           /\ \A a, b \in pods[k].agents : a.name = b.name => a = b
    BY <1>1
  <1>3. spec \in Specs /\ native \in BOOLEAN /\ DOMAIN pods \subseteq Pod
    BY DEF IInv
  <1> QED BY <1>2, <1>3 DEF InjectionTypeOK

PodSees(pod) ==
    \A x \in pod.admitted : \A p \in collectNeededPaths(x.spec.model, x.spec.config) :
        \A v \in SeenAt(pod.containers, p) :
            AgreeOn(pod.containers, p, v) /\ AllComparable(pod.containers, p) =>
                \A a \in pod.agents : Sees(a.mounts, p) = {v}

LEMMA AdmittedSees ==
    ASSUME NEW pod, Admitted(pod)
    PROVE  PodSees(pod)
  <1> SUFFICES ASSUME NEW x \in pod.admitted,
                      NEW p \in collectNeededPaths(x.spec.model, x.spec.config),
                      NEW v, SeenAt(pod.containers, p) = {v},
                      AllComparable(pod.containers, p), NEW a \in pod.agents
               PROVE  Sees(a.mounts, p) = {v}
    BY DEF PodSees, AgreeOn
  <1>1. ASSUME NEW s, s = x.spec, NEW annotations, annotations = x.annotations,
               NEW containers, containers = pod.containers
        PROVE  Sees(a.mounts, p) = {v}
    <2>1. a.mounts = MountsFor(s, annotations, containers)
      BY <1>1 DEF Admitted
    <2>2. /\ s \in Specs /\ IsContainers(containers) /\ SeenAt(containers, p) = {v}
          /\ p \in collectNeededPaths(s.model, s.config) /\ AllComparable(containers, p)
      BY <1>1 DEF Admitted
    <2> HIDE <1>1
    <2>3. Sees(MountsFor(s, annotations, containers), p) = {v}
      BY <2>2, MountsSee
    <2> QED BY <2>1, <2>3
  <1> QED BY <1>1

(* What ValidatesAsAsked says of one pod.                                   *)
PodAsAsked(pod) ==
    \A x \in pod.admitted :
        /\ \A a \in pod.agents :
              OptionsOf(a) = {Asked(x.spec.model, x.spec.config, x.annotations)}
        /\ RevalidatesAs(pod.agents, x.spec)

LEMMA AdmittedAsAsked ==
    ASSUME NEW pod, Admitted(pod), \A s \in Specs : ReadsAsPath(s.model.path)
    PROVE  PodAsAsked(pod)
  <1> SUFFICES ASSUME NEW x \in pod.admitted
               PROVE  /\ \A a \in pod.agents :
                            OptionsOf(a) = {Asked(x.spec.model, x.spec.config, x.annotations)}
                      /\ RevalidatesAs(pod.agents, x.spec)
    BY DEF PodAsAsked
  <1>1. /\ x.spec \in Specs /\ x.annotations \in Annotations
        /\ \E withNative \in BOOLEAN : \E tc :
              pod.agents = Injected(x.spec, withNative, tc, x.annotations, pod.containers)
    BY DEF Admitted
  <1>2. PICK withNative \in BOOLEAN :
           \E tc : pod.agents = Injected(x.spec, withNative, tc, x.annotations, pod.containers)
    BY <1>1
  <1>3. PICK tc : pod.agents = Injected(x.spec, withNative, tc, x.annotations, pod.containers)
    BY <1>2
  <1>4. ReadsAsPath(x.spec.model.path)
    BY <1>1
  <1> QED BY <1>1, <1>3, <1>4, InjectedAsAsked, Zenon

LEMMA InvAsAsked ==
    ASSUME \A s \in Specs : ReadsAsPath(s.model.path)
    PROVE  IInv => ValidatesAsAsked
  <1>1. IInv => \A k \in DOMAIN pods : PodAsAsked(pods[k])
    BY AdmittedAsAsked DEF IInv
  <1>2. (\A k \in DOMAIN pods : PodAsAsked(pods[k])) => ValidatesAsAsked
    BY DEF ValidatesAsAsked, PodAsAsked
  <1> QED BY <1>1, <1>2

(* What DriftDetected says of one pod.                                      *)
PodDrift(pod) ==
    HashAgrees(pod) =>
        /\ RevalidatesAs(pod.agents, spec)
        /\ \A a \in pod.agents, x \in pod.admitted :
              /\ {Trusted(o) : o \in OptionsOf(a)}
                 = {Trusted(Asked(spec.model, spec.config, x.annotations))}
              /\ a.imagePullPolicy = imagePullPolicy(spec)
              /\ \A r \in Compute : a.resources[r] = resources(spec)[r]

LEMMA AdmittedDrift ==
    ASSUME NEW pod, Admitted(pod), spec \in Specs, \A s \in Specs : ReadsAsPath(s.model.path),
           HashReadsBack
    PROVE  PodDrift(pod)
  <1> SUFFICES ASSUME pod.hash = {GetConfigHash(spec)}, pod.auth = {GetAuthMethod(spec)}
               PROVE  /\ RevalidatesAs(pod.agents, spec)
                      /\ \A a \in pod.agents, x \in pod.admitted :
                            /\ {Trusted(o) : o \in OptionsOf(a)}
                               = {Trusted(Asked(spec.model, spec.config, x.annotations))}
                            /\ a.imagePullPolicy = imagePullPolicy(spec)
                            /\ \A r \in Compute : a.resources[r] = resources(spec)[r]
    BY Zenon DEF PodDrift, HashAgrees
  <1>1. PICK x \in pod.admitted :
           /\ pod.admitted = {x} /\ x.spec \in Specs
           /\ \E withNative \in BOOLEAN : \E tc :
                 pod.agents = Injected(x.spec, withNative, tc, x.annotations, pod.containers)
           /\ pod.hash = {GetConfigHash(x.spec)} /\ pod.auth = {GetAuthMethod(x.spec)}
    BY DEF Admitted
  <1>2. GetConfigHash(x.spec) = GetConfigHash(spec) /\ GetAuthMethod(x.spec) = GetAuthMethod(spec)
    <2>1. \A u, v : {u} = {v} => u = v
      OBVIOUS
    <2> QED BY <1>1, <2>1, Zenon
  <1>3. /\ NoTrustWord(x.spec.config) /\ NoResWord(x.spec)
        /\ NoTrustWord(spec.config) /\ NoResWord(spec)
    BY <1>1 DEF HashReadsBack
  <1>4. /\ ConfigHash(x.spec.config) = ConfigHash(spec.config)
        /\ x.spec.imagePullPolicy = spec.imagePullPolicy
        /\ ContinuousHash(x.spec.continuousValidation) = ContinuousHash(spec.continuousValidation)
        /\ ResourcesHashOf(x.spec) = ResourcesHashOf(spec)
    BY <1>1, <1>2, <1>3, SameRest
  <1>5. SameCredentials(x.spec.config, spec.config)
    BY <1>1, <1>2, <1>3, <1>4, SameConfig
  <1>6. PodAsAsked(pod)
    BY AdmittedAsAsked
  <1>7. RevalidatesAs(pod.agents, spec)
    <2>1. RevalidatesAs(pod.agents, x.spec)
      BY <1>6, Zenon DEF PodAsAsked
    <2>2. /\ continuousEnabled(x.spec) <=> continuousEnabled(spec)
          /\ continuousEnabled(x.spec) => interval(x.spec) = interval(spec)
      BY <1>1, <1>3, <1>4, SameContinuous
    <2> QED BY <2>1, <2>2, SameRevalidation
  <1>8. ASSUME NEW a \in pod.agents
        PROVE  /\ {Trusted(o) : o \in OptionsOf(a)}
                  = {Trusted(Asked(spec.model, spec.config, x.annotations))}
               /\ a.imagePullPolicy = imagePullPolicy(spec)
               /\ \A r \in Compute : a.resources[r] = resources(spec)[r]
    <2>1. OptionsOf(a) = {Asked(x.spec.model, x.spec.config, x.annotations)}
      BY <1>6, Zenon DEF PodAsAsked
    <2>2. Trusted(Asked(x.spec.model, x.spec.config, x.annotations))
          = Trusted(Asked(spec.model, spec.config, x.annotations))
      <3>1. x.spec.config \in ValidationConfig /\ spec.config \in ValidationConfig
        BY <1>1, InjectionAssumption DEF ModelValidationSpec
      <3> QED BY <1>5, <3>1, SameTrusted
    <2>3. {Trusted(o) : o \in OptionsOf(a)}
          = {Trusted(Asked(spec.model, spec.config, x.annotations))}
      BY <2>1, <2>2, Zenon
    <2>4. a.imagePullPolicy = imagePullPolicy(x.spec) /\ a.resources = resources(x.spec)
      <3>1. PICK withNative \in BOOLEAN : \E tc :
               pod.agents = Injected(x.spec, withNative, tc, x.annotations, pod.containers)
        BY <1>1, Zenon
      <3>2. PICK tc : pod.agents = Injected(x.spec, withNative, tc, x.annotations, pod.containers)
        BY <3>1, Zenon
      <3>3. a \in Injected(x.spec, withNative, tc, x.annotations, pod.containers)
        BY <1>8, <3>2, Zenon
      <3> QED BY <3>3, AgentsGiven
    <2>5. imagePullPolicy(x.spec) = imagePullPolicy(spec)
      BY <1>4, Zenon DEF imagePullPolicy
    <2>6. \A r \in Compute : resources(x.spec)[r] = resources(spec)[r]
      BY <1>1, <1>4, SameResources
    <2> QED BY <2>3, <2>4, <2>5, <2>6
  <1>9. \A y \in pod.admitted : y = x
    BY <1>1, Zenon
  <1> QED BY <1>7, <1>8, <1>9, Zenon

LEMMA InvDrift ==
    ASSUME \A s \in Specs : ReadsAsPath(s.model.path), HashReadsBack
    PROVE  IInv => DriftDetected
  <1>1. IInv => \A k \in DOMAIN pods : PodDrift(pods[k])
    BY AdmittedDrift DEF IInv
  <1>2. (\A k \in DOMAIN pods : PodDrift(pods[k])) => DriftDetected
    BY Zenon DEF DriftDetected, PodDrift
  <1> QED BY <1>1, <1>2

LEMMA InvSees == IInv => SeesWhatWorkloadSees
  <1>1. IInv => \A k \in DOMAIN pods : PodSees(pods[k])
    BY AdmittedSees DEF IInv
  <1>2. (\A k \in DOMAIN pods : PodSees(pods[k])) => SeesWhatWorkloadSees
    BY DEF SeesWhatWorkloadSees, PodSees
  <1> QED BY <1>1, <1>2

-----------------------------------------------------------------------------

(* Every pod was admitted under one spec, and has one or two agents of      *)
(* different names, with mounts of the pod's volumes or the agent's own     *)
(* (Handle of pod_webhook.go).                                              *)
THEOREM InjectionTypes == Spec => []InjectionTypeOK
  <1>1. Init => IInv
    BY StartsInv
  <1>2. IInv /\ [Next]_vars => IInv'
    BY StepsKeepInv
  <1>3. IInv => InjectionTypeOK
    BY InvTypes
  <1> QED BY <1>1, <1>2, <1>3, PTL DEF Spec

(* An agent verifies the files its pod's containers read: where they see    *)
(* one volume at a path it needs, so does it (filterVolumeMounts), whatever *)
(* is mounted around it, as long as the mounts the path is in are           *)
(* Comparable with it: not one at the path itself with a slash at the end   *)
(* that the path has not.                                                   *)
THEOREM AgentsSeeTheWorkload == Spec => []SeesWhatWorkloadSees
  <1>1. Init => IInv
    BY StartsInv
  <1>2. IInv /\ [Next]_vars => IInv'
    BY StepsKeepInv
  <1>3. IInv => SeesWhatWorkloadSees
    BY InvSees
  <1> QED BY <1>1, <1>2, <1>3, PTL DEF Spec

(* Where no model has a path that reads as a flag, which the pattern at     *)
(* modelvalidation_types.go:33 sees to, every agent verifies what was asked *)
(* for when its pod was admitted, whatever the texts, and revalidates as    *)
(* asked for: validationConfigToArgs of pod_webhook.go and ParseArgs of     *)
(* parse.go undo each other, behind the flags main takes.                   *)
THEOREM ValidatesAsAskedAlways ==
    ASSUME \A s \in Specs : ReadsAsPath(s.model.path)
    PROVE  Spec => []ValidatesAsAsked
  <1>1. Init => IInv
    BY StartsInv
  <1>2. IInv /\ [Next]_vars => IInv'
    BY StepsKeepInv
  <1>3. IInv => ValidatesAsAsked
    BY InvAsAsked
  <1> QED BY <1>1, <1>2, <1>3, PTL DEF Spec

(* A pod the tracker does not call orphaned has agents that trust whom its  *)
(* ModelValidation says now, revalidate as it says and may use as much:     *)
(* GetConfigHash of modelvalidation_types.go leaves nothing of that out.    *)
(* Any identity and issuer may be there, another one's beginning too, and   *)
(* of a signer the identity with the issuer behind it is what is told       *)
(* apart; what begins a part of the hash is in no text before it.           *)
THEOREM DriftDetectedAlways ==
    ASSUME \A s \in Specs : ReadsAsPath(s.model.path), HashReadsBack
    PROVE  Spec => []DriftDetected
  <1>1. Init => IInv
    BY StartsInv
  <1>2. IInv /\ [Next]_vars => IInv'
    BY StepsKeepInv
  <1>3. IInv => DriftDetected
    BY InvDrift
  <1> QED BY <1>1, <1>2, <1>3, PTL DEF Spec
=============================================================================
