---------------------------- MODULE EvidenceProofs ----------------------------
(***************************************************************************)
(* Proofs about the way of evidence, for every document the validator      *)
(* accepts, every range, every choice of artifacts and all marks.          *)
(*                                                                         *)
(* What is computed over a sequence (Lists) is described by the run of the *)
(* computation, a function on the numbers from 0 to the length, and proved *)
(* by induction on the set of numbers up to which it holds (SetInduction). *)
(* From there, in the order of the code: filters and sums; the loops of    *)
(* the session; what the validator says of a document; frames and          *)
(* diagnostics; the fields of a bundle; each condition of the verifier;    *)
(* and the desk, whose invariant is that each side holds what was made of  *)
(* what it held before.                                                    *)
(*                                                                         *)
(* Then the losses of a session: the loop that fills the buckets and the   *)
(* two that count the missing frames of a range know the same after every  *)
(* frame; the loop over a range begins with what the loop over all frames  *)
(* knows where the range begins, but for a drop counter the record before  *)
(* it does not carry (Unseen); and a second is such a range.               *)
(*                                                                         *)
(* The last part is about the comparison.  First for every pair of         *)
(* sources: exchanging them mirrors the assessment, the ranges compared    *)
(* can be cited from both, and what is decided from the sources is what    *)
(* the finding's own counts allow.  Then for the sources the program       *)
(* makes (IsComparable): every finding passes its checks, a case compares  *)
(* again what the finding was made of (ResolvedAgain), and two bundles     *)
(* that leave nothing out are to it what their sessions are (SameEvidence).*)
(***************************************************************************)
EXTENDS EvidenceDesk, FiniteSetTheorems, TLAPS

-----------------------------------------------------------------------------
(* Sequences and numbers *)

\* A sequence, of whatever elements.
IsSeq(s) == Len(s) \in Nat /\ s = [i \in 1..Len(s) |-> s[i]]

\* An append keeps a sequence and adds one element at its end.
LEMMA AppendTo ==
  ASSUME NEW s, NEW e, IsSeq(s)
  PROVE  /\ IsSeq(Append(s, e)) /\ Len(Append(s, e)) = Len(s) + 1
         /\ Append(s, e)[Len(s) + 1] = e
         /\ \A i \in 1..Len(s) : Append(s, e)[i] = s[i]
<1> DEFINE S == {s[i] : i \in 1..Len(s)} \cup {e}
<1>1. s \in Seq(S)
  BY DEF IsSeq
<1> HIDE DEF S
<1>2. e \in S
  BY DEF S
<1>3. /\ Append(s, e) \in Seq(S) /\ Len(Append(s, e)) = Len(s) + 1 /\ Append(s, e)[Len(s) + 1] = e
      /\ \A i \in 1..Len(s) : Append(s, e)[i] = s[i]
  BY <1>1, <1>2
<1>4. IsSeq(Append(s, e))
  <2> DEFINE t == Append(s, e)
  <2>1. t \in Seq(S)  BY <1>3
  <2> HIDE DEF t
  <2>2. Len(t) \in Nat /\ t = [i \in 1..Len(t) |-> t[i]]
    BY <2>1
  <2> QED  BY <2>2 DEF IsSeq, t
<1> QED  BY <1>3, <1>4

\* A set of numbers has a least element.
LEMMA NatMin ==
  ASSUME NEW S \in SUBSET Nat, S # {}
  PROVE  \E n \in S : \A m \in S : n <= m
<1> DEFINE R == OpToRel(<, Nat)
<1>1. IsWellFoundedOn(R, Nat)
  BY NatLessThanWellFounded
<1>2. \A x, y \in Nat : <<x, y>> \in R <=> x < y
  BY DEF OpToRel
<1> HIDE DEF R
<1>3. \E x \in S : \A y \in S : ~(<<y, x>> \in R)
  BY <1>1, WFMin
<1>4. PICK x \in S : \A y \in S : ~(<<y, x>> \in R)
  BY <1>3
<1>5. \A y \in S : ~(y < x)
  BY <1>2, <1>4, Zenon
<1>6. \A y \in S : x <= y
  BY <1>5
<1> QED
  BY <1>6

\* Induction, for a set of numbers.
LEMMA SetInduction ==
  ASSUME NEW S, 0 \in S, \A n \in Nat : n \in S => n + 1 \in S
  PROVE  Nat \subseteq S
<1> SUFFICES ASSUME Nat \ S # {} PROVE FALSE
  OBVIOUS
<1>1. PICK n \in Nat \ S : \A m \in Nat \ S : n <= m
  BY NatMin
<1>2. n # 0 /\ n - 1 \in Nat /\ ~(n <= n - 1)
  BY <1>1
<1>3. n - 1 \in S
  BY <1>1, <1>2
<1>4. (n - 1) + 1 = n
  BY <1>1
<1>5. n \in S
  BY <1>2, <1>3, <1>4
<1> QED
  BY <1>1, <1>5

\* A concatenation has the elements of its parts, in this order.
LEMMA JoinFacts ==
  ASSUME NEW s, NEW t, IsSeq(s), IsSeq(t)
  PROVE  /\ IsSeq(s \o t) /\ Len(s \o t) = Len(s) + Len(t)
         /\ \A i \in 1..Len(s) : (s \o t)[i] = s[i]
         /\ \A i \in 1..Len(t) : (s \o t)[Len(s) + i] = t[i]
<1> DEFINE S == {s[i] : i \in 1..Len(s)} \cup {t[i] : i \in 1..Len(t)}
           u == s \o t
<1>1. s \in Seq(S) /\ t \in Seq(S) /\ Len(s) \in Nat /\ Len(t) \in Nat
  BY DEF IsSeq
<1> HIDE DEF S
<1>2. /\ u \in Seq(S) /\ Len(u) = Len(s) + Len(t)
      /\ \A i \in 1..Len(u) : u[i] = IF i <= Len(s) THEN s[i] ELSE t[i - Len(s)]
  BY <1>1
<1> HIDE DEF u
<1>3. IsSeq(u)
  BY <1>2 DEF IsSeq
<1>4. \A i \in 1..Len(s) : u[i] = s[i]
  BY <1>1, <1>2
<1>5. ASSUME NEW i \in 1..Len(t)  PROVE u[Len(s) + i] = t[i]
  <2>1. Len(s) + i \in 1..Len(u) /\ ~(Len(s) + i <= Len(s)) /\ (Len(s) + i) - Len(s) = i
    BY <1>1, <1>2
  <2> QED BY <1>2, <2>1
<1> QED BY <1>2, <1>3, <1>4, <1>5 DEF u

\* Sequences of no, one and two elements, and one given by its elements.
LEMMA FewFacts ==
  ASSUME NEW a, NEW b
  PROVE  /\ IsSeq(<<>>) /\ Len(<<>>) = 0
         /\ IsSeq(<<a>>) /\ Len(<<a>>) = 1 /\ <<a>>[1] = a
         /\ IsSeq(<<a, b>>) /\ Len(<<a, b>>) = 2 /\ <<a, b>>[1] = a /\ <<a, b>>[2] = b
<1>1. Len(<<a, b>>) = 2 /\ <<a, b>> \in Seq({a, b}) /\ <<a, b>>[1] = a /\ <<a, b>>[2] = b
  OBVIOUS
<1>2. Len(<<a>>) = 1 /\ <<a>> \in Seq({a}) /\ <<a>>[1] = a
  OBVIOUS
<1> QED BY <1>1, <1>2 DEF IsSeq

LEMMA GivenFacts ==
  ASSUME NEW n \in Nat, NEW s, s = [i \in 1..n |-> s[i]]
  PROVE  IsSeq(s) /\ Len(s) = n /\ DOMAIN s = 1..n
<1>1. Len(s) = n
  OBVIOUS
<1> QED BY <1>1 DEF IsSeq

LEMMA ListFacts ==
  ASSUME NEW s, IsList(s)
  PROVE  IsSeq(s) /\ DOMAIN s = 1..Len(s)
<1> DEFINE S == {s[i] : i \in DOMAIN s}
<1>1. s \in Seq(S)
  BY DEF IsList
<1> HIDE DEF S
<1>2. Len(s) \in Nat /\ s = [i \in 1..Len(s) |-> s[i]] /\ DOMAIN s = 1..Len(s)
  BY <1>1
<1> QED BY <1>2 DEF IsSeq

LEMMA SeqFacts ==
  ASSUME NEW s, IsSeq(s)
  PROVE  DOMAIN s = 1..Len(s) /\ Len(s) \in Nat /\ s \in Seq({s[i] : i \in 1..Len(s)})
<1>1. Len(s) \in Nat /\ s = [i \in 1..Len(s) |-> s[i]]
  BY DEF IsSeq
<1>2. DOMAIN s = 1..Len(s)
  BY <1>1
<1> QED BY <1>1, <1>2

\* A sequence is determined by its elements.
LEMMA SeqEqual ==
  ASSUME NEW s, NEW t, IsSeq(s), IsSeq(t), Len(s) = Len(t), \A i \in 1..Len(s) : s[i] = t[i]
  PROVE  s = t
  BY DEF IsSeq

-----------------------------------------------------------------------------
(* What a filter keeps *)

\* taken of Chosen
IsTaken(F, seq, S) ==
  F = [n \in 0..Len(seq) |->
         IF n = 0 THEN <<>> ELSE IF n \in S THEN Append(F[n - 1], seq[n]) ELSE F[n - 1]]

TakenTo(F, seq, S, k) ==
  /\ F[0] = <<>>
  /\ \A n \in 1..k : F[n] = IF n \in S THEN Append(F[n - 1], seq[n]) ELSE F[n - 1]

LEMMA TakenRuns ==
  ASSUME NEW seq, NEW S, NEW k \in Nat
  PROVE  \E F : TakenTo(F, seq, S, k)
<1> DEFINE P == {n \in Nat : \E F : TakenTo(F, seq, S, n)}
<1>1. 0 \in P
  <2>1. PICK F : F = [n \in 0..0 |-> <<>>]
    OBVIOUS
  <2>2. F[0] = <<>>
    BY <2>1
  <2> QED BY <2>2 DEF TakenTo
<1>2. ASSUME NEW n \in Nat, n \in P  PROVE n + 1 \in P
  <2>1. PICK F : TakenTo(F, seq, S, n)
    BY <1>2
  <2>2. PICK G : G = [m \in 0..(n + 1) |-> IF m <= n THEN F[m]
                                          ELSE IF n + 1 \in S THEN Append(F[n], seq[n + 1]) ELSE F[n]]
    OBVIOUS
  <2>3. (\A m \in 0..n : G[m] = F[m]) /\ G[n + 1] = IF n + 1 \in S THEN Append(F[n], seq[n + 1]) ELSE F[n]
    BY <2>2
  <2>4. ASSUME NEW m \in 1..(n + 1)
        PROVE  G[m] = IF m \in S THEN Append(G[m - 1], seq[m]) ELSE G[m - 1]
    <3>1. CASE m <= n
      <4>1. m \in 1..n /\ m \in 0..n /\ m - 1 \in 0..n
        BY <3>1
      <4>2. G[m] = F[m] /\ G[m - 1] = F[m - 1]
        BY <2>3, <4>1
      <4> QED BY <2>1, <4>1, <4>2 DEF TakenTo
    <3>2. CASE ~(m <= n)
      <4>1. m = n + 1 /\ m - 1 = n /\ n \in 0..n
        BY <3>2
      <4> QED BY <2>3, <4>1
    <3> QED BY <3>1, <3>2
  <2>5. G[0] = <<>>
    BY <2>1, <2>3 DEF TakenTo
  <2> QED BY <2>4, <2>5 DEF TakenTo
<1> HIDE DEF P
<1>3. Nat \subseteq P
  BY <1>1, <1>2, SetInduction
<1> QED BY <1>3 DEF P

LEMMA ChosenRun ==
  ASSUME NEW seq, NEW S, NEW n, n = Len(seq), n \in Nat
  PROVE  \E F : TakenTo(F, seq, S, n) /\ Chosen(seq, S) = F[n]
<1>1. PICK H : TakenTo(H, seq, S, n)
  BY TakenRuns
<1>2. PICK G : G = [m \in 0..n |-> H[m]]
  OBVIOUS
<1>3. \A m \in 0..n : G[m] = H[m]
  BY <1>2
<1>4. G = [m \in 0..n |-> IF m = 0 THEN <<>> ELSE IF m \in S THEN Append(G[m - 1], seq[m]) ELSE G[m - 1]]
  <2>1. ASSUME NEW m \in 0..n
        PROVE  G[m] = IF m = 0 THEN <<>> ELSE IF m \in S THEN Append(G[m - 1], seq[m]) ELSE G[m - 1]
    <3>1. CASE m = 0
      BY <1>1, <1>3, <3>1 DEF TakenTo
    <3>2. CASE m # 0
      <4>1. m \in 1..n /\ m - 1 \in 0..n
        BY <3>2
      <4> QED BY <1>1, <1>3, <3>2, <4>1 DEF TakenTo
    <3> QED BY <3>1, <3>2
  <2>2. G = [m \in 0..n |-> G[m]]
    BY <1>2
  <2> QED BY <2>1, <2>2
<1>5. \E F : IsTaken(F, seq, S)
  BY <1>4 DEF IsTaken
<1> DEFINE R == CHOOSE F : IsTaken(F, seq, S)
<1>6. IsTaken(R, seq, S)
  BY <1>5
<1>7. Chosen(seq, S) = R[n]
  BY DEF Chosen, IsTaken
<1> HIDE DEF R
<1>8. TakenTo(R, seq, S, n)
  <2>1. R = [m \in 0..n |-> IF m = 0 THEN <<>> ELSE IF m \in S THEN Append(R[m - 1], seq[m]) ELSE R[m - 1]]
    BY <1>6 DEF IsTaken
  <2>2. R[0] = <<>>
    BY <2>1
  <2>3. ASSUME NEW m \in 1..n PROVE R[m] = IF m \in S THEN Append(R[m - 1], seq[m]) ELSE R[m - 1]
    <3>1. m \in 0..n /\ m # 0
      OBVIOUS
    <3> QED BY <2>1, <3>1
  <2> QED BY <2>2, <2>3 DEF TakenTo
<1> QED BY <1>7, <1>8

\* The places among the first n that are in S, in their order.
Places(e, n, S) ==
  /\ IsSeq(e) /\ Len(e) <= n
  /\ \A k \in 1..Len(e) : e[k] \in 1..n /\ e[k] \in S
  /\ \A j \in 1..Len(e), k \in 1..Len(e) : j < k => e[j] < e[k]
  /\ \A i \in 1..n : i \in S => \E k \in 1..Len(e) : e[k] = i

At(n, S) == Chosen([i \in 1..n |-> i], S)

IsPick(c, seq, e) == IsSeq(c) /\ Len(c) = Len(e) /\ \A k \in 1..Len(e) : c[k] = seq[e[k]]

LEMMA PlacesNext ==
  ASSUME NEW e, NEW n \in Nat, NEW S, Places(e, n, S)
  PROVE  Places(IF n + 1 \in S THEN Append(e, n + 1) ELSE e, n + 1, S)
<1>1. PICK m : m = n + 1
  OBVIOUS
<1>2. CASE m \in S
  <2>1. PICK f : f = Append(e, m)
    OBVIOUS
  <2>2. /\ IsSeq(e) /\ Len(e) \in Nat /\ Len(e) <= n
        /\ IsSeq(f) /\ Len(f) = Len(e) + 1 /\ f[Len(e) + 1] = m
        /\ \A k \in 1..Len(e) : f[k] = e[k]
    BY <2>1, AppendTo DEF Places, IsSeq
  <2>3. PICK l \in Nat : l = Len(e)
    BY <2>2
  <2>4. ASSUME NEW k \in 1..(l + 1) PROVE k \in 1..l \/ (k = l + 1 /\ f[k] = m)
    BY <2>2, <2>3
  <2>5. ASSUME NEW k \in 1..(l + 1) PROVE f[k] \in 1..m /\ f[k] \in S
    <3>1. CASE k \in 1..l
      <4>1. f[k] \in 1..n /\ f[k] \in S
        BY <2>2, <2>3, <3>1 DEF Places
      <4> QED BY <1>1, <4>1
    <3>2. CASE k = l + 1 /\ f[k] = m
      BY <1>1, <1>2, <3>2
    <3> QED BY <2>4, <3>1, <3>2
  <2>6. ASSUME NEW j \in 1..(l + 1), NEW k \in 1..(l + 1), j < k PROVE f[j] < f[k]
    <3>1. j \in 1..l
      BY <2>6, <2>3
    <3>2. f[j] = e[j] /\ e[j] \in 1..n
      BY <2>2, <2>3, <3>1 DEF Places
    <3>3. CASE k \in 1..l
      BY <2>2, <2>3, <2>6, <3>1, <3>3 DEF Places
    <3>4. CASE k = l + 1 /\ f[k] = m
      BY <1>1, <3>2, <3>4
    <3> QED BY <2>4, <3>3, <3>4
  <2>7. ASSUME NEW i \in 1..m, i \in S PROVE \E k \in 1..(l + 1) : f[k] = i
    <3>1. CASE i = m
      <4>1. l + 1 \in 1..(l + 1)
        BY <2>3
      <4> QED BY <2>2, <2>3, <3>1, <4>1
    <3>2. CASE i # m
      <4>1. i \in 1..n
        BY <1>1, <3>2
      <4>2. PICK k \in 1..l : e[k] = i
        BY <2>3, <2>7, <4>1 DEF Places
      <4>3. k \in 1..(l + 1) /\ f[k] = i
        BY <2>2, <2>3, <4>2
      <4> QED BY <4>3
    <3> QED BY <3>1, <3>2
  <2>8. Len(f) = l + 1 /\ Len(f) <= m
    BY <1>1, <2>2, <2>3
  <2>9. Places(f, m, S)
    BY <2>2, <2>5, <2>6, <2>7, <2>8 DEF Places
  <2> QED BY <1>1, <1>2, <2>1, <2>9
<1>3. CASE m \notin S
  <2>1. PICK l \in Nat : l = Len(e)
    BY DEF Places, IsSeq
  <2>2. \A k \in 1..l : e[k] \in 1..m /\ e[k] \in S
    BY <1>1, <2>1 DEF Places
  <2>3. \A i \in 1..m : i \in S => \E k \in 1..l : e[k] = i
    <3> SUFFICES ASSUME NEW i \in 1..m, i \in S PROVE \E k \in 1..l : e[k] = i
      OBVIOUS
    <3>1. i \in 1..n
      BY <1>1, <1>3
    <3> QED BY <2>1, <3>1 DEF Places
  <2>4. IsSeq(e) /\ l <= m /\ \A j \in 1..l, k \in 1..l : j < k => e[j] < e[k]
    BY <1>1, <2>1 DEF Places
  <2>5. Places(e, m, S)
    BY <2>1, <2>2, <2>3, <2>4 DEF Places
  <2> QED BY <1>1, <1>3, <2>5
<1> QED BY <1>2, <1>3

\* A filter keeps the elements at its places; which places depends on the length and the set alone.
LEMMA ChosenFacts ==
  ASSUME NEW seq, NEW S, NEW n, n = Len(seq), n \in Nat
  PROVE  Places(At(n, S), n, S) /\ IsPick(Chosen(seq, S), seq, At(n, S))
<1>1. PICK F : TakenTo(F, seq, S, n) /\ Chosen(seq, S) = F[n]
  BY ChosenRun
<1>2. PICK id : id = [i \in 1..n |-> i]
  OBVIOUS
<1>3. Len(id) = n /\ \A i \in 1..n : id[i] = i
  BY <1>2
<1>4. PICK G : TakenTo(G, id, S, n) /\ Chosen(id, S) = G[n]
  BY <1>3, ChosenRun
<1> DEFINE P == {k \in Nat : k <= n => Places(G[k], k, S) /\ IsPick(F[k], seq, G[k])}
<1>5. 0 \in P
  <2>1. F[0] = <<>> /\ G[0] = <<>>
    BY <1>1, <1>4 DEF TakenTo
  <2>2. IsSeq(<<>>) /\ Len(<<>>) = 0
    BY FewFacts
  <2>3. PICK e : e = <<>>
    OBVIOUS
  <2>4. IsSeq(e) /\ Len(e) = 0 /\ 1..0 = {}
    BY <2>2, <2>3
  <2>5. Places(e, 0, S) /\ IsPick(e, seq, e)
    BY <2>4 DEF Places, IsPick
  <2> QED BY <2>1, <2>3, <2>5
<1>6. ASSUME NEW k \in Nat, k \in P PROVE k + 1 \in P
  <2> SUFFICES ASSUME k + 1 <= n PROVE Places(G[k + 1], k + 1, S) /\ IsPick(F[k + 1], seq, G[k + 1])
    OBVIOUS
  <2>1. PICK m : m = k + 1
    OBVIOUS
  <2>2. m \in 1..n /\ m - 1 = k /\ k <= n
    BY <2>1
  <2>3. Places(G[k], k, S) /\ IsPick(F[k], seq, G[k])
    BY <1>6, <2>2
  <2>4. /\ F[m] = IF m \in S THEN Append(F[k], seq[m]) ELSE F[k]
        /\ G[m] = IF m \in S THEN Append(G[k], m) ELSE G[k]
    BY <1>1, <1>3, <1>4, <2>2 DEF TakenTo
  <2>5. Places(G[m], m, S)
    BY <2>1, <2>3, <2>4, PlacesNext
  <2>6. IsPick(F[m], seq, G[m])
    <3>1. CASE m \notin S
      BY <2>3, <2>4, <3>1
    <3>2. CASE m \in S
      <4>1. PICK c, e, d, f : c = F[k] /\ e = G[k] /\ d = F[m] /\ f = G[m]
        OBVIOUS
      <4>2. d = Append(c, seq[m]) /\ f = Append(e, m) /\ IsSeq(c) /\ IsSeq(e) /\ Len(c) = Len(e)
        BY <2>3, <2>4, <3>2, <4>1 DEF Places, IsPick
      <4>3. PICK l \in Nat : l = Len(e)
        BY <4>2 DEF IsSeq
      <4>4. /\ IsSeq(d) /\ Len(d) = l + 1 /\ d[l + 1] = seq[m] /\ \A j \in 1..l : d[j] = c[j]
            /\ Len(f) = l + 1 /\ f[l + 1] = m /\ \A j \in 1..l : f[j] = e[j]
        BY <4>2, <4>3, AppendTo
      <4>5. ASSUME NEW j \in 1..(l + 1) PROVE d[j] = seq[f[j]]
        <5>1. CASE j \in 1..l
          BY <2>3, <4>1, <4>3, <4>4, <5>1 DEF IsPick
        <5>2. CASE j \notin 1..l
          <6>1. j = l + 1
            BY <5>2
          <6> QED BY <4>4, <6>1
        <5> QED BY <5>1, <5>2
      <4>6. IsPick(d, seq, f)
        BY <4>4, <4>5 DEF IsPick
      <4> QED BY <4>1, <4>6
    <3> QED BY <3>1, <3>2
  <2> QED BY <2>1, <2>5, <2>6
<1> HIDE DEF P
<1>7. Nat \subseteq P
  BY <1>5, <1>6, SetInduction
<1>8. Places(G[n], n, S) /\ IsPick(F[n], seq, G[n])
  BY <1>7 DEF P
<1>9. At(n, S) = G[n]
  BY <1>2, <1>4 DEF At
<1> QED BY <1>1, <1>8, <1>9

\* The number of places is the size of the set.
LEMMA PlacesCount ==
  ASSUME NEW e, NEW n \in Nat, NEW S, Places(e, n, S)
  PROVE  Len(e) \in Nat /\ Len(e) = Cardinality({i \in 1..n : i \in S}) /\ IsFiniteSet({i \in 1..n : i \in S})
<1> DEFINE T == {i \in 1..n : i \in S}
<1>1. PICK l \in Nat : l = Len(e)
  BY DEF Places, IsSeq
<1>2. e = [k \in 1..l |-> e[k]]
  BY <1>1 DEF Places, IsSeq
<1>3. e \in [1..l -> T]
  BY <1>1, <1>2 DEF Places
<1>4. \A j \in 1..l, k \in 1..l : e[j] = e[k] => j = k
  <2> SUFFICES ASSUME NEW j \in 1..l, NEW k \in 1..l, e[j] = e[k] PROVE j = k
    OBVIOUS
  <2>1. e[j] \in Nat /\ (j < k => e[j] < e[k]) /\ (k < j => e[k] < e[j])
    BY <1>1 DEF Places
  <2> QED BY <2>1
<1>5. \A i \in T : \E k \in 1..l : e[k] = i
  BY <1>1 DEF Places
<1> HIDE DEF T
<1>6. e \in Injection(1..l, T) /\ e \in Surjection(1..l, T)
  BY <1>2, <1>3, <1>4, <1>5 DEF Injection, Surjection, IsInjective
<1>7. ExistsBijection(1..l, T)
  BY <1>6 DEF ExistsBijection, Bijection
<1>8. IsFiniteSet(1..l) /\ Cardinality(1..l) = l
  <2>1. 1 \in Int /\ l \in Int /\ (1 > l => l = 0)
    BY <1>1
  <2>2. IsFiniteSet(1..l) /\ Cardinality(1..l) = IF 1 > l THEN 0 ELSE l - 1 + 1
    BY <2>1, FS_Interval
  <2> QED BY <2>1, <2>2
<1>9. IsFiniteSet(T) /\ Cardinality(T) = l
  BY <1>7, <1>8, FS_Bijection
<1> QED BY <1>1, <1>9 DEF T

LEMMA FirstCount ==
  ASSUME NEW n \in Nat
  PROVE  IsFiniteSet(1..n) /\ Cardinality(1..n) = n
<1>1. 1 \in Int /\ n \in Int /\ (1 > n => n = 0)
  OBVIOUS
<1>2. IsFiniteSet(1..n) /\ Cardinality(1..n) = IF 1 > n THEN 0 ELSE n - 1 + 1
  BY <1>1, FS_Interval
<1> QED BY <1>1, <1>2

\* The places go up by one at least; if there are as many as there can be, every place is taken.
LEMMA PlacesAll ==
  ASSUME NEW e, NEW n \in Nat, NEW S, Places(e, n, S), Len(e) = n \/ \A i \in 1..n : i \in S
  PROVE  Len(e) = n /\ \A k \in 1..n : e[k] = k /\ k \in S
<1>1. Len(e) = n
  <2> SUFFICES ASSUME \A i \in 1..n : i \in S PROVE Len(e) = n
    OBVIOUS
  <2>1. {i \in 1..n : i \in S} = 1..n
    OBVIOUS
  <2> QED BY <2>1, PlacesCount, FirstCount
<1>2. \A k \in 1..n : e[k] \in 1..n /\ e[k] \in S
  BY <1>1 DEF Places
<1>3. \A j \in 1..n, k \in 1..n : j < k => e[j] < e[k]
  BY <1>1 DEF Places
<1> DEFINE P == {k \in Nat : k + 1 <= n => e[k + 1] >= k + 1}
           Q == {k \in Nat : k < n => e[n - k] <= n - k}
<1>4. 0 \in P
  <2>1. 0 + 1 = 1
    OBVIOUS
  <2>2. 1 <= n => 1 \in 1..n
    OBVIOUS
  <2> QED BY <1>2, <2>1, <2>2
<1>5. ASSUME NEW k \in Nat, k \in P PROVE k + 1 \in P
  <2> SUFFICES ASSUME (k + 1) + 1 <= n PROVE e[(k + 1) + 1] >= (k + 1) + 1
    OBVIOUS
  <2>1. PICK a, b : a = k + 1 /\ b = (k + 1) + 1
    OBVIOUS
  <2>2. a \in 1..n /\ b \in 1..n /\ a < b /\ b = a + 1
    BY <2>1
  <2>3. e[a] >= a
    BY <1>5, <2>1, <2>2
  <2>4. e[a] < e[b] /\ e[a] \in Nat /\ e[b] \in Nat
    BY <1>2, <1>3, <2>2
  <2>5. e[b] >= b
    BY <2>2, <2>3, <2>4
  <2> QED BY <2>1, <2>5
<1>6. 0 \in Q
  <2>1. 0 < n => n \in 1..n
    OBVIOUS
  <2>2. n - 0 = n
    OBVIOUS
  <2> QED BY <1>2, <2>1, <2>2
<1>7. ASSUME NEW k \in Nat, k \in Q PROVE k + 1 \in Q
  <2> SUFFICES ASSUME k + 1 < n PROVE e[n - (k + 1)] <= n - (k + 1)
    OBVIOUS
  <2>1. PICK a, b : a = n - (k + 1) /\ b = n - k
    OBVIOUS
  <2>2. a \in 1..n /\ b \in 1..n /\ a < b /\ b = a + 1
    BY <2>1
  <2>3. e[b] <= b
    BY <1>7, <2>1, <2>2
  <2>4. e[a] < e[b] /\ e[a] \in Nat /\ e[b] \in Nat
    BY <1>2, <1>3, <2>2
  <2>5. e[a] <= a
    BY <2>2, <2>3, <2>4
  <2> QED BY <2>1, <2>5
<1> HIDE DEF P, Q
<1>8. Nat \subseteq P /\ Nat \subseteq Q
  BY <1>4, <1>5, <1>6, <1>7, SetInduction
<1>9. ASSUME NEW k \in 1..n PROVE e[k] = k /\ k \in S
  <2>1. PICK j \in Nat : k = j + 1
    <3>1. k - 1 \in Nat /\ k = (k - 1) + 1
      OBVIOUS
    <3> QED BY <3>1
  <2>2. e[k] >= k
    BY <1>8, <2>1 DEF P
  <2>3. PICK i \in Nat : k = n - i
    <3>1. n - k \in Nat /\ k = n - (n - k)
      OBVIOUS
    <3> QED BY <3>1
  <2>4. e[k] <= k
    BY <1>8, <2>3 DEF Q
  <2>5. e[k] \in Nat /\ e[k] \in S
    BY <1>2
  <2>6. e[k] = k
    BY <2>2, <2>4, <2>5
  <2> QED BY <2>5, <2>6
<1> QED BY <1>1, <1>9

\* A filter that keeps as much as there is keeps everything.
LEMMA ChosenAll ==
  ASSUME NEW seq, NEW S, IsSeq(seq), Len(Chosen(seq, S)) = Len(seq) \/ \A i \in 1..Len(seq) : i \in S
  PROVE  Chosen(seq, S) = seq /\ \A i \in 1..Len(seq) : i \in S
<1>1. PICK n \in Nat : n = Len(seq)
  BY DEF IsSeq
<1>2. PICK e, c : e = At(n, S) /\ c = Chosen(seq, S)
  OBVIOUS
<1>3. Places(e, n, S) /\ IsPick(c, seq, e)
  BY <1>1, <1>2, ChosenFacts
<1>4. Len(e) = n \/ \A i \in 1..n : i \in S
  BY <1>1, <1>2, <1>3 DEF IsPick
<1>5. Len(e) = n /\ \A k \in 1..n : e[k] = k /\ k \in S
  BY <1>3, <1>4, PlacesAll
<1>6. IsSeq(c) /\ Len(c) = Len(seq) /\ \A k \in 1..n : c[k] = seq[k]
  BY <1>1, <1>3, <1>5 DEF IsPick
<1>7. c = seq
  BY <1>1, <1>6, SeqEqual
<1> QED BY <1>1, <1>2, <1>5, <1>7

-----------------------------------------------------------------------------
(* Sums *)

SummedTo(F, v, k) == F[0] = 0 /\ \A n \in 1..k : F[n] = F[n - 1] + v[n]

IsTotal(F, v) == F = [n \in 0..Len(v) |-> IF n = 0 THEN 0 ELSE F[n - 1] + v[n]]

LEMMA SumRuns ==
  ASSUME NEW v, NEW k \in Nat
  PROVE  \E F : SummedTo(F, v, k)
<1> DEFINE P == {n \in Nat : \E F : SummedTo(F, v, n)}
<1>1. 0 \in P
  <2>1. PICK F : F = [n \in 0..0 |-> 0]
    OBVIOUS
  <2>2. F[0] = 0
    BY <2>1
  <2> QED BY <2>2 DEF SummedTo
<1>2. ASSUME NEW n \in Nat, n \in P  PROVE n + 1 \in P
  <2>1. PICK F : SummedTo(F, v, n)
    BY <1>2
  <2>2. PICK G : G = [m \in 0..(n + 1) |-> IF m <= n THEN F[m] ELSE F[n] + v[n + 1]]
    OBVIOUS
  <2>3. (\A m \in 0..n : G[m] = F[m]) /\ G[n + 1] = F[n] + v[n + 1]
    BY <2>2
  <2>4. ASSUME NEW m \in 1..(n + 1) PROVE G[m] = G[m - 1] + v[m]
    <3>1. CASE m <= n
      <4>1. m \in 1..n /\ m \in 0..n /\ m - 1 \in 0..n
        BY <3>1
      <4>2. G[m] = F[m] /\ G[m - 1] = F[m - 1]
        BY <2>3, <4>1
      <4> QED BY <2>1, <4>1, <4>2 DEF SummedTo
    <3>2. CASE ~(m <= n)
      <4>1. m = n + 1 /\ m - 1 = n /\ n \in 0..n
        BY <3>2
      <4> QED BY <2>3, <4>1
    <3> QED BY <3>1, <3>2
  <2>5. G[0] = 0
    BY <2>1, <2>3 DEF SummedTo
  <2> QED BY <2>4, <2>5 DEF SummedTo
<1> HIDE DEF P
<1>3. Nat \subseteq P
  BY <1>1, <1>2, SetInduction
<1> QED BY <1>3 DEF P

LEMMA SumRun ==
  ASSUME NEW v, NEW n, n = Len(v), n \in Nat
  PROVE  \E F : SummedTo(F, v, n) /\ Sum(v) = F[n]
<1>1. PICK H : SummedTo(H, v, n)
  BY SumRuns
<1>2. PICK G : G = [m \in 0..n |-> H[m]]
  OBVIOUS
<1>3. \A m \in 0..n : G[m] = H[m]
  BY <1>2
<1>4. G = [m \in 0..n |-> IF m = 0 THEN 0 ELSE G[m - 1] + v[m]]
  <2>1. ASSUME NEW m \in 0..n PROVE G[m] = IF m = 0 THEN 0 ELSE G[m - 1] + v[m]
    <3>1. CASE m = 0
      BY <1>1, <1>3, <3>1 DEF SummedTo
    <3>2. CASE m # 0
      <4>1. m \in 1..n /\ m - 1 \in 0..n
        BY <3>2
      <4> QED BY <1>1, <1>3, <3>2, <4>1 DEF SummedTo
    <3> QED BY <3>1, <3>2
  <2>2. G = [m \in 0..n |-> G[m]]
    BY <1>2
  <2> QED BY <2>1, <2>2
<1>5. \E F : IsTotal(F, v)
  BY <1>4 DEF IsTotal
<1> DEFINE R == CHOOSE F : IsTotal(F, v)
<1>6. IsTotal(R, v)
  BY <1>5
<1>7. Sum(v) = R[n]
  BY DEF Sum, IsTotal
<1> HIDE DEF R
<1>8. SummedTo(R, v, n)
  <2>1. R = [m \in 0..n |-> IF m = 0 THEN 0 ELSE R[m - 1] + v[m]]
    BY <1>6 DEF IsTotal
  <2>2. R[0] = 0
    BY <2>1
  <2>3. ASSUME NEW m \in 1..n PROVE R[m] = R[m - 1] + v[m]
    <3>1. m \in 0..n /\ m # 0
      OBVIOUS
    <3> QED BY <2>1, <3>1
  <2> QED BY <2>2, <2>3 DEF SummedTo
<1> QED BY <1>7, <1>8

\* Two sums over the same numbers are the same.
LEMMA RunsAgree ==
  ASSUME NEW v, NEW w, NEW F, NEW G, NEW n \in Nat, SummedTo(F, v, n), SummedTo(G, w, n),
         \A i \in 1..n : v[i] = w[i]
  PROVE  \A k \in 0..n : F[k] = G[k]
<1> DEFINE P == {k \in Nat : k <= n => F[k] = G[k]}
<1>1. 0 \in P
  BY DEF SummedTo
<1>2. ASSUME NEW k \in Nat, k \in P PROVE k + 1 \in P
  <2> SUFFICES ASSUME k + 1 <= n PROVE F[k + 1] = G[k + 1]
    OBVIOUS
  <2>1. PICK m : m = k + 1
    OBVIOUS
  <2>2. m \in 1..n /\ m - 1 = k /\ k <= n
    BY <2>1
  <2>3. F[m] = F[k] + v[m] /\ G[m] = G[k] + w[m]
    BY <2>2 DEF SummedTo
  <2> QED BY <1>2, <2>1, <2>2, <2>3
<1> HIDE DEF P
<1>3. Nat \subseteq P
  BY <1>1, <1>2, SetInduction
<1> QED BY <1>3 DEF P

\* A sum of numbers is a number, and one of natural numbers is natural.
LEMMA SumType ==
  ASSUME NEW v, NEW F, NEW n \in Nat, SummedTo(F, v, n), \A i \in 1..n : v[i] \in Int
  PROVE  /\ \A k \in 0..n : F[k] \in Int
         /\ (\A i \in 1..n : v[i] \in Nat) => \A k \in 0..n : F[k] \in Nat
<1> DEFINE P == {k \in Nat : k <= n => F[k] \in Int /\ ((\A i \in 1..n : v[i] \in Nat) => F[k] \in Nat)}
<1>1. 0 \in P
  BY DEF SummedTo
<1>2. ASSUME NEW k \in Nat, k \in P PROVE k + 1 \in P
  <2> SUFFICES ASSUME k + 1 <= n PROVE F[k + 1] \in Int /\ ((\A i \in 1..n : v[i] \in Nat) => F[k + 1] \in Nat)
    OBVIOUS
  <2>1. PICK m : m = k + 1
    OBVIOUS
  <2>2. m \in 1..n /\ m - 1 = k /\ k <= n
    BY <2>1
  <2>3. F[m] = F[k] + v[m]
    BY <2>2 DEF SummedTo
  <2>4. F[k] \in Int /\ v[m] \in Int /\ ((\A i \in 1..n : v[i] \in Nat) => F[k] \in Nat /\ v[m] \in Nat)
    BY <1>2, <2>2
  <2> QED BY <2>1, <2>3, <2>4
<1> HIDE DEF P
<1>3. Nat \subseteq P
  BY <1>1, <1>2, SetInduction
<1> QED BY <1>3 DEF P

\* One number more.
LEMMA SumMore ==
  ASSUME NEW v, NEW x, IsSeq(v)
  PROVE  Sum(Append(v, x)) = Sum(v) + x
<1>1. PICK n \in Nat : n = Len(v)
  BY DEF IsSeq
<1>2. PICK w : w = Append(v, x)
  OBVIOUS
<1>3. Len(w) = n + 1 /\ w[n + 1] = x /\ \A i \in 1..n : w[i] = v[i]
  BY <1>1, <1>2, AppendTo
<1>4. PICK m : m = n + 1
  OBVIOUS
<1>5. m \in Nat /\ Len(w) = m /\ m \in 1..m /\ m - 1 = n
  BY <1>3, <1>4
<1>6. PICK F : SummedTo(F, v, n) /\ Sum(v) = F[n]
  BY <1>1, SumRun
<1>7. PICK G : SummedTo(G, w, m) /\ Sum(w) = G[m]
  BY <1>5, SumRun
<1>8. SummedTo(G, w, n)
  <2>1. \A i \in 1..n : i \in 1..m
    BY <1>4
  <2> QED BY <1>7, <2>1 DEF SummedTo
<1>9. F[n] = G[n]
  BY <1>3, <1>6, <1>8, RunsAgree
<1>10. G[m] = G[n] + w[m]
  BY <1>5, <1>7 DEF SummedTo
<1> QED BY <1>2, <1>3, <1>4, <1>6, <1>7, <1>9, <1>10

LEMMA SumOfNone == Sum(<<>>) = 0
<1>1. PICK v : v = <<>>
  OBVIOUS
<1>2. Len(v) = 0
  BY <1>1, FewFacts
<1>3. PICK F : SummedTo(F, v, 0) /\ Sum(v) = F[0]
  BY <1>2, SumRun
<1> QED BY <1>1, <1>3 DEF SummedTo

\* What is kept of natural numbers has no larger sum.
LEMMA SumChosen ==
  ASSUME NEW v, NEW S, IsSeq(v), \A i \in 1..Len(v) : v[i] \in Nat
  PROVE  Sum(Chosen(v, S)) \in Nat /\ Sum(v) \in Nat /\ Sum(Chosen(v, S)) <= Sum(v)
<1>1. PICK n \in Nat : n = Len(v)
  BY DEF IsSeq
<1>2. PICK F : TakenTo(F, v, S, n) /\ Chosen(v, S) = F[n]
  BY <1>1, ChosenRun
<1>3. PICK G : SummedTo(G, v, n) /\ Sum(v) = G[n]
  BY <1>1, SumRun
<1>4. \A k \in 0..n : G[k] \in Nat
  <2>1. \A i \in 1..n : v[i] \in Int /\ v[i] \in Nat
    BY <1>1
  <2> QED BY <1>3, <2>1, SumType
<1> DEFINE P == {k \in Nat : k <= n => IsSeq(F[k]) /\ Sum(F[k]) \in Nat /\ Sum(F[k]) <= G[k]}
<1>5. 0 \in P
  <2>1. F[0] = <<>> /\ G[0] = 0 /\ IsSeq(<<>>)
    BY <1>2, <1>3, FewFacts DEF TakenTo, SummedTo
  <2> QED BY <2>1, SumOfNone
<1>6. ASSUME NEW k \in Nat, k \in P PROVE k + 1 \in P
  <2> SUFFICES ASSUME k + 1 <= n PROVE IsSeq(F[k + 1]) /\ Sum(F[k + 1]) \in Nat /\ Sum(F[k + 1]) <= G[k + 1]
    OBVIOUS
  <2>1. PICK m : m = k + 1
    OBVIOUS
  <2>2. m \in 1..n /\ m - 1 = k /\ k \in 0..n /\ m \in 0..n
    BY <2>1
  <2>3. IsSeq(F[k]) /\ Sum(F[k]) \in Nat /\ Sum(F[k]) <= G[k]
    BY <1>6, <2>2
  <2>4. G[m] = G[k] + v[m] /\ G[k] \in Nat /\ v[m] \in Nat
    BY <1>1, <1>3, <1>4, <2>2 DEF SummedTo
  <2>5. F[m] = IF m \in S THEN Append(F[k], v[m]) ELSE F[k]
    BY <1>2, <2>2 DEF TakenTo
  <2>6. CASE m \notin S
    BY <2>1, <2>3, <2>4, <2>5, <2>6
  <2>7. CASE m \in S
    <3>1. PICK c, x : c = F[k] /\ x = v[m]
      OBVIOUS
    <3>2. F[m] = Append(c, x) /\ IsSeq(c)
      BY <2>3, <2>5, <2>7, <3>1
    <3>3. Sum(Append(c, x)) = Sum(c) + x /\ IsSeq(Append(c, x))
      BY <3>2, SumMore, AppendTo
    <3> QED BY <2>1, <2>3, <2>4, <3>1, <3>2, <3>3
  <2> QED BY <2>6, <2>7
<1> HIDE DEF P
<1>7. Nat \subseteq P
  BY <1>5, <1>6, SetInduction
<1>8. Sum(F[n]) \in Nat /\ Sum(F[n]) <= G[n]
  BY <1>7 DEF P
<1>9. G[n] \in Nat
  BY <1>4
<1> QED BY <1>2, <1>3, <1>8, <1>9

-----------------------------------------------------------------------------
(* Loops.  A loop has a run: the values its turns leave, from the first to the last. *)

Turn(loop, acc, x) ==
  CASE loop = "buckets" -> Bucketed(acc, x)
    [] loop = "links" -> LinkNext(acc, x)
    [] loop = "decoder" -> DecoderNext(acc, x)
    [] loop = "marks" -> Inserted(acc, x)
    [] loop = "skips" -> SkippedNext(acc, x)
    [] loop = "drops" -> DroppedNext(acc, x)

Run(loop, F, start, seq, k) == F[0] = start /\ \A n \in 1..k : F[n] = Turn(loop, F[n - 1], seq[n])

LEMMA RunExists ==
  ASSUME NEW loop, NEW start, NEW seq, NEW k \in Nat
  PROVE  \E F : Run(loop, F, start, seq, k)
<1> DEFINE P == {n \in Nat : \E F : Run(loop, F, start, seq, n)}
<1>1. 0 \in P
  <2>1. PICK F : F = [n \in 0..0 |-> start]
    OBVIOUS
  <2>2. F[0] = start
    BY <2>1
  <2> QED BY <2>2 DEF Run
<1>2. ASSUME NEW n \in Nat, n \in P  PROVE n + 1 \in P
  <2>1. PICK F : Run(loop, F, start, seq, n)
    BY <1>2
  <2>2. PICK last : last = Turn(loop, F[n], seq[n + 1])
    OBVIOUS
  <2>3. PICK G : G = [m \in 0..(n + 1) |-> IF m <= n THEN F[m] ELSE last]
    OBVIOUS
  <2>4. (\A m \in 0..n : G[m] = F[m]) /\ G[n + 1] = last
    BY <2>3
  <2>5. ASSUME NEW m \in 1..(n + 1) PROVE G[m] = Turn(loop, G[m - 1], seq[m])
    <3>1. CASE m <= n
      <4>1. m \in 1..n /\ m \in 0..n /\ m - 1 \in 0..n
        BY <3>1
      <4>2. G[m] = F[m] /\ G[m - 1] = F[m - 1]
        BY <2>4, <4>1
      <4> QED BY <2>1, <4>1, <4>2 DEF Run
    <3>2. CASE ~(m <= n)
      <4>1. m = n + 1 /\ m - 1 = n /\ n \in 0..n
        BY <3>2
      <4> QED BY <2>2, <2>4, <4>1
    <3> QED BY <3>1, <3>2
  <2>6. G[0] = start
    BY <2>1, <2>4 DEF Run
  <2> QED BY <2>5, <2>6 DEF Run
<1> HIDE DEF P
<1>3. Nat \subseteq P
  BY <1>1, <1>2, SetInduction
<1> QED BY <1>3 DEF P

IsBucketed(F, start, seq) == F = [n \in 0..Len(seq) |-> IF n = 0 THEN start ELSE Bucketed(F[n - 1], seq[n])]
BucketedLast(start, seq) == (CHOOSE F : IsBucketed(F, start, seq))[Len(seq)]
BucketedTurns(F, start, seq, n) == F[0] = start /\ \A m \in 1..n : F[m] = Bucketed(F[m - 1], seq[m])

LEMMA BucketedRun ==
  ASSUME NEW seq, NEW start, NEW n, n = Len(seq), n \in Nat
  PROVE  \E F : BucketedTurns(F, start, seq, n) /\ BucketedLast(start, seq) = F[n]
<1>1. PICK H : Run("buckets", H, start, seq, n)
  BY RunExists
<1>2. H[0] = start /\ \A m \in 1..n : H[m] = Bucketed(H[m - 1], seq[m])
  BY <1>1 DEF Run, Turn
<1>3. PICK G : G = [m \in 0..n |-> H[m]]
  OBVIOUS
<1>4. \A m \in 0..n : G[m] = H[m]
  BY <1>3
<1>5. ASSUME NEW m \in 0..n PROVE G[m] = IF m = 0 THEN start ELSE Bucketed(G[m - 1], seq[m])
  <2>1. CASE m = 0
    BY <1>2, <1>4, <2>1
  <2>2. CASE m # 0
    <3>1. m \in 1..n /\ m - 1 \in 0..n
      BY <2>2
    <3> QED BY <1>2, <1>4, <2>2, <3>1
  <2> QED BY <2>1, <2>2
<1>6. G = [m \in 0..n |-> IF m = 0 THEN start ELSE Bucketed(G[m - 1], seq[m])]
  BY <1>3, <1>5
<1>7. \E F : IsBucketed(F, start, seq)
  BY <1>6 DEF IsBucketed
<1> DEFINE R == CHOOSE F : IsBucketed(F, start, seq)
<1>8. IsBucketed(R, start, seq)
  BY <1>7
<1>9. BucketedLast(start, seq) = R[n]
  BY DEF BucketedLast
<1> HIDE DEF R
<1>10. R = [m \in 0..n |-> IF m = 0 THEN start ELSE Bucketed(R[m - 1], seq[m])]
  BY <1>8 DEF IsBucketed
<1>11. R[0] = start
  BY <1>10
<1>12. ASSUME NEW m \in 1..n PROVE R[m] = Bucketed(R[m - 1], seq[m])
  <2>1. m \in 0..n /\ m # 0
    OBVIOUS
  <2> QED BY <1>10, <2>1
<1>13. BucketedTurns(R, start, seq, n)
  BY <1>11, <1>12 DEF BucketedTurns
<1> QED BY <1>9, <1>13

IsLinkNext(F, start, seq) == F = [n \in 0..Len(seq) |-> IF n = 0 THEN start ELSE LinkNext(F[n - 1], seq[n])]
LinkNextLast(start, seq) == (CHOOSE F : IsLinkNext(F, start, seq))[Len(seq)]
LinkNextTurns(F, start, seq, n) == F[0] = start /\ \A m \in 1..n : F[m] = LinkNext(F[m - 1], seq[m])

LEMMA LinkNextRun ==
  ASSUME NEW seq, NEW start, NEW n, n = Len(seq), n \in Nat
  PROVE  \E F : LinkNextTurns(F, start, seq, n) /\ LinkNextLast(start, seq) = F[n]
<1>1. PICK H : Run("links", H, start, seq, n)
  BY RunExists
<1>2. H[0] = start /\ \A m \in 1..n : H[m] = LinkNext(H[m - 1], seq[m])
  BY <1>1 DEF Run, Turn
<1>3. PICK G : G = [m \in 0..n |-> H[m]]
  OBVIOUS
<1>4. \A m \in 0..n : G[m] = H[m]
  BY <1>3
<1>5. ASSUME NEW m \in 0..n PROVE G[m] = IF m = 0 THEN start ELSE LinkNext(G[m - 1], seq[m])
  <2>1. CASE m = 0
    BY <1>2, <1>4, <2>1
  <2>2. CASE m # 0
    <3>1. m \in 1..n /\ m - 1 \in 0..n
      BY <2>2
    <3> QED BY <1>2, <1>4, <2>2, <3>1
  <2> QED BY <2>1, <2>2
<1>6. G = [m \in 0..n |-> IF m = 0 THEN start ELSE LinkNext(G[m - 1], seq[m])]
  BY <1>3, <1>5
<1>7. \E F : IsLinkNext(F, start, seq)
  BY <1>6 DEF IsLinkNext
<1> DEFINE R == CHOOSE F : IsLinkNext(F, start, seq)
<1>8. IsLinkNext(R, start, seq)
  BY <1>7
<1>9. LinkNextLast(start, seq) = R[n]
  BY DEF LinkNextLast
<1> HIDE DEF R
<1>10. R = [m \in 0..n |-> IF m = 0 THEN start ELSE LinkNext(R[m - 1], seq[m])]
  BY <1>8 DEF IsLinkNext
<1>11. R[0] = start
  BY <1>10
<1>12. ASSUME NEW m \in 1..n PROVE R[m] = LinkNext(R[m - 1], seq[m])
  <2>1. m \in 0..n /\ m # 0
    OBVIOUS
  <2> QED BY <1>10, <2>1
<1>13. LinkNextTurns(R, start, seq, n)
  BY <1>11, <1>12 DEF LinkNextTurns
<1> QED BY <1>9, <1>13

IsDecoderNext(F, start, seq) == F = [n \in 0..Len(seq) |-> IF n = 0 THEN start ELSE DecoderNext(F[n - 1], seq[n])]
DecoderNextLast(start, seq) == (CHOOSE F : IsDecoderNext(F, start, seq))[Len(seq)]
DecoderNextTurns(F, start, seq, n) == F[0] = start /\ \A m \in 1..n : F[m] = DecoderNext(F[m - 1], seq[m])

LEMMA DecoderNextRun ==
  ASSUME NEW seq, NEW start, NEW n, n = Len(seq), n \in Nat
  PROVE  \E F : DecoderNextTurns(F, start, seq, n) /\ DecoderNextLast(start, seq) = F[n]
<1>1. PICK H : Run("decoder", H, start, seq, n)
  BY RunExists
<1>2. H[0] = start /\ \A m \in 1..n : H[m] = DecoderNext(H[m - 1], seq[m])
  BY <1>1 DEF Run, Turn
<1>3. PICK G : G = [m \in 0..n |-> H[m]]
  OBVIOUS
<1>4. \A m \in 0..n : G[m] = H[m]
  BY <1>3
<1>5. ASSUME NEW m \in 0..n PROVE G[m] = IF m = 0 THEN start ELSE DecoderNext(G[m - 1], seq[m])
  <2>1. CASE m = 0
    BY <1>2, <1>4, <2>1
  <2>2. CASE m # 0
    <3>1. m \in 1..n /\ m - 1 \in 0..n
      BY <2>2
    <3> QED BY <1>2, <1>4, <2>2, <3>1
  <2> QED BY <2>1, <2>2
<1>6. G = [m \in 0..n |-> IF m = 0 THEN start ELSE DecoderNext(G[m - 1], seq[m])]
  BY <1>3, <1>5
<1>7. \E F : IsDecoderNext(F, start, seq)
  BY <1>6 DEF IsDecoderNext
<1> DEFINE R == CHOOSE F : IsDecoderNext(F, start, seq)
<1>8. IsDecoderNext(R, start, seq)
  BY <1>7
<1>9. DecoderNextLast(start, seq) = R[n]
  BY DEF DecoderNextLast
<1> HIDE DEF R
<1>10. R = [m \in 0..n |-> IF m = 0 THEN start ELSE DecoderNext(R[m - 1], seq[m])]
  BY <1>8 DEF IsDecoderNext
<1>11. R[0] = start
  BY <1>10
<1>12. ASSUME NEW m \in 1..n PROVE R[m] = DecoderNext(R[m - 1], seq[m])
  <2>1. m \in 0..n /\ m # 0
    OBVIOUS
  <2> QED BY <1>10, <2>1
<1>13. DecoderNextTurns(R, start, seq, n)
  BY <1>11, <1>12 DEF DecoderNextTurns
<1> QED BY <1>9, <1>13

IsInserted(F, start, seq) == F = [n \in 0..Len(seq) |-> IF n = 0 THEN start ELSE Inserted(F[n - 1], seq[n])]
InsertedLast(start, seq) == (CHOOSE F : IsInserted(F, start, seq))[Len(seq)]
InsertedTurns(F, start, seq, n) == F[0] = start /\ \A m \in 1..n : F[m] = Inserted(F[m - 1], seq[m])

LEMMA InsertedRun ==
  ASSUME NEW seq, NEW start, NEW n, n = Len(seq), n \in Nat
  PROVE  \E F : InsertedTurns(F, start, seq, n) /\ InsertedLast(start, seq) = F[n]
<1>1. PICK H : Run("marks", H, start, seq, n)
  BY RunExists
<1>2. H[0] = start /\ \A m \in 1..n : H[m] = Inserted(H[m - 1], seq[m])
  BY <1>1 DEF Run, Turn
<1>3. PICK G : G = [m \in 0..n |-> H[m]]
  OBVIOUS
<1>4. \A m \in 0..n : G[m] = H[m]
  BY <1>3
<1>5. ASSUME NEW m \in 0..n PROVE G[m] = IF m = 0 THEN start ELSE Inserted(G[m - 1], seq[m])
  <2>1. CASE m = 0
    BY <1>2, <1>4, <2>1
  <2>2. CASE m # 0
    <3>1. m \in 1..n /\ m - 1 \in 0..n
      BY <2>2
    <3> QED BY <1>2, <1>4, <2>2, <3>1
  <2> QED BY <2>1, <2>2
<1>6. G = [m \in 0..n |-> IF m = 0 THEN start ELSE Inserted(G[m - 1], seq[m])]
  BY <1>3, <1>5
<1>7. \E F : IsInserted(F, start, seq)
  BY <1>6 DEF IsInserted
<1> DEFINE R == CHOOSE F : IsInserted(F, start, seq)
<1>8. IsInserted(R, start, seq)
  BY <1>7
<1>9. InsertedLast(start, seq) = R[n]
  BY DEF InsertedLast
<1> HIDE DEF R
<1>10. R = [m \in 0..n |-> IF m = 0 THEN start ELSE Inserted(R[m - 1], seq[m])]
  BY <1>8 DEF IsInserted
<1>11. R[0] = start
  BY <1>10
<1>12. ASSUME NEW m \in 1..n PROVE R[m] = Inserted(R[m - 1], seq[m])
  <2>1. m \in 0..n /\ m # 0
    OBVIOUS
  <2> QED BY <1>10, <2>1
<1>13. InsertedTurns(R, start, seq, n)
  BY <1>11, <1>12 DEF InsertedTurns
<1> QED BY <1>9, <1>13

IsSkippedNext(F, start, seq) == F = [n \in 0..Len(seq) |-> IF n = 0 THEN start ELSE SkippedNext(F[n - 1], seq[n])]
SkippedNextLast(start, seq) == (CHOOSE F : IsSkippedNext(F, start, seq))[Len(seq)]
SkippedNextTurns(F, start, seq, n) == F[0] = start /\ \A m \in 1..n : F[m] = SkippedNext(F[m - 1], seq[m])

LEMMA SkippedNextRun ==
  ASSUME NEW seq, NEW start, NEW n, n = Len(seq), n \in Nat
  PROVE  \E F : SkippedNextTurns(F, start, seq, n) /\ SkippedNextLast(start, seq) = F[n]
<1>1. PICK H : Run("skips", H, start, seq, n)
  BY RunExists
<1>2. H[0] = start /\ \A m \in 1..n : H[m] = SkippedNext(H[m - 1], seq[m])
  BY <1>1 DEF Run, Turn
<1>3. PICK G : G = [m \in 0..n |-> H[m]]
  OBVIOUS
<1>4. \A m \in 0..n : G[m] = H[m]
  BY <1>3
<1>5. ASSUME NEW m \in 0..n PROVE G[m] = IF m = 0 THEN start ELSE SkippedNext(G[m - 1], seq[m])
  <2>1. CASE m = 0
    BY <1>2, <1>4, <2>1
  <2>2. CASE m # 0
    <3>1. m \in 1..n /\ m - 1 \in 0..n
      BY <2>2
    <3> QED BY <1>2, <1>4, <2>2, <3>1
  <2> QED BY <2>1, <2>2
<1>6. G = [m \in 0..n |-> IF m = 0 THEN start ELSE SkippedNext(G[m - 1], seq[m])]
  BY <1>3, <1>5
<1>7. \E F : IsSkippedNext(F, start, seq)
  BY <1>6 DEF IsSkippedNext
<1> DEFINE R == CHOOSE F : IsSkippedNext(F, start, seq)
<1>8. IsSkippedNext(R, start, seq)
  BY <1>7
<1>9. SkippedNextLast(start, seq) = R[n]
  BY DEF SkippedNextLast
<1> HIDE DEF R
<1>10. R = [m \in 0..n |-> IF m = 0 THEN start ELSE SkippedNext(R[m - 1], seq[m])]
  BY <1>8 DEF IsSkippedNext
<1>11. R[0] = start
  BY <1>10
<1>12. ASSUME NEW m \in 1..n PROVE R[m] = SkippedNext(R[m - 1], seq[m])
  <2>1. m \in 0..n /\ m # 0
    OBVIOUS
  <2> QED BY <1>10, <2>1
<1>13. SkippedNextTurns(R, start, seq, n)
  BY <1>11, <1>12 DEF SkippedNextTurns
<1> QED BY <1>9, <1>13

IsDroppedNext(F, start, seq) == F = [n \in 0..Len(seq) |-> IF n = 0 THEN start ELSE DroppedNext(F[n - 1], seq[n])]
DroppedNextLast(start, seq) == (CHOOSE F : IsDroppedNext(F, start, seq))[Len(seq)]
DroppedNextTurns(F, start, seq, n) == F[0] = start /\ \A m \in 1..n : F[m] = DroppedNext(F[m - 1], seq[m])

LEMMA DroppedNextRun ==
  ASSUME NEW seq, NEW start, NEW n, n = Len(seq), n \in Nat
  PROVE  \E F : DroppedNextTurns(F, start, seq, n) /\ DroppedNextLast(start, seq) = F[n]
<1>1. PICK H : Run("drops", H, start, seq, n)
  BY RunExists
<1>2. H[0] = start /\ \A m \in 1..n : H[m] = DroppedNext(H[m - 1], seq[m])
  BY <1>1 DEF Run, Turn
<1>3. PICK G : G = [m \in 0..n |-> H[m]]
  OBVIOUS
<1>4. \A m \in 0..n : G[m] = H[m]
  BY <1>3
<1>5. ASSUME NEW m \in 0..n PROVE G[m] = IF m = 0 THEN start ELSE DroppedNext(G[m - 1], seq[m])
  <2>1. CASE m = 0
    BY <1>2, <1>4, <2>1
  <2>2. CASE m # 0
    <3>1. m \in 1..n /\ m - 1 \in 0..n
      BY <2>2
    <3> QED BY <1>2, <1>4, <2>2, <3>1
  <2> QED BY <2>1, <2>2
<1>6. G = [m \in 0..n |-> IF m = 0 THEN start ELSE DroppedNext(G[m - 1], seq[m])]
  BY <1>3, <1>5
<1>7. \E F : IsDroppedNext(F, start, seq)
  BY <1>6 DEF IsDroppedNext
<1> DEFINE R == CHOOSE F : IsDroppedNext(F, start, seq)
<1>8. IsDroppedNext(R, start, seq)
  BY <1>7
<1>9. DroppedNextLast(start, seq) = R[n]
  BY DEF DroppedNextLast
<1> HIDE DEF R
<1>10. R = [m \in 0..n |-> IF m = 0 THEN start ELSE DroppedNext(R[m - 1], seq[m])]
  BY <1>8 DEF IsDroppedNext
<1>11. R[0] = start
  BY <1>10
<1>12. ASSUME NEW m \in 1..n PROVE R[m] = DroppedNext(R[m - 1], seq[m])
  <2>1. m \in 0..n /\ m # 0
    OBVIOUS
  <2> QED BY <1>10, <2>1
<1>13. DroppedNextTurns(R, start, seq, n)
  BY <1>11, <1>12 DEF DroppedNextTurns
<1> QED BY <1>9, <1>13

-----------------------------------------------------------------------------
(* Lists of things with ids *)

Elems(s) == {s[i] : i \in 1..Len(s)}
Distinct(s) == \A i \in 1..Len(s), j \in 1..Len(s) : s[i].id = s[j].id => i = j

LEMMA JoinLists ==
  ASSUME NEW s, NEW t, IsSeq(s), IsSeq(t)
  PROVE  /\ IsSeq(s \o t) /\ Elems(s \o t) = Elems(s) \cup Elems(t)
         /\ Distinct(s) /\ Distinct(t) /\ (\A x \in Elems(s), y \in Elems(t) : x.id # y.id) => Distinct(s \o t)
<1>1. PICK m \in Nat, n \in Nat : m = Len(s) /\ n = Len(t)
  BY DEF IsSeq
<1>2. PICK u : u = s \o t
  OBVIOUS
<1>3. /\ IsSeq(u) /\ Len(u) = m + n /\ \A i \in 1..m : u[i] = s[i]
      /\ \A i \in 1..n : u[m + i] = t[i]
  BY <1>1, <1>2, JoinFacts
<1>4. ASSUME NEW i \in 1..(m + n)
      PROVE  (i \in 1..m /\ u[i] = s[i]) \/ (i - m \in 1..n /\ u[i] = t[i - m])
  <2>1. CASE i <= m
    <3>1. i \in 1..m
      BY <2>1
    <3> QED BY <1>3, <3>1
  <2>2. CASE ~(i <= m)
    <3>1. PICK j : j = i - m
      OBVIOUS
    <3>2. j \in 1..n /\ i = m + j
      BY <2>2, <3>1
    <3>3. u[m + j] = t[j]
      BY <1>3, <3>2
    <3> QED BY <3>1, <3>2, <3>3
  <2> QED BY <2>1, <2>2
<1>5. Elems(u) \subseteq Elems(s) \cup Elems(t)
  BY <1>1, <1>3, <1>4 DEF Elems
<1>6. Elems(s) \subseteq Elems(u)
  <2>1. \A i \in 1..m : i \in 1..(m + n)
    OBVIOUS
  <2> QED BY <1>1, <1>3, <2>1 DEF Elems
<1>7. Elems(t) \subseteq Elems(u)
  <2>1. \A i \in 1..n : m + i \in 1..(m + n)
    OBVIOUS
  <2> QED BY <1>1, <1>3, <2>1 DEF Elems
<1>8. ASSUME Distinct(s), Distinct(t), \A x \in Elems(s), y \in Elems(t) : x.id # y.id
      PROVE  Distinct(u)
  <2> SUFFICES ASSUME NEW i \in 1..(m + n), NEW j \in 1..(m + n), u[i].id = u[j].id PROVE i = j
    BY <1>3 DEF Distinct
  <2>1. \A a \in 1..m : s[a] \in Elems(s)
    BY <1>1 DEF Elems
  <2>2. \A a \in 1..n : t[a] \in Elems(t)
    BY <1>1 DEF Elems
  <2>3. CASE i \in 1..m /\ u[i] = s[i]
    <3>1. CASE j \in 1..m /\ u[j] = s[j]
      BY <1>1, <1>8, <2>3, <3>1 DEF Distinct
    <3>2. CASE j - m \in 1..n /\ u[j] = t[j - m]
      BY <1>8, <2>1, <2>2, <2>3, <3>2
    <3> QED BY <1>4, <3>1, <3>2
  <2>4. CASE i - m \in 1..n /\ u[i] = t[i - m]
    <3>1. CASE j \in 1..m /\ u[j] = s[j]
      BY <1>8, <2>1, <2>2, <2>4, <3>1
    <3>2. CASE j - m \in 1..n /\ u[j] = t[j - m]
      <4>1. i - m = j - m
        BY <1>1, <1>8, <2>4, <3>2 DEF Distinct
      <4> QED BY <4>1
    <3> QED BY <1>4, <3>1, <3>2
  <2> QED BY <1>4, <2>3, <2>4
<1> QED BY <1>2, <1>3, <1>5, <1>6, <1>7, <1>8

LEMMA OneAtMost ==
  ASSUME NEW s, NEW x, s = <<>> \/ s = <<x>>
  PROVE  IsSeq(s) /\ Elems(s) \subseteq {x} /\ Distinct(s)
<1>1. CASE s = <<>>
  <2>1. IsSeq(s) /\ Len(s) = 0
    BY <1>1, FewFacts
  <2>2. 1..0 = {}
    OBVIOUS
  <2> QED BY <2>1, <2>2 DEF Elems, Distinct
<1>2. CASE s = <<x>>
  <2>1. IsSeq(s) /\ Len(s) = 1 /\ s[1] = x
    BY <1>2, FewFacts
  <2>2. 1..1 = {1}
    OBVIOUS
  <2> QED BY <2>1, <2>2 DEF Elems, Distinct
<1> QED BY <1>1, <1>2

-----------------------------------------------------------------------------
(* The diagnostics of a session *)

\* There is a bucket for every second, the last one included.
LEMMA BucketFacts ==
  ASSUME NEW d, NEW frames, BucketCount(d) \in Nat, Len(frames) \in Nat
  PROVE  IsSeq(CreateMetricBuckets(d, frames)) /\ Len(CreateMetricBuckets(d, frames)) = BucketCount(d)
<1>1. PICK n \in Nat, B \in Nat : n = Len(frames) /\ B = BucketCount(d)
  OBVIOUS
<1>2. PICK start : start = [seq |-> Null, untrusted |-> 0, drops |-> Null, buckets |-> [b \in 1..B |-> EmptyBucket]]
  OBVIOUS
<1>3. PICK F : BucketedTurns(F, start, frames, n) /\ BucketedLast(start, frames) = F[n]
  BY <1>1, BucketedRun
<1> DEFINE P == {k \in Nat : k <= n => DOMAIN F[k].buckets = 1..B}
<1>4. 0 \in P
  <2>1. start.buckets = [b \in 1..B |-> EmptyBucket]
    BY <1>2
  <2> QED BY <1>3, <2>1 DEF BucketedTurns
<1>5. ASSUME NEW k \in Nat, k \in P PROVE k + 1 \in P
  <2> SUFFICES ASSUME k + 1 <= n PROVE DOMAIN F[k + 1].buckets = 1..B
    OBVIOUS
  <2>1. PICK m : m = k + 1
    OBVIOUS
  <2>2. m \in 1..n /\ m - 1 = k
    BY <2>1
  <2>3. DOMAIN F[k].buckets = 1..B
    BY <1>5, <2>2
  <2>4. PICK acc, f : acc = F[k] /\ f = frames[m]
    OBVIOUS
  <2>5. F[m] = Bucketed(acc, f)
    BY <1>3, <2>2, <2>4 DEF BucketedTurns
  <2>6. DOMAIN Bucketed(acc, f).buckets = DOMAIN acc.buckets
    BY Zenon DEF Bucketed
  <2> QED BY <2>1, <2>3, <2>4, <2>5, <2>6
<1> HIDE DEF P
<1>6. Nat \subseteq P
  BY <1>4, <1>5, SetInduction
<1>7. DOMAIN F[n].buckets = 1..B
  BY <1>6 DEF P
<1>8. PICK c : c = CreateMetricBuckets(d, frames)
  OBVIOUS
<1>9. c = Carried(F[n].buckets)
  BY <1>1, <1>2, <1>3, <1>8 DEF CreateMetricBuckets, Steps, BucketedLast, IsBucketed
<1>10. c = [b \in 1..B |-> c[b]]
  BY <1>7, <1>9, Zenon DEF Carried
<1>11. IsSeq(c) /\ Len(c) = B
  BY <1>10, GivenFacts
<1> QED BY <1>1, <1>8, <1>11

\* The fields of a diagnostic that are read.
Whole(e) == {"id", "at", "to", "severity", "frames"} \subseteq DOMAIN e

LinkTypes == {"link-degraded", "recovery", "loss-burst"}

Lag(type) == ((CASE type = "link-degraded" -> LowRuns [] type = "recovery" -> GoodRuns [] OTHER -> LossRuns) - 1) * Second

\* What the loop over the buckets has found when at units of time have passed.
LinkFound(found, at) ==
  /\ IsSeq(found) /\ Distinct(found)
  /\ \A e \in Elems(found) :
       /\ Whole(e) /\ e.id[1] \in LinkTypes /\ e.to = Null /\ e.at \in Int /\ e.id[2] = e.at
       /\ e.at + Lag(e.id[1]) + Second <= at

LEMMA LagFacts == \A type : Lag(type) \in Nat /\ Second \in Nat /\ Second > 0
<1>1. LowRuns \in Nat \ {0} /\ GoodRuns \in Nat \ {0} /\ LossRuns \in Nat \ {0} /\ Second \in Nat \ {0}
  BY SessionAssumption
<1>2. \A a \in Nat, b \in Nat : a * b \in Nat
  OBVIOUS
<1> SUFFICES ASSUME NEW type PROVE Lag(type) \in Nat
  BY <1>1
<1>3. PICK n : n = CASE type = "link-degraded" -> LowRuns [] type = "recovery" -> GoodRuns [] OTHER -> LossRuns
  OBVIOUS
<1>4. n \in Nat \ {0}
  BY <1>1, <1>3
<1>5. PICK a \in Nat : a = n - 1
  BY <1>4
<1>6. Lag(type) = a * Second
  BY <1>3, <1>5 DEF Lag
<1> QED BY <1>1, <1>2, <1>6

IsTurn(x, at) ==
  Whole(x) /\ x.id[1] \in LinkTypes /\ x.to = Null /\ x.at \in Int /\ x.id[2] = x.at /\ x.at + Lag(x.id[1]) = at
Earlier(found, type, at) == \A e \in Elems(found) : e.id[1] = type => e.at + Lag(e.id[1]) + Second <= at
Perhaps(new, x) == new = <<>> \/ new = <<x>>
MoreOf(found, more, type) == \A e \in Elems(more) : e \in Elems(found) \/ e.id[1] = type

\* A diagnostic of this turn is none of the earlier ones.
LEMMA LinkFoundMore ==
  ASSUME NEW found, NEW at \in Int, NEW next \in Int, next = at + Second, NEW new, NEW x, Perhaps(new, x), NEW type,
         LinkFound(found, next), IsTurn(x, at), type = x.id[1], Earlier(found, type, at)
  PROVE  LinkFound(found \o new, next) /\ MoreOf(found, found \o new, type)
<1>1. IsSeq(new) /\ Elems(new) \subseteq {x} /\ Distinct(new)
  BY OneAtMost DEF Perhaps
<1>2. IsSeq(found) /\ Distinct(found)
  BY DEF LinkFound
<1>3. ASSUME NEW e \in Elems(found), NEW y \in Elems(new) PROVE e.id # y.id
  <2>1. y = x
    BY <1>1
  <2> SUFFICES ASSUME e.id = x.id PROVE FALSE
    BY <2>1
  <2>2. e.id[1] = x.id[1] /\ e.at = x.at /\ e.at \in Int
    BY DEF LinkFound, IsTurn
  <2>3. e.at + Lag(e.id[1]) + Second <= at
    BY <2>2 DEF Earlier
  <2>4. Lag(e.id[1]) = Lag(x.id[1])
    BY <2>2
  <2>5. PICK l \in Nat, s \in Nat, a \in Int : l = Lag(x.id[1]) /\ s = Second /\ a = x.at
    BY LagFacts DEF IsTurn
  <2>6. a + l + s <= at /\ a + l = at /\ s > 0
    BY <2>2, <2>3, <2>4, <2>5, LagFacts DEF IsTurn
  <2> QED BY <2>6
<1>4. IsSeq(found \o new) /\ Elems(found \o new) = Elems(found) \cup Elems(new) /\ Distinct(found \o new)
  BY <1>1, <1>2, <1>3, JoinLists
<1>5. x.at + Lag(x.id[1]) + Second <= next
  <2>1. PICK l \in Nat, s \in Nat, a \in Int : l = Lag(x.id[1]) /\ s = Second /\ a = x.at
    BY LagFacts DEF IsTurn
  <2> QED BY <2>1 DEF IsTurn
<1>6. \A e \in Elems(found \o new) :
        Whole(e) /\ e.id[1] \in LinkTypes /\ e.to = Null /\ e.at \in Int /\ e.id[2] = e.at /\ e.at + Lag(e.id[1]) + Second <= next
  BY <1>1, <1>4, <1>5 DEF LinkFound, IsTurn
<1>7. LinkFound(found \o new, next)
  BY <1>4, <1>6 DEF LinkFound
<1>8. MoreOf(found, found \o new, type)
  BY <1>1, <1>4 DEF MoreOf
<1> QED BY <1>7, <1>8

LEMMA LinkTurn ==
  ASSUME NEW acc, NEW b, acc.at \in Int, LinkFound(acc.found, acc.at)
  PROVE  LinkNext(acc, b).at = acc.at + Second /\ LinkFound(LinkNext(acc, b).found, acc.at + Second)
<1> DEFINE low    == b.samples > 0 /\ b.rssi < -90 * b.samples
           good   == b.samples > 0 /\ b.rssi > -78 * b.samples
           lows   == IF low THEN acc.lows + 1 ELSE 0
           goods  == IF good THEN acc.goods + 1 ELSE 0
           losses == IF Lossy(b) THEN acc.losses + 1 ELSE 0
           degrades == ~acc.degraded /\ lows = LowRuns
           recovers == (acc.degraded \/ degrades) /\ goods = GoodRuns
           bursts   == ~acc.burst /\ losses = LossRuns
           Back(n)  == acc.at - (n - 1) * Second
           x1 == Diagnostic("link-degraded", "warning", Back(LowRuns), Null)
           x2 == Diagnostic("recovery", "info", Back(GoodRuns), Null)
           x3 == Diagnostic("loss-burst", "critical", Back(LossRuns), Null)
           n1 == IfSo(degrades, x1)
           n2 == IfSo(recovers, x2)
           n3 == IfSo(bursts, x3)
<1>1. LinkNext(acc, b).at = acc.at + Second /\ LinkNext(acc, b).found = acc.found \o n1 \o n2 \o n3
  BY Zenon DEF LinkNext
<1>2. Perhaps(n1, x1) /\ Perhaps(n2, x2) /\ Perhaps(n3, x3)
  BY Zenon DEF IfSo, Perhaps
<1>3. LowRuns \in Nat \ {0} /\ GoodRuns \in Nat \ {0} /\ LossRuns \in Nat \ {0} /\ Second \in Nat \ {0}
  BY SessionAssumption
<1>4. /\ x1.id = <<"link-degraded", Back(LowRuns), Null>> /\ x1.at = Back(LowRuns) /\ x1.to = Null
      /\ x2.id = <<"recovery", Back(GoodRuns), Null>> /\ x2.at = Back(GoodRuns) /\ x2.to = Null
      /\ x3.id = <<"loss-burst", Back(LossRuns), Null>> /\ x3.at = Back(LossRuns) /\ x3.to = Null
      /\ Whole(x1) /\ Whole(x2) /\ Whole(x3)
  BY DEF Diagnostic, Whole
<1>5. PICK at \in Int : at = acc.at
  OBVIOUS
<1>20. PICK y1, y2, y3, m1, m2, m3 : y1 = x1 /\ y2 = x2 /\ y3 = x3 /\ m1 = n1 /\ m2 = n2 /\ m3 = n3
  OBVIOUS
<1> HIDE DEF n1, n2, n3, x1, x2, x3
<1>6. Back(LowRuns) \in Int /\ Back(GoodRuns) \in Int /\ Back(LossRuns) \in Int
  <2>1. \A p \in Int, q \in Int : p * q \in Int
    OBVIOUS
  <2>2. ASSUME NEW p \in Nat \ {0} PROVE Back(p) \in Int
    <3>1. (p - 1) * Second \in Int
      BY <1>3, <2>1
    <3> QED BY <3>1
  <2> QED BY <1>3, <2>2
<1>7. /\ Back(LowRuns) + Lag("link-degraded") = at /\ Back(GoodRuns) + Lag("recovery") = at
      /\ Back(LossRuns) + Lag("loss-burst") = at
  <2>1. ASSUME NEW p \in Nat \ {0} PROVE Back(p) + (p - 1) * Second = at
    <3>1. PICK q \in Int : q = (p - 1) * Second
      <4>1. \A i \in Int, j \in Int : i * j \in Int
        OBVIOUS
      <4>2. p - 1 \in Int /\ Second \in Int
        BY <1>3
      <4> QED BY <4>1, <4>2
    <3> QED BY <1>5, <3>1
  <2>2. /\ Lag("link-degraded") = (LowRuns - 1) * Second /\ Lag("recovery") = (GoodRuns - 1) * Second
        /\ Lag("loss-burst") = (LossRuns - 1) * Second
    BY DEF Lag
  <2> QED BY <1>3, <2>1, <2>2
<1>8. /\ y1.id[1] = "link-degraded" /\ y2.id[1] = "recovery" /\ y3.id[1] = "loss-burst"
      /\ IsTurn(y1, at) /\ IsTurn(y2, at) /\ IsTurn(y3, at)
  BY <1>4, <1>5, <1>6, <1>7, <1>20 DEF IsTurn, LinkTypes
<1>9. Perhaps(m1, y1) /\ Perhaps(m2, y2) /\ Perhaps(m3, y3)
  BY <1>2, <1>20
<1> HIDE DEF Back, degrades, recovers, bursts
<1>10. PICK next \in Int : next = at + Second
  BY <1>3
<1>11. PICK f0 : f0 = acc.found
  OBVIOUS
<1>12. LinkFound(f0, next) /\ \A type : Earlier(f0, type, at)
  <2>1. \A e \in Elems(f0) : e.at \in Int /\ e.at + Lag(e.id[1]) + Second <= at
    BY <1>5, <1>11 DEF LinkFound
  <2>2. ASSUME NEW e \in Elems(f0) PROVE e.at + Lag(e.id[1]) + Second <= next
    <3>1. PICK l \in Nat, s \in Nat, a \in Int : l = Lag(e.id[1]) /\ s = Second /\ a = e.at
      BY <2>1, LagFacts
    <3> QED BY <1>10, <2>1, <3>1
  <2>3. LinkFound(f0, next)
    BY <1>5, <1>11, <2>1, <2>2 DEF LinkFound
  <2> QED BY <2>1, <2>3 DEF Earlier
<1>13. PICK f1 : f1 = f0 \o m1
  OBVIOUS
<1>14. LinkFound(f1, next) /\ MoreOf(f0, f1, "link-degraded")
  BY <1>8, <1>9, <1>10, <1>12, <1>13, LinkFoundMore
<1>15. Earlier(f1, "recovery", at)
  BY <1>12, <1>14 DEF Earlier, MoreOf
<1>16. PICK f2 : f2 = f1 \o m2
  OBVIOUS
<1>17. LinkFound(f2, next) /\ MoreOf(f1, f2, "recovery")
  BY <1>8, <1>9, <1>10, <1>14, <1>15, <1>16, LinkFoundMore
<1>18. Earlier(f2, "loss-burst", at)
  BY <1>12, <1>14, <1>17 DEF Earlier, MoreOf
<1>19. LinkFound(f2 \o m3, next)
  BY <1>8, <1>9, <1>10, <1>17, <1>18, LinkFoundMore
<1> QED BY <1>1, <1>20, <1>5, <1>10, <1>11, <1>13, <1>16, <1>19

\* The loop over n buckets finds nothing after them.
LEMMA LinkFacts ==
  ASSUME NEW buckets, NEW start, NEW n \in Nat, n = Len(buckets), start.at = 0, start.found = <<>>
  PROVE  LinkFound(LinkNextLast(start, buckets).found, n * Second)
<1>1. PICK F : LinkNextTurns(F, start, buckets, n) /\ LinkNextLast(start, buckets) = F[n]
  BY LinkNextRun
<1>2. Second \in Nat
  BY LagFacts
<1> DEFINE P == {k \in Nat : k <= n => F[k].at = k * Second /\ LinkFound(F[k].found, k * Second)}
<1>3. 0 \in P
  <2>1. IsSeq(<<>>) /\ Elems(<<>>) = {} /\ Distinct(<<>>)
    <3>1. IsSeq(<<>>) /\ Len(<<>>) = 0
      BY FewFacts
    <3>2. 1..0 = {}
      OBVIOUS
    <3> QED BY <3>1, <3>2 DEF Elems, Distinct
  <2>2. 0 * Second = 0
    BY <1>2
  <2>3. LinkFound(<<>>, 0)
    BY <2>1 DEF LinkFound
  <2> QED BY <1>1, <2>2, <2>3 DEF LinkNextTurns
<1>4. ASSUME NEW k \in Nat, k \in P PROVE k + 1 \in P
  <2> SUFFICES ASSUME k + 1 <= n PROVE F[k + 1].at = (k + 1) * Second /\ LinkFound(F[k + 1].found, (k + 1) * Second)
    OBVIOUS
  <2>1. PICK m : m = k + 1
    OBVIOUS
  <2>2. m \in 1..n /\ m - 1 = k
    BY <2>1
  <2>3. PICK acc, b, next, at : acc = F[k] /\ b = buckets[m] /\ next = F[m] /\ at = k * Second
    OBVIOUS
  <2>4. next = LinkNext(acc, b) /\ acc.at = at /\ LinkFound(acc.found, at)
    BY <1>1, <1>4, <2>2, <2>3 DEF LinkNextTurns
  <2>5. \A i \in Nat, j \in Nat : i * j \in Int /\ (i + 1) * j = i * j + j
    OBVIOUS
  <2>6. at \in Int /\ (k + 1) * Second = at + Second
    BY <1>2, <2>3, <2>5
  <2>7. next.at = at + Second /\ LinkFound(next.found, at + Second)
    BY <2>4, <2>6, LinkTurn
  <2> QED BY <2>1, <2>3, <2>6, <2>7
<1> HIDE DEF P
<1>5. Nat \subseteq P
  BY <1>3, <1>4, SetInduction
<1> QED BY <1>1, <1>5 DEF P

DecoderTypes == {"crc-failure", "checksum-failure", "partial-frame", "decoder-resync", "decoder-locked"}

\* What the loop over the frames has found in the first k of them.
IsDecoder(e, frames) == Whole(e) /\ e.id[1] \in DecoderTypes /\ e.to = Null /\ e.at = frames[e.id[3]].at
DecoderFound(found, frames, k) ==
  IsSeq(found) /\ Distinct(found) /\ \A e \in Elems(found) : IsDecoder(e, frames) /\ e.id[3] \in 1..k
Before3(found, type, k) == \A e \in Elems(found) : e.id[1] = type => e.id[3] \in 1..k

LEMMA DecoderFoundMore ==
  ASSUME NEW found, NEW frames, NEW k \in Nat, NEW next \in Nat, next = k + 1, NEW new, NEW x, Perhaps(new, x), NEW type,
         DecoderFound(found, frames, next), IsDecoder(x, frames), x.id[3] = next, type = x.id[1], Before3(found, type, k)
  PROVE  DecoderFound(found \o new, frames, next) /\ MoreOf(found, found \o new, type)
<1>1. IsSeq(new) /\ Elems(new) \subseteq {x} /\ Distinct(new)
  BY OneAtMost DEF Perhaps
<1>2. IsSeq(found) /\ Distinct(found)
  BY DEF DecoderFound
<1>3. ASSUME NEW e \in Elems(found), NEW y \in Elems(new) PROVE e.id # y.id
  <2>1. y = x
    BY <1>1
  <2> SUFFICES ASSUME e.id = x.id PROVE FALSE
    BY <2>1
  <2>2. next \in 1..k
    BY DEF Before3
  <2> QED BY <2>2
<1>4. IsSeq(found \o new) /\ Elems(found \o new) = Elems(found) \cup Elems(new) /\ Distinct(found \o new)
  BY <1>1, <1>2, <1>3, JoinLists
<1>5. next \in 1..next
  OBVIOUS
<1>6. DecoderFound(found \o new, frames, next)
  BY <1>1, <1>4, <1>5 DEF DecoderFound
<1>7. MoreOf(found, found \o new, type)
  BY <1>1, <1>4 DEF MoreOf
<1> QED BY <1>6, <1>7

LEMMA DecoderTurn ==
  ASSUME NEW acc, NEW f, NEW frames, NEW k \in Nat, NEW next \in Nat, next = k + 1,
         f.id = next, f.at = frames[next].at, DecoderFound(acc.found, frames, k)
  PROVE  DecoderFound(DecoderNext(acc, f).found, frames, next)
<1> DEFINE failed == f.check \in {"crc-failed", "checksum-failed"}
           resyncs == ~acc.resyncing /\ acc.invalid = 1
           type == CASE f.check = "crc-failed" -> "crc-failure" [] f.check = "checksum-failed" -> "checksum-failure"
                     [] OTHER -> "partial-frame"
           since == IF acc.since = Null THEN f.at ELSE acc.since
           locks == acc.valid + 1 >= RelockFrames /\ f.at - since >= RelockTime
           x1 == Diagnostic(type, IF failed THEN "critical" ELSE "warning", f.at, f.id)
           x2 == Diagnostic("decoder-resync", "warning", f.at, f.id)
           x3 == Diagnostic("decoder-locked", "info", f.at, f.id)
           n2 == IfSo(resyncs, x2)
           n3 == IfSo(locks, x3)
<1>1. CASE f.status # "complete"
  <2>1. DecoderNext(acc, f).found = acc.found \o <<x1>> \o n2
    BY <1>1, Zenon DEF DecoderNext
  <2>2. Perhaps(n2, x2) /\ Perhaps(<<x1>>, x1)
    BY Zenon DEF IfSo, Perhaps
  <2>3. type \in {"crc-failure", "checksum-failure", "partial-frame"}
    OBVIOUS
  <2>4. PICK t : t = type
    OBVIOUS
  <2>5. /\ x1.id = <<t, f.at, f.id>> /\ x1.at = f.at /\ x1.to = Null
        /\ x2.id = <<"decoder-resync", f.at, f.id>> /\ x2.at = f.at /\ x2.to = Null
        /\ Whole(x1) /\ Whole(x2)
    BY <2>4 DEF Diagnostic, Whole
  <2>6. PICK y1, y2, m1, m2 : y1 = x1 /\ y2 = x2 /\ m1 = <<x1>> /\ m2 = n2
    OBVIOUS
  <2> HIDE DEF x1, x2, n2, type
  <2>7. /\ y1.id[1] = t /\ y1.id[3] = next /\ IsDecoder(y1, frames)
        /\ y2.id[1] = "decoder-resync" /\ y2.id[3] = next /\ IsDecoder(y2, frames)
    BY <2>3, <2>4, <2>5, <2>6 DEF IsDecoder, DecoderTypes
  <2>8. PICK f0 : f0 = acc.found
    OBVIOUS
  <2>9. DecoderFound(f0, frames, next) /\ \A ty : Before3(f0, ty, k)
    <3>1. \A i \in 1..k : i \in 1..next
      OBVIOUS
    <3> QED BY <2>8, <3>1 DEF DecoderFound, Before3
  <2>10. PICK f1 : f1 = f0 \o m1
    OBVIOUS
  <2>11. Perhaps(m1, y1) /\ Perhaps(m2, y2)
    BY <2>2, <2>6
  <2>12. DecoderFound(f1, frames, next) /\ MoreOf(f0, f1, t)
    BY <2>7, <2>9, <2>10, <2>11, DecoderFoundMore
  <2>13. Before3(f1, "decoder-resync", k)
    BY <2>3, <2>4, <2>9, <2>12 DEF Before3, MoreOf
  <2>14. DecoderFound(f1 \o m2, frames, next)
    BY <2>7, <2>11, <2>12, <2>13, DecoderFoundMore
  <2> QED BY <2>1, <2>6, <2>8, <2>10, <2>14
<1>2. CASE f.status = "complete" /\ ~acc.resyncing
  <2>1. DecoderNext(acc, f) = [acc EXCEPT !.invalid = 0]
    BY <1>2, Zenon DEF DecoderNext
  <2>2. DecoderNext(acc, f).found = acc.found
    BY <2>1
  <2>3. \A i \in 1..k : i \in 1..next
    OBVIOUS
  <2> QED BY <2>2, <2>3 DEF DecoderFound
<1>3. CASE f.status = "complete" /\ acc.resyncing
  <2>1. DecoderNext(acc, f).found = acc.found \o n3
    BY <1>3, Zenon DEF DecoderNext
  <2>2. Perhaps(n3, x3)
    BY Zenon DEF IfSo, Perhaps
  <2>3. x3.id = <<"decoder-locked", f.at, f.id>> /\ x3.at = f.at /\ x3.to = Null /\ Whole(x3)
    BY DEF Diagnostic, Whole
  <2>4. PICK y, m, f0 : y = x3 /\ m = n3 /\ f0 = acc.found
    OBVIOUS
  <2> HIDE DEF x3, n3
  <2>5. y.id[1] = "decoder-locked" /\ y.id[3] = next /\ IsDecoder(y, frames) /\ Perhaps(m, y)
    BY <2>2, <2>3, <2>4 DEF IsDecoder, DecoderTypes
  <2>6. DecoderFound(f0, frames, next) /\ Before3(f0, "decoder-locked", k)
    <3>1. \A i \in 1..k : i \in 1..next
      OBVIOUS
    <3> QED BY <2>4, <3>1 DEF DecoderFound, Before3
  <2>7. DecoderFound(f0 \o m, frames, next)
    BY <2>5, <2>6, DecoderFoundMore
  <2> QED BY <2>1, <2>4, <2>7
<1> QED BY <1>1, <1>2, <1>3

\* Every diagnostic of the decoder names a frame, and no two have the same id.
LEMMA DecoderFacts ==
  ASSUME NEW frames, NEW start, NEW n \in Nat, n = Len(frames), start.found = <<>>, \A i \in 1..n : frames[i].id = i
  PROVE  DecoderFound(DecoderNextLast(start, frames).found, frames, n)
<1>1. PICK F : DecoderNextTurns(F, start, frames, n) /\ DecoderNextLast(start, frames) = F[n]
  BY DecoderNextRun
<1> DEFINE P == {k \in Nat : k <= n => DecoderFound(F[k].found, frames, k)}
<1>2. 0 \in P
  <2>1. IsSeq(<<>>) /\ Len(<<>>) = 0
    BY FewFacts
  <2>2. 1..0 = {}
    OBVIOUS
  <2>3. DecoderFound(<<>>, frames, 0)
    BY <2>1, <2>2 DEF Elems, Distinct, DecoderFound
  <2> QED BY <1>1, <2>3 DEF DecoderNextTurns
<1>3. ASSUME NEW k \in Nat, k \in P PROVE k + 1 \in P
  <2> SUFFICES ASSUME k + 1 <= n PROVE DecoderFound(F[k + 1].found, frames, k + 1)
    OBVIOUS
  <2>1. PICK m \in Nat : m = k + 1
    OBVIOUS
  <2>2. m \in 1..n /\ m - 1 = k
    BY <2>1
  <2>3. PICK acc, f, next : acc = F[k] /\ f = frames[m] /\ next = F[m]
    OBVIOUS
  <2>4. next = DecoderNext(acc, f) /\ DecoderFound(acc.found, frames, k) /\ f.id = m /\ f.at = frames[m].at
    BY <1>1, <1>3, <2>2, <2>3 DEF DecoderNextTurns
  <2>5. DecoderFound(next.found, frames, m)
    BY <2>1, <2>4, DecoderTurn
  <2> QED BY <2>1, <2>3, <2>5
<1> HIDE DEF P
<1>4. Nat \subseteq P
  BY <1>2, <1>3, SetInduction
<1> QED BY <1>1, <1>4 DEF P

-----------------------------------------------------------------------------
(* What an accepted document says *)

LEMMA FlatFacts ==
  ASSUME NEW d
  PROVE  LET f == Flat(d) IN
         /\ f.source = d.source /\ f.duration = d.duration /\ f.events = d.events /\ f.codes = d.receipt.codes
         /\ f.status = d.receipt.status /\ f.basis = d.receipt.basis /\ f.stop = d.receipt.stop
         /\ f.complete = d.receipt.complete /\ f.observed = d.receipt.observed /\ f.reported = d.receipt.reported
         /\ f.records = d.receipt.records /\ f.bytes = d.receipt.bytes
         /\ f.journal = d.prov.journal /\ f.provStatus = d.prov.status
         /\ f.stopOffset = IF d.receipt.stopOffset = Null THEN d.duration ELSE d.receipt.stopOffset
         /\ \A type : Typed(f, type) = Typed(d, type)
  BY DEF Flat, Typed

\* Rows are numbered and come in the order of their offsets.
RowsFact(d, n) ==
  /\ IsSeq(d.rows) /\ n = Len(d.rows) /\ n \in Nat \ {0} /\ DOMAIN d.rows = 1..n
  /\ d.duration \in Nat \ {0}
  /\ \A i \in 1..n : d.rows[i].id = i /\ d.rows[i].at \in Nat /\ d.rows[i].at < d.duration /\ IsRow(d.rows[i])
  /\ \A i \in 1..n, j \in 1..n : i <= j => d.rows[i].at <= d.rows[j].at

LEMMA RowFacts ==
  ASSUME NEW d, IsDocument(d), Valid(d)
  PROVE  RowsFact(d, Len(d.rows))
<1>1. IsSeq(d.rows) /\ DOMAIN d.rows = 1..Len(d.rows)
  BY ListFacts DEF IsDocument
<1>2. PICK n \in Nat : n = Len(d.rows)
  BY <1>1 DEF IsSeq
<1>3. n # 0
  <2> SUFFICES ASSUME n = 0 PROVE FALSE
    OBVIOUS
  <2>1. IsSeq(<<>>) /\ Len(<<>>) = 0
    BY FewFacts
  <2>2. 1..0 = {}
    OBVIOUS
  <2>3. d.rows = <<>>
    BY <1>1, <1>2, <2>1, <2>2, SeqEqual
  <2> QED BY <2>3 DEF Valid, RowsAreSound
<1>4. d.duration \in Nat \ {0}
  BY DEF Valid, IsDocument
<1>5. \A i \in 1..n : d.rows[i].id = i /\ d.rows[i].at \in Nat /\ d.rows[i].at < d.duration /\ IsRow(d.rows[i])
  BY <1>1, <1>2 DEF Valid, RowsAreSound, IsDocument, IsRow
<1>6. \A i \in 1..n : i > 1 => d.rows[i - 1].at <= d.rows[i].at
  BY <1>1, <1>2 DEF Valid, RowsAreSound
<1>7. ASSUME NEW i \in 1..n PROVE \A j \in 1..n : i <= j => d.rows[i].at <= d.rows[j].at
  <2> DEFINE P == {k \in Nat : i + k \in 1..n => d.rows[i].at <= d.rows[i + k].at}
  <2>1. 0 \in P
    BY <1>5
  <2>2. ASSUME NEW k \in Nat, k \in P PROVE k + 1 \in P
    <3> SUFFICES ASSUME i + (k + 1) \in 1..n PROVE d.rows[i].at <= d.rows[i + (k + 1)].at
      OBVIOUS
    <3>1. PICK l, m : l = i + k /\ m = i + (k + 1)
      OBVIOUS
    <3>2. l \in 1..n /\ m \in 1..n /\ m - 1 = l /\ m > 1
      BY <3>1
    <3>3. d.rows[i].at <= d.rows[l].at /\ d.rows[l].at <= d.rows[m].at
      BY <1>6, <2>2, <3>1, <3>2
    <3>4. d.rows[i].at \in Nat /\ d.rows[l].at \in Nat /\ d.rows[m].at \in Nat
      BY <1>5, <3>2
    <3> QED BY <3>1, <3>3, <3>4
  <2> HIDE DEF P
  <2>3. Nat \subseteq P
    BY <2>1, <2>2, SetInduction
  <2> SUFFICES ASSUME NEW j \in 1..n, i <= j PROVE d.rows[i].at <= d.rows[j].at
    OBVIOUS
  <2>4. PICK k \in Nat : k = j - i
    OBVIOUS
  <2>5. i + k = j
    BY <2>4
  <2> QED BY <2>3, <2>5 DEF P
<1> QED BY <1>1, <1>2, <1>3, <1>4, <1>5, <1>7 DEF RowsFact

\* The events of a session, and the codes of its receipt.
EventsOf(d) == NormalizedEvidence(d).events
ReceiptOf(d) == NormalizedEvidence(d).receipt

EventsFact(d, m) ==
  LET events == EventsOf(d) IN
  /\ IsSeq(events) /\ m = Len(events) /\ m \in Nat /\ DOMAIN events = 1..m
  /\ \A i \in 1..m :
       /\ events[i].id = i /\ IsEvent(events[i]) /\ events[i].at < d.duration /\ events[i].type \in ReceiptOf(d).codes
       /\ events[i].to # Null => events[i].at # Session /\ events[i].at < events[i].to /\ events[i].to <= d.duration
  /\ \A i \in 1..m, j \in 1..m :
       i < j /\ events[i].at # Session /\ events[j].at # Session => events[i].at <= events[j].at

LEMMA EventFacts ==
  ASSUME NEW d, IsDocument(d), Valid(d)
  PROVE  EventsFact(d, Len(EventsOf(d)))
<1>1. CASE EventsOf(d) = <<>>
  <2>1. PICK e : e = EventsOf(d)
    OBVIOUS
  <2>2. IsSeq(e) /\ Len(e) = 0
    BY <1>1, <2>1, FewFacts
  <2>3. 1..0 = {}
    OBVIOUS
  <2> QED BY <2>1, <2>2, <2>3, SeqFacts DEF EventsFact
<1>2. CASE EventsOf(d) # <<>>
  <2>1. d.version = 2 /\ EventsOf(d) = d.events /\ ReceiptOf(d) = d.receipt
    BY <1>2 DEF EventsOf, ReceiptOf, NormalizedEvidence
  <2>2. d.source # "file"
    BY <1>2, <2>1 DEF Valid, FileEvidence
  <2>3. LiveEvidence(d)
    BY <2>1, <2>2 DEF Valid
  <2>4. PICK f : f = Flat(d)
    OBVIOUS
  <2>5. f.duration = d.duration /\ f.events = d.events /\ f.codes = d.receipt.codes
    BY <2>4, FlatFacts
  <2>6. EventsInTime(f) /\ EventsFit(d) /\ EventsAreCoded(f)
    BY <2>3, <2>4 DEF LiveEvidence
  <2>7. IsSeq(d.events) /\ DOMAIN d.events = 1..Len(d.events) /\ \A i \in 1..Len(d.events) : IsEvent(d.events[i])
    BY <2>1, ListFacts DEF IsDocument
  <2>8. PICK m \in Nat : m = Len(d.events)
    BY <2>7 DEF IsSeq
  <2>9. \A i \in 1..m :
          /\ d.events[i].id = i /\ d.events[i].at < d.duration /\ d.events[i].type \in d.receipt.codes
          /\ d.events[i].to # Null =>
               d.events[i].at # Session /\ d.events[i].at < d.events[i].to /\ d.events[i].to <= d.duration
    BY <2>5, <2>6, <2>7, <2>8 DEF EventsInTime, EventsFit, EventsAreCoded
  <2>10. \A i \in 1..m, j \in 1..m :
           i < j /\ d.events[i].at # Session /\ d.events[j].at # Session => d.events[i].at <= d.events[j].at
    BY <2>5, <2>6, <2>7, <2>8 DEF EventsInTime
  <2> QED BY <2>1, <2>7, <2>8, <2>9, <2>10 DEF EventsFact
<1> QED BY <1>1, <1>2

LEMMA FrameFacts ==
  ASSUME NEW d, NEW n, RowsFact(d, n), NEW s, s = ParseSession(d)
  PROVE  /\ s.doc = d /\ s.events = EventsOf(d) /\ s.receipt = ReceiptOf(d)
         /\ IsSeq(s.frames) /\ Len(s.frames) = n /\ DOMAIN s.frames = 1..n
         /\ \A i \in 1..n : s.frames[i] = Decoded(d.rows[i])
         /\ \A i \in 1..n : s.frames[i].id = i /\ s.frames[i].at = d.rows[i].at
<1>1. s.doc = d /\ s.events = EventsOf(d) /\ s.receipt = ReceiptOf(d)
  BY DEF ParseSession, EventsOf, ReceiptOf
<1>2. s.frames = [i \in 1..n |-> Decoded(d.rows[i])]
  BY DEF ParseSession, RowsFact
<1>3. IsSeq(s.frames) /\ Len(s.frames) = n /\ DOMAIN s.frames = 1..n
  <2>1. s.frames = [i \in 1..n |-> s.frames[i]] /\ n \in Nat
    BY <1>2 DEF RowsFact
  <2> QED BY <2>1, GivenFacts
<1>4. \A i \in 1..n : s.frames[i] = Decoded(d.rows[i])
  BY <1>2
<1>5. \A i \in 1..n : s.frames[i].id = i /\ s.frames[i].at = d.rows[i].at
  <2>1. \A r : Decoded(r).id = r.id /\ Decoded(r).at = r.at
    BY DEF Decoded
  <2>2. \A i \in 1..n : d.rows[i].id = i
    BY DEF RowsFact
  <2> QED BY <1>4, <2>1, <2>2
<1> QED BY <1>1, <1>3, <1>4, <1>5

LEMMA BucketCountFacts ==
  ASSUME NEW d, d.duration \in Nat \ {0}
  PROVE  BucketCount(d) \in Nat /\ BucketCount(d) * Second \in Nat /\ BucketCount(d) * Second < d.duration + Second
<1>1. PICK D \in Nat \ {0}, S \in Nat \ {0} : D = d.duration /\ S = Second
  BY LagFacts
<1>2. (D + S - 1) \div S \in Nat
  BY <1>1
<1>3. PICK B \in Nat : B = (D + S - 1) \div S
  BY <1>2
<1>4. B * S <= D + S - 1
  BY <1>3
<1>5. B * S \in Nat
  OBVIOUS
<1> QED BY <1>1, <1>3, <1>4, <1>5 DEF BucketCount

\* A diagnostic of a session: within it, and an interval ends after it begins.
IsDiagnostic(e, duration) ==
  Whole(e) /\ e.at \in Int /\ e.at < duration /\ e.to \in Int /\ e.to <= duration /\ (e.to # Null => e.at < e.to)

LinkPart(d, frames) ==
  LinkNextLast([at |-> 0, lows |-> 0, goods |-> 0, losses |-> 0, degraded |-> FALSE, burst |-> FALSE, found |-> <<>>],
               CreateMetricBuckets(d, frames)).found
DecoderPart(frames) ==
  DecoderNextLast([invalid |-> 0, valid |-> 0, since |-> Null, resyncing |-> FALSE, found |-> <<>>], frames).found
TransportPart(events, duration) == [i \in DOMAIN events |-> TransportDiagnostic(events[i], duration)]

LEMMA DiagnosticParts ==
  ASSUME NEW d, NEW s, s = ParseSession(d)
  PROVE  s.diagnostics = (LinkPart(d, s.frames) \o DecoderPart(s.frames))
           \o TransportPart(s.events, d.duration) \o ProvenanceDiagnostic(ProvenanceOf(d), d.duration)
<1>1. s.diagnostics = DeriveDiagnostics(s.frames, s.buckets)
        \o [i \in DOMAIN s.events |-> TransportDiagnostic(s.events[i], d.duration)]
        \o ProvenanceDiagnostic(ProvenanceOf(d), d.duration)
  BY DEF ParseSession
<1>2. s.buckets = CreateMetricBuckets(d, s.frames)
  BY DEF ParseSession
<1>3. \A frames, buckets :
        DeriveDiagnostics(frames, buckets) =
          LinkNextLast([at |-> 0, lows |-> 0, goods |-> 0, losses |-> 0, degraded |-> FALSE, burst |-> FALSE,
                        found |-> <<>>], buckets).found
          \o DecoderNextLast([invalid |-> 0, valid |-> 0, since |-> Null, resyncing |-> FALSE, found |-> <<>>],
                             frames).found
  BY DEF DeriveDiagnostics, Steps, LinkNextLast, IsLinkNext, DecoderNextLast, IsDecoderNext
<1> QED BY <1>1, <1>2, <1>3 DEF LinkPart, DecoderPart, TransportPart

\* The diagnostics of a session are distinct and lie within it.
LEMMA DiagnosticFacts ==
  ASSUME NEW d, IsDocument(d), Valid(d), NEW s, s = ParseSession(d)
  PROVE  /\ IsSeq(s.diagnostics) /\ Distinct(s.diagnostics)
         /\ \A e \in Elems(s.diagnostics) : IsDiagnostic(e, d.duration)
<1>1. PICK n : RowsFact(d, n)
  BY RowFacts
<1>2. PICK m : EventsFact(d, m)
  BY EventFacts
<1>3. /\ s.events = EventsOf(d) /\ IsSeq(s.frames) /\ Len(s.frames) = n
      /\ \A i \in 1..n : s.frames[i].id = i /\ s.frames[i].at = d.rows[i].at
  BY <1>1, FrameFacts
<1>4. PICK D \in Nat \ {0} : D = d.duration
  BY <1>1 DEF RowsFact
<1>5. n \in Nat /\ \A i \in 1..n : d.rows[i].at \in Nat /\ d.rows[i].at < D
  BY <1>1, <1>4 DEF RowsFact
<1>6. PICK links, decoder, transport, prov :
        /\ links = LinkPart(d, s.frames) /\ decoder = DecoderPart(s.frames)
        /\ transport = TransportPart(s.events, D) /\ prov = ProvenanceDiagnostic(ProvenanceOf(d), D)
  OBVIOUS
<1>7. IsSeq(links) /\ Distinct(links) /\ \A e \in Elems(links) : e.id[1] \in LinkTypes /\ IsDiagnostic(e, D)
  <2>1. PICK B \in Nat : B = BucketCount(d) /\ B * Second \in Nat /\ B * Second < D + Second
    BY <1>4, BucketCountFacts
  <2>2. PICK buckets : buckets = CreateMetricBuckets(d, s.frames)
    OBVIOUS
  <2>3. Len(buckets) = B
    BY <1>3, <1>5, <2>1, <2>2, BucketFacts
  <2>4. PICK start : start = [at |-> 0, lows |-> 0, goods |-> 0, losses |-> 0, degraded |-> FALSE,
                              burst |-> FALSE, found |-> <<>>]
    OBVIOUS
  <2>5. start.at = 0 /\ start.found = <<>>
    BY <2>4
  <2>6. LinkFound(LinkNextLast(start, buckets).found, B * Second)
    BY <2>3, <2>5, LinkFacts
  <2>7. PICK end \in Nat : end = B * Second /\ end < D + Second
    BY <2>1
  <2>8. LinkFound(links, end)
    BY <1>6, <2>2, <2>4, <2>6, <2>7 DEF LinkPart
  <2>9. ASSUME NEW e \in Elems(links) PROVE e.id[1] \in LinkTypes /\ IsDiagnostic(e, D)
    <3>1. Whole(e) /\ e.id[1] \in LinkTypes /\ e.to = Null /\ e.at \in Int /\ e.at + Lag(e.id[1]) + Second <= end
      BY <2>8 DEF LinkFound
    <3>2. PICK l \in Nat, t \in Nat, a \in Int : l = Lag(e.id[1]) /\ t = Second /\ a = e.at
      BY <3>1, LagFacts
    <3>3. a < D
      BY <2>7, <3>1, <3>2
    <3> QED BY <1>4, <3>1, <3>2, <3>3 DEF IsDiagnostic, Null
  <2> QED BY <2>8, <2>9 DEF LinkFound
<1>8. IsSeq(decoder) /\ Distinct(decoder) /\ \A e \in Elems(decoder) : e.id[1] \in DecoderTypes /\ IsDiagnostic(e, D)
  <2>1. PICK start : start = [invalid |-> 0, valid |-> 0, since |-> Null, resyncing |-> FALSE, found |-> <<>>]
    OBVIOUS
  <2>2. start.found = <<>>
    BY <2>1
  <2>3. DecoderFound(decoder, s.frames, n)
    BY <1>3, <1>5, <1>6, <2>1, <2>2, DecoderFacts DEF DecoderPart
  <2>4. ASSUME NEW e \in Elems(decoder) PROVE e.id[1] \in DecoderTypes /\ IsDiagnostic(e, D)
    <3>1. Whole(e) /\ e.id[1] \in DecoderTypes /\ e.to = Null /\ e.at = s.frames[e.id[3]].at /\ e.id[3] \in 1..n
      BY <2>3 DEF DecoderFound, IsDecoder
    <3>2. e.at \in Nat /\ e.at < D
      BY <1>3, <1>5, <3>1
    <3> QED BY <1>4, <3>1, <3>2 DEF IsDiagnostic, Null
  <2> QED BY <2>3, <2>4 DEF DecoderFound
<1>9. IsSeq(transport) /\ Distinct(transport) /\ \A e \in Elems(transport) : e.id[1] = "transport" /\ IsDiagnostic(e, D)
  <2>1. PICK events : events = s.events
    OBVIOUS
  <2>2. DOMAIN events = 1..m /\ m \in Nat
    BY <1>2, <1>3, <2>1 DEF EventsFact
  <2>3. transport = [i \in 1..m |-> TransportDiagnostic(events[i], D)]
    BY <1>6, <2>1, <2>2 DEF TransportPart
  <2>4. IsSeq(transport) /\ Len(transport) = m /\ \A i \in 1..m : transport[i] = TransportDiagnostic(events[i], D)
    <3>1. transport = [i \in 1..m |-> transport[i]]
      BY <2>3
    <3> QED BY <2>2, <2>3, <3>1, GivenFacts
  <2>5. ASSUME NEW i \in 1..m
        PROVE  transport[i].id = <<"transport", i, Null>> /\ IsDiagnostic(transport[i], D)
    <3>1. PICK e, t : e = events[i] /\ t = transport[i]
      OBVIOUS
    <3>2. e.id = i /\ IsEvent(e) /\ e.at < D /\ (e.to # Null => e.at # Session /\ e.at < e.to /\ e.to <= D)
      BY <1>2, <1>3, <1>4, <2>1, <3>1 DEF EventsFact
    <3>3. /\ t.id = <<"transport", i, Null>> /\ t.at = (IF e.at = Session THEN 0 ELSE e.at)
          /\ t.to = (IF e.at = Session THEN D ELSE e.to) /\ Whole(t)
      BY <2>4, <3>1, <3>2 DEF TransportDiagnostic, Whole
    <3>4. IsDiagnostic(t, D)
      BY <1>4, <3>2, <3>3 DEF IsDiagnostic, IsEvent, OrNull, Null, Session
    <3> QED BY <3>1, <3>3, <3>4
  <2>6. Distinct(transport)
    <3>1. ASSUME NEW i \in 1..m, NEW j \in 1..m, transport[i].id = transport[j].id PROVE i = j
      BY <2>5, <3>1
    <3> QED BY <2>4, <3>1 DEF Distinct
  <2>7. \A e \in Elems(transport) : e.id[1] = "transport" /\ IsDiagnostic(e, D)
    BY <2>4, <2>5 DEF Elems
  <2> QED BY <2>4, <2>6, <2>7
<1>10. /\ IsSeq(prov) /\ Distinct(prov)
       /\ \A e \in Elems(prov) : e.id[1] = "transport-provenance-incomplete" /\ IsDiagnostic(e, D)
  <2>1. PICK x : x = [id |-> <<"transport-provenance-incomplete", 0, Null>>, severity |-> "warning", frames |-> {},
                      at |-> 0, to |-> D]
    OBVIOUS
  <2>2. prov = <<>> \/ prov = <<x>>
    BY <1>6, <2>1, Zenon DEF ProvenanceDiagnostic, IfSo
  <2>3. IsSeq(prov) /\ Elems(prov) \subseteq {x} /\ Distinct(prov)
    BY <2>2, OneAtMost
  <2>4. x.id[1] = "transport-provenance-incomplete" /\ IsDiagnostic(x, D)
    BY <1>4, <2>1 DEF IsDiagnostic, Whole
  <2> QED BY <2>3, <2>4
<1>11. PICK a : a = links \o decoder
  OBVIOUS
<1>12. IsSeq(a) /\ Elems(a) = Elems(links) \cup Elems(decoder) /\ Distinct(a)
  <2>1. \A x \in Elems(links), y \in Elems(decoder) : x.id # y.id
    BY <1>7, <1>8 DEF LinkTypes, DecoderTypes
  <2> QED BY <1>7, <1>8, <1>11, <2>1, JoinLists
<1>13. PICK b : b = a \o transport
  OBVIOUS
<1>14. IsSeq(b) /\ Elems(b) = Elems(a) \cup Elems(transport) /\ Distinct(b)
  <2>1. \A x \in Elems(a), y \in Elems(transport) : x.id # y.id
    BY <1>7, <1>8, <1>9, <1>12 DEF LinkTypes, DecoderTypes
  <2> QED BY <1>9, <1>12, <1>13, <2>1, JoinLists
<1>15. PICK c : c = b \o prov
  OBVIOUS
<1>16. IsSeq(c) /\ Elems(c) = Elems(b) \cup Elems(prov) /\ Distinct(c)
  <2>1. \A x \in Elems(b), y \in Elems(prov) : x.id # y.id
    BY <1>7, <1>8, <1>9, <1>10, <1>12, <1>14 DEF LinkTypes, DecoderTypes
  <2> QED BY <1>10, <1>14, <1>15, <2>1, JoinLists
<1>17. \A e \in Elems(c) : IsDiagnostic(e, D)
  BY <1>7, <1>8, <1>9, <1>10, <1>12, <1>14, <1>16
<1>18. s.diagnostics = c
  <2>1. s.diagnostics = (LinkPart(d, s.frames) \o DecoderPart(s.frames))
           \o TransportPart(s.events, d.duration) \o ProvenanceDiagnostic(ProvenanceOf(d), d.duration)
    BY DiagnosticParts
  <2> QED BY <1>4, <1>6, <1>11, <1>13, <1>15, <2>1
<1> QED BY <1>4, <1>16, <1>17, <1>18

-----------------------------------------------------------------------------
(* What is kept of a list, and marks in the order of their offsets *)

Sorted(s) == \A i \in 1..Len(s), j \in 1..Len(s) : i <= j => s[i].at <= s[j].at

LEMMA KeptFacts ==
  ASSUME NEW s, IsSeq(s), NEW S, NEW c, c = Chosen(s, S)
  PROVE  /\ IsSeq(c) /\ Elems(c) \subseteq Elems(s) /\ \A x \in Elems(c) : \E i \in 1..Len(s) : i \in S /\ x = s[i]
         /\ Distinct(s) => Distinct(c)
         /\ Sorted(s) => Sorted(c)
<1>1. PICK n \in Nat : n = Len(s)
  BY DEF IsSeq
<1>2. PICK e : e = At(n, S) /\ Places(e, n, S) /\ IsPick(c, s, e)
  BY <1>1, ChosenFacts
<1>3. PICK m \in Nat : m = Len(e)
  BY <1>2 DEF Places, IsSeq
<1>4. IsSeq(c) /\ Len(c) = m /\ \A k \in 1..m : c[k] = s[e[k]]
  BY <1>2, <1>3 DEF IsPick
<1>5. \A k \in 1..m : e[k] \in 1..n /\ e[k] \in S
  BY <1>2, <1>3 DEF Places
<1>6. \A j \in 1..m, k \in 1..m : j < k => e[j] < e[k]
  BY <1>2, <1>3 DEF Places
<1>7. \A j \in 1..m, k \in 1..m : (j <= k => e[j] <= e[k]) /\ (e[j] = e[k] => j = k)
  BY <1>5, <1>6
<1>8. \A x \in Elems(c) : \E i \in 1..n : i \in S /\ x = s[i]
  BY <1>4, <1>5 DEF Elems
<1>9. Distinct(s) => Distinct(c)
  BY <1>1, <1>4, <1>5, <1>7 DEF Distinct
<1>10. Sorted(s) => Sorted(c)
  BY <1>1, <1>4, <1>5, <1>7 DEF Sorted
<1>11. Elems(c) \subseteq Elems(s)
  BY <1>1, <1>8 DEF Elems
<1> QED BY <1>1, <1>4, <1>8, <1>9, <1>10, <1>11

LEMMA SortedJoin ==
  ASSUME NEW s, NEW t, IsSeq(s), IsSeq(t), Sorted(s), Sorted(t), \A x \in Elems(s), y \in Elems(t) : x.at <= y.at
  PROVE  Sorted(s \o t)
<1>1. PICK m \in Nat, n \in Nat : m = Len(s) /\ n = Len(t)
  BY DEF IsSeq
<1>2. PICK u : u = s \o t
  OBVIOUS
<1>3. IsSeq(u) /\ Len(u) = m + n /\ (\A i \in 1..m : u[i] = s[i]) /\ \A i \in 1..n : u[m + i] = t[i]
  BY <1>1, <1>2, JoinFacts
<1>4. ASSUME NEW i \in 1..(m + n)
      PROVE  (i <= m /\ i \in 1..m /\ u[i] = s[i]) \/ (i > m /\ i - m \in 1..n /\ u[i] = t[i - m])
  <2>1. CASE i <= m
    <3>1. i \in 1..m
      BY <2>1
    <3> QED BY <1>3, <2>1, <3>1
  <2>2. CASE ~(i <= m)
    <3>1. PICK j : j = i - m
      OBVIOUS
    <3>2. j \in 1..n /\ i = m + j /\ i > m
      BY <2>2, <3>1
    <3>3. u[m + j] = t[j]
      BY <1>3, <3>2
    <3> QED BY <3>1, <3>2, <3>3
  <2> QED BY <2>1, <2>2
<1>5. (\A a \in 1..m : s[a] \in Elems(s)) /\ (\A a \in 1..n : t[a] \in Elems(t))
  BY <1>1 DEF Elems
<1>6. ASSUME NEW i \in 1..(m + n), NEW j \in 1..(m + n), i <= j PROVE u[i].at <= u[j].at
  <2>1. CASE j <= m
    <3>1. i \in 1..m /\ j \in 1..m
      BY <1>6, <2>1
    <3> QED BY <1>1, <1>3, <1>6, <3>1 DEF Sorted
  <2>2. CASE i > m
    <3>1. PICK a \in 1..n, b \in 1..n : a = i - m /\ b = j - m /\ u[i] = t[a] /\ u[j] = t[b] /\ a <= b
      <4>1. j > m
        BY <1>6, <2>2
      <4> QED BY <1>4, <1>6, <2>2, <4>1
    <3> QED BY <1>1, <3>1 DEF Sorted
  <2>3. CASE i <= m /\ j > m
    <3>1. u[i] \in Elems(s)
      BY <1>4, <1>5, <2>3
    <3>2. u[j] \in Elems(t)
      BY <1>4, <1>5, <2>3
    <3> QED BY <3>1, <3>2
  <2> QED BY <2>1, <2>2, <2>3
<1> QED BY <1>2, <1>3, <1>6 DEF Sorted

\* What the first k marks leave, one inserted after the other.
InsertedFact(list, marks, k) ==
  IsSeq(list) /\ Distinct(list) /\ Sorted(list) /\ \A x \in Elems(list) : \E i \in 1..k : x = marks[i]

LEMMA InsertedTurn ==
  ASSUME NEW marks, NEW n \in Nat, n = Len(marks), Distinct(marks), \A i \in 1..n : marks[i].at \in Int,
         NEW list, NEW k \in Nat, NEW next \in 1..n, next = k + 1, InsertedFact(list, marks, k)
  PROVE  InsertedFact(Inserted(list, marks[next]), marks, next)
<1>1. PICK m : m = marks[next]
  OBVIOUS
<1> DEFINE left == Where(list, LAMBDA x : Before(x, m))
           right == Where(list, LAMBDA x : ~Before(x, m))
<1>2. Inserted(list, m) = left \o <<m>> \o right
  BY DEF Inserted
<1>3. PICK l, r : l = left /\ r = right
  OBVIOUS
<1>4. PICK L, R : L = {i \in DOMAIN list : Before(list[i], m)} /\ R = {i \in DOMAIN list : ~Before(list[i], m)}
  OBVIOUS
<1>5. l = Chosen(list, L) /\ r = Chosen(list, R)
  BY <1>3, <1>4 DEF Where
<1> HIDE DEF left, right
<1>6. IsSeq(list) /\ Distinct(list) /\ Sorted(list) /\ \A x \in Elems(list) : \E i \in 1..k : x = marks[i]
  BY DEF InsertedFact
<1>7. /\ IsSeq(l) /\ Elems(l) \subseteq Elems(list) /\ Distinct(l) /\ Sorted(l)
      /\ \A x \in Elems(l) : \E i \in 1..Len(list) : i \in L /\ x = list[i]
  BY <1>5, <1>6, KeptFacts
<1>8. /\ IsSeq(r) /\ Elems(r) \subseteq Elems(list) /\ Distinct(r) /\ Sorted(r)
      /\ \A x \in Elems(r) : \E i \in 1..Len(list) : i \in R /\ x = list[i]
  BY <1>5, <1>6, KeptFacts
<1>9. PICK o : o = <<m>>
  OBVIOUS
<1>10. m.at \in Int /\ \A x \in Elems(list) : x.at \in Int /\ x.id # m.id
  <2>1. \A i \in 1..k : i \in 1..n /\ i # next
    OBVIOUS
  <2> QED BY <1>1, <1>6, <2>1 DEF Distinct
<1>11. IsSeq(o) /\ Elems(o) \subseteq {m} /\ Distinct(o) /\ Sorted(o)
  <2>1. IsSeq(o) /\ Elems(o) \subseteq {m} /\ Distinct(o)
    BY <1>9, OneAtMost
  <2>2. Len(o) = 1 /\ o[1] = m
    BY <1>9, FewFacts
  <2>3. 1..1 = {1}
    OBVIOUS
  <2> QED BY <1>10, <2>1, <2>2, <2>3 DEF Sorted
<1>12. \A x \in Elems(l) : Before(x, m) /\ x.at <= m.at
  <2>1. \A x \in Elems(l) : Before(x, m)
    BY <1>4, <1>7
  <2> QED BY <1>7, <1>10, <2>1 DEF Before
<1>13. \A x \in Elems(r) : ~Before(x, m) /\ m.at <= x.at
  <2>1. \A x \in Elems(r) : ~Before(x, m)
    BY <1>4, <1>8
  <2> QED BY <1>8, <1>10, <2>1 DEF Before
<1>14. PICK a : a = l \o o
  OBVIOUS
<1>15. IsSeq(a) /\ Elems(a) = Elems(l) \cup Elems(o) /\ Distinct(a) /\ Sorted(a)
  <2>1. \A x \in Elems(l), y \in Elems(o) : x.id # y.id
    BY <1>7, <1>10, <1>11
  <2>2. \A x \in Elems(l), y \in Elems(o) : x.at <= y.at
    BY <1>11, <1>12
  <2>3. IsSeq(a) /\ Elems(a) = Elems(l) \cup Elems(o) /\ Distinct(a)
    BY <1>7, <1>11, <1>14, <2>1, JoinLists
  <2>4. Sorted(a)
    BY <1>7, <1>11, <1>14, <2>2, SortedJoin
  <2> QED BY <2>3, <2>4
<1>16. PICK b : b = a \o r
  OBVIOUS
<1>17. IsSeq(b) /\ Elems(b) = Elems(a) \cup Elems(r) /\ Distinct(b) /\ Sorted(b)
  <2>1. \A x \in Elems(list), y \in Elems(list) : x.id = y.id => x = y
    BY <1>6 DEF Distinct, Elems
  <2>2. \A x \in Elems(a), y \in Elems(r) : x.id # y.id
    BY <1>7, <1>8, <1>10, <1>11, <1>12, <1>13, <1>15, <2>1
  <2>3. \A x \in Elems(a), y \in Elems(r) : x.at <= y.at
    <3>1. ASSUME NEW x \in Elems(a), NEW y \in Elems(r) PROVE x.at <= y.at
      <4>1. x.at <= m.at /\ x.at \in Int
        BY <1>7, <1>10, <1>11, <1>12, <1>15
      <4>2. m.at <= y.at /\ y.at \in Int
        BY <1>8, <1>10, <1>13
      <4> QED BY <1>10, <4>1, <4>2
    <3> QED BY <3>1
  <2>4. IsSeq(b) /\ Elems(b) = Elems(a) \cup Elems(r) /\ Distinct(b)
    BY <1>8, <1>15, <1>16, <2>2, JoinLists
  <2>5. Sorted(b)
    BY <1>8, <1>15, <1>16, <2>3, SortedJoin
  <2> QED BY <2>4, <2>5
<1>18. \A x \in Elems(b) : \E i \in 1..next : x = marks[i]
  <2>1. (\A i \in 1..k : i \in 1..next) /\ next \in 1..next
    OBVIOUS
  <2> QED BY <1>1, <1>6, <1>7, <1>8, <1>11, <1>15, <1>17, <2>1
<1>19. InsertedFact(b, marks, next)
  BY <1>17, <1>18 DEF InsertedFact
<1> QED BY <1>1, <1>2, <1>3, <1>9, <1>14, <1>16, <1>19

\* compareOffsetAndId: the marks come in the order of their offsets, each of them once.
LEMMA ByOffsetFacts ==
  ASSUME NEW marks, IsSeq(marks), Distinct(marks), \A x \in Elems(marks) : x.at \in Int
  PROVE  /\ IsSeq(ByOffset(marks)) /\ Distinct(ByOffset(marks)) /\ Sorted(ByOffset(marks))
         /\ Elems(ByOffset(marks)) \subseteq Elems(marks)
<1>1. PICK n \in Nat : n = Len(marks)
  BY DEF IsSeq
<1>2. \A i \in 1..n : marks[i].at \in Int
  BY <1>1 DEF Elems
<1>3. PICK start : start = <<>>
  OBVIOUS
<1>4. PICK F : InsertedTurns(F, start, marks, n) /\ InsertedLast(start, marks) = F[n]
  BY <1>1, InsertedRun
<1> DEFINE P == {k \in Nat : k <= n => InsertedFact(F[k], marks, k)}
<1>5. 0 \in P
  <2>1. IsSeq(start) /\ Len(start) = 0
    BY <1>3, FewFacts
  <2>2. 1..0 = {}
    OBVIOUS
  <2>3. InsertedFact(start, marks, 0)
    BY <2>1, <2>2 DEF Elems, Distinct, Sorted, InsertedFact
  <2> QED BY <1>4, <2>3 DEF InsertedTurns
<1>6. ASSUME NEW k \in Nat, k \in P PROVE k + 1 \in P
  <2> SUFFICES ASSUME k + 1 <= n PROVE InsertedFact(F[k + 1], marks, k + 1)
    OBVIOUS
  <2>1. PICK m : m = k + 1
    OBVIOUS
  <2>2. m \in 1..n /\ m - 1 = k
    BY <2>1
  <2>3. PICK list : list = F[k]
    OBVIOUS
  <2>4. F[m] = Inserted(list, marks[m]) /\ InsertedFact(list, marks, k)
    BY <1>4, <1>6, <2>2, <2>3 DEF InsertedTurns
  <2>5. InsertedFact(Inserted(list, marks[m]), marks, m)
    BY <1>1, <1>2, <2>1, <2>2, <2>4, InsertedTurn
  <2> QED BY <2>1, <2>4, <2>5
<1> HIDE DEF P
<1>7. Nat \subseteq P
  BY <1>5, <1>6, SetInduction
<1>8. InsertedFact(F[n], marks, n)
  BY <1>7 DEF P
<1>9. ByOffset(marks) = F[n]
  BY <1>3, <1>4 DEF ByOffset, Steps, InsertedLast, IsInserted
<1>10. PICK c : c = ByOffset(marks)
  OBVIOUS
<1>11. InsertedFact(c, marks, n)
  BY <1>8, <1>9, <1>10
<1>12. \A i \in 1..n : marks[i] \in Elems(marks)
  BY <1>1 DEF Elems
<1>13. Elems(c) \subseteq Elems(marks)
  BY <1>11, <1>12 DEF InsertedFact
<1> QED BY <1>10, <1>11, <1>13 DEF InsertedFact

-----------------------------------------------------------------------------
(* The fields of a bundle *)

Built(b, d, s, range, include, marks, remarks) ==
  /\ IsDocument(d) /\ Valid(d) /\ s = ParseSession(d)
  /\ IsRange(range) /\ RangeFits(s, range) /\ include \subseteq Groups /\ IsMarks(marks) /\ IsMarks(remarks)
  /\ b = BuildEvidenceBundle(s, range, include, marks, remarks)

RowPlaces(d, range) == {i \in DOMAIN d.rows : InRange(d.rows[i].at, range)}
EventPlaces(d, range) ==
  {i \in DOMAIN EventsOf(d) :
     EventsOf(d)[i].at = Session \/ Intersects(EventsOf(d)[i].at, EventsOf(d)[i].to, range)}

LEMMA PathFacts ==
  ASSUME NEW include, include \subseteq Groups
  PROVE  /\ ArtifactPaths(include) \subseteq ArtifactPaths(Groups) /\ Mandatory \subseteq ArtifactPaths(include)
         /\ "raw" \in include => "raw/source-records.ndjson" \in ArtifactPaths(include)
         /\ "decoded" \in include => "decoded/packets.csv" \in ArtifactPaths(include)
         /\ "diagnostics" \in include =>
              PathsOf.diagnostics \subseteq ArtifactPaths(include)
         /\ "markers" \in include => "markers/markers.json" \in ArtifactPaths(include)
         /\ "notes" \in include => "notes/notes.json" \in ArtifactPaths(include)
         /\ "schema" \in include => "schema/schema.json" \in ArtifactPaths(include)
<1>1. ArtifactPaths(include) \subseteq ArtifactPaths(Groups)
  BY DEF ArtifactPaths
<1>2. Mandatory \subseteq ArtifactPaths(include)
  BY DEF ArtifactPaths
<1>3. ASSUME NEW g \in include PROVE PathsOf[g] \subseteq ArtifactPaths(include)
  BY DEF ArtifactPaths
<1>4. /\ PathsOf["raw"] = {"raw/source-records.ndjson"} /\ PathsOf["decoded"] = {"decoded/packets.csv"}
      /\ PathsOf["diagnostics"] = PathsOf.diagnostics /\ PathsOf["markers"] = {"markers/markers.json"}
      /\ PathsOf["notes"] = {"notes/notes.json"} /\ PathsOf["schema"] = {"schema/schema.json"}
  BY DEF PathsOf
<1> QED BY <1>1, <1>2, <1>3, <1>4

LEMMA CountsFacts ==
  ASSUME NEW events, NEW s, NEW records, NEW frames, NEW diagnostics, NEW markers, NEW notes, NEW c,
         c = Counts(events, s, records, frames, diagnostics, markers, notes)
  PROVE  /\ c["transport/events.json"] = Len(events)
         /\ c["transport/integrity-receipt.json"] = 1 /\ c["transport/provenance.json"] = 1
         /\ c["transport/journal.json"] = IF JournalReason(s.doc) = "available" THEN 1 ELSE 0
         /\ c["raw/source-records.ndjson"] = Len(records) /\ c["decoded/packets.csv"] = Len(frames)
         /\ \A path \in PathsOf.diagnostics : c[path] = Len(diagnostics)
         /\ c["markers/markers.json"] = Len(markers) /\ c["notes/notes.json"] = Len(notes)
         /\ c["schema/schema.json"] = 1
<1>1. PICK P : P = ArtifactPaths(Groups)
  OBVIOUS
<1>2. Groups \subseteq Groups /\ {"raw", "decoded", "diagnostics", "markers", "notes", "schema"} \subseteq Groups
  BY DEF Groups
<1>3. Mandatory \subseteq P /\ {"raw/source-records.ndjson", "decoded/packets.csv", "markers/markers.json",
        "notes/notes.json", "schema/schema.json"} \subseteq P /\ PathsOf.diagnostics \subseteq P
  BY <1>1, <1>2, PathFacts
<1>4. PathsOf.diagnostics = {"diagnostics/diagnostics.csv", "diagnostics/diagnostics.json"}
  BY DEF PathsOf
<1>5. {"transport/events.json", "transport/integrity-receipt.json", "transport/journal.json",
       "transport/provenance.json"} \subseteq P
  BY <1>3 DEF Mandatory
<1>6. c = [path \in P |->
     CASE path = "transport/events.json"     -> Len(events)
       [] path = "transport/journal.json"    -> IF JournalReason(s.doc) = "available" THEN 1 ELSE 0
       [] path = "raw/source-records.ndjson" -> Len(records)
       [] path = "decoded/packets.csv"       -> Len(frames)
       [] path \in {"diagnostics/diagnostics.csv", "diagnostics/diagnostics.json"} -> Len(diagnostics)
       [] path = "markers/markers.json"      -> Len(markers)
       [] path = "notes/notes.json"          -> Len(notes)
       [] OTHER                              -> 1]
  BY <1>1, <1>4 DEF Counts
<1>7. c["transport/events.json"] = Len(events)
  BY <1>5, <1>6
<1>8. c["transport/integrity-receipt.json"] = 1 /\ c["transport/provenance.json"] = 1
  BY <1>5, <1>6
<1>9. c["transport/journal.json"] = IF JournalReason(s.doc) = "available" THEN 1 ELSE 0
  BY <1>5, <1>6
<1>10. c["raw/source-records.ndjson"] = Len(records) /\ c["decoded/packets.csv"] = Len(frames)
  BY <1>3, <1>6
<1>11. \A path \in PathsOf.diagnostics : c[path] = Len(diagnostics)
  BY <1>3, <1>4, <1>6
<1>12. c["markers/markers.json"] = Len(markers) /\ c["notes/notes.json"] = Len(notes)
  BY <1>3, <1>6
<1>13. c["schema/schema.json"] = 1
  BY <1>3, <1>6
<1> QED BY <1>7, <1>8, <1>9, <1>10, <1>11, <1>12, <1>13

Fields(b, d, s, range, include, marks, remarks) ==
  LET records     == Chosen(d.rows, RowPlaces(d, range))
      frames      == Chosen(s.frames, RowPlaces(d, range))
      diagnostics == DiagnosticsForRange(s.diagnostics, frames, range)
      markers     == MarkersForRange(marks, range)
      notes       == NotesForRange(remarks, range)
      If(group, content) == IF group \in include THEN content ELSE <<>>
  IN /\ b.session = [version |-> d.version, source |-> d.source, duration |-> d.duration,
                     decoder |-> d.decoder, receipt |-> ReceiptOf(d)]
     /\ b.prov = ProvenanceSummary(d) /\ b.selection = range /\ b.include = include
     /\ b.counts = [path \in ArtifactPaths(include) |->
                      Counts(b.events.list, s, records, frames, diagnostics, markers, notes)[path]]
     /\ b.events = [range |-> range, list |-> Chosen(EventsOf(d), EventPlaces(d, range))]
     /\ b.receipt = ReceiptOf(d) /\ b.provDoc = ProvenanceDocument(d) /\ b.journalDoc = JournalDocument(d)
     /\ b.raw = If("raw", records) /\ b.packets = If("decoded", frames)
     /\ b.diagnostics = [range |-> range, list |-> If("diagnostics", diagnostics)]
     /\ b.markers = [range |-> range, list |-> If("markers", markers)]
     /\ b.notes = [range |-> range, list |-> If("notes", notes)]
     /\ b.schema = [decoder |-> d.decoder, version |-> d.version]

LEMMA BundleFields ==
  ASSUME NEW b, NEW d, NEW s, NEW range, NEW include, NEW marks, NEW remarks,
         Built(b, d, s, range, include, marks, remarks)
  PROVE  Fields(b, d, s, range, include, marks, remarks)
<1>1. PICK n : RowsFact(d, n)
  BY RowFacts DEF Built
<1>2. /\ s.doc = d /\ s.events = EventsOf(d) /\ s.receipt = ReceiptOf(d)
      /\ DOMAIN s.frames = 1..n /\ DOMAIN d.rows = 1..n /\ \A i \in 1..n : s.frames[i].at = d.rows[i].at
  <2>1. s = ParseSession(d)
    BY DEF Built
  <2>2. DOMAIN d.rows = 1..n
    BY <1>1 DEF RowsFact
  <2> QED BY <1>1, <2>1, <2>2, FrameFacts
<1>3. {i \in DOMAIN s.frames : InRange(s.frames[i].at, range)} = RowPlaces(d, range)
  BY <1>2 DEF RowPlaces
<1>4. RecordsForRange(s.doc.rows, range) = Chosen(d.rows, RowPlaces(d, range))
  BY <1>2 DEF RecordsForRange, Where, RowPlaces
<1>5. FramesForRange(s.frames, range) = Chosen(s.frames, RowPlaces(d, range))
  <2>1. FramesForRange(s.frames, range) = Chosen(s.frames, {i \in DOMAIN s.frames : InRange(s.frames[i].at, range)})
    BY DEF FramesForRange, Where
  <2> QED BY <1>3, <2>1
<1>6. TransportEventsForRange(s.events, range) = Chosen(EventsOf(d), EventPlaces(d, range))
  BY <1>2 DEF TransportEventsForRange, Where, EventPlaces
<1>7. PICK records, frames, diagnostics, events, markers, notes :
        /\ records = RecordsForRange(s.doc.rows, range) /\ frames = FramesForRange(s.frames, range)
        /\ diagnostics = DiagnosticsForRange(s.diagnostics, frames, range)
        /\ events = TransportEventsForRange(s.events, range)
        /\ markers = MarkersForRange(marks, range) /\ notes = NotesForRange(remarks, range)
  OBVIOUS
<1>8. PICK counts : counts = Counts(events, s, records, frames, diagnostics, markers, notes)
  OBVIOUS
<1> DEFINE If(group, content) == IF group \in include THEN content ELSE <<>>
<1>9. b = [session   |-> [version |-> s.doc.version, source |-> s.doc.source, duration |-> s.doc.duration,
                     decoder |-> s.doc.decoder, receipt |-> s.receipt],
      prov      |-> ProvenanceSummary(s.doc), selection |-> range, include |-> include,
      counts    |-> [path \in ArtifactPaths(include) |-> counts[path]],
      events    |-> [range |-> range, list |-> events], receipt |-> s.receipt,
      provDoc   |-> ProvenanceDocument(s.doc), journalDoc |-> JournalDocument(s.doc),
      raw       |-> If("raw", records), packets |-> If("decoded", frames),
      diagnostics |-> [range |-> range, list |-> If("diagnostics", diagnostics)],
      markers   |-> [range |-> range, list |-> If("markers", markers)],
      notes     |-> [range |-> range, list |-> If("notes", notes)],
      schema    |-> SchemaArtifact(s)]
  BY <1>7, <1>8, ZenonT(40) DEF Built, BuildEvidenceBundle
<1>10. /\ b.session = [version |-> d.version, source |-> d.source, duration |-> d.duration,
                       decoder |-> d.decoder, receipt |-> ReceiptOf(d)]
       /\ b.prov = ProvenanceSummary(d) /\ b.selection = range /\ b.include = include
       /\ b.counts = [path \in ArtifactPaths(include) |-> counts[path]]
       /\ b.events = [range |-> range, list |-> events]
       /\ b.receipt = ReceiptOf(d) /\ b.provDoc = ProvenanceDocument(d) /\ b.journalDoc = JournalDocument(d)
  BY <1>2, <1>9
<1>11. /\ b.raw = If("raw", records) /\ b.packets = If("decoded", frames)
       /\ b.diagnostics = [range |-> range, list |-> If("diagnostics", diagnostics)]
       /\ b.markers = [range |-> range, list |-> If("markers", markers)]
       /\ b.notes = [range |-> range, list |-> If("notes", notes)]
  BY <1>9
<1>12. b.schema = [decoder |-> d.decoder, version |-> d.version]
  BY <1>2, <1>9 DEF SchemaArtifact
<1>13. b.events.list = events
  BY <1>10
<1>14. /\ records = Chosen(d.rows, RowPlaces(d, range)) /\ frames = Chosen(s.frames, RowPlaces(d, range))
       /\ events = Chosen(EventsOf(d), EventPlaces(d, range))
  BY <1>4, <1>5, <1>6, <1>7
<1> QED BY <1>7, <1>8, <1>10, <1>11, <1>12, <1>13, <1>14 DEF Fields

LEMMA SelectionFacts ==
  ASSUME NEW b, NEW d, NEW s, NEW range, NEW include, NEW marks, NEW remarks,
         Built(b, d, s, range, include, marks, remarks)
  PROVE  /\ range.from \in Nat /\ range.to \in Nat /\ range.from < range.to /\ range.to <= d.duration
         /\ d.duration \in Nat \ {0}
<1>1. s.doc = d
  <2>1. s = ParseSession(d)
    BY DEF Built
  <2> QED BY <2>1 DEF ParseSession
<1>2. IsRange(range) /\ RangeFits(s, range) /\ IsDocument(d) /\ Valid(d)
  BY DEF Built
<1>3. d.duration \in Nat \ {0}
  BY <1>2, RowFacts DEF RowsFact
<1> QED BY <1>1, <1>2, <1>3 DEF IsRange, RangeFits

\* What the manifest says of an artifact is what the artifact holds.
LEMMA CountedFacts ==
  ASSUME NEW b, NEW d, NEW s, NEW range, NEW include, NEW marks, NEW remarks,
         Built(b, d, s, range, include, marks, remarks)
  PROVE  /\ Counted(b, "transport/events.json", Len(b.events.list)) /\ Counted(b, "transport/provenance.json", 1)
         /\ Counted(b, "transport/integrity-receipt.json", 1)
         /\ Counted(b, "transport/journal.json", IF JournalReason(d) = "available" THEN 1 ELSE 0)
         /\ "raw" \in include => Counted(b, "raw/source-records.ndjson", Len(b.raw))
         /\ "decoded" \in include => Counted(b, "decoded/packets.csv", Len(b.packets))
         /\ "diagnostics" \in include =>
              \A path \in PathsOf.diagnostics : Counted(b, path, Len(b.diagnostics.list))
         /\ "markers" \in include => Counted(b, "markers/markers.json", Len(b.markers.list))
         /\ "notes" \in include => Counted(b, "notes/notes.json", Len(b.notes.list))
         /\ "schema" \in include => Counted(b, "schema/schema.json", 1)
<1>1. Fields(b, d, s, range, include, marks, remarks)
  BY BundleFields
<1>2. include \subseteq Groups
  BY DEF Built
<1>3. PICK records, frames, diagnostics, markers, notes :
        /\ records = Chosen(d.rows, RowPlaces(d, range)) /\ frames = Chosen(s.frames, RowPlaces(d, range))
        /\ diagnostics = DiagnosticsForRange(s.diagnostics, frames, range)
        /\ markers = MarkersForRange(marks, range) /\ notes = NotesForRange(remarks, range)
  OBVIOUS
<1>4. PICK c : c = Counts(b.events.list, s, records, frames, diagnostics, markers, notes)
  OBVIOUS
<1>5. b.counts = [path \in ArtifactPaths(include) |-> c[path]]
  BY <1>1, <1>3, <1>4 DEF Fields
<1>6. PICK P : P = ArtifactPaths(include)
  OBVIOUS
<1>7. DOMAIN b.counts = P /\ \A path \in P : b.counts[path] = c[path]
  BY <1>5, <1>6
<1>8. s.doc = d
  <2>1. s = ParseSession(d)
    BY DEF Built
  <2> QED BY <2>1 DEF ParseSession
<1>9. /\ c["transport/events.json"] = Len(b.events.list)
      /\ c["transport/integrity-receipt.json"] = 1 /\ c["transport/provenance.json"] = 1
      /\ c["transport/journal.json"] = IF JournalReason(d) = "available" THEN 1 ELSE 0
      /\ c["raw/source-records.ndjson"] = Len(records) /\ c["decoded/packets.csv"] = Len(frames)
      /\ \A path \in PathsOf.diagnostics : c[path] = Len(diagnostics)
      /\ c["markers/markers.json"] = Len(markers) /\ c["notes/notes.json"] = Len(notes)
      /\ c["schema/schema.json"] = 1
  BY <1>4, <1>8, CountsFacts
<1>10. /\ Mandatory \subseteq P
       /\ "raw" \in include => "raw/source-records.ndjson" \in P
       /\ "decoded" \in include => "decoded/packets.csv" \in P
       /\ "diagnostics" \in include => PathsOf.diagnostics \subseteq P
       /\ "markers" \in include => "markers/markers.json" \in P
       /\ "notes" \in include => "notes/notes.json" \in P
       /\ "schema" \in include => "schema/schema.json" \in P
  BY <1>2, <1>6, PathFacts
<1>11. {"transport/events.json", "transport/integrity-receipt.json", "transport/journal.json",
        "transport/provenance.json"} \subseteq P
  BY <1>10 DEF Mandatory
<1>12. /\ "raw" \in include => b.raw = records
       /\ "decoded" \in include => b.packets = frames
       /\ "diagnostics" \in include => b.diagnostics.list = diagnostics
       /\ "markers" \in include => b.markers.list = markers
       /\ "notes" \in include => b.notes.list = notes
  BY <1>1, <1>3 DEF Fields
<1> QED BY <1>7, <1>9, <1>10, <1>11, <1>12 DEF Counted

LEMMA ContractVerifies ==
  ASSUME NEW b, NEW d, NEW s, NEW range, NEW include, NEW marks, NEW remarks,
         Built(b, d, s, range, include, marks, remarks)
  PROVE  ContractHolds(b) /\ SchemaHolds(b)
<1>1. Fields(b, d, s, range, include, marks, remarks)
  BY BundleFields
<1>2. b.selection = range /\ b.include = include /\ b.session.duration = d.duration /\ DOMAIN b.counts = ArtifactPaths(include)
  BY <1>1 DEF Fields
<1>3. range.to > range.from /\ range.to <= d.duration
  BY SelectionFacts
<1>4. b.schema = [decoder |-> b.session.decoder, version |-> b.session.version]
  BY <1>1 DEF Fields
<1>5. "schema" \in include => Counted(b, "schema/schema.json", 1)
  BY CountedFacts
<1> QED BY <1>2, <1>3, <1>4, <1>5 DEF ContractHolds, SchemaHolds

LEMMA EventsVerify ==
  ASSUME NEW b, NEW d, NEW s, NEW range, NEW include, NEW marks, NEW remarks,
         Built(b, d, s, range, include, marks, remarks)
  PROVE  EventsHold(b)
<1>1. /\ b.events.range = range /\ b.events.list = Chosen(EventsOf(d), EventPlaces(d, range)) /\ b.selection = range
      /\ b.session.duration = d.duration
  <2>1. Fields(b, d, s, range, include, marks, remarks)
    BY BundleFields
  <2> QED BY <2>1 DEF Fields
<1>2. Counted(b, "transport/events.json", Len(b.events.list))
  BY CountedFacts
<1>3. PICK m : EventsFact(d, m)
  BY EventFacts DEF Built
<1>4. PICK ev, S, list, D : ev = EventsOf(d) /\ S = EventPlaces(d, range) /\ list = b.events.list /\ D = d.duration
  OBVIOUS
<1>5. /\ IsSeq(ev) /\ m = Len(ev) /\ m \in Nat /\ DOMAIN ev = 1..m
      /\ \A i \in 1..m :
           /\ ev[i].id = i /\ ev[i].at < D
           /\ ev[i].to # Null => ev[i].at # Session /\ ev[i].at < ev[i].to /\ ev[i].to <= D
      /\ \A i \in 1..m, j \in 1..m : i < j /\ ev[i].at # Session /\ ev[j].at # Session => ev[i].at <= ev[j].at
  BY <1>3, <1>4 DEF EventsFact
<1>6. PICK e : e = At(m, S) /\ Places(e, m, S) /\ IsPick(list, ev, e)
  BY <1>1, <1>4, <1>5, ChosenFacts
<1>7. PICK l \in Nat : l = Len(e)
  BY <1>6 DEF Places, IsSeq
<1>8. IsSeq(list) /\ Len(list) = l /\ DOMAIN list = 1..l /\ \A k \in 1..l : list[k] = ev[e[k]]
  BY <1>6, <1>7, SeqFacts DEF IsPick
<1>9. (\A k \in 1..l : e[k] \in 1..m /\ e[k] \in S) /\ \A j \in 1..l, k \in 1..l : j < k => e[j] < e[k]
  BY <1>6, <1>7 DEF Places
<1>10. \A k \in 1..l : list[k].id = e[k]
  BY <1>5, <1>8, <1>9
<1>11. AreDistinct(list)
  <2>1. \A j \in 1..l, k \in 1..l : e[j] = e[k] => j = k
    BY <1>9
  <2> QED BY <1>8, <1>10, <2>1 DEF AreDistinct
<1>12. ASSUME NEW k \in 1..l
       PROVE  /\ list[k].to # Null => list[k].at < list[k].to /\ list[k].to <= D
              /\ list[k].at < D /\ IntersectsSelection(b, list[k])
  <2>1. PICK i \in 1..m, x \in {list[k]} : i = e[k] /\ x = list[k] /\ x = ev[i] /\ i \in S
    BY <1>8, <1>9
  <2>2. x.at = Session \/ Intersects(x.at, x.to, range)
    BY <1>4, <2>1 DEF EventPlaces
  <2>3. IntersectsSelection(b, x)
    <3>1. CASE x.at = Session
      BY <3>1 DEF IntersectsSelection
    <3>2. CASE x.at # Session /\ x.to = Null
      <4>1. IntersectsSelection(b, x) = InSelection(b, x.at)
        BY <3>2 DEF IntersectsSelection
      <4> QED BY <1>1, <2>2, <3>2, <4>1 DEF InSelection, Intersects, InRange
    <3>3. CASE x.at # Session /\ x.to # Null
      <4>1. IntersectsSelection(b, x) = (x.at < b.selection.to /\ x.to > b.selection.from)
        BY <3>3 DEF IntersectsSelection
      <4> QED BY <1>1, <2>2, <3>3, <4>1 DEF Intersects
    <3> QED BY <3>1, <3>2, <3>3
  <2> QED BY <1>5, <2>1, <2>3
<1>13. ASSUME NEW k \in 1..l, NEW j \in 1..(k - 1)
       PROVE  list[j].id < list[k].id /\ (list[k].at # Session /\ list[j].at # Session => list[j].at <= list[k].at)
  <2>1. j \in 1..l /\ j < k
    OBVIOUS
  <2>2. e[j] < e[k]
    BY <1>9, <2>1
  <2> QED BY <1>5, <1>8, <1>9, <1>10, <2>1, <2>2
<1> QED BY <1>1, <1>2, <1>4, <1>8, <1>11, <1>12, <1>13 DEF EventsHold

\* The rows of a range with their places, and the frames they decode to.
RowPick(b, d, s, range, n, e, l) ==
  /\ RowsFact(d, n) /\ Places(e, n, RowPlaces(d, range)) /\ l = Len(e) /\ l \in Nat
  /\ \A k \in 1..l : e[k] \in 1..n /\ InRange(d.rows[e[k]].at, range)
  /\ \A j \in 1..l, k \in 1..l : j < k => e[j] < e[k]
  /\ Raw(b) => IsSeq(b.raw) /\ Len(b.raw) = l /\ DOMAIN b.raw = 1..l /\ \A k \in 1..l : b.raw[k] = d.rows[e[k]]
  /\ ~Raw(b) => b.raw = <<>>
  /\ "decoded" \in b.include =>
       IsSeq(b.packets) /\ Len(b.packets) = l /\ DOMAIN b.packets = 1..l
       /\ \A k \in 1..l : b.packets[k] = Decoded(d.rows[e[k]])

LEMMA RowPicks ==
  ASSUME NEW b, NEW d, NEW s, NEW range, NEW include, NEW marks, NEW remarks,
         Built(b, d, s, range, include, marks, remarks)
  PROVE  \E n, e, l : RowPick(b, d, s, range, n, e, l)
<1>1. /\ b.raw = (IF "raw" \in include THEN Chosen(d.rows, RowPlaces(d, range)) ELSE <<>>)
      /\ b.packets = (IF "decoded" \in include THEN Chosen(s.frames, RowPlaces(d, range)) ELSE <<>>)
      /\ b.include = include
  <2>1. Fields(b, d, s, range, include, marks, remarks)
    BY BundleFields
  <2> QED BY <2>1 DEF Fields
<1>2. PICK n : RowsFact(d, n)
  BY RowFacts DEF Built
<1>3. s = ParseSession(d)
  BY DEF Built
<1>4. IsSeq(s.frames) /\ Len(s.frames) = n /\ \A i \in 1..n : s.frames[i] = Decoded(d.rows[i])
  BY <1>2, <1>3, FrameFacts
<1>5. IsSeq(d.rows) /\ Len(d.rows) = n /\ n \in Nat /\ DOMAIN d.rows = 1..n
  BY <1>2 DEF RowsFact
<1>6. PICK S, rows, frames : S = RowPlaces(d, range) /\ rows = Chosen(d.rows, S) /\ frames = Chosen(s.frames, S)
  OBVIOUS
<1>7. PICK e : e = At(n, S)
  OBVIOUS
<1>8. Places(e, n, S) /\ IsPick(rows, d.rows, e)
  BY <1>5, <1>6, <1>7, ChosenFacts
<1>9. IsPick(frames, s.frames, e)
  BY <1>4, <1>5, <1>6, <1>7, ChosenFacts
<1>10. PICK l \in Nat : l = Len(e)
  BY <1>8 DEF Places, IsSeq
<1>11. IsSeq(rows) /\ Len(rows) = l /\ DOMAIN rows = 1..l /\ \A k \in 1..l : rows[k] = d.rows[e[k]]
  BY <1>8, <1>10, SeqFacts DEF IsPick
<1>12. (\A k \in 1..l : e[k] \in 1..n /\ e[k] \in S) /\ \A j \in 1..l, k \in 1..l : j < k => e[j] < e[k]
  BY <1>8, <1>10 DEF Places
<1>13. \A k \in 1..l : InRange(d.rows[e[k]].at, range)
  BY <1>6, <1>12 DEF RowPlaces
<1>14. IsSeq(frames) /\ Len(frames) = l /\ DOMAIN frames = 1..l /\ \A k \in 1..l : frames[k] = Decoded(d.rows[e[k]])
  BY <1>4, <1>9, <1>10, <1>12, SeqFacts DEF IsPick
<1>15. Raw(b) => b.raw = rows
  BY <1>1, <1>6 DEF Raw
<1>16. ~Raw(b) => b.raw = <<>>
  BY <1>1 DEF Raw
<1>17. "decoded" \in b.include => b.packets = frames
  BY <1>1, <1>6
<1>18. Places(e, n, RowPlaces(d, range))
  BY <1>6, <1>8
<1>19. RowPick(b, d, s, range, n, e, l)
  BY <1>2, <1>10, <1>11, <1>12, <1>13, <1>14, <1>15, <1>16, <1>17, <1>18 DEF RowPick
<1> QED BY <1>19

LEMMA RawVerifies ==
  ASSUME NEW b, NEW d, NEW s, NEW range, NEW include, NEW marks, NEW remarks,
         Built(b, d, s, range, include, marks, remarks)
  PROVE  RawHolds(b) /\ DecodedHolds(b)
<1>1. b.selection = range /\ b.include = include
  <2>1. Fields(b, d, s, range, include, marks, remarks)
    BY BundleFields
  <2> QED BY <2>1 DEF Fields
<1>2. PICK n, e, l : RowPick(b, d, s, range, n, e, l)
  BY RowPicks
<1>3. PICK rows : rows = d.rows
  OBVIOUS
<1>4. l \in Nat /\ (\A k \in 1..l : e[k] \in 1..n /\ InRange(rows[e[k]].at, range))
      /\ \A j \in 1..l, k \in 1..l : j < k => e[j] < e[k]
  BY <1>2, <1>3 DEF RowPick
<1>5. n \in Nat /\ (\A i \in 1..n : rows[i].id = i /\ rows[i].at \in Nat)
      /\ \A i \in 1..n, j \in 1..n : i <= j => rows[i].at <= rows[j].at
  BY <1>2, <1>3 DEF RowPick, RowsFact
<1>6. ASSUME NEW k \in 1..l, k > 1
      PROVE  k - 1 \in 1..l /\ rows[e[k - 1]].id < rows[e[k]].id /\ rows[e[k - 1]].at <= rows[e[k]].at
  <2>1. PICK j \in 1..l : j = k - 1 /\ j < k
    BY <1>4, <1>6
  <2>2. e[j] < e[k] /\ e[j] \in 1..n /\ e[k] \in 1..n
    BY <1>4, <2>1
  <2>3. rows[e[j]].at <= rows[e[k]].at
    BY <1>5, <2>2
  <2> QED BY <1>5, <2>1, <2>2, <2>3
<1>7. \A j \in 1..l, k \in 1..l : rows[e[j]].id = rows[e[k]].id => j = k
  <2>1. \A j \in 1..l, k \in 1..l : e[j] = e[k] => j = k
    BY <1>4, <1>5
  <2> QED BY <1>4, <1>5, <2>1
<1>8. \A k \in 1..l : InSelection(b, rows[e[k]].at) /\ rows[e[k]].at \in Nat /\ rows[e[k]].id \in Nat
  BY <1>1, <1>4, <1>5 DEF InSelection, InRange
<1>9. RawHolds(b)
  <2>1. CASE ~Raw(b)
    <3>1. PICK raw : raw = b.raw
      OBVIOUS
    <3>2. IsSeq(raw) /\ Len(raw) = 0
      BY <1>2, <2>1, <3>1, FewFacts DEF RowPick
    <3>3. 1..0 = {}
      OBVIOUS
    <3>4. DOMAIN raw = {}
      BY <3>2, <3>3, SeqFacts
    <3> QED BY <2>1, <3>1, <3>4 DEF RawHolds, AreDistinct
  <2>2. CASE Raw(b)
    <3>1. PICK raw : raw = b.raw
      OBVIOUS
    <3>2. Len(raw) = l /\ DOMAIN raw = 1..l /\ \A k \in 1..l : raw[k] = rows[e[k]]
      BY <1>2, <1>3, <2>2, <3>1 DEF RowPick
    <3>3. Counted(b, "raw/source-records.ndjson", Len(raw))
      BY <1>1, <2>2, <3>1, CountedFacts DEF Raw
    <3>4. AreDistinct(raw)
      BY <1>7, <3>2 DEF AreDistinct
    <3>5. ASSUME NEW k \in 1..l
          PROVE  /\ InSelection(b, raw[k].at)
                 /\ k > 1 => \/ raw[k].at > raw[k - 1].at
                             \/ raw[k].at = raw[k - 1].at /\ raw[k].id > raw[k - 1].id
      <4>1. InSelection(b, raw[k].at)
        BY <1>8, <3>2
      <4>2. ASSUME k > 1
            PROVE  \/ raw[k].at > raw[k - 1].at
                   \/ raw[k].at = raw[k - 1].at /\ raw[k].id > raw[k - 1].id
        <5>1. PICK j \in 1..l : j = k - 1 /\ rows[e[j]].id < rows[e[k]].id /\ rows[e[j]].at <= rows[e[k]].at
          BY <1>6, <4>2
        <5>2. raw[j] = rows[e[j]] /\ raw[k] = rows[e[k]] /\ raw[j].at \in Nat /\ raw[k].at \in Nat
              /\ raw[j].id \in Nat /\ raw[k].id \in Nat
          BY <1>8, <3>2
        <5>3. raw[k].at > raw[j].at \/ (raw[k].at = raw[j].at /\ raw[k].id > raw[j].id)
          BY <5>1, <5>2
        <5> QED BY <5>1, <5>3
      <4> QED BY <4>1, <4>2
    <3> QED BY <3>1, <3>2, <3>3, <3>4, <3>5 DEF RawHolds
  <2> QED BY <2>1, <2>2
<1>10. DecodedHolds(b)
  <2> SUFFICES ASSUME "decoded" \in b.include PROVE DecodedHolds(b)
    BY DEF DecodedHolds
  <2>1. PICK packets : packets = b.packets
    OBVIOUS
  <2>2. Len(packets) = l /\ DOMAIN packets = 1..l /\ \A k \in 1..l : packets[k] = Decoded(rows[e[k]])
    BY <1>2, <1>3, <2>1 DEF RowPick
  <2>3. Counted(b, "decoded/packets.csv", Len(packets))
    BY <1>1, <2>1, CountedFacts
  <2>4. \A r : Decoded(r).id = r.id /\ Decoded(r).at = r.at /\ Decoded(r).status = StatusOf(r.check)
               /\ Decoded(r).check = r.check
    BY DEF Decoded
  <2>5. AreDistinct(packets)
    BY <1>7, <2>2, <2>4 DEF AreDistinct
  <2>6. ASSUME NEW k \in 1..l
        PROVE  /\ InSelection(b, packets[k].at) /\ packets[k].status = StatusOf(packets[k].check)
               /\ k > 1 => packets[k].id > packets[k - 1].id /\ packets[k].at >= packets[k - 1].at
               /\ Raw(b) => \E j \in DOMAIN b.raw : packets[k] = Decoded(b.raw[j])
    <3>1. InSelection(b, packets[k].at) /\ packets[k].status = StatusOf(packets[k].check)
      BY <1>8, <2>2, <2>4
    <3>2. ASSUME k > 1 PROVE packets[k].id > packets[k - 1].id /\ packets[k].at >= packets[k - 1].at
      <4>1. PICK j \in 1..l : j = k - 1 /\ rows[e[j]].id < rows[e[k]].id /\ rows[e[j]].at <= rows[e[k]].at
        BY <1>6, <3>2
      <4>2. /\ packets[j].id = rows[e[j]].id /\ packets[k].id = rows[e[k]].id
            /\ packets[j].at = rows[e[j]].at /\ packets[k].at = rows[e[k]].at
        BY <2>2, <2>4
      <4>3. /\ rows[e[j]].id \in Nat /\ rows[e[k]].id \in Nat /\ rows[e[j]].at \in Nat /\ rows[e[k]].at \in Nat
        BY <1>8
      <4>4. packets[k].id > packets[j].id /\ packets[k].at >= packets[j].at
        BY <4>1, <4>2, <4>3
      <4> QED BY <4>1, <4>4
    <3>3. ASSUME Raw(b) PROVE \E j \in DOMAIN b.raw : packets[k] = Decoded(b.raw[j])
      BY <1>2, <1>3, <2>2, <3>3 DEF RowPick
    <3> QED BY <3>1, <3>2, <3>3
  <2>7. Raw(b) => Len(packets) = Len(b.raw)
    BY <1>2, <2>2 DEF RowPick
  <2> QED BY <2>1, <2>2, <2>3, <2>5, <2>6, <2>7 DEF DecodedHolds
<1> QED BY <1>9, <1>10

LEMMA DiagnosticsVerify ==
  ASSUME NEW b, NEW d, NEW s, NEW range, NEW include, NEW marks, NEW remarks,
         Built(b, d, s, range, include, marks, remarks)
  PROVE  DiagnosticsHold(b)
<1>1. Fields(b, d, s, range, include, marks, remarks)
  BY BundleFields
<1>2. b.selection = range /\ b.include = include /\ b.session.duration = d.duration /\ b.diagnostics.range = range
  BY <1>1 DEF Fields
<1> SUFFICES ASSUME "diagnostics" \in include PROVE DiagnosticsHold(b)
  BY <1>2 DEF DiagnosticsHold
<1>3. PICK frames : frames = Chosen(s.frames, RowPlaces(d, range))
  OBVIOUS
<1>4. b.diagnostics.list = DiagnosticsForRange(s.diagnostics, frames, range)
      /\ ("decoded" \in include => b.packets = frames)
  BY <1>1, <1>3 DEF Fields
<1>5. \A path \in PathsOf.diagnostics : Counted(b, path, Len(b.diagnostics.list))
  BY CountedFacts
<1>6. /\ IsSeq(s.diagnostics) /\ Distinct(s.diagnostics)
      /\ \A e \in Elems(s.diagnostics) : IsDiagnostic(e, d.duration)
  BY DiagnosticFacts DEF Built
<1>7. PICK all, S, kept, chosen : /\ all = s.diagnostics /\ chosen = {frames[i].id : i \in DOMAIN frames}
        /\ S = {i \in DOMAIN all : Intersects(all[i].at, all[i].to, range)} /\ kept = Chosen(all, S)
  OBVIOUS
<1>8. PICK list : list = b.diagnostics.list
  OBVIOUS
<1>9. list = [i \in DOMAIN kept |-> [kept[i] EXCEPT !.frames = @ \cap chosen]]
  BY <1>4, <1>7, <1>8 DEF DiagnosticsForRange, Where
<1>10. /\ IsSeq(kept) /\ Distinct(kept) /\ Elems(kept) \subseteq Elems(all)
       /\ \A x \in Elems(kept) : \E i \in 1..Len(all) : i \in S /\ x = all[i]
  BY <1>6, <1>7, KeptFacts
<1>11. PICK m \in Nat : m = Len(kept) /\ DOMAIN kept = 1..m
  BY <1>10, SeqFacts
<1>12. DOMAIN list = 1..m /\ \A k \in 1..m : list[k] = [kept[k] EXCEPT !.frames = @ \cap chosen]
  BY <1>9, <1>11
<1>13. \A k \in 1..m : kept[k] \in Elems(kept)
  BY <1>11 DEF Elems
<1>14. ASSUME NEW k \in 1..m
       PROVE  /\ list[k].id = kept[k].id /\ list[k].at = kept[k].at /\ list[k].to = kept[k].to
              /\ list[k].frames \subseteq chosen /\ IsDiagnostic(kept[k], d.duration)
              /\ Intersects(kept[k].at, kept[k].to, range)
  <2>1. PICK x : x = kept[k]
    OBVIOUS
  <2>2. IsDiagnostic(x, d.duration)
    BY <1>6, <1>7, <1>10, <1>13, <2>1
  <2>3. Intersects(x.at, x.to, range)
    BY <1>7, <1>10, <1>13, <2>1
  <2>4. {"id", "at", "to", "frames"} \subseteq DOMAIN x
    BY <2>2 DEF IsDiagnostic, Whole
  <2>5. list[k] = [x EXCEPT !.frames = @ \cap chosen]
    BY <1>12, <2>1
  <2>6. list[k].id = x.id /\ list[k].at = x.at /\ list[k].to = x.to /\ list[k].frames = x.frames \cap chosen
    BY <2>4, <2>5
  <2> QED BY <2>1, <2>2, <2>3, <2>6
<1>15. AreDistinct(list)
  BY <1>10, <1>11, <1>12, <1>14 DEF AreDistinct, Distinct
<1>16. ASSUME NEW k \in 1..m
       PROVE  /\ list[k].at < d.duration /\ list[k].to <= d.duration
              /\ IF list[k].to = Null THEN InSelection(b, list[k].at)
                 ELSE list[k].at < range.to /\ list[k].to > range.from /\ list[k].to > list[k].at
  BY <1>2, <1>14 DEF IsDiagnostic, Intersects, InRange, InSelection
<1>17. "decoded" \in b.include => chosen = {b.packets[i].id : i \in DOMAIN b.packets}
  BY <1>2, <1>4, <1>7
<1> QED BY <1>2, <1>5, <1>8, <1>12, <1>14, <1>15, <1>16, <1>17 DEF DiagnosticsHold

LEMMA MarksVerify ==
  ASSUME NEW b, NEW d, NEW s, NEW range, NEW include, NEW marks, NEW remarks,
         Built(b, d, s, range, include, marks, remarks)
  PROVE  /\ MarksHold(b, "markers", "markers/markers.json", b.markers)
         /\ MarksHold(b, "notes", "notes/notes.json", b.notes)
<1>1. Fields(b, d, s, range, include, marks, remarks)
  BY BundleFields
<1>2. /\ b.selection = range /\ b.include = include /\ b.markers.range = range /\ b.notes.range = range
      /\ "markers" \in include => b.markers.list = MarkersForRange(marks, range)
      /\ "notes" \in include => b.notes.list = NotesForRange(remarks, range)
  BY <1>1 DEF Fields
<1>3. ASSUME NEW all, IsMarks(all) PROVE IsSeq(all) /\ Distinct(all) /\ \A x \in Elems(all) : x.at \in Int
  <2>1. IsSeq(all) /\ DOMAIN all = 1..Len(all)
    BY <1>3, ListFacts DEF IsMarks
  <2>2. \A i \in 1..Len(all) : all[i].at \in Int
    BY <1>3, <2>1 DEF IsMarks, OrNull, Null
  <2>3. Distinct(all)
    BY <1>3, <2>1 DEF IsMarks, Distinct
  <2> QED BY <2>1, <2>2, <2>3 DEF Elems
<1>4. ASSUME NEW all, IsMarks(all), NEW S, NEW list, list = ByOffset(Chosen(all, S))
      PROVE  /\ IsSeq(list) /\ DOMAIN list = 1..Len(list) /\ Len(list) \in Nat /\ AreDistinct(list) /\ Sorted(list)
             /\ \A k \in 1..Len(list) : \E i \in DOMAIN all : i \in S /\ list[k] = all[i]
  <2>1. IsSeq(all) /\ Distinct(all) /\ \A x \in Elems(all) : x.at \in Int
    BY <1>3, <1>4
  <2>2. PICK c : c = Chosen(all, S)
    OBVIOUS
  <2>3. /\ IsSeq(c) /\ Distinct(c) /\ Elems(c) \subseteq Elems(all)
        /\ \A x \in Elems(c) : \E i \in 1..Len(all) : i \in S /\ x = all[i]
    BY <2>1, <2>2, KeptFacts
  <2>4. \A x \in Elems(c) : x.at \in Int
    BY <2>1, <2>3
  <2>5. list = ByOffset(c)
    BY <1>4, <2>2
  <2>6. IsSeq(list) /\ Distinct(list) /\ Sorted(list) /\ Elems(list) \subseteq Elems(c)
    BY <2>3, <2>4, <2>5, ByOffsetFacts
  <2>7. DOMAIN list = 1..Len(list) /\ Len(list) \in Nat /\ DOMAIN all = 1..Len(all)
    BY <2>1, <2>6, SeqFacts
  <2>8. AreDistinct(list)
    BY <2>6, <2>7 DEF AreDistinct, Distinct
  <2>9. \A k \in 1..Len(list) : list[k] \in Elems(list)
    BY DEF Elems
  <2> QED BY <2>3, <2>6, <2>7, <2>8, <2>9
<1>5. IsMarks(marks) /\ IsMarks(remarks)
  BY DEF Built
<1>6. MarksHold(b, "markers", "markers/markers.json", b.markers)
  <2> SUFFICES ASSUME "markers" \in include PROVE MarksHold(b, "markers", "markers/markers.json", b.markers)
    BY <1>2 DEF MarksHold
  <2>1. PICK list, S : list = b.markers.list /\ S = {i \in DOMAIN marks : InRange(marks[i].at, range)}
    OBVIOUS
  <2>2. list = ByOffset(Chosen(marks, S))
    BY <1>2, <2>1 DEF MarkersForRange, Where
  <2>3. PICK m \in Nat : m = Len(list) /\ DOMAIN list = 1..m /\ AreDistinct(list) /\ Sorted(list)
             /\ \A k \in 1..m : \E i \in DOMAIN marks : i \in S /\ list[k] = marks[i]
    BY <1>4, <1>5, <2>2
  <2>4. \A k \in 1..m : InSelection(b, list[k].at)
    BY <1>2, <2>1, <2>3 DEF InSelection, InRange
  <2>5. ASSUME NEW k \in 1..m, k > 1 PROVE list[k - 1].at <= list[k].at
    <3>1. k - 1 \in 1..m /\ k - 1 <= k
      BY <2>5
    <3> QED BY <2>3, <3>1 DEF Sorted
  <2>6. Counted(b, "markers/markers.json", Len(list))
    BY <2>1, CountedFacts
  <2> QED BY <1>2, <2>1, <2>3, <2>4, <2>5, <2>6 DEF MarksHold
<1>7. MarksHold(b, "notes", "notes/notes.json", b.notes)
  <2> SUFFICES ASSUME "notes" \in include PROVE MarksHold(b, "notes", "notes/notes.json", b.notes)
    BY <1>2 DEF MarksHold
  <2>1. PICK list, S : /\ list = b.notes.list
                       /\ S = {i \in DOMAIN remarks : remarks[i].at = Null \/ InRange(remarks[i].at, range)}
    OBVIOUS
  <2>2. list = ByOffset(Chosen(remarks, S))
    BY <1>2, <2>1 DEF NotesForRange, Where
  <2>3. PICK m \in Nat : m = Len(list) /\ DOMAIN list = 1..m /\ AreDistinct(list) /\ Sorted(list)
             /\ \A k \in 1..m : \E i \in DOMAIN remarks : i \in S /\ list[k] = remarks[i]
    BY <1>4, <1>5, <2>2
  <2>4. \A k \in 1..m : list[k].at = Null \/ InSelection(b, list[k].at)
    BY <1>2, <2>1, <2>3 DEF InSelection, InRange
  <2>5. ASSUME NEW k \in 1..m, k > 1 PROVE list[k - 1].at <= list[k].at
    <3>1. k - 1 \in 1..m /\ k - 1 <= k
      BY <2>5
    <3> QED BY <2>3, <3>1 DEF Sorted
  <2>6. Counted(b, "notes/notes.json", Len(list))
    BY <2>1, CountedFacts
  <2> QED BY <1>2, <2>1, <2>3, <2>4, <2>5, <2>6 DEF MarksHold
<1> QED BY <1>6, <1>7

-----------------------------------------------------------------------------
(* The receipt and the events of the range *)

\* The events of a type, of the session and of the range.
EventsTyped(d, type) == {i \in DOMAIN EventsOf(d) : EventsOf(d)[i].type = type}

\* The events of the range with their places in the session.
EventPick(b, d, range, m, e, l) ==
  /\ EventsFact(d, m) /\ l \in Nat /\ DOMAIN b.events.list = 1..l
  /\ \A k \in 1..l : e[k] \in 1..m /\ b.events.list[k] = EventsOf(d)[e[k]]
  /\ \A j \in 1..l, k \in 1..l : e[j] = e[k] => j = k
  /\ \A i \in 1..m : EventsOf(d)[i].at = Session => \E k \in 1..l : e[k] = i

LEMMA EventPicks ==
  ASSUME NEW b, NEW d, NEW s, NEW range, NEW include, NEW marks, NEW remarks,
         Built(b, d, s, range, include, marks, remarks)
  PROVE  \E m, e, l : EventPick(b, d, range, m, e, l)
<1>1. b.events.list = Chosen(EventsOf(d), EventPlaces(d, range))
  <2>1. Fields(b, d, s, range, include, marks, remarks)
    BY BundleFields
  <2> QED BY <2>1 DEF Fields
<1>2. PICK m : EventsFact(d, m)
  BY EventFacts DEF Built
<1>3. PICK ev, S, list : ev = EventsOf(d) /\ S = EventPlaces(d, range) /\ list = b.events.list
  OBVIOUS
<1>4. m = Len(ev) /\ m \in Nat /\ DOMAIN ev = 1..m
  BY <1>2, <1>3 DEF EventsFact
<1>5. PICK e : Places(e, m, S) /\ IsPick(list, ev, e)
  BY <1>1, <1>3, <1>4, ChosenFacts
<1>6. PICK l \in Nat : l = Len(e)
  BY <1>5 DEF Places, IsSeq
<1>7. DOMAIN list = 1..l /\ \A k \in 1..l : list[k] = ev[e[k]]
  BY <1>5, <1>6, SeqFacts DEF IsPick
<1>8. (\A k \in 1..l : e[k] \in 1..m) /\ \A j \in 1..l, k \in 1..l : j < k => e[j] < e[k]
  BY <1>5, <1>6 DEF Places
<1>9. \A j \in 1..l, k \in 1..l : e[j] = e[k] => j = k
  BY <1>4, <1>8
<1>10. \A i \in 1..m : ev[i].at = Session => \E k \in 1..l : e[k] = i
  <2>1. \A i \in 1..m : ev[i].at = Session => i \in S
    BY <1>3, <1>4 DEF EventPlaces
  <2> QED BY <1>5, <1>6, <2>1 DEF Places
<1>11. EventPick(b, d, range, m, e, l)
  BY <1>2, <1>3, <1>6, <1>7, <1>8, <1>9, <1>10 DEF EventPick
<1> QED BY <1>11

LEMMA OneCounts ==
  ASSUME NEW L, \A j \in L, k \in L : j = k
  PROVE  Cardinality(L) <= 1 /\ (L = {} => Cardinality(L) = 0) /\ (L # {} => Cardinality(L) = 1)
<1>1. CASE L = {}
  BY <1>1, FS_EmptySet
<1>2. CASE L # {}
  <2>1. PICK x : x \in L
    BY <1>2
  <2>2. L = {x}
    BY <2>1
  <2> QED BY <1>2, <2>2, FS_Singleton
<1> QED BY <1>1, <1>2

\* If only one event of the session is asked for, the range has one of them at most; and it has it if it must.
LEMMA TypedFacts ==
  ASSUME NEW b, NEW d, NEW s, NEW range, NEW include, NEW marks, NEW remarks,
         Built(b, d, s, range, include, marks, remarks), NEW type
  PROVE  /\ \A k \in OfType(b, type) : \E i \in EventsTyped(d, type) : b.events.list[k] = EventsOf(d)[i]
         /\ EventsTyped(d, type) = {} => OfType(b, type) = {}
         /\ One(EventsTyped(d, type)) => Cardinality(OfType(b, type)) <= 1
         /\ type \in SessionScoped /\ One(EventsTyped(d, type)) /\ EventsTyped(d, type) # {} =>
              Cardinality(OfType(b, type)) = 1
<1>1. PICK m, e, l : EventPick(b, d, range, m, e, l)
  BY EventPicks
<1>2. PICK ev, list, T, L : ev = EventsOf(d) /\ list = b.events.list /\ T = EventsTyped(d, type) /\ L = OfType(b, type)
  OBVIOUS
<1>3. DOMAIN ev = 1..m /\ DOMAIN list = 1..l /\ \A k \in 1..l : e[k] \in 1..m /\ list[k] = ev[e[k]]
  BY <1>1, <1>2 DEF EventPick, EventsFact
<1>4. T = {i \in 1..m : ev[i].type = type} /\ L = {k \in 1..l : list[k].type = type}
  BY <1>2, <1>3 DEF EventsTyped, OfType
<1>5. \A k \in L : e[k] \in T /\ list[k] = ev[e[k]]
  BY <1>3, <1>4
<1>6. One(T) => \A j \in L, k \in L : j = k
  <2>1. \A j \in 1..l, k \in 1..l : e[j] = e[k] => j = k
    BY <1>1 DEF EventPick
  <2> QED BY <1>4, <1>5, <2>1 DEF One
<1>7. T = {} => L = {}
  BY <1>5
<1>8. type \in SessionScoped /\ T # {} => L # {}
  <2> SUFFICES ASSUME type \in SessionScoped, T # {} PROVE L # {}
    OBVIOUS
  <2>1. PICK i \in 1..m : i \in T /\ ev[i].type = type
    BY <1>4
  <2>2. ev[i].at = Session
    BY <1>1, <1>2, <2>1 DEF EventPick, EventsFact, IsEvent
  <2>3. PICK k \in 1..l : e[k] = i
    BY <1>1, <1>2, <2>1, <2>2 DEF EventPick
  <2>4. k \in L
    BY <1>3, <1>4, <2>1, <2>3
  <2> QED BY <2>4
<1> QED BY <1>2, <1>5, <1>6, <1>7, <1>8, OneCounts

\* What validateSessionDocument asks of a live session, of the document itself.
Represents(r, S) == One(S) /\ (r.complete => S # {})
LiveFact(d) ==
  LET r == d.receipt  T(type) == EventsTyped(d, type)  mismatch == MismatchCode(d.source)
      S == {i \in T("capture-limit") : d.events[i].detail = <<"duration">>}
      agree == IF d.source = "serial" THEN r.bytes = r.observed[2]
               ELSE r.observed = r.reported /\ <<r.records, r.bytes>> = r.observed
  IN /\ EventsOf(d) = d.events /\ ReceiptOf(d) = r
     /\ r.status \in {"verified", "incomplete"} /\ r.codes \subseteq IssueCodes(d.source)
     /\ r.complete = ("event-log-incomplete" \notin r.codes)
     /\ r.complete => \A c \in r.codes \cap EventCodes : T(c) # {}
     /\ (r.stop = "unconfirmed") = ("shutdown-unconfirmed" \in r.codes)
     /\ IF r.stop = "unconfirmed" THEN Represents(r, T("shutdown-unconfirmed")) ELSE T("shutdown-unconfirmed") = {}
     /\ IF "duration-capped" \in r.codes THEN Represents(r, S) ELSE S = {}
     /\ (r.status = "verified") = (r.stop = "confirmed" /\ r.complete /\ r.codes = {} /\ d.events = <<>>)
     /\ r.basis = "recorder-only" => RecorderOnly(d)
     /\ r.basis # "recorder-only" =>
          /\ r.basis \in Bases(d.source) /\ CountersFit(d)
          /\ \A i \in T(mismatch) : d.events[i].detail = <<r.reported, r.observed, <<r.records, r.bytes>>>>
          /\ r.basis = "udp-browser-observed" =>
               /\ r.status = "incomplete" /\ r.stop = "unconfirmed" /\ r.reported = NotReported
               /\ mismatch \notin r.codes /\ T(mismatch) = {}
          /\ r.basis # "udp-browser-observed" /\ agree => mismatch \notin r.codes /\ T(mismatch) = {}
          /\ r.basis # "udp-browser-observed" /\ ~agree => mismatch \in r.codes /\ Represents(r, T(mismatch))

LEMMA LiveFacts ==
  ASSUME NEW d, IsDocument(d), Valid(d), d.version = 2, d.source # "file"
  PROVE  LiveFact(d)
<1>1. LiveEvidence(d)
  BY DEF Valid
<1>2. EventsOf(d) = d.events /\ ReceiptOf(d) = d.receipt
  BY DEF EventsOf, ReceiptOf, NormalizedEvidence
<1>3. \A type : EventsTyped(d, type) = Typed(d, type)
  BY <1>2 DEF EventsTyped, Typed
<1>4. PICK f, r : f = Flat(d) /\ r = d.receipt
  OBVIOUS
<1>5. /\ f.source = d.source /\ f.events = d.events /\ f.codes = r.codes
      /\ f.status = r.status /\ f.basis = r.basis /\ f.stop = r.stop /\ f.complete = r.complete
      /\ f.observed = r.observed /\ f.reported = r.reported /\ f.records = r.records /\ f.bytes = r.bytes
      /\ \A type : Typed(f, type) = EventsTyped(d, type)
  BY <1>3, <1>4, FlatFacts
<1>6. /\ r.status \in {"verified", "incomplete"} /\ r.codes \subseteq IssueCodes(d.source)
      /\ EventsAreCoded(f) /\ ShutdownAgrees(f) /\ DurationAgrees(f) /\ StatusAgrees(f)
      /\ IF r.basis = "recorder-only" THEN RecorderOnly(d)
         ELSE r.basis \in Bases(d.source) /\ CountersFit(d) /\ CountersAgree(f)
  BY <1>1, <1>4 DEF LiveEvidence
<1>7. /\ r.complete = ("event-log-incomplete" \notin r.codes)
      /\ r.complete => \A c \in r.codes \cap EventCodes : EventsTyped(d, c) # {}
  BY <1>5, <1>6 DEF EventsAreCoded
<1>8. \A S : Represented(f, S) = Represents(r, S)
  BY <1>5 DEF Represented, Represents
<1>9. /\ (r.stop = "unconfirmed") = ("shutdown-unconfirmed" \in r.codes)
      /\ IF r.stop = "unconfirmed" THEN Represents(r, EventsTyped(d, "shutdown-unconfirmed"))
         ELSE EventsTyped(d, "shutdown-unconfirmed") = {}
  BY <1>5, <1>6, <1>8 DEF ShutdownAgrees
<1>10. LET S == {i \in EventsTyped(d, "capture-limit") : d.events[i].detail = <<"duration">>} IN
       IF "duration-capped" \in r.codes THEN Represents(r, S) ELSE S = {}
  <2>1. PICK S : S = {i \in EventsTyped(d, "capture-limit") : d.events[i].detail = <<"duration">>}
    OBVIOUS
  <2>2. {i \in Typed(f, "capture-limit") : f.events[i].detail = <<"duration">>} = S
    BY <1>5, <2>1
  <2>3. IF "duration-capped" \in f.codes THEN Represented(f, S) ELSE S = {}
    BY <1>6, <2>2, Zenon DEF DurationAgrees
  <2> QED BY <1>5, <1>8, <2>1, <2>3
<1>11. (r.status = "verified") = (r.stop = "confirmed" /\ r.complete /\ r.codes = {} /\ d.events = <<>>)
  BY <1>5, <1>6 DEF StatusAgrees
<1>12. PICK mismatch, T, agree :
         /\ mismatch = MismatchCode(d.source) /\ T = EventsTyped(d, mismatch)
         /\ agree = IF d.source = "serial" THEN r.bytes = r.observed[2]
                    ELSE r.observed = r.reported /\ <<r.records, r.bytes>> = r.observed
  OBVIOUS
<1>13. ASSUME r.basis # "recorder-only"
       PROVE  /\ r.basis \in Bases(d.source) /\ CountersFit(d)
              /\ \A i \in T : d.events[i].detail = <<r.reported, r.observed, <<r.records, r.bytes>>>>
              /\ r.basis = "udp-browser-observed" =>
                   /\ r.status = "incomplete" /\ r.stop = "unconfirmed" /\ r.reported = NotReported
                   /\ mismatch \notin r.codes /\ T = {}
              /\ r.basis # "udp-browser-observed" /\ agree => mismatch \notin r.codes /\ T = {}
              /\ r.basis # "udp-browser-observed" /\ ~agree => mismatch \in r.codes /\ Represents(r, T)
  <2>1. CountersAgree(f)
    BY <1>6, <1>13
  <2>2. mismatch = IF f.source = "serial" THEN "serial-counter-mismatch" ELSE "udp-counter-mismatch"
    BY <1>5, <1>12 DEF MismatchCode
  <2>3. T = Typed(f, mismatch)
    BY <1>5, <1>12
  <2>4. agree = IF f.source = "serial" THEN f.bytes = f.observed[2]
                ELSE f.observed = f.reported /\ <<f.records, f.bytes>> = f.observed
    BY <1>5, <1>12
  <2>5. /\ \A i \in T : f.events[i].detail = <<f.reported, f.observed, <<f.records, f.bytes>>>>
        /\ IF f.basis = "udp-browser-observed"
           THEN f.status = "incomplete" /\ f.stop = "unconfirmed" /\ f.reported = NotReported
                /\ mismatch \notin f.codes /\ T = {}
           ELSE IF agree THEN mismatch \notin f.codes /\ T = {}
           ELSE mismatch \in f.codes /\ Represented(f, T)
    BY <2>1, <2>2, <2>3, <2>4 DEF CountersAgree
  <2> QED BY <1>5, <1>6, <1>8, <1>13, <2>5
<1> QED BY <1>2, <1>4, <1>6, <1>7, <1>9, <1>10, <1>11, <1>12, <1>13 DEF LiveFact

\* A receipt nobody assessed: of an imported file, or of a session of version 1.
LEMMA UnassessedFacts ==
  ASSUME NEW d, IsDocument(d), Valid(d), d.version = 1 \/ d.source = "file"
  PROVE  /\ EventsOf(d) = <<>> /\ \A type : EventsTyped(d, type) = {}
         /\ ReceiptOf(d) = IF d.version = 1 THEN Unassessed("legacy-v1", "legacy-session-unassessed", d.rows)
                           ELSE Unassessed("file-source-unassessed", "file-source-unassessed", d.rows)
<1>1. EventsOf(d) = <<>> /\ ReceiptOf(d) = IF d.version = 1 THEN Unassessed("legacy-v1", "legacy-session-unassessed", d.rows)
                           ELSE Unassessed("file-source-unassessed", "file-source-unassessed", d.rows)
  <2>1. CASE d.version = 1
    <3>1. NormalizedEvidence(d) = [events |-> <<>>, receipt |-> Unassessed("legacy-v1", "legacy-session-unassessed", d.rows)]
      BY <2>1 DEF NormalizedEvidence
    <3> QED BY <2>1, <3>1 DEF EventsOf, ReceiptOf
  <2>2. CASE d.version # 1
    <3>1. d.version = 2 /\ d.source = "file"
      BY <2>2 DEF IsDocument
    <3>2. FileEvidence(d)
      BY <3>1 DEF Valid
    <3> QED BY <2>2, <3>1, <3>2 DEF FileEvidence, EventsOf, ReceiptOf, NormalizedEvidence
  <2> QED BY <2>1, <2>2
<1>2. DOMAIN EventsOf(d) = {}
  BY <1>1
<1> QED BY <1>1, <1>2 DEF EventsTyped

LEMMA ReceiptTotals ==
  ASSUME NEW d, IsDocument(d), Valid(d)
  PROVE  ReceiptOf(d).records = Len(d.rows) /\ ReceiptOf(d).bytes = Total(d.rows)
<1>1. CASE d.version = 1
  BY <1>1, UnassessedFacts DEF Unassessed
<1>2. CASE d.version = 2
  BY <1>2 DEF Valid, ReceiptOf, NormalizedEvidence
<1> QED BY <1>1, <1>2 DEF IsDocument

LEMMA TotalFacts ==
  ASSUME NEW rows, NEW v, v = [i \in 1..Len(rows) |-> rows[i].size]
  PROVE  Total(rows) = Sum(v)
<1>1. [i \in 1..Len(rows) |-> Size(rows[i])] = v
  BY DEF Size
<1>2. Total(rows) = Sum([i \in 1..Len(rows) |-> Size(rows[i])])
  BY DEF Total, SumOf
<1> QED BY <1>1, <1>2

\* The totals of what is kept of the rows.
LEMMA ChosenTotals ==
  ASSUME NEW rows, IsSeq(rows), \A i \in 1..Len(rows) : rows[i].size \in Nat, NEW S, NEW kept, kept = Chosen(rows, S)
  PROVE  /\ Len(kept) \in Nat /\ Len(kept) <= Len(rows)
         /\ Total(kept) \in Nat /\ Total(rows) \in Nat /\ Total(kept) <= Total(rows)
         /\ Len(kept) = Len(rows) => kept = rows
<1>1. PICK n \in Nat : n = Len(rows)
  BY DEF IsSeq
<1>2. PICK e : e = At(n, S)
  OBVIOUS
<1>3. Places(e, n, S) /\ IsPick(kept, rows, e)
  BY <1>1, <1>2, ChosenFacts
<1>4. PICK l \in Nat : l = Len(e) /\ l <= n
  BY <1>3 DEF Places, IsSeq
<1>5. IsSeq(kept) /\ Len(kept) = l /\ \A k \in 1..l : kept[k] = rows[e[k]]
  BY <1>3, <1>4 DEF IsPick
<1>6. PICK v : v = [i \in 1..n |-> rows[i].size]
  OBVIOUS
<1>7. IsSeq(v) /\ Len(v) = n
  <2>1. v = [i \in 1..n |-> v[i]]
    BY <1>6
  <2> QED BY <2>1, GivenFacts
<1>8. PICK w : w = [k \in 1..l |-> kept[k].size]
  OBVIOUS
<1>9. IsSeq(w) /\ Len(w) = l
  <2>1. w = [k \in 1..l |-> w[k]]
    BY <1>8
  <2> QED BY <2>1, GivenFacts
<1>10. PICK c : c = Chosen(v, S)
  OBVIOUS
<1>11. IsPick(c, v, e)
  BY <1>2, <1>7, <1>10, ChosenFacts
<1>12. \A k \in 1..l : e[k] \in 1..n
  BY <1>3, <1>4 DEF Places
<1>13. IsSeq(c) /\ Len(c) = l /\ \A k \in 1..l : c[k] = w[k]
  BY <1>4, <1>5, <1>6, <1>8, <1>11, <1>12 DEF IsPick
<1>14. c = w
  BY <1>9, <1>13, SeqEqual
<1>15. \A i \in 1..n : v[i] \in Nat
  BY <1>1, <1>6
<1>16. Sum(c) \in Nat /\ Sum(v) \in Nat /\ Sum(c) <= Sum(v)
  BY <1>7, <1>10, <1>15, SumChosen
<1>17. Total(rows) = Sum(v) /\ Total(kept) = Sum(w)
  BY <1>1, <1>5, <1>6, <1>8, TotalFacts
<1>18. Len(kept) = Len(rows) => kept = rows
  BY ChosenAll
<1> QED BY <1>1, <1>4, <1>5, <1>14, <1>16, <1>17, <1>18

LEMMA TotalsVerify ==
  ASSUME NEW b, NEW d, NEW s, NEW range, NEW include, NEW marks, NEW remarks,
         Built(b, d, s, range, include, marks, remarks)
  PROVE  TotalsHold(b)
<1>1. /\ b.raw = (IF "raw" \in include THEN Chosen(d.rows, RowPlaces(d, range)) ELSE <<>>)
      /\ b.receipt = ReceiptOf(d) /\ b.include = include
  <2>1. Fields(b, d, s, range, include, marks, remarks)
    BY BundleFields
  <2> QED BY <2>1 DEF Fields
<1>2. b.receipt.records = Len(d.rows) /\ b.receipt.bytes = Total(d.rows)
  BY <1>1, ReceiptTotals DEF Built
<1>3. RowsFact(d, Len(d.rows))
  BY RowFacts DEF Built
<1>4. PICK rows, kept : rows = d.rows /\ kept = Chosen(rows, RowPlaces(d, range))
  OBVIOUS
<1>5. IsSeq(rows) /\ Len(rows) \in Nat /\ \A i \in 1..Len(rows) : rows[i].size \in Nat
  BY <1>3, <1>4 DEF RowsFact, IsRow
<1>6. /\ Len(kept) \in Nat /\ Len(kept) <= Len(rows)
      /\ Total(kept) \in Nat /\ Total(rows) \in Nat /\ Total(kept) <= Total(rows)
      /\ Len(kept) = Len(rows) => kept = rows
  BY <1>4, <1>5, ChosenTotals
<1>7. CASE Raw(b)
  <2>1. b.raw = kept
    BY <1>1, <1>4, <1>7 DEF Raw
  <2> QED BY <1>2, <1>4, <1>6, <2>1 DEF TotalsHold
<1>8. CASE ~Raw(b)
  <2>1. b.raw = <<>>
    BY <1>1, <1>8 DEF Raw
  <2>2. PICK none : none = <<>>
    OBVIOUS
  <2>3. IsSeq(none) /\ Len(none) = 0
    BY <2>2, FewFacts
  <2>4. Total(none) = 0
    <3>1. PICK v : v = [i \in 1..0 |-> none[i].size]
      OBVIOUS
    <3>2. v = [i \in 1..0 |-> v[i]]
      BY <3>1
    <3>3. IsSeq(v) /\ Len(v) = 0
      BY <3>2, GivenFacts
    <3>4. v = none
      <4>1. \A i \in 1..0 : v[i] = none[i]
        OBVIOUS
      <4> QED BY <2>3, <3>3, <4>1, SeqEqual
    <3>5. v = [i \in 1..Len(none) |-> none[i].size]
      BY <2>3, <3>1
    <3>6. Total(none) = Sum(v)
      BY <3>5, TotalFacts
    <3>7. Sum(v) = Sum(<<>>)
      BY <2>2, <3>4
    <3> QED BY <3>6, <3>7, SumOfNone
  <2> QED BY <1>2, <1>4, <1>5, <1>6, <1>8, <2>1, <2>2, <2>3, <2>4 DEF TotalsHold
<1> QED BY <1>7, <1>8

LEMMA StatusVerifies ==
  ASSUME NEW b, NEW d, NEW s, NEW range, NEW include, NEW marks, NEW remarks,
         Built(b, d, s, range, include, marks, remarks)
  PROVE  StatusHolds(b)
<1>1. /\ b.receipt = ReceiptOf(d) /\ b.session.version = d.version
      /\ b.events.list = Chosen(EventsOf(d), EventPlaces(d, range))
  <2>1. Fields(b, d, s, range, include, marks, remarks)
    BY BundleFields
  <2> QED BY <2>1 DEF Fields
<1>2. IsDocument(d) /\ Valid(d)
  BY DEF Built
<1>3. CASE d.version = 1 \/ d.source = "file"
  <2>1. PICK r : r = b.receipt
    OBVIOUS
  <2>2. r.status = "unknown" /\ (d.version = 1 \/ r.basis = "file-source-unassessed")
    BY <1>1, <1>2, <1>3, <2>1, UnassessedFacts DEF Unassessed
  <2> QED BY <1>1, <2>1, <2>2 DEF StatusHolds
<1>4. CASE d.version = 2 /\ d.source # "file"
  <2>1. PICK r : r = d.receipt
    OBVIOUS
  <2>2. /\ EventsOf(d) = d.events /\ b.receipt = r /\ r.status \in {"verified", "incomplete"}
        /\ (r.status = "verified") = (r.stop = "confirmed" /\ r.complete /\ r.codes = {} /\ d.events = <<>>)
    BY <1>1, <1>2, <1>4, <2>1, LiveFacts DEF LiveFact
  <2>3. CASE r.status = "verified"
    <3>1. PICK none : none = <<>>
      OBVIOUS
    <3>2. IsSeq(none) /\ Len(none) = 0
      BY <3>1, FewFacts
    <3>3. \A S : Chosen(none, S) = none
      <4>1. \A S : \A i \in 1..0 : i \in S
        OBVIOUS
      <4> QED BY <3>2, <4>1, ChosenAll
    <3>4. b.events.list = <<>>
      BY <1>1, <2>2, <2>3, <3>1, <3>3
    <3> QED BY <2>2, <2>3, <3>4 DEF StatusHolds
  <2>4. CASE r.status = "incomplete"
    <3>1. d.events # <<>> => r.codes # {}
      <4>1. PICK m : EventsFact(d, m)
        BY <1>2, EventFacts
      <4>2. IsSeq(d.events) /\ m = Len(d.events) /\ m \in Nat /\ \A i \in 1..m : d.events[i].type \in r.codes
        BY <1>1, <2>2, <4>1 DEF EventsFact
      <4>3. m = 0 => d.events = <<>>
        <5>1. IsSeq(<<>>) /\ Len(<<>>) = 0
          BY FewFacts
        <5>2. \A i \in 1..0 : d.events[i] = <<>>[i]
          OBVIOUS
        <5> QED BY <4>2, <5>1, <5>2, SeqEqual
      <4>4. m # 0 => 1 \in 1..m
        BY <4>2
      <4> QED BY <4>2, <4>3, <4>4
    <3> QED BY <2>2, <2>4, <3>1 DEF StatusHolds
  <2> QED BY <2>2, <2>3, <2>4
<1> QED BY <1>2, <1>3, <1>4 DEF IsDocument

LEMMA BasisVerifies ==
  ASSUME NEW b, NEW d, NEW s, NEW range, NEW include, NEW marks, NEW remarks,
         Built(b, d, s, range, include, marks, remarks)
  PROVE  BasisHolds(b)
<1>1. b.receipt = ReceiptOf(d) /\ b.session.version = d.version /\ b.session.source = d.source
  <2>1. Fields(b, d, s, range, include, marks, remarks)
    BY BundleFields
  <2> QED BY <2>1 DEF Fields
<1>2. IsDocument(d) /\ Valid(d)
  BY DEF Built
<1>3. CASE d.version = 1 \/ d.source = "file"
  <2>1. PICK r : r = b.receipt
    OBVIOUS
  <2>2. CASE d.version = 1
    <3>1. IsUnassessed(r, "legacy-v1", "legacy-session-unassessed")
      BY <1>1, <1>2, <1>3, <2>1, <2>2, UnassessedFacts DEF Unassessed, IsUnassessed
    <3> QED BY <1>1, <2>1, <2>2, <3>1 DEF BasisHolds
  <2>3. CASE d.version # 1
    <3>1. IsUnassessed(r, "file-source-unassessed", "file-source-unassessed")
      BY <1>1, <1>2, <1>3, <2>1, <2>3, UnassessedFacts DEF Unassessed, IsUnassessed
    <3> QED BY <1>1, <1>3, <2>1, <2>3, <3>1 DEF BasisHolds
  <2> QED BY <2>2, <2>3
<1>4. CASE d.version = 2 /\ d.source # "file"
  <2>1. PICK r, mismatch, agree, T :
          /\ r = d.receipt /\ mismatch = MismatchCode(d.source) /\ T = EventsTyped(d, mismatch)
          /\ agree = IF d.source = "serial" THEN r.bytes = r.observed[2]
                     ELSE r.observed = r.reported /\ <<r.records, r.bytes>> = r.observed
    OBVIOUS
  <2>2. LiveFact(d)
    BY <1>2, <1>4, LiveFacts
  <2>3. /\ b.receipt = r /\ r.codes \subseteq IssueCodes(d.source) /\ d.source \in {"udp", "serial"}
        /\ EventsOf(d) = d.events
        /\ r.basis = "recorder-only" => RecorderOnly(d)
    BY <1>1, <1>2, <1>4, <2>1, <2>2 DEF LiveFact, IsDocument
  <2>4. ASSUME r.basis # "recorder-only"
        PROVE  /\ r.basis \in Bases(d.source) /\ CountersFit(d)
               /\ r.basis = "udp-browser-observed" =>
                    /\ r.status = "incomplete" /\ r.stop = "unconfirmed" /\ r.reported = NotReported
                    /\ mismatch \notin r.codes /\ T = {}
               /\ r.basis # "udp-browser-observed" /\ agree => mismatch \notin r.codes /\ T = {}
               /\ r.basis # "udp-browser-observed" /\ ~agree => mismatch \in r.codes /\ Represents(r, T)
    BY <2>1, <2>2, <2>4 DEF LiveFact
  <2>5. PICK L : L = OfType(b, mismatch)
    OBVIOUS
  <2>6. mismatch \in SessionScoped
    BY <2>1 DEF MismatchCode, SessionScoped
  <2>7. /\ T = {} => L = {}
        /\ One(T) => Cardinality(L) <= 1
        /\ One(T) /\ T # {} => Cardinality(L) = 1
    BY <2>1, <2>5, <2>6, TypedFacts
  <2>8. (mismatch \notin r.codes /\ T = {}) => Mismatched(b, TRUE)
    BY <1>1, <2>1, <2>3, <2>5, <2>7 DEF Mismatched
  <2>9. ASSUME r.basis # "recorder-only", r.basis # "udp-browser-observed" PROVE Mismatched(b, agree)
    <3>1. CASE agree
      <4>1. mismatch \notin r.codes /\ L = {}
        BY <2>4, <2>7, <2>9, <3>1
      <4>2. agree = TRUE
        BY <2>1, <3>1
      <4>3. Mismatched(b, TRUE)
        BY <1>1, <2>1, <2>3, <2>5, <4>1 DEF Mismatched
      <4> QED BY <4>2, <4>3
    <3>2. CASE ~agree
      <4>1. mismatch \in r.codes /\ Cardinality(L) <= 1 /\ (r.complete => Cardinality(L) = 1)
        BY <2>4, <2>7, <2>9, <3>2 DEF Represents
      <4> QED BY <1>1, <2>1, <2>3, <2>5, <3>2, <4>1 DEF Mismatched
    <3> QED BY <3>1, <3>2
  <2>10. r.basis = "recorder-only" => Unobserved(b)
    <3> SUFFICES ASSUME r.basis = "recorder-only" PROVE Unobserved(b)
      OBVIOUS
    <3>1. RecorderOnly(d)
      BY <2>3
    <3>2. \A type : EventsTyped(d, type) = Typed(d, type)
      BY <2>3 DEF EventsTyped, Typed
    <3>3. mismatch \notin r.codes /\ T = {}
      BY <2>1, <3>1, <3>2 DEF RecorderOnly
    <3> QED BY <2>1, <2>3, <2>8, <3>1, <3>3 DEF Unobserved, RecorderOnly
  <2>11. CASE d.source = "udp"
    <3>1. r.codes \subseteq IssueCodes("udp")
      BY <2>3, <2>11
    <3>2. CASE r.basis = "udp-bridge-reconciled"
      <4>1. CountersFit(d)
        BY <2>4, <3>2
      <4>2. Null \notin {r.observed[1], r.observed[2], r.reported[1], r.reported[2]}
        BY <2>1, <3>2, <4>1 DEF CountersFit
      <4>3. PICK same : same = (r.observed = r.reported /\ <<r.records, r.bytes>> = r.observed)
        OBVIOUS
      <4>4. Mismatched(b, same)
        <5>1. Mismatched(b, agree)
          BY <2>9, <3>2
        <5>2. agree = same
          BY <2>1, <2>11, <4>3
        <5> QED BY <5>1, <5>2
      <4> QED BY <2>3, <3>1, <3>2, <4>2, <4>3, <4>4, <1>1, <1>4, <2>11 DEF BasisHolds, UdpReceiptHolds
    <3>3. CASE r.basis = "udp-browser-observed"
      <4>1. /\ CountersFit(d) /\ r.status = "incomplete" /\ r.stop = "unconfirmed" /\ r.reported = NotReported
            /\ mismatch \notin r.codes /\ T = {}
        BY <2>4, <3>3
      <4>2. Null \notin {r.observed[1], r.observed[2]}
        BY <2>1, <4>1 DEF CountersFit
      <4>3. Mismatched(b, TRUE)
        BY <2>8, <4>1
      <4>4. UdpReceiptHolds(b)
        <5>1. b.receipt = r
          BY <2>3
        <5>2. b.receipt.basis # "udp-bridge-reconciled"
          BY <3>3, <5>1
        <5>3. /\ b.receipt.status = "incomplete" /\ b.receipt.stop = "unconfirmed" /\ b.receipt.reported = NotReported
              /\ Null \notin {b.receipt.observed[1], b.receipt.observed[2]} /\ b.receipt.codes \subseteq IssueCodes("udp")
          BY <3>1, <4>1, <4>2, <5>1
        <5> QED BY <3>3, <4>3, <5>1, <5>2, <5>3 DEF UdpReceiptHolds
      <4> QED BY <1>1, <1>4, <2>11, <4>4 DEF BasisHolds
    <3>4. CASE r.basis = "recorder-only"
      <4>1. Unobserved(b)
        BY <2>10, <3>4
      <4> QED BY <2>3, <3>1, <3>4, <4>1, <1>1, <1>4, <2>11 DEF BasisHolds, UdpReceiptHolds
    <3>5. r.basis \in {"udp-bridge-reconciled", "udp-browser-observed", "recorder-only"}
      <4>1. r.basis # "recorder-only" => r.basis \in Bases("udp")
        BY <2>4, <2>11
      <4> QED BY <4>1 DEF Bases
    <3> QED BY <3>2, <3>3, <3>4, <3>5
  <2>12. CASE d.source = "serial"
    <3>1. r.codes \subseteq IssueCodes("serial")
      BY <2>3, <2>12
    <3>2. CASE r.basis = "recorder-only"
      <4>1. Unobserved(b)
        BY <2>10, <3>2
      <4> QED BY <2>3, <3>1, <3>2, <4>1, <1>1, <1>4, <2>12 DEF BasisHolds, SerialReceiptHolds
    <3>3. CASE r.basis # "recorder-only"
      <4>1. r.basis \in Bases("serial") /\ CountersFit(d)
        BY <2>4, <2>12, <3>3
      <4>2. r.basis = "web-serial-observed"
        BY <4>1 DEF Bases
      <4>3. Null \notin {r.observed[1], r.observed[2]} /\ r.reported = NotReported
        BY <2>1, <4>1, <4>2 DEF CountersFit
      <4>4. PICK same : same = (r.bytes = r.observed[2])
        OBVIOUS
      <4>5. Mismatched(b, same)
        <5>1. Mismatched(b, agree)
          BY <2>9, <4>2
        <5>2. agree = same
          BY <2>1, <2>12, <4>4
        <5> QED BY <5>1, <5>2
      <4> QED BY <2>3, <3>1, <4>2, <4>3, <4>4, <4>5, <1>1, <1>4, <2>12 DEF BasisHolds, SerialReceiptHolds
    <3> QED BY <3>2, <3>3
  <2> QED BY <2>3, <2>11, <2>12
<1> QED BY <1>2, <1>3, <1>4 DEF IsDocument

-----------------------------------------------------------------------------
(* What the verifier asks of both *)

\* A mismatch or kernel drops that a complete log names are one event of it.
LEMMA NamedOnce ==
  ASSUME NEW d, IsDocument(d), Valid(d), d.version = 2, d.source # "file", d.receipt.complete,
         NEW type \in {"udp-counter-mismatch", "udp-kernel-drops-observed", "serial-counter-mismatch"},
         type \in d.receipt.codes
  PROVE  One(EventsTyped(d, type)) /\ EventsTyped(d, type) # {}
<1>1. LiveFact(d)
  BY LiveFacts
<1>2. PICK r, mismatch, agree, T :
        /\ r = d.receipt /\ mismatch = MismatchCode(d.source) /\ T = EventsTyped(d, type)
        /\ agree = IF d.source = "serial" THEN r.bytes = r.observed[2]
                   ELSE r.observed = r.reported /\ <<r.records, r.bytes>> = r.observed
  OBVIOUS
<1>3. r.codes \subseteq IssueCodes(d.source) /\ T # {}
  <2>1. type \in EventCodes
    BY DEF EventCodes
  <2>2. \A c \in r.codes \cap EventCodes : EventsTyped(d, c) # {}
    BY <1>1, <1>2 DEF LiveFact
  <2>3. r.codes \subseteq IssueCodes(d.source)
    BY <1>1, <1>2 DEF LiveFact
  <2> QED BY <1>2, <2>1, <2>2, <2>3
<1>4. d.source \in {"udp", "serial"}
  BY DEF IsDocument
<1>5. CASE type = mismatch
  <2>1. r.basis # "recorder-only"
    <3> SUFFICES ASSUME r.basis = "recorder-only" PROVE FALSE
      OBVIOUS
    <3>1. RecorderOnly(d)
      BY <1>1, <1>2 DEF LiveFact
    <3> QED BY <1>2, <1>5, <3>1 DEF RecorderOnly
  <2>2. /\ r.basis = "udp-browser-observed" => mismatch \notin r.codes
        /\ r.basis # "udp-browser-observed" /\ agree => mismatch \notin r.codes
        /\ r.basis # "udp-browser-observed" /\ ~agree => Represents(r, EventsTyped(d, mismatch))
    BY <1>1, <1>2, <2>1 DEF LiveFact
  <2> QED BY <1>2, <1>5, <2>2 DEF Represents
<1>6. CASE type # mismatch
  <2>1. d.source = "udp" /\ type = "udp-kernel-drops-observed"
    BY <1>2, <1>3, <1>4, <1>6 DEF IssueCodes, CaptureCodes, MismatchCode
  <2>2. \A c : EventsTyped(d, c) = Typed(d, c)
    BY <1>1 DEF LiveFact, EventsTyped, Typed
  <2>3. CASE d.prov = NoProvenance
    BY <1>2, <1>3, <2>1, <2>2, <2>3 DEF IsDocument
  <2>4. CASE d.prov # NoProvenance
    <3>1. PICK f : f = Flat(d)
      OBVIOUS
    <3>2. DropsAgree(f)
      BY <2>1, <2>4, <3>1 DEF Valid, ProvenanceIsSound
    <3>3. f.codes = r.codes /\ Typed(f, type) = T
      BY <1>2, <2>2, <3>1, FlatFacts
    <3> QED BY <1>2, <1>3, <2>1, <3>2, <3>3 DEF DropsAgree, Represented
  <2> QED BY <2>3, <2>4
<1> QED BY <1>5, <1>6

\* The events of the range about the limit of the duration.
Limits(b) == {i \in OfType(b, "capture-limit") : b.events.list[i].detail = <<"duration">>}

LEMMA LimitFacts ==
  ASSUME NEW b, NEW d, NEW s, NEW range, NEW include, NEW marks, NEW remarks,
         Built(b, d, s, range, include, marks, remarks), LiveFact(d)
  PROVE  Cardinality(Limits(b)) <= 1 /\ (Limits(b) # {} => "duration-capped" \in d.receipt.codes)
<1>1. PICK m, e, l : EventPick(b, d, range, m, e, l)
  BY EventPicks
<1>2. PICK ev, list, S, L :
        /\ ev = EventsOf(d) /\ list = b.events.list /\ L = Limits(b)
        /\ S = {i \in EventsTyped(d, "capture-limit") : d.events[i].detail = <<"duration">>}
  OBVIOUS
<1>3. DOMAIN ev = 1..m /\ DOMAIN list = 1..l /\ \A k \in 1..l : e[k] \in 1..m /\ list[k] = ev[e[k]]
  BY <1>1, <1>2 DEF EventPick, EventsFact
<1>4. /\ ev = d.events
      /\ "duration-capped" \in d.receipt.codes => One(S)
      /\ "duration-capped" \notin d.receipt.codes => S = {}
  BY <1>2 DEF LiveFact, Represents
<1>5. S = {i \in 1..m : ev[i].type = "capture-limit" /\ ev[i].detail = <<"duration">>}
  BY <1>2, <1>3, <1>4 DEF EventsTyped
<1>6. L = {k \in 1..l : list[k].type = "capture-limit" /\ list[k].detail = <<"duration">>}
  BY <1>2, <1>3 DEF OfType, Limits
<1>7. \A k \in L : e[k] \in S
  BY <1>3, <1>5, <1>6
<1>8. \A j \in L, k \in L : j = k
  <2>1. \A j \in 1..l, k \in 1..l : e[j] = e[k] => j = k
    BY <1>1 DEF EventPick
  <2> QED BY <1>4, <1>6, <1>7, <2>1 DEF One
<1>9. Cardinality(L) <= 1
  BY <1>8, OneCounts
<1> QED BY <1>2, <1>4, <1>7, <1>9

LEMMA ReceiptEventsVerify ==
  ASSUME NEW b, NEW d, NEW s, NEW range, NEW include, NEW marks, NEW remarks,
         Built(b, d, s, range, include, marks, remarks)
  PROVE  ReceiptEventsHold(b)
<1>1. b.receipt = ReceiptOf(d) /\ b.session.version = d.version /\ b.session.source = d.source
  <2>1. Fields(b, d, s, range, include, marks, remarks)
    BY BundleFields
  <2> QED BY <2>1 DEF Fields
<1>2. IsDocument(d) /\ Valid(d)
  BY DEF Built
<1>3. PICK r, shutdown, limits, mismatch :
        /\ r = b.receipt /\ shutdown = Cardinality(OfType(b, "shutdown-unconfirmed"))
        /\ limits = Limits(b) /\ mismatch = MismatchCode(b.session.source)
  OBVIOUS
<1>4. \A i \in DOMAIN b.events.list : b.events.list[i].type \in r.codes
  <2>1. PICK m, e, l : EventPick(b, d, range, m, e, l)
    BY EventPicks
  <2> QED BY <1>1, <1>3, <2>1 DEF EventPick, EventsFact
<1>5. SUFFICES /\ shutdown <= 1 /\ (r.stop = "unconfirmed" \/ shutdown = 0)
               /\ r.complete /\ r.stop = "unconfirmed" => shutdown = 1
               /\ Cardinality(limits) <= 1 /\ (limits # {} => "duration-capped" \in r.codes)
               /\ \A i \in OfType(b, mismatch) :
                    b.events.list[i].detail = <<r.reported, r.observed, <<r.records, r.bytes>>>>
               /\ r.complete => \A type \in {"udp-counter-mismatch", "udp-kernel-drops-observed", "serial-counter-mismatch"} :
                    type \in r.codes => Cardinality(OfType(b, type)) = 1
  BY <1>3, <1>4 DEF ReceiptEventsHold, Limits
<1>6. CASE d.version = 1 \/ d.source = "file"
  <2>1. \A type : OfType(b, type) = {}
    BY <1>2, <1>6, UnassessedFacts, TypedFacts
  <2>2. shutdown = 0 /\ limits = {} /\ Cardinality(limits) = 0
    BY <1>3, <2>1, FS_EmptySet DEF Limits
  <2>3. ~r.complete
    BY <1>1, <1>2, <1>3, <1>6, UnassessedFacts DEF Unassessed
  <2> QED BY <2>1, <2>2, <2>3
<1>7. CASE d.version = 2 /\ d.source # "file"
  <2>1. LiveFact(d)
    BY <1>2, <1>7, LiveFacts
  <2>2. r = d.receipt /\ mismatch = MismatchCode(d.source)
    BY <1>1, <1>3, <2>1 DEF LiveFact
  <2>3. PICK D, L : D = EventsTyped(d, "shutdown-unconfirmed") /\ L = OfType(b, "shutdown-unconfirmed")
    OBVIOUS
  <2>4. IF r.stop = "unconfirmed" THEN Represents(r, D) ELSE D = {}
    BY <2>1, <2>2, <2>3 DEF LiveFact
  <2>5. D = {} => L = {}
    BY <2>3, TypedFacts
  <2>6. One(D) => Cardinality(L) <= 1
    BY <2>3, TypedFacts
  <2>7. One(D) /\ D # {} => Cardinality(L) = 1
    <3>1. "shutdown-unconfirmed" \in SessionScoped
      BY DEF SessionScoped
    <3> QED BY <2>3, <3>1, TypedFacts
  <2>8. shutdown <= 1 /\ (r.stop = "unconfirmed" \/ shutdown = 0) /\ (r.complete /\ r.stop = "unconfirmed" => shutdown = 1)
    BY <1>3, <2>3, <2>4, <2>5, <2>6, <2>7, FS_EmptySet DEF Represents
  <2>9. Cardinality(limits) <= 1 /\ (limits # {} => "duration-capped" \in r.codes)
    BY <1>3, <2>1, <2>2, LimitFacts
  <2>10. ASSUME NEW k \in OfType(b, mismatch)
         PROVE  b.events.list[k].detail = <<r.reported, r.observed, <<r.records, r.bytes>>>>
    <3>1. PICK i \in EventsTyped(d, mismatch) : b.events.list[k] = EventsOf(d)[i]
      BY TypedFacts
    <3>2. EventsOf(d) = d.events
      BY <2>1 DEF LiveFact
    <3>3. r.basis # "recorder-only"
      <4> SUFFICES ASSUME r.basis = "recorder-only" PROVE FALSE
        OBVIOUS
      <4>1. RecorderOnly(d)
        BY <2>1, <2>2 DEF LiveFact
      <4>2. Typed(d, mismatch) = {}
        BY <2>2, <4>1 DEF RecorderOnly
      <4> QED BY <3>1, <3>2, <4>2 DEF EventsTyped, Typed
    <3>4. \A j \in EventsTyped(d, mismatch) : d.events[j].detail = <<r.reported, r.observed, <<r.records, r.bytes>>>>
      BY <2>1, <2>2, <3>3 DEF LiveFact
    <3> QED BY <3>1, <3>2, <3>4
  <2>11. ASSUME r.complete, NEW type \in {"udp-counter-mismatch", "udp-kernel-drops-observed", "serial-counter-mismatch"},
                type \in r.codes
         PROVE  Cardinality(OfType(b, type)) = 1
    <3>1. One(EventsTyped(d, type)) /\ EventsTyped(d, type) # {}
      BY <1>2, <1>7, <2>2, <2>11, NamedOnce
    <3>2. type \in SessionScoped
      BY DEF SessionScoped
    <3> QED BY <3>1, <3>2, TypedFacts
  <2> QED BY <2>8, <2>9, <2>10, <2>11
<1> QED BY <1>2, <1>6, <1>7 DEF IsDocument

LEMMA ReceiptVerifies ==
  ASSUME NEW b, NEW d, NEW s, NEW range, NEW include, NEW marks, NEW remarks,
         Built(b, d, s, range, include, marks, remarks)
  PROVE  ReceiptHolds(b)
<1>1. /\ b.receipt = ReceiptOf(d) /\ b.session.version = d.version /\ b.session.source = d.source
      /\ b.session.duration = d.duration
  <2>1. Fields(b, d, s, range, include, marks, remarks)
    BY BundleFields
  <2> QED BY <2>1 DEF Fields
<1>2. IsDocument(d) /\ Valid(d)
  BY DEF Built
<1>3. TotalsHold(b) /\ StatusHolds(b) /\ BasisHolds(b) /\ ReceiptEventsHold(b)
  BY TotalsVerify, StatusVerifies, BasisVerifies, ReceiptEventsVerify
<1>4. Counted(b, "transport/integrity-receipt.json", 1)
  BY CountedFacts
<1>5. PICK r : r = b.receipt
  OBVIOUS
<1>6. SUFFICES /\ d.version = 2 /\ r.basis # "file-source-unassessed" => r.complete = ("event-log-incomplete" \notin r.codes)
               /\ (r.stop = "unconfirmed") = ("shutdown-unconfirmed" \in r.codes)
               /\ (r.stop = "not-observed") = (r.stopOffset = Null) /\ r.stopOffset <= d.duration
  BY <1>1, <1>3, <1>4, <1>5 DEF ReceiptHolds
<1>7. CASE d.version = 1 \/ d.source = "file"
  <2>1. /\ r.stop = "not-observed" /\ r.stopOffset = Null
        /\ r.codes = {IF d.version = 1 THEN "legacy-session-unassessed" ELSE "file-source-unassessed"}
        /\ d.version # 1 => r.basis = "file-source-unassessed"
    BY <1>1, <1>2, <1>5, <1>7, UnassessedFacts DEF Unassessed
  <2>2. d.duration \in Nat
    BY <1>2 DEF IsDocument
  <2> QED BY <2>1, <2>2 DEF Null
<1>8. CASE d.version = 2 /\ d.source # "file"
  <2>1. LiveFact(d)
    BY <1>2, <1>8, LiveFacts
  <2>2. r = d.receipt
    BY <1>1, <1>5, <2>1 DEF LiveFact
  <2>3. /\ r.complete = ("event-log-incomplete" \notin r.codes)
        /\ (r.stop = "unconfirmed") = ("shutdown-unconfirmed" \in r.codes)
    BY <2>1, <2>2 DEF LiveFact
  <2>4. StopAgrees(d)
    BY <1>2, <1>8 DEF Valid
  <2> QED BY <2>2, <2>3, <2>4 DEF StopAgrees
<1> QED BY <1>2, <1>7, <1>8 DEF IsDocument

-----------------------------------------------------------------------------
(* The endpoints of the records of the range *)

LEMMA KeptCount ==
  ASSUME NEW e, NEW l \in Nat, NEW n \in Nat, \A k \in 1..l : e[k] \in 1..n,
         \A j \in 1..l, k \in 1..l : e[j] = e[k] => j = k,
         NEW A \in SUBSET (1..n), NEW B, B = {k \in 1..l : e[k] \in A}
  PROVE  /\ IsFiniteSet(A) /\ IsFiniteSet(B)
         /\ Cardinality(A) \in Nat /\ Cardinality(B) \in Nat /\ Cardinality(B) <= Cardinality(A)
<1>1. IsFiniteSet(1..n)
  BY FirstCount
<1>2. IsFiniteSet(A)
  BY <1>1, FS_Subset
<1>3. PICK f : f = [k \in B |-> e[k]]
  OBVIOUS
<1>4. f \in Injection(B, A)
  <2>1. f \in [B -> A]
    BY <1>3
  <2>2. \A j, k \in B : f[j] = f[k] => j = k
    BY <1>3
  <2> QED BY <2>1, <2>2 DEF Injection, IsInjective
<1>5. IsFiniteSet(B) /\ Cardinality(B) <= Cardinality(A)
  BY <1>2, <1>4, FS_Injection
<1> QED BY <1>2, <1>5, FS_CardinalityType

\* The records with an endpoint, and the others.
KnownPlaces(rows, n) == {i \in 1..n : rows[i].from # Null}

KnownFact(rows, n, A) ==
  /\ Len(Attributed(rows)) = Cardinality(A) /\ Cardinality(A) \in Nat /\ Cardinality(A) <= n
  /\ Cardinality((1..n) \ A) = n - Cardinality(A)

LEMMA KnownCount ==
  ASSUME NEW rows, IsSeq(rows), NEW n \in Nat, n = Len(rows), NEW A, A = KnownPlaces(rows, n)
  PROVE  KnownFact(rows, n, A)
<1>1. PICK S : S = {i \in DOMAIN rows : rows[i].from # Null}
  OBVIOUS
<1>2. S = A
  BY <1>1, SeqFacts DEF KnownPlaces
<1>3. Attributed(rows) = Chosen(rows, A)
  BY <1>1, <1>2 DEF Attributed, Where
<1>4. PICK e : Places(e, n, A) /\ IsPick(Chosen(rows, A), rows, e)
  BY ChosenFacts
<1>5. {i \in 1..n : i \in A} = A
  BY DEF KnownPlaces
<1>6. Len(Attributed(rows)) = Cardinality(A) /\ Cardinality(A) \in Nat
  BY <1>3, <1>4, <1>5, PlacesCount DEF IsPick
<1>7. IsFiniteSet(1..n) /\ Cardinality(1..n) = n
  BY FirstCount
<1>8. IsFiniteSet(A) /\ Cardinality(A) <= n
  BY <1>7, FS_Subset DEF KnownPlaces
<1>9. PICK N : N = 1..n
  OBVIOUS
<1>10. Cardinality(N \ A) = Cardinality(N) - Cardinality(A)
  <2>1. N \cap A = A
    BY <1>9 DEF KnownPlaces
  <2>2. IsFiniteSet(N)
    BY <1>7, <1>9
  <2>3. Cardinality(N \ A) = Cardinality(N) - Cardinality(N \cap A)
    BY <2>2, FS_Difference
  <2> QED BY <2>1, <2>3
<1> QED BY <1>6, <1>7, <1>8, <1>9, <1>10 DEF KnownFact

\* Of what is kept of the rows, no more have an endpoint, and no more have none.
KeptFact(rows, kept, n, l, known, all) ==
  /\ l \in Nat /\ known \in Nat /\ all \in Nat /\ all <= n /\ known <= l
  /\ known <= all /\ l - known <= n - all
  /\ l = n => kept = rows
  /\ Endpoints(kept) \subseteq Endpoints(rows)

LEMMA KeptKnown ==
  ASSUME NEW rows, IsSeq(rows), NEW n \in Nat, n = Len(rows), NEW S, NEW kept, kept = Chosen(rows, S),
         NEW l, l = Len(kept), NEW known, known = Len(Attributed(kept)), NEW all, all = Len(Attributed(rows))
  PROVE  KeptFact(rows, kept, n, l, known, all)
<1>1. PICK e : Places(e, n, S) /\ IsPick(kept, rows, e)
  BY ChosenFacts
<1>2. Len(e) = l /\ l \in Nat /\ IsSeq(kept) /\ \A k \in 1..l : kept[k] = rows[e[k]]
  BY <1>1 DEF IsPick, IsSeq
<1>3. (\A k \in 1..l : e[k] \in 1..n) /\ \A j \in 1..l, k \in 1..l : j < k => e[j] < e[k]
  BY <1>1, <1>2 DEF Places
<1>4. \A j \in 1..l, k \in 1..l : e[j] = e[k] => j = k
  BY <1>2, <1>3
<1>5. PICK A, B : A = KnownPlaces(rows, n) /\ B = KnownPlaces(kept, l)
  OBVIOUS
<1>6. B = {k \in 1..l : e[k] \in A}
  BY <1>2, <1>3, <1>5 DEF KnownPlaces
<1>7. PICK A2, B2 : A2 = (1..n) \ A /\ B2 = (1..l) \ B
  OBVIOUS
<1>8. B2 = {k \in 1..l : e[k] \in A2}
  BY <1>3, <1>6, <1>7
<1>9. A \in SUBSET (1..n) /\ A2 \in SUBSET (1..n)
  BY <1>5, <1>7 DEF KnownPlaces
<1>10. Cardinality(B) <= Cardinality(A)
  BY <1>2, <1>3, <1>4, <1>6, <1>9, KeptCount
<1>11. Cardinality(B2) <= Cardinality(A2)
  BY <1>2, <1>3, <1>4, <1>8, <1>9, KeptCount
<1>12. all = Cardinality(A) /\ all \in Nat /\ all <= n /\ Cardinality(A2) = n - all
  <2>1. KnownFact(rows, n, A)
    BY <1>5, KnownCount
  <2> QED BY <1>7, <2>1 DEF KnownFact
<1>13. known = Cardinality(B) /\ known \in Nat /\ known <= l /\ Cardinality(B2) = l - known
  <2>1. KnownFact(kept, l, B)
    BY <1>2, <1>5, KnownCount
  <2> QED BY <1>7, <2>1 DEF KnownFact
<1>14. l = n => kept = rows
  BY ChosenAll
<1>15. Endpoints(kept) \subseteq Endpoints(rows)
  <2>1. DOMAIN kept = 1..l /\ DOMAIN rows = 1..n
    BY <1>2, SeqFacts
  <2> QED BY <1>2, <1>3, <2>1 DEF Endpoints
<1> QED BY <1>2, <1>10, <1>11, <1>12, <1>13, <1>14, <1>15 DEF KeptFact

LEMMA EndpointsVerify ==
  ASSUME NEW b, NEW d, NEW s, NEW range, NEW include, NEW marks, NEW remarks,
         Built(b, d, s, range, include, marks, remarks), d.version = 2, d.source = "udp", d.prov # NoProvenance
  PROVE  EndpointsHold(b, d.prov)
<1>1. /\ b.raw = (IF "raw" \in include THEN Chosen(d.rows, RowPlaces(d, range)) ELSE <<>>)
      /\ b.receipt = ReceiptOf(d) /\ b.include = include
  <2>1. Fields(b, d, s, range, include, marks, remarks)
    BY BundleFields
  <2> QED BY <2>1 DEF Fields
<1>2. b.receipt.records = Len(d.rows)
  BY <1>1, ReceiptTotals DEF Built
<1>3. RowsFact(d, Len(d.rows))
  BY RowFacts DEF Built
<1>4. PICK p, rows, S, kept, n :
        p = d.prov /\ rows = d.rows /\ S = RowPlaces(d, range) /\ kept = Chosen(rows, S) /\ n = Len(rows)
  OBVIOUS
<1>5. IsSeq(rows) /\ n \in Nat
  BY <1>3, <1>4 DEF RowsFact
<1>6. PICK l, known, all : l = Len(kept) /\ known = Len(Attributed(kept)) /\ all = Len(Attributed(rows))
  OBVIOUS
<1>7. /\ l \in Nat /\ known \in Nat /\ all \in Nat /\ all <= n /\ known <= l
      /\ known <= all /\ l - known <= n - all /\ (l = n => kept = rows)
      /\ Endpoints(kept) \subseteq Endpoints(rows)
  <2>1. KeptFact(rows, kept, n, l, known, all)
    BY <1>4, <1>5, <1>6, KeptKnown
  <2> QED BY <2>1 DEF KeptFact
<1>8. p.attributed = all /\ p.unattributed = n - all /\ p.endpoints = Endpoints(rows)
  <2>1. ProvenanceIsSound(d)
    BY DEF Built, Valid
  <2> QED BY <1>4, <1>6, <2>1 DEF ProvenanceIsSound
<1>9. p.attributed + p.unattributed = b.receipt.records
  BY <1>2, <1>4, <1>5, <1>7, <1>8
<1>10. CASE Raw(b)
  <2>1. b.raw = kept
    BY <1>1, <1>4, <1>10 DEF Raw
  <2>2. l = n => known = all
    BY <1>6, <1>7
  <2>3. Len(b.raw) = l /\ Len(Attributed(b.raw)) = known /\ b.receipt.records = n
    BY <1>2, <1>4, <1>6, <2>1
  <2>4. Endpoints(b.raw) \subseteq p.endpoints
    BY <1>7, <1>8, <2>1
  <2>5. IF l = n /\ b.selection.from = 0 THEN known = p.attributed /\ l - known = p.unattributed
        ELSE known <= p.attributed /\ l - known <= p.unattributed
    BY <1>5, <1>7, <1>8, <2>2
  <2> QED BY <1>4, <1>9, <2>3, <2>4, <2>5 DEF EndpointsHold
<1>11. CASE ~Raw(b)
  <2>1. b.raw = <<>>
    BY <1>1, <1>11 DEF Raw
  <2>2. Endpoints(b.raw) = {}
    BY <2>1 DEF Endpoints
  <2> QED BY <1>4, <1>9, <1>11, <2>2 DEF EndpointsHold
<1> QED BY <1>10, <1>11

-----------------------------------------------------------------------------
(* The provenance and the journal *)

\* What assertTransportProvenance asks of the provenance of a UDP session, of the document itself.
JournalFact(d) ==
  LET p == d.prov  j == d.prov.journal  r == d.receipt  D == EventsTyped(d, "udp-kernel-drops-observed") IN
  /\ p.codes = JournalCodes(d) \cup UnattributedCodes(p.unattributed)
  /\ (p.status = "incomplete") = Incomplete(p.codes)
  /\ j.state = "clean" => j.ended
  /\ j.state = "active" => ~j.ended
  /\ j.state # "none" => j.tail <= d.duration
  /\ j.state # "none" /\ j.ended => j.tail <= IF r.stopOffset = Null THEN d.duration ELSE r.stopOffset
  /\ (j.drops > 0) = ("udp-kernel-drops-observed" \in r.codes)
  /\ j.drops > 0 => Represents(r, D) /\ \A i \in D : d.events[i].detail = <<j.drops>>
  /\ ~(j.drops > 0) => D = {}

LEMMA JournalFacts ==
  ASSUME NEW d, IsDocument(d), Valid(d), d.version = 2, d.source = "udp", d.prov # NoProvenance
  PROVE  JournalFact(d)
<1>1. ProvenanceIsSound(d)
  BY DEF Valid
<1>2. PICK f, p, j, r, D :
        /\ f = Flat(d) /\ p = d.prov /\ j = d.prov.journal /\ r = d.receipt
        /\ D = EventsTyped(d, "udp-kernel-drops-observed")
  OBVIOUS
<1>3. /\ p.codes = JournalCodes(d) \cup UnattributedCodes(p.unattributed)
      /\ JournalFits(f) /\ DropsAgree(f)
      /\ j.state = "clean" => j.ended
      /\ j.state = "active" => ~j.ended
      /\ (p.status = "incomplete") = Incomplete(p.codes)
  BY <1>1, <1>2 DEF ProvenanceIsSound
<1>4. EventsOf(d) = d.events
  BY DEF EventsOf, NormalizedEvidence
<1>5. \A type : EventsTyped(d, type) = Typed(d, type)
  BY <1>4 DEF EventsTyped, Typed
<1>6. /\ f.journal = j /\ f.duration = d.duration /\ f.events = d.events /\ f.codes = r.codes /\ f.complete = r.complete
      /\ f.stopOffset = IF r.stopOffset = Null THEN d.duration ELSE r.stopOffset
      /\ Typed(f, "udp-kernel-drops-observed") = D
  BY <1>2, <1>5, FlatFacts
<1>7. /\ j.state # "none" => j.tail <= d.duration
      /\ j.state # "none" /\ j.ended => j.tail <= IF r.stopOffset = Null THEN d.duration ELSE r.stopOffset
  BY <1>3, <1>6 DEF JournalFits
<1>8. /\ (j.drops > 0) = ("udp-kernel-drops-observed" \in r.codes)
      /\ j.drops > 0 => Represents(r, D) /\ \A i \in D : d.events[i].detail = <<j.drops>>
      /\ ~(j.drops > 0) => D = {}
  BY <1>3, <1>6 DEF DropsAgree, Represented, Represents
<1> QED BY <1>2, <1>3, <1>7, <1>8 DEF JournalFact

\* The codes the verifier expects are those the validator expects.
LEMMA CodesAgree ==
  ASSUME NEW b, NEW d, IsDocument(d), Valid(d), d.version = 2, b.receipt = d.receipt
  PROVE  ExpectedCodes(b, d.prov) = JournalCodes(d) \cup UnattributedCodes(d.prov.unattributed)
<1>1. PICK p, j, r : p = d.prov /\ j = d.prov.journal /\ r = d.receipt
  OBVIOUS
<1>2. /\ j.state \in {"none", "active", "incomplete", "clean"} /\ j.datagrams \in Nat
      /\ r.records = Len(d.rows) /\ r.reported \in OrNull \X OrNull
  BY <1>1 DEF IsDocument, Valid, IsReceipt, IsProvenance
<1>3. PICK x, y, dg, n, m : x = r.reported[1] /\ y = r.reported[2] /\ dg = j.datagrams /\ n = r.records /\ m = r.bytes
  OBVIOUS
<1>4. r.reported = <<x, y>>
  BY <1>2, <1>3
<1>5. PICK differs : differs = ({n, m, x, y} # {dg})
  OBVIOUS
<1>6. (<<dg, dg>> = <<n, m>> /\ <<dg, dg>> = <<x, y>>) = ~differs
  BY <1>5
<1>7. PICK U : U = UnattributedCodes(p.unattributed)
  OBVIOUS
<1>8. ExpectedCodes(b, p) =
        (IF j.state = "none" THEN {"udp-bridge-journal-unavailable"} ELSE {})
        \cup (IF j.state \notin {"none", "clean"} THEN {"udp-bridge-journal-incomplete"} ELSE {})
        \cup (IF j.state # "none" /\ differs THEN {"udp-bridge-journal-counter-mismatch"} ELSE {})
        \cup U
        \cup (IF j.state # "none" /\ j.drops = Null THEN {"udp-kernel-drop-counter-unavailable"} ELSE {})
  BY <1>1, <1>3, <1>5, <1>7, Zenon DEF ExpectedCodes, UnattributedCodes
<1>9. JournalCodes(d) =
        IF j.state = "none" THEN {"udp-bridge-journal-unavailable"}
        ELSE (IF j.state # "clean" THEN {"udp-bridge-journal-incomplete"} ELSE {})
             \cup (IF ~differs THEN {} ELSE {"udp-bridge-journal-counter-mismatch"})
             \cup (IF j.drops = Null THEN {"udp-kernel-drop-counter-unavailable"} ELSE {})
  <2>1. (<<j.datagrams, j.datagrams>> = <<Len(d.rows), d.receipt.bytes>>
           /\ <<j.datagrams, j.datagrams>> = d.receipt.reported) = ~differs
    BY <1>1, <1>2, <1>3, <1>4, <1>6
  <2> QED BY <1>1, <2>1 DEF JournalCodes
<1>10. CASE j.state = "none"
  BY <1>1, <1>7, <1>8, <1>9, <1>10
<1>11. CASE j.state # "none"
  BY <1>1, <1>7, <1>8, <1>9, <1>11
<1> QED BY <1>10, <1>11

LEMMA DropsVerify ==
  ASSUME NEW b, NEW d, NEW s, NEW range, NEW include, NEW marks, NEW remarks,
         Built(b, d, s, range, include, marks, remarks), d.version = 2, d.source = "udp", d.prov # NoProvenance
  PROVE  DropEvidenceHolds(b, IF d.prov.journal.drops = Null THEN 0 ELSE d.prov.journal.drops)
<1>1. b.receipt = d.receipt /\ EventsOf(d) = d.events
  <2>1. Fields(b, d, s, range, include, marks, remarks)
    BY BundleFields
  <2> QED BY <2>1 DEF Fields, ReceiptOf, EventsOf, NormalizedEvidence
<1>2. JournalFact(d)
  BY JournalFacts DEF Built
<1>3. PICK j, r, n, type :
        /\ j = d.prov.journal /\ r = d.receipt /\ n = (IF j.drops = Null THEN 0 ELSE j.drops)
        /\ type = "udp-kernel-drops-observed"
  OBVIOUS
<1>4. PICK D, L : D = EventsTyped(d, type) /\ L = OfType(b, type)
  OBVIOUS
<1>5. j.drops \in Nat \cup {Null}
  BY <1>3 DEF Built, IsDocument, IsProvenance, OrNull
<1>6. (j.drops > 0) = (n > 0) /\ (n > 0 => n = j.drops)
  BY <1>3, <1>5 DEF Null
<1>7. /\ (n > 0) = (type \in r.codes)
      /\ n > 0 => Represents(r, D) /\ \A i \in D : d.events[i].detail = <<n>>
      /\ ~(n > 0) => D = {}
  BY <1>2, <1>3, <1>4, <1>6 DEF JournalFact
<1>8. D = {} => L = {}
  BY <1>4, TypedFacts
<1>9. One(D) => Cardinality(L) <= 1
  BY <1>4, TypedFacts
<1>10. One(D) /\ D # {} => Cardinality(L) = 1
  <2>1. type \in SessionScoped
    BY <1>3 DEF SessionScoped
  <2> QED BY <1>4, <2>1, TypedFacts
<1>11. ASSUME NEW k \in L PROVE b.events.list[k].detail = <<n>>
  <2>1. PICK i \in D : b.events.list[k] = EventsOf(d)[i]
    BY <1>4, TypedFacts
  <2>2. n > 0
    BY <1>7, <2>1
  <2> QED BY <1>1, <1>7, <2>1, <2>2
<1>12. PICK more : more = (n > 0)
  OBVIOUS
<1>13. /\ (type \in b.receipt.codes) = more
       /\ IF more THEN Cardinality(L) <= 1 /\ (b.receipt.complete => Cardinality(L) = 1) ELSE L = {}
  BY <1>1, <1>3, <1>7, <1>8, <1>9, <1>10, <1>12 DEF Represents
<1>14. DropEvidenceHolds(b, n)
  BY <1>3, <1>4, <1>11, <1>12, <1>13 DEF DropEvidenceHolds
<1> QED BY <1>3, <1>14

LEMMA UdpProvenanceVerifies ==
  ASSUME NEW b, NEW d, NEW s, NEW range, NEW include, NEW marks, NEW remarks,
         Built(b, d, s, range, include, marks, remarks), d.version = 2, d.source = "udp", d.prov # NoProvenance
  PROVE  UdpProvenanceHolds(b, d.prov)
<1>1. /\ b.receipt = d.receipt /\ b.session.duration = d.duration
      /\ b.journalDoc = JournalDocument(d) /\ b.prov = ProvenanceSummary(d)
  <2>1. Fields(b, d, s, range, include, marks, remarks)
    BY BundleFields
  <2> QED BY <2>1 DEF Fields, ReceiptOf, NormalizedEvidence
<1>2. IsDocument(d) /\ Valid(d)
  BY DEF Built
<1>3. JournalFact(d)
  BY <1>2, JournalFacts
<1>4. PICK p, j, r : p = d.prov /\ j = d.prov.journal /\ r = d.receipt
  OBVIOUS
<1>5. ProvenanceOf(d) = p /\ ProvenanceReason(d) = "available"
  BY <1>4 DEF ProvenanceOf, ProvenanceReason
<1>6. b.prov.attribution = Attribution(p)
  BY <1>1, <1>5 DEF ProvenanceSummary
<1>7. PICK expected : expected = ExpectedCodes(b, p)
  OBVIOUS
<1>8. p.codes = expected /\ (p.status = "incomplete") = (expected \ {"udp-kernel-drop-counter-unavailable"} # {})
  <2>1. expected = JournalCodes(d) \cup UnattributedCodes(p.unattributed)
    BY <1>1, <1>2, <1>4, <1>7, CodesAgree
  <2> QED BY <1>3, <1>4, <2>1 DEF JournalFact, Incomplete
<1>9. EndpointsHold(b, p)
  BY <1>4, EndpointsVerify
<1>10. b.journalDoc.journal = j /\ b.journalDoc.reason = IF j.state = "none" THEN "journal-unavailable" ELSE "available"
  BY <1>1, <1>4, <1>5 DEF JournalDocument, JournalReason
<1>11. CASE j.state = "none"
  BY <1>4, <1>6, <1>7, <1>8, <1>9, <1>10, <1>11 DEF UdpProvenanceHolds
<1>12. CASE j.state # "none"
  <2>1. DropEvidenceHolds(b, IF j.drops = Null THEN 0 ELSE j.drops)
    BY <1>4, DropsVerify
  <2>2. UdpJournalHolds(b, j)
    <3>1. j.state = "clean" => j.ended
      BY <1>3, <1>4 DEF JournalFact
    <3>2. j.state = "active" => ~j.ended
      BY <1>3, <1>4 DEF JournalFact
    <3>3. j.tail <= d.duration
      BY <1>3, <1>4, <1>12 DEF JournalFact
    <3>4. j.ended => j.tail <= IF r.stopOffset = Null THEN d.duration ELSE r.stopOffset
      BY <1>3, <1>4, <1>12 DEF JournalFact
    <3> QED BY <1>1, <1>4, <3>1, <3>2, <3>3, <3>4 DEF UdpJournalHolds
  <2> QED BY <1>4, <1>6, <1>7, <1>8, <1>9, <1>10, <1>12, <2>1, <2>2 DEF UdpProvenanceHolds
<1> QED BY <1>11, <1>12

LEMMA TransportVerifies ==
  ASSUME NEW b, NEW d, NEW s, NEW range, NEW include, NEW marks, NEW remarks,
         Built(b, d, s, range, include, marks, remarks)
  PROVE  TransportHolds(b)
<1>1. /\ b.receipt = ReceiptOf(d) /\ b.session.version = d.version /\ b.session.source = d.source
      /\ b.session.receipt = ReceiptOf(d) /\ b.provDoc = ProvenanceDocument(d)
      /\ b.journalDoc = JournalDocument(d) /\ b.prov = ProvenanceSummary(d)
  <2>1. Fields(b, d, s, range, include, marks, remarks)
    BY BundleFields
  <2> QED BY <2>1 DEF Fields
<1>2. IsDocument(d) /\ Valid(d) /\ d.version \in {1, 2} /\ d.source \in {"udp", "serial", "file"}
  BY DEF Built, IsDocument
<1>3. PICK p, reason, why : p = ProvenanceOf(d) /\ reason = ProvenanceReason(d) /\ why = JournalReason(d)
  OBVIOUS
<1>4. /\ b.provDoc.prov = p /\ b.provDoc.reason = reason /\ b.provDoc.version = d.version /\ b.provDoc.source = d.source
      /\ b.journalDoc.reason = why /\ b.journalDoc.journal = p.journal
      /\ b.journalDoc.version = d.version /\ b.journalDoc.source = d.source
  BY <1>1, <1>3 DEF ProvenanceDocument, JournalDocument
<1>5. /\ b.prov.reason = reason /\ b.prov.status = p.status /\ b.prov.codes = p.codes
      /\ b.prov.journal = [reason |-> why, state |-> p.journal.state]
      /\ ~(reason = "available" /\ d.source = "udp") => b.prov.attribution = NoAttribution
  BY <1>1, <1>3 DEF ProvenanceSummary
<1>6. Counted(b, "transport/provenance.json", 1)
  BY CountedFacts
<1>7. Counted(b, "transport/journal.json", IF why = "available" THEN 1 ELSE 0)
  BY <1>3, CountedFacts
<1>8. SUFFICES IF reason # "available" THEN UnavailableHolds(b)
               ELSE /\ d.version = 2 /\ ("transport-provenance-incomplete" \in b.receipt.codes) = (p.status = "incomplete")
                    /\ IF d.source = "serial" THEN SerialProvenanceHolds(b, p) ELSE UdpProvenanceHolds(b, p)
  BY <1>1, <1>4, <1>5, <1>6, <1>7 DEF TransportHolds
<1>9. CASE d.version = 1
  <2>1. reason = "legacy-v1" /\ why = "legacy-v1" /\ p = NoProvenance
    <3>1. reason = "legacy-v1" /\ p = NoProvenance
      BY <1>3, <1>9 DEF ProvenanceReason, ProvenanceOf
    <3>2. why = reason
      BY <1>3, <3>1 DEF JournalReason
    <3> QED BY <3>1, <3>2
  <2>2. b.receipt.codes = {"legacy-session-unassessed"}
    BY <1>1, <1>2, <1>9, UnassessedFacts DEF Unassessed
  <2>3. p.status = "unknown" /\ p.codes = {}
    BY <2>1 DEF NoProvenance
  <2>4. "transport-provenance-incomplete" \notin b.receipt.codes
    BY <2>2
  <2>5. UnavailableHolds(b)
    BY <1>1, <1>4, <1>5, <1>9, <2>1, <2>3, <2>4 DEF UnavailableHolds
  <2> QED BY <2>1, <2>5
<1>10. CASE d.version = 2 /\ d.prov = NoProvenance
  <2>1. reason = "pre-provenance-v2" /\ why = "pre-provenance-v2" /\ p = NoProvenance
    <3>1. reason = "pre-provenance-v2" /\ p = NoProvenance
      BY <1>3, <1>10 DEF ProvenanceReason, ProvenanceOf
    <3>2. why = reason
      BY <1>3, <3>1 DEF JournalReason
    <3> QED BY <3>1, <3>2
  <2>2. ProvenanceIsSound(d) /\ b.receipt = d.receipt
    BY <1>1, <1>2, <1>10 DEF Valid, ReceiptOf, NormalizedEvidence
  <2>3. p.status = "unknown" /\ p.codes = {}
    BY <2>1 DEF NoProvenance
  <2>4. "transport-provenance-incomplete" \notin b.receipt.codes
    BY <1>10, <2>1, <2>2, <2>3 DEF ProvenanceIsSound
  <2>5. d.version # 1
    BY <1>10
  <2>6. UnavailableHolds(b)
    BY <1>1, <1>4, <1>5, <2>1, <2>3, <2>4, <2>5 DEF UnavailableHolds
  <2> QED BY <2>1, <2>6
<1>11. CASE d.version = 2 /\ d.prov # NoProvenance
  <2>1. reason = "available" /\ p = d.prov
    BY <1>3, <1>11 DEF ProvenanceReason, ProvenanceOf
  <2>2. ProvenanceIsSound(d) /\ b.receipt = d.receipt
    BY <1>1, <1>2, <1>11 DEF Valid, ReceiptOf, NormalizedEvidence
  <2>3. ("transport-provenance-incomplete" \in b.receipt.codes) = (p.status = "incomplete")
    BY <2>1, <2>2 DEF ProvenanceIsSound
  <2>4. d.source # "file"
    BY <1>11, <2>2 DEF ProvenanceIsSound
  <2>5. CASE d.source = "serial"
    <3>1. p.status = "verified" /\ p.codes \subseteq {"serial-device-identifiers-unavailable"}
      BY <1>11, <2>1, <2>2, <2>5 DEF ProvenanceIsSound
    <3>2. why = "not-applicable"
      BY <1>3, <2>1, <2>5 DEF JournalReason
    <3>3. SerialProvenanceHolds(b, p)
      BY <1>4, <1>5, <2>5, <3>1, <3>2 DEF SerialProvenanceHolds
    <3> QED BY <1>11, <2>1, <2>3, <2>5, <3>3
  <2>6. CASE d.source = "udp"
    <3>1. UdpProvenanceHolds(b, p)
      BY <1>11, <2>1, <2>6, UdpProvenanceVerifies
    <3> QED BY <1>11, <2>1, <2>3, <2>6, <3>1
  <2> QED BY <1>2, <2>4, <2>5, <2>6
<1> QED BY <1>2, <1>9, <1>10, <1>11

-----------------------------------------------------------------------------
(* The verdict of the receiver *)

LEMMA BundleIsVerified ==
  ASSUME NEW b, NEW d, NEW s, NEW range, NEW include, NEW marks, NEW remarks,
         Built(b, d, s, range, include, marks, remarks)
  PROVE  Verifies(b)
<1>1. ContractHolds(b) /\ SchemaHolds(b) /\ EventsHold(b) /\ RawHolds(b) /\ DecodedHolds(b)
  BY ContractVerifies, EventsVerify, RawVerifies
<1>2. ReceiptHolds(b) /\ TransportHolds(b) /\ DiagnosticsHold(b)
  BY ReceiptVerifies, TransportVerifies, DiagnosticsVerify
<1>3. /\ MarksHold(b, "markers", "markers/markers.json", b.markers)
      /\ MarksHold(b, "notes", "notes/notes.json", b.notes)
  BY MarksVerify
<1> QED BY <1>1, <1>2, <1>3 DEF Verifies

\* The provenance of a UDP session has no complaint exactly when every datagram was counted and attributed.
LEMMA SoundJournal ==
  ASSUME NEW d, IsDocument(d), Valid(d), d.version = 2, d.source = "udp", d.prov # NoProvenance
  PROVE  d.prov.status # "incomplete" =>
           /\ d.prov.journal.state = "clean" /\ d.prov.journal.ended /\ d.prov.journal.datagrams = Len(d.rows)
           /\ Attributed(d.rows) = d.rows
<1> SUFFICES ASSUME d.prov.status # "incomplete"
             PROVE  /\ d.prov.journal.state = "clean" /\ d.prov.journal.ended /\ d.prov.journal.datagrams = Len(d.rows)
                    /\ Attributed(d.rows) = d.rows
  OBVIOUS
<1>1. JournalFact(d)
  BY JournalFacts
<1>2. PICK p, j, U : p = d.prov /\ j = d.prov.journal /\ U = UnattributedCodes(p.unattributed)
  OBVIOUS
<1>3. JournalCodes(d) \cup U \subseteq {"udp-kernel-drop-counter-unavailable"}
  <2>1. p.codes = JournalCodes(d) \cup U /\ ~Incomplete(p.codes)
    BY <1>1, <1>2 DEF JournalFact
  <2> QED BY <2>1 DEF Incomplete
<1>4. "udp-bridge-journal-unavailable" \notin JournalCodes(d) /\ "udp-bridge-journal-incomplete" \notin JournalCodes(d)
      /\ "udp-bridge-journal-counter-mismatch" \notin JournalCodes(d) /\ "udp-endpoint-attribution-incomplete" \notin U
  BY <1>3
<1>5. j.state # "none"
  BY <1>2, <1>4 DEF JournalCodes
<1>6. j.state = "clean"
  BY <1>2, <1>4, <1>5 DEF JournalCodes
<1>7. j.ended
  BY <1>1, <1>2, <1>6 DEF JournalFact
<1>8. j.datagrams = Len(d.rows)
  <2>1. <<j.datagrams, j.datagrams>> = <<Len(d.rows), d.receipt.bytes>>
    BY <1>2, <1>4, <1>5 DEF JournalCodes
  <2> QED BY <2>1
<1>9. Attributed(d.rows) = d.rows
  <2>1. PICK rows, n : rows = d.rows /\ n = Len(rows)
    OBVIOUS
  <2>2. IsSeq(rows) /\ n \in Nat
    <3>1. RowsFact(d, Len(d.rows))
      BY RowFacts
    <3> QED BY <2>1, <3>1 DEF RowsFact
  <2>3. PICK A : A = KnownPlaces(rows, n)
    OBVIOUS
  <2>4. KnownFact(rows, n, A)
    BY <2>1, <2>2, <2>3, KnownCount
  <2>5. PICK known : known = Len(Attributed(rows))
    OBVIOUS
  <2>6. known \in Nat /\ known <= n
    BY <2>4, <2>5 DEF KnownFact
  <2>7. p.unattributed = n - known
    <3>1. ProvenanceIsSound(d)
      BY DEF Valid
    <3> QED BY <1>2, <2>1, <2>5, <3>1 DEF ProvenanceIsSound
  <2>8. ~(p.unattributed > 0)
    BY <1>2, <1>4 DEF UnattributedCodes
  <2>9. known = n
    BY <2>2, <2>6, <2>7, <2>8
  <2>10. PICK S : S = {i \in DOMAIN rows : rows[i].from # Null}
    OBVIOUS
  <2>11. Attributed(rows) = Chosen(rows, S)
    BY <2>10 DEF Attributed, Where
  <2>12. Chosen(rows, S) = rows
    BY <2>1, <2>2, <2>5, <2>9, <2>11, ChosenAll
  <2> QED BY <2>1, <2>11, <2>12
<1> QED BY <1>2, <1>6, <1>7, <1>8, <1>9

\* The verdict the whole session deserves.
Deserved(d) == IF IsUnknown(d) THEN "unknown" ELSE IF IsSound(d) THEN "verified" ELSE "incomplete"

LEMMA VerdictIsDeserved ==
  ASSUME NEW d, IsDocument(d), Valid(d)
  PROVE  EvidenceVerdict(ReceiptOf(d).status, ProvenanceOf(d).status) = Deserved(d)
<1>1. PICK x, y : x = ReceiptOf(d).status /\ y = ProvenanceOf(d).status
  OBVIOUS
<1>2. d.version \in {1, 2} /\ d.source \in {"udp", "serial", "file"}
  BY DEF IsDocument
<1>3. CASE IsUnknown(d)
  <2>1. x = "unknown" \/ y = "unknown"
    <3>1. CASE d.version = 1 \/ d.source = "file"
      <4>1. x = "unknown"
        BY <1>1, <3>1, UnassessedFacts DEF Unassessed
      <4> QED BY <4>1
    <3>2. CASE d.version = 2 /\ d.prov = NoProvenance
      BY <1>1, <3>2 DEF ProvenanceOf, NoProvenance
    <3> QED BY <1>2, <1>3, <3>1, <3>2 DEF IsUnknown
  <2>2. EvidenceVerdict(x, y) = "unknown"
    BY <2>1 DEF EvidenceVerdict
  <2> QED BY <1>1, <1>3, <2>2 DEF Deserved
<1>4. CASE ~IsUnknown(d)
  <2>1. d.version = 2 /\ d.source # "file" /\ d.prov # NoProvenance
    BY <1>2, <1>4 DEF IsUnknown
  <2>2. PICK r, p : r = d.receipt /\ p = d.prov
    OBVIOUS
  <2>3. LiveFact(d)
    BY <2>1, LiveFacts
  <2>4. /\ x = r.status /\ r.status \in {"verified", "incomplete"}
        /\ (r.status = "verified") = (r.stop = "confirmed" /\ r.complete /\ r.codes = {} /\ d.events = <<>>)
    BY <1>1, <2>2, <2>3 DEF LiveFact
  <2>5. y = p.status /\ p.status \in {"verified", "incomplete"}
    BY <1>1, <2>1, <2>2 DEF ProvenanceOf, IsDocument, IsProvenance
  <2>6. (p.status = "incomplete") = ("transport-provenance-incomplete" \in r.codes)
    <3>1. ProvenanceIsSound(d)
      BY <2>1 DEF Valid
    <3> QED BY <2>2, <3>1 DEF ProvenanceIsSound
  <2>7. CASE r.status = "verified" /\ p.status = "verified"
    <3>1. r.stop = "confirmed" /\ r.complete /\ r.codes = {} /\ d.events = <<>>
      BY <2>4, <2>7
    <3>2. d.source = "udp" =>
            /\ p.journal.state = "clean" /\ p.journal.ended /\ p.journal.datagrams = Len(d.rows)
            /\ Attributed(d.rows) = d.rows
      BY <2>1, <2>2, <2>7, SoundJournal
    <3>3. IsSound(d)
      BY <2>1, <2>2, <3>1, <3>2 DEF IsSound
    <3>4. EvidenceVerdict(x, y) = "verified"
      BY <2>4, <2>5, <2>7 DEF EvidenceVerdict
    <3> QED BY <1>1, <1>4, <3>3, <3>4 DEF Deserved
  <2>8. CASE ~(r.status = "verified" /\ p.status = "verified")
    <3>1. ~IsSound(d)
      <4> SUFFICES ASSUME IsSound(d) PROVE FALSE
        OBVIOUS
      <4>1. r.stop = "confirmed" /\ r.complete /\ r.codes = {} /\ d.events = <<>>
        BY <2>2 DEF IsSound
      <4>2. r.status = "verified"
        BY <2>4, <4>1
      <4>3. p.status # "incomplete"
        BY <2>6, <4>1
      <4> QED BY <2>5, <2>8, <4>2, <4>3
    <3>2. EvidenceVerdict(x, y) = "incomplete"
      BY <2>4, <2>5, <2>8 DEF EvidenceVerdict
    <3> QED BY <1>1, <1>4, <3>1, <3>2 DEF Deserved
  <2> QED BY <2>7, <2>8
<1> QED BY <1>3, <1>4

-----------------------------------------------------------------------------
(* The desk *)

Opened(s, d, name) == name \in Series /\ d \in Documents[name] /\ Valid(d) /\ s = ParseSession(d)

SideInv(side) ==
  /\ session[side] # Nothing => \E d : Opened(session[side], d, series[side])
  /\ bundle[side] # Nothing =>
       \E d, range, include : Built(bundle[side], d, session[side], range, include, Marks.markers, Marks.notes)
  /\ received[side] # Nothing =>
       /\ bundle[side] # Nothing
       /\ received[side] = IF Verifies(bundle[side]) THEN ReceiverDocument(bundle[side]) ELSE Refused

DeskInv ==
  /\ DOMAIN series = Sides /\ DOMAIN session = Sides /\ DOMAIN bundle = Sides /\ DOMAIN received = Sides
  /\ \A side \in Sides : SideInv(side)

LEMMA OpenedIs ==
  ASSUME NEW d
  PROVE  Is(ParseSession(d)) /\ ParseSession(d) # Nothing /\ ParseSession(d).doc = d
<1>1. PICK s : s = ParseSession(d)
  OBVIOUS
<1>2. DOMAIN s = {"doc", "frames", "buckets", "events", "receipt", "diagnostics"} /\ s.doc = d
  BY <1>1, Zenon DEF ParseSession
<1>3. "kind" \notin DOMAIN s
  BY <1>2
<1>4. "kind" \in DOMAIN Nothing
  BY DEF Nothing
<1> QED BY <1>1, <1>2, <1>3, <1>4 DEF Is

LEMMA BuiltIs ==
  ASSUME NEW b, NEW d, NEW s, NEW range, NEW include, NEW marks, NEW remarks,
         Built(b, d, s, range, include, marks, remarks)
  PROVE  Is(b) /\ b # Nothing
<1>1. DOMAIN b = {"session", "prov", "selection", "include", "counts", "events", "receipt", "provDoc", "journalDoc",
                  "raw", "packets", "diagnostics", "markers", "notes", "schema"}
  BY Zenon DEF Built, BuildEvidenceBundle
<1>2. "kind" \notin DOMAIN b
  BY <1>1
<1>3. "kind" \in DOMAIN Nothing
  BY DEF Nothing
<1> QED BY <1>2, <1>3 DEF Is

LEMMA DeskStarts == Init => DeskInv
  BY DEF Init, DeskInv, SideInv, Nothing

\* What a step leaves of one side: all three are as they were.
Untouched(side) == series'[side] = series[side] /\ session'[side] = session[side]
                   /\ bundle'[side] = bundle[side] /\ received'[side] = received[side]

LEMMA UntouchedSide ==
  ASSUME NEW side, SideInv(side), Untouched(side)
  PROVE  SideInv(side)'
  BY DEF SideInv, Untouched

LEMMA OpenStep ==
  ASSUME DeskInv, NEW side \in Sides, NEW name \in Series, Open(side, name)
  PROVE  DeskInv'
<1>1. PICK d \in Documents[name] : Valid(d) /\ session' = [session EXCEPT ![side] = ParseSession(d)]
  BY DEF Open
<1>2. series' = [series EXCEPT ![side] = name] /\ UNCHANGED <<bundle, received, finding>> /\ ~Is(session[side])
  BY DEF Open
<1>3. PICK s : s = ParseSession(d)
  OBVIOUS
<1>4. /\ DOMAIN series' = Sides /\ DOMAIN session' = Sides /\ DOMAIN bundle' = Sides /\ DOMAIN received' = Sides
      /\ session'[side] = s /\ series'[side] = name
      /\ \A other \in Sides : other # side => Untouched(other)
  BY <1>1, <1>2, <1>3 DEF DeskInv, Untouched
<1>5. session[side] = Nothing
  <2> SUFFICES ASSUME session[side] # Nothing PROVE FALSE
    OBVIOUS
  <2>1. PICK e : Opened(session[side], e, series[side])
    BY DEF DeskInv, SideInv
  <2> QED BY <1>2, <2>1, OpenedIs DEF Opened
<1>6. bundle[side] = Nothing
  <2> SUFFICES ASSUME bundle[side] # Nothing PROVE FALSE
    OBVIOUS
  <2>1. PICK e, range, include : Built(bundle[side], e, session[side], range, include, Marks.markers, Marks.notes)
    BY DEF DeskInv, SideInv
  <2>2. session[side] = ParseSession(e)
    BY <2>1 DEF Built
  <2> QED BY <1>5, <2>2, OpenedIs
<1>7. received[side] = Nothing
  BY <1>6 DEF DeskInv, SideInv
<1>8. SideInv(side)'
  <2>1. Opened(session'[side], d, series'[side])
    BY <1>1, <1>3, <1>4 DEF Opened
  <2>2. bundle'[side] = Nothing /\ received'[side] = Nothing
    BY <1>2, <1>6, <1>7
  <2> QED BY <2>1, <2>2 DEF SideInv
<1>9. ASSUME NEW other \in Sides PROVE SideInv(other)'
  <2>1. CASE other = side
    BY <1>8, <2>1
  <2>2. CASE other # side
    <3>1. SideInv(other) /\ Untouched(other)
      BY <1>4, <2>2 DEF DeskInv
    <3> QED BY <3>1, UntouchedSide
  <2> QED BY <2>1, <2>2
<1> QED BY <1>4, <1>9 DEF DeskInv

LEMMA BuildStep ==
  ASSUME DeskInv, NEW side \in Sides, Is(session[side]), NEW range \in Ranges[series[side]],
         NEW include \in Inclusions[series[side]], Build(side, range, include)
  PROVE  DeskInv'
<1>1. /\ bundle' = [bundle EXCEPT ![side] =
                      BuildEvidenceBundle(session[side], range, include, Marks.markers, Marks.notes)]
      /\ UNCHANGED <<series, session, received, finding>> /\ ~Is(bundle[side]) /\ RangeFits(session[side], range)
  BY DEF Build
<1>2. PICK b : b = BuildEvidenceBundle(session[side], range, include, Marks.markers, Marks.notes)
  OBVIOUS
<1>3. /\ DOMAIN series' = Sides /\ DOMAIN session' = Sides /\ DOMAIN bundle' = Sides /\ DOMAIN received' = Sides
      /\ bundle'[side] = b
      /\ \A other \in Sides : other # side => Untouched(other)
  BY <1>1, <1>2 DEF DeskInv, Untouched
<1>4. session[side] # Nothing
  BY DEF Is, Nothing
<1>5. PICK d : Opened(session[side], d, series[side])
  BY <1>4 DEF DeskInv, SideInv
<1>6. PICK name : name = series[side] /\ name \in Series
  BY <1>5 DEF Opened
<1>7. /\ IsDocument(d) /\ IsRange(range) /\ include \subseteq Groups
      /\ IsMarks(Marks.markers) /\ IsMarks(Marks.notes)
  BY <1>5, <1>6, EvidenceAssumption DEF Opened
<1>8. Built(b, d, session[side], range, include, Marks.markers, Marks.notes)
  BY <1>1, <1>2, <1>5, <1>7 DEF Built, Opened
<1>9. bundle[side] = Nothing
  <2> SUFFICES ASSUME bundle[side] # Nothing PROVE FALSE
    OBVIOUS
  <2>1. PICK e, r, i : Built(bundle[side], e, session[side], r, i, Marks.markers, Marks.notes)
    BY DEF DeskInv, SideInv
  <2> QED BY <1>1, <2>1, BuiltIs
<1>10. received[side] = Nothing
  BY <1>9 DEF DeskInv, SideInv
<1>11. SideInv(side)'
  <2>1. Opened(session'[side], d, series'[side])
    BY <1>1, <1>5
  <2>2. Built(bundle'[side], d, session'[side], range, include, Marks.markers, Marks.notes)
    BY <1>1, <1>3, <1>8
  <2>3. received'[side] = Nothing
    BY <1>1, <1>10
  <2> QED BY <2>1, <2>2, <2>3 DEF SideInv
<1>12. ASSUME NEW other \in Sides PROVE SideInv(other)'
  <2>1. CASE other = side
    BY <1>11, <2>1
  <2>2. CASE other # side
    <3>1. SideInv(other) /\ Untouched(other)
      BY <1>3, <2>2 DEF DeskInv
    <3> QED BY <3>1, UntouchedSide
  <2> QED BY <2>1, <2>2
<1> QED BY <1>3, <1>12 DEF DeskInv

LEMMA ReceiveStep ==
  ASSUME DeskInv, NEW side \in Sides, Receive(side)
  PROVE  DeskInv'
<1>1. /\ received' = [received EXCEPT ![side] =
                        IF Verifies(bundle[side]) THEN ReceiverDocument(bundle[side]) ELSE Refused]
      /\ UNCHANGED <<series, session, bundle, finding>> /\ Is(bundle[side])
  BY DEF Receive
<1>2. PICK doc : doc = IF Verifies(bundle[side]) THEN ReceiverDocument(bundle[side]) ELSE Refused
  OBVIOUS
<1>3. /\ DOMAIN series' = Sides /\ DOMAIN session' = Sides /\ DOMAIN bundle' = Sides /\ DOMAIN received' = Sides
      /\ received'[side] = doc
      /\ \A other \in Sides : other # side => Untouched(other)
  BY <1>1, <1>2 DEF DeskInv, Untouched
<1>4. bundle[side] # Nothing
  BY <1>1 DEF Is, Nothing
<1>5. SideInv(side)'
  <2>1. SideInv(side)
    BY DEF DeskInv
  <2>2. session'[side] = session[side] /\ series'[side] = series[side] /\ bundle'[side] = bundle[side]
    BY <1>1
  <2> QED BY <1>2, <1>3, <1>4, <2>1, <2>2 DEF SideInv
<1>6. ASSUME NEW other \in Sides PROVE SideInv(other)'
  <2>1. CASE other = side
    BY <1>5, <2>1
  <2>2. CASE other # side
    <3>1. SideInv(other) /\ Untouched(other)
      BY <1>3, <2>2 DEF DeskInv
    <3> QED BY <3>1, UntouchedSide
  <2> QED BY <2>1, <2>2
<1> QED BY <1>3, <1>6 DEF DeskInv

LEMMA DeskStep == DeskInv /\ [Next]_vars => DeskInv'
<1> SUFFICES ASSUME DeskInv, [Next]_vars PROVE DeskInv'
  OBVIOUS
<1>1. ASSUME NEW side \in Sides, NEW name \in Series, Open(side, name) PROVE DeskInv'
  BY <1>1, OpenStep
<1>2. ASSUME NEW side \in Sides, Is(session[side]), NEW range \in Ranges[series[side]],
             NEW include \in Inclusions[series[side]], Build(side, range, include)
      PROVE  DeskInv'
  BY <1>2, BuildStep
<1>3. ASSUME NEW side \in Sides, Receive(side) PROVE DeskInv'
  BY <1>3, ReceiveStep
<1>4. ASSUME UNCHANGED <<series, session, bundle, received>> PROVE DeskInv'
  <2>1. ASSUME NEW side \in Sides PROVE SideInv(side)'
    <3>1. SideInv(side) /\ Untouched(side)
      BY <1>4 DEF DeskInv, Untouched
    <3> QED BY <3>1, UntouchedSide
  <2>2. DOMAIN series' = Sides /\ DOMAIN session' = Sides /\ DOMAIN bundle' = Sides /\ DOMAIN received' = Sides
    BY <1>4 DEF DeskInv
  <2> QED BY <2>1, <2>2 DEF DeskInv
<1>5. ASSUME NEW alignment \in Alignments, CompareSessions(alignment) \/ CompareBundles(alignment)
      PROVE  UNCHANGED <<series, session, bundle, received>>
  BY <1>5 DEF CompareSessions, CompareBundles, Compared
<1>6. CASE UNCHANGED vars
  BY <1>4, <1>6 DEF vars
<1> QED BY <1>1, <1>2, <1>3, <1>4, <1>5, <1>6 DEF Next

LEMMA Desk == Spec => []DeskInv
  BY DeskStarts, DeskStep, PTL DEF Spec

LEMMA DeskVerifies == DeskInv => BundleVerifies
<1> SUFFICES ASSUME DeskInv, NEW side \in Sides, received[side] # Nothing
             PROVE  /\ received[side] # Refused
                    /\ received[side].completeness =
                         IF IsUnknown(session[side].doc) THEN "unknown"
                         ELSE IF IsSound(session[side].doc) THEN "verified" ELSE "incomplete"
  BY DEF BundleVerifies
<1>1. PICK b, s, r : b = bundle[side] /\ s = session[side] /\ r = received[side]
  OBVIOUS
<1>2. b # Nothing /\ r = IF Verifies(b) THEN ReceiverDocument(b) ELSE Refused
  BY <1>1 DEF DeskInv, SideInv
<1>3. PICK d, range, include : Built(b, d, s, range, include, Marks.markers, Marks.notes)
  BY <1>1, <1>2 DEF DeskInv, SideInv
<1>4. r = ReceiverDocument(b)
  BY <1>2, <1>3, BundleIsVerified
<1>5. b.receipt = ReceiptOf(d) /\ b.prov = ProvenanceSummary(d)
  <2>1. Fields(b, d, s, range, include, Marks.markers, Marks.notes)
    BY <1>3, BundleFields
  <2> QED BY <2>1 DEF Fields
<1>6. b.prov.status = ProvenanceOf(d).status
  BY <1>5 DEF ProvenanceSummary
<1>7. r.completeness = EvidenceVerdict(b.receipt.status, b.prov.status) /\ "bundle" \in DOMAIN r
  BY <1>4 DEF ReceiverDocument
<1>8. r.completeness = Deserved(d)
  <2>1. IsDocument(d) /\ Valid(d)
    BY <1>3 DEF Built
  <2> QED BY <1>5, <1>6, <1>7, <2>1, VerdictIsDeserved
<1>9. s.doc = d
  <2>1. s = ParseSession(d)
    BY <1>3 DEF Built
  <2> QED BY <2>1, OpenedIs
<1>10. r # Refused
  <2>1. "bundle" \notin DOMAIN Refused
    BY DEF Refused
  <2> QED BY <1>7, <2>1
<1> QED BY <1>1, <1>8, <1>9, <1>10 DEF Deserved

\* A receiver accepts every bundle of a session the program opens, whatever the range, the artifacts and the marks,
\* and its verdict on the bundle is the one the whole session deserves (bundle.ts against evidence-verifier.ts).
THEOREM BundlesVerify == Spec => []BundleVerifies
  BY Desk, DeskVerifies, PTL

-----------------------------------------------------------------------------
(* Sums that differ in one place, and sums in order *)

LEMMA SumAdd ==
  ASSUME NEW v, NEW w, NEW n \in Nat, n = Len(v), n = Len(w), NEW j \in 1..n, NEW x \in Int,
         \A i \in 1..n : v[i] \in Int, w[j] = v[j] + x, \A i \in 1..n : i # j => w[i] = v[i]
  PROVE  Sum(w) = Sum(v) + x
<1>1. PICK F : SummedTo(F, v, n) /\ Sum(v) = F[n]
  BY SumRun
<1>2. PICK G : SummedTo(G, w, n) /\ Sum(w) = G[n]
  BY SumRun
<1>3. \A k \in 0..n : F[k] \in Int
  BY <1>1, SumType
<1> DEFINE P == {k \in Nat : k <= n => G[k] = IF k < j THEN F[k] ELSE F[k] + x}
<1>4. 0 \in P
  BY <1>1, <1>2 DEF SummedTo
<1>5. ASSUME NEW k \in Nat, k \in P PROVE k + 1 \in P
  <2> SUFFICES ASSUME k + 1 <= n PROVE G[k + 1] = IF k + 1 < j THEN F[k + 1] ELSE F[k + 1] + x
    OBVIOUS
  <2>1. PICK m : m = k + 1
    OBVIOUS
  <2>2. m \in 1..n /\ m - 1 = k /\ k \in 0..n /\ k <= n
    BY <2>1
  <2>3. F[m] = F[k] + v[m] /\ G[m] = G[k] + w[m]
    BY <1>1, <1>2, <2>2 DEF SummedTo
  <2>4. F[k] \in Int /\ v[m] \in Int /\ v[j] \in Int
    BY <1>3, <2>2
  <2>5. G[k] = IF k < j THEN F[k] ELSE F[k] + x
    BY <1>5, <2>2
  <2>6. CASE m = j
    BY <2>1, <2>2, <2>3, <2>4, <2>5, <2>6
  <2>7. CASE m # j
    <3>1. w[m] = v[m] /\ (k < j) = (m < j)
      BY <2>1, <2>2, <2>7
    <3> QED BY <2>1, <2>2, <2>3, <2>4, <2>5, <3>1
  <2> QED BY <2>6, <2>7
<1> HIDE DEF P
<1>6. Nat \subseteq P
  BY <1>4, <1>5, SetInduction
<1>7. G[n] = IF n < j THEN F[n] ELSE F[n] + x
  BY <1>6 DEF P
<1> QED BY <1>1, <1>2, <1>7

LEMMA SumOrder ==
  ASSUME NEW v, NEW w, NEW n \in Nat, n = Len(v), n = Len(w),
         \A i \in 1..n : v[i] \in Int /\ w[i] \in Int /\ v[i] <= w[i]
  PROVE  Sum(v) <= Sum(w) /\ Sum(v) \in Int /\ Sum(w) \in Int
<1>1. PICK F : SummedTo(F, v, n) /\ Sum(v) = F[n]
  BY SumRun
<1>2. PICK G : SummedTo(G, w, n) /\ Sum(w) = G[n]
  BY SumRun
<1>3. \A k \in 0..n : F[k] \in Int
  BY <1>1, SumType
<1>4. \A k \in 0..n : G[k] \in Int
  BY <1>2, SumType
<1> DEFINE P == {k \in Nat : k <= n => F[k] <= G[k]}
<1>5. 0 \in P
  BY <1>1, <1>2 DEF SummedTo
<1>6. ASSUME NEW k \in Nat, k \in P PROVE k + 1 \in P
  <2> SUFFICES ASSUME k + 1 <= n PROVE F[k + 1] <= G[k + 1]
    OBVIOUS
  <2>1. PICK m : m = k + 1
    OBVIOUS
  <2>2. m \in 1..n /\ m - 1 = k /\ k \in 0..n /\ k <= n
    BY <2>1
  <2>3. F[m] = F[k] + v[m] /\ G[m] = G[k] + w[m]
    BY <1>1, <1>2, <2>2 DEF SummedTo
  <2>4. F[k] \in Int /\ G[k] \in Int /\ F[k] <= G[k]
    BY <1>3, <1>4, <1>6, <2>2
  <2> QED BY <2>1, <2>2, <2>3, <2>4
<1> HIDE DEF P
<1>7. Nat \subseteq P
  BY <1>5, <1>6, SetInduction
<1>8. F[n] <= G[n] /\ F[n] \in Int /\ G[n] \in Int
  BY <1>3, <1>4, <1>7 DEF P
<1> QED BY <1>1, <1>2, <1>8

\* A sum of equal numbers.
LEMMA SumSame ==
  ASSUME NEW v, NEW n \in Nat, n = Len(v), NEW x \in {0, 1}, \A i \in 1..n : v[i] = x
  PROVE  Sum(v) = IF x = 0 THEN 0 ELSE n
<1>1. PICK F : SummedTo(F, v, n) /\ Sum(v) = F[n]
  BY SumRun
<1> DEFINE P == {k \in Nat : k <= n => F[k] = IF x = 0 THEN 0 ELSE k}
<1>2. 0 \in P
  BY <1>1 DEF SummedTo
<1>3. ASSUME NEW k \in Nat, k \in P PROVE k + 1 \in P
  <2> SUFFICES ASSUME k + 1 <= n PROVE F[k + 1] = IF x = 0 THEN 0 ELSE k + 1
    OBVIOUS
  <2>1. PICK m : m = k + 1
    OBVIOUS
  <2>2. m \in 1..n /\ m - 1 = k /\ k <= n
    BY <2>1
  <2>3. F[m] = F[k] + v[m] /\ v[m] = x
    BY <1>1, <2>2 DEF SummedTo
  <2> QED BY <1>3, <2>1, <2>2, <2>3
<1> HIDE DEF P
<1>4. Nat \subseteq P
  BY <1>2, <1>3, SetInduction
<1> QED BY <1>1, <1>4 DEF P

\* The sum of what a filter keeps.
LEMMA SumKept ==
  ASSUME NEW v, NEW n \in Nat, n = Len(v), \A i \in 1..n : v[i] \in Int,
         NEW S, NEW w, w = [i \in 1..n |-> IF i \in S THEN v[i] ELSE 0]
  PROVE  Sum(Chosen(v, S)) = Sum(w)
<1>1. PICK T : TakenTo(T, v, S, n) /\ Chosen(v, S) = T[n]
  BY ChosenRun
<1>2. Len(w) = n
  OBVIOUS
<1>3. PICK G : SummedTo(G, w, n) /\ Sum(w) = G[n]
  BY <1>2, SumRun
<1>7. \A k \in 0..n : G[k] \in Int
  <2>1. \A i \in 1..n : w[i] \in Int
    OBVIOUS
  <2> QED BY <1>3, <2>1, SumType
<1> DEFINE P == {k \in Nat : k <= n => IsSeq(T[k]) /\ Sum(T[k]) = G[k]}
<1>4. 0 \in P
  <2>1. IsSeq(<<>>)
    BY FewFacts
  <2>2. T[0] = <<>> /\ G[0] = 0
    BY <1>1, <1>3 DEF TakenTo, SummedTo
  <2> QED BY <2>1, <2>2, SumOfNone
<1>5. ASSUME NEW k \in Nat, k \in P PROVE k + 1 \in P
  <2> SUFFICES ASSUME k + 1 <= n PROVE IsSeq(T[k + 1]) /\ Sum(T[k + 1]) = G[k + 1]
    OBVIOUS
  <2>1. PICK m : m = k + 1
    OBVIOUS
  <2>2. m \in 1..n /\ m - 1 = k /\ k <= n /\ k \in 0..n
    BY <2>1
  <2>3. PICK t, g, x : t = T[k] /\ g = G[k] /\ x = v[m]
    OBVIOUS
  <2>4. T[m] = (IF m \in S THEN Append(t, x) ELSE t) /\ G[m] = g + w[m]
    BY <1>1, <1>3, <2>2, <2>3 DEF TakenTo, SummedTo
  <2>5. IsSeq(t) /\ Sum(t) = g
    BY <1>5, <2>2, <2>3
  <2>6. CASE m \in S
    <3>1. IsSeq(Append(t, x)) /\ Sum(Append(t, x)) = g + x
      BY <2>5, AppendTo, SumMore
    <3> QED BY <2>1, <2>2, <2>3, <2>4, <2>6, <3>1
  <2>7. CASE m \notin S
    <3>1. G[m] = g + 0
      BY <2>2, <2>4, <2>7
    <3>2. g \in Int
      BY <1>7, <2>2, <2>3
    <3> QED BY <2>1, <2>4, <2>5, <2>7, <3>1, <3>2
  <2> QED BY <2>6, <2>7
<1> HIDE DEF P
<1>6. Nat \subseteq P
  BY <1>4, <1>5, SetInduction
<1> QED BY <1>1, <1>3, <1>6 DEF P

LEMMA MostOfTwo ==
  ASSUME NEW x \in Int, NEW y \in Int
  PROVE  Most({x, y}) \in {x, y} /\ x <= Most({x, y}) /\ y <= Most({x, y})
<1>1. \E z \in {x, y} : \A w \in {x, y} : w <= z  OBVIOUS
<1> QED  BY <1>1 DEF Most

-----------------------------------------------------------------------------
(* What the loop over the frames counts in its buckets *)

\* The frames as the loops read them.
FramesFact(frames, n) ==
  /\ IsSeq(frames) /\ n = Len(frames) /\ n \in Nat \ {0} /\ DOMAIN frames = 1..n
  /\ \A i \in 1..n : frames[i].at \in Nat /\ {frames[i].seq, frames[i].drops} \subseteq OrNull
                     /\ {frames[i].rssi, frames[i].field} \subseteq Int
  /\ \A i \in 1..n, j \in 1..n : i <= j => frames[i].at <= frames[j].at
  /\ \A i \in 1..n, j \in 1..n : Trusted(frames[i]) /\ Trusted(frames[j]) => (frames[i].seq = Null) = (frames[j].seq = Null)

LEMMA FramesFacts ==
  ASSUME NEW d, IsDocument(d), Valid(d), NEW s, s = ParseSession(d), NEW n, n = Len(d.rows)
  PROVE  FramesFact(s.frames, n) /\ d.duration \in Nat \ {0} /\ \A i \in 1..n : s.frames[i].at < d.duration
<1>1. RowsFact(d, n)
  BY RowFacts
<1>2. /\ IsSeq(s.frames) /\ Len(s.frames) = n /\ DOMAIN s.frames = 1..n
      /\ \A i \in 1..n : s.frames[i] = Decoded(d.rows[i]) /\ s.frames[i].at = d.rows[i].at
  BY <1>1, FrameFacts
<1>3. n \in Nat \ {0} /\ d.duration \in Nat \ {0} /\ DOMAIN d.rows = 1..n
      /\ (\A i \in 1..n : d.rows[i].at \in Nat /\ d.rows[i].at < d.duration /\ IsRow(d.rows[i]))
      /\ (\A i \in 1..n, j \in 1..n : i <= j => d.rows[i].at <= d.rows[j].at)
  BY <1>1 DEF RowsFact
<1>4. ASSUME NEW i \in 1..n
      PROVE  /\ s.frames[i].seq = d.rows[i].seq /\ s.frames[i].drops = d.rows[i].drops
             /\ s.frames[i].rssi = d.rows[i].rssi /\ s.frames[i].field = d.rows[i].field
             /\ s.frames[i].check = d.rows[i].check
  <2>1. PICK f, r : f = s.frames[i] /\ r = d.rows[i]
    OBVIOUS
  <2>2. f = Decoded(r)
    BY <1>2, <2>1
  <2>3. f.seq = r.seq /\ f.drops = r.drops /\ f.rssi = r.rssi /\ f.field = r.field /\ f.check = r.check
    BY <2>2 DEF Decoded
  <2> QED BY <2>1, <2>3
<1>5. \A i \in 1..n : {s.frames[i].seq, s.frames[i].drops} \subseteq OrNull /\ {s.frames[i].rssi, s.frames[i].field} \subseteq Int
  <2>1. ASSUME NEW i \in 1..n
        PROVE  {s.frames[i].seq, s.frames[i].drops} \subseteq OrNull /\ {s.frames[i].rssi, s.frames[i].field} \subseteq Int
    <3>1. PICK f, r : f = s.frames[i] /\ r = d.rows[i]
      OBVIOUS
    <3>2. f.seq = r.seq /\ f.drops = r.drops /\ f.rssi = r.rssi /\ f.field = r.field
      BY <1>4, <3>1
    <3>3. IsRow(r)
      BY <1>3, <3>1
    <3> QED BY <3>1, <3>2, <3>3 DEF IsRow
  <2> QED BY <2>1
<1>6. \A i \in 1..n, j \in 1..n :
        Trusted(s.frames[i]) /\ Trusted(s.frames[j]) => (s.frames[i].seq = Null) = (s.frames[j].seq = Null)
  <2>1. \A i \in 1..n, j \in 1..n :
          d.rows[i].check = "valid" /\ d.rows[j].check = "valid" => (d.rows[i].seq = Null) = (d.rows[j].seq = Null)
    BY <1>3 DEF IsDocument
  <2>2. ASSUME NEW i \in 1..n, NEW j \in 1..n, Trusted(s.frames[i]), Trusted(s.frames[j])
        PROVE  (s.frames[i].seq = Null) = (s.frames[j].seq = Null)
    <3>1. PICK f, g, q, r : f = s.frames[i] /\ g = s.frames[j] /\ q = d.rows[i] /\ r = d.rows[j]
      OBVIOUS
    <3>2. f.seq = q.seq /\ g.seq = r.seq /\ f.check = q.check /\ g.check = r.check
      BY <1>4, <3>1
    <3>3. q.check = "valid" /\ r.check = "valid"
      BY <2>2, <3>1, <3>2 DEF Trusted
    <3>4. (q.seq = Null) = (r.seq = Null)
      BY <2>1, <3>1, <3>3
    <3> QED BY <3>1, <3>2, <3>4
  <2> QED BY <2>2
<1> QED BY <1>2, <1>3, <1>5, <1>6 DEF FramesFact

LEMMA GapIsNat ==
  ASSUME NEW before \in Nat, NEW seq \in Nat, NEW untrusted \in Nat
  PROVE  Gap(before, seq, untrusted) \in Nat
<1>1. PICK m \in Nat : m = SeqModulus /\ m > 0
  BY SessionAssumption
<1>2. PICK delta : delta = (seq - before + m) % m
  OBVIOUS
<1>3. delta \in Int
  <2>1. \A a \in Int : a % m \in Int
    BY <1>1
  <2>2. seq - before + m \in Int
    BY <1>1
  <2> QED BY <1>2, <2>1, <2>2
<1>4. PICK x \in Int : x = delta - 1 - untrusted
  BY <1>3
<1>9. PICK z \in Int : z = 0
  OBVIOUS
<1>5. PICK y : y = Most({z, x})
  OBVIOUS
<1>6. y \in {z, x} /\ z <= y
  <2>1. Most({z, x}) \in {z, x} /\ z <= Most({z, x})
    BY MostOfTwo
  <2> QED BY <1>5, <2>1
<1>7. y \in Nat
  BY <1>4, <1>6, <1>9
<1>8. Gap(before, seq, untrusted) = IF 1 < delta /\ delta <= m \div 2 THEN y ELSE 0
  BY <1>1, <1>2, <1>4, <1>5, <1>9 DEF Gap
<1> QED BY <1>7, <1>8

LEMMA DroppedIsNat ==
  ASSUME NEW before \in OrNull, NEW counter \in OrNull
  PROVE  Dropped(before, counter) \in Nat
  BY DEF Dropped, OrNull, Null

BucketFields == {"received", "dropped", "skipped", "rssi", "samples", "field"}
IsBucket(b) ==
  DOMAIN b = BucketFields
  /\ b.received \in Nat /\ b.dropped \in Nat /\ b.skipped \in Nat /\ b.rssi \in Int /\ b.samples \in Nat
AreBuckets(buckets, B) ==
  IsSeq(buckets) /\ Len(buckets) = B /\ DOMAIN buckets = 1..B /\ \A b \in 1..B : IsBucket(buckets[b])

GapAt(acc, f) == IF Sequenced(f) /\ acc.seq # Null THEN Gap(acc.seq, f.seq, acc.untrusted) ELSE 0

\* What a frame changes: the bucket of its second.
Counted1(old, new, f, gap, dropped) ==
  /\ DOMAIN new = BucketFields
  /\ new.received = old.received + 1 /\ new.dropped = old.dropped + dropped /\ new.skipped = old.skipped + gap
  /\ new.rssi = (IF f.rssi = Null THEN old.rssi ELSE old.rssi + f.rssi)
  /\ new.samples = (IF f.rssi = Null THEN old.samples ELSE old.samples + 1)
CountedIn(old, new, f, j, gap, dropped) ==
  /\ new = [b \in DOMAIN old |-> new[b]] /\ \A b \in DOMAIN old : b # j => new[b] = old[b]
  /\ Counted1(old[j], new[j], f, gap, dropped)

LEMMA BucketedTurn ==
  ASSUME NEW acc, NEW f, NEW j, j = f.at \div Second + 1, j \in DOMAIN acc.buckets,
         NEW next, next = Bucketed(acc, f)
  PROVE  /\ next.seq = (IF Sequenced(f) THEN f.seq ELSE acc.seq)
         /\ next.untrusted = (IF Sequenced(f) THEN 0 ELSE acc.untrusted + 1)
         /\ next.drops = (IF f.drops # Null THEN f.drops ELSE acc.drops)
         /\ CountedIn(acc.buckets, next.buckets, f, j, GapAt(acc, f), Dropped(acc.drops, f.drops))
<1>1. PICK gap, dropped : gap = GapAt(acc, f) /\ dropped = Dropped(acc.drops, f.drops)
  OBVIOUS
<1>2. PICK old, new : old = acc.buckets[j] /\
        new = [received |-> old.received + 1, dropped |-> old.dropped + dropped, skipped |-> old.skipped + gap,
               rssi |-> IF f.rssi = Null THEN old.rssi ELSE old.rssi + f.rssi,
               samples |-> IF f.rssi = Null THEN old.samples ELSE old.samples + 1,
               field |-> IF f.status = "complete" /\ f.field # Null THEN f.field ELSE old.field]
  OBVIOUS
<1>3. next = [seq |-> IF Sequenced(f) THEN f.seq ELSE acc.seq,
              untrusted |-> IF Sequenced(f) THEN 0 ELSE acc.untrusted + 1,
              drops |-> IF f.drops # Null THEN f.drops ELSE acc.drops,
              buckets |-> [acc.buckets EXCEPT ![j] = new]]
  BY <1>1, <1>2, Zenon DEF Bucketed, GapAt
<1>4. Counted1(old, new, f, gap, dropped)
  BY <1>2 DEF Counted1, BucketFields
<1>5. PICK buckets : buckets = [acc.buckets EXCEPT ![j] = new]
  OBVIOUS
<1>6. buckets = [b \in DOMAIN acc.buckets |-> buckets[b]] /\ buckets[j] = new /\ \A b \in DOMAIN acc.buckets : b # j => buckets[b] = acc.buckets[b]
  BY <1>5
<1>7. CountedIn(acc.buckets, buckets, f, j, gap, dropped)
  BY <1>2, <1>4, <1>6 DEF CountedIn
<1> QED BY <1>1, <1>3, <1>5, <1>7

\* One of the counters of every bucket.
Values(buckets, field) == [b \in 1..Len(buckets) |-> buckets[b][field]]

\* A frame adds to the sum of a counter what it adds to its bucket's.
LEMMA ValuesAdd ==
  ASSUME NEW old, NEW new, NEW B \in Nat, AreBuckets(old, B), AreBuckets(new, B),
         NEW j \in 1..B, NEW x \in Int, NEW field \in {"received", "dropped", "skipped"},
         new[j][field] = old[j][field] + x, \A b \in 1..B : b # j => new[b] = old[b]
  PROVE  Sum(Values(new, field)) = Sum(Values(old, field)) + x
<1>1. PICK v, w : v = Values(old, field) /\ w = Values(new, field)
  OBVIOUS
<1>2. v = [b \in 1..B |-> old[b][field]] /\ w = [b \in 1..B |-> new[b][field]]
  BY <1>1 DEF Values, AreBuckets
<1>3. Len(v) = B /\ Len(w) = B
  BY <1>2
<1>4. \A b \in 1..B : v[b] = old[b][field] /\ w[b] = new[b][field]
  BY <1>2
<1>5. ASSUME NEW b \in 1..B PROVE v[b] \in Int
  <2>1. PICK o : o = old[b]
    OBVIOUS
  <2>4. IsBucket(o)
    BY <2>1 DEF AreBuckets
  <2>2. o["received"] \in Int /\ o["dropped"] \in Int /\ o["skipped"] \in Int
    BY <2>4 DEF IsBucket
  <2>3. v[b] = o[field]
    BY <1>4, <2>1
  <2> QED BY <2>2, <2>3
<1>6. w[j] = v[j] + x /\ \A b \in 1..B : b # j => w[b] = v[b]
  BY <1>4
<1>7. Sum(w) = Sum(v) + x
  BY <1>3, <1>5, <1>6, SumAdd
<1> QED BY <1>1, <1>7

\* What the three loops over the frames have when they have seen the same frames.
TurnsAgree(acc, skips, drops, B, k) ==
  /\ AreBuckets(acc.buckets, B)
  /\ acc.seq \in OrNull /\ acc.untrusted \in Nat /\ acc.drops \in OrNull
  /\ DOMAIN skips = {"seq", "untrusted", "skipped"}
  /\ skips.seq = acc.seq /\ skips.untrusted = acc.untrusted /\ skips.skipped \in Nat
  /\ drops.drops = acc.drops /\ drops.dropped \in Nat
  /\ Sum(Values(acc.buckets, "received")) = k
  /\ Sum(Values(acc.buckets, "skipped")) = skips.skipped
  /\ Sum(Values(acc.buckets, "dropped")) = drops.dropped

\* What a frame adds to the two loops over the frames is what it adds to its bucket.
SkipsOn(skips, next, f, acc, gap) ==
  /\ DOMAIN next = {"seq", "untrusted", "skipped"} /\ next.seq = (IF Sequenced(f) THEN f.seq ELSE acc.seq)
  /\ next.untrusted = (IF Sequenced(f) THEN 0 ELSE acc.untrusted + 1) /\ next.skipped = skips.skipped + gap
DropsOn(drops, next, f, acc, dropped) ==
  next.drops = (IF f.drops # Null THEN f.drops ELSE acc.drops) /\ next.dropped = drops.dropped + dropped

LEMMA CountersAdd ==
  ASSUME NEW acc, NEW skips, NEW drops, NEW B \in Nat, NEW k \in Nat, TurnsAgree(acc, skips, drops, B, k),
         NEW f, {f.seq, f.drops} \subseteq OrNull,
         NEW gap, gap = GapAt(acc, f), NEW dropped, dropped = Dropped(acc.drops, f.drops)
  PROVE  /\ gap \in Nat /\ dropped \in Nat
         /\ SkipsOn(skips, SkippedNext(skips, f), f, acc, gap) /\ DropsOn(drops, DroppedNext(drops, f), f, acc, dropped)
<1>1. /\ acc.seq \in OrNull /\ acc.untrusted \in Nat /\ acc.drops \in OrNull /\ drops.drops = acc.drops
      /\ DOMAIN skips = {"seq", "untrusted", "skipped"} /\ skips.seq = acc.seq /\ skips.untrusted = acc.untrusted
      /\ skips.skipped \in Nat
  BY DEF TurnsAgree
<1>2. PICK skipping, dropping : skipping = SkippedNext(skips, f) /\ dropping = DroppedNext(drops, f)
  OBVIOUS
<1>3. gap \in Nat
  <2>1. CASE Sequenced(f) /\ acc.seq # Null
    <3>1. f.seq \in Nat /\ acc.seq \in Nat
      BY <1>1, <2>1 DEF Sequenced, OrNull
    <3> QED BY <1>1, <2>1, <3>1, GapIsNat DEF GapAt
  <2>2. CASE ~(Sequenced(f) /\ acc.seq # Null)
    BY <2>2 DEF GapAt
  <2> QED BY <2>1, <2>2
<1>4. dropped \in Nat
  BY <1>1, DroppedIsNat
<1>5. DropsOn(drops, dropping, f, acc, dropped)
  BY <1>1, <1>2 DEF DroppedNext, DropsOn
<1>6. SkipsOn(skips, skipping, f, acc, gap)
  <2>1. CASE Sequenced(f)
    <3>1. skipping = [seq |-> f.seq, untrusted |-> 0,
                      skipped |-> skips.skipped + IF skips.seq # Null THEN Gap(skips.seq, f.seq, skips.untrusted) ELSE 0]
      BY <1>2, <2>1 DEF SkippedNext
    <3>2. skipping.skipped = skips.skipped + gap
      BY <1>1, <2>1, <3>1 DEF GapAt
    <3> QED BY <2>1, <3>1, <3>2 DEF SkipsOn
  <2>2. CASE ~Sequenced(f)
    <3>1. skipping = [skips EXCEPT !.untrusted = skips.untrusted + 1]
      BY <1>2, <2>2, Zenon DEF SkippedNext
    <3>2. gap = 0
      BY <2>2 DEF GapAt
    <3> QED BY <1>1, <2>2, <3>1, <3>2 DEF SkipsOn
  <2> QED BY <2>1, <2>2
<1> QED BY <1>2, <1>3, <1>4, <1>5, <1>6

LEMMA CountersTurn ==
  ASSUME NEW acc, NEW skips, NEW drops, NEW B \in Nat, NEW k \in Nat, TurnsAgree(acc, skips, drops, B, k),
         NEW f, f.at \in Nat, {f.seq, f.drops} \subseteq OrNull, f.rssi \in Int, f.at \div Second + 1 \in 1..B
  PROVE  TurnsAgree(Bucketed(acc, f), SkippedNext(skips, f), DroppedNext(drops, f), B, k + 1)
<1>1. PICK next, skipping, dropping :
        next = Bucketed(acc, f) /\ skipping = SkippedNext(skips, f) /\ dropping = DroppedNext(drops, f)
  OBVIOUS
<1>2. PICK j \in 1..B : j = f.at \div Second + 1
  OBVIOUS
<1>3. PICK gap, dropped : gap = GapAt(acc, f) /\ dropped = Dropped(acc.drops, f.drops)
  OBVIOUS
<1>4. AreBuckets(acc.buckets, B) /\ acc.seq \in OrNull /\ acc.untrusted \in Nat /\ acc.drops \in OrNull
  BY DEF TurnsAgree
<1>5. /\ gap \in Nat /\ dropped \in Nat
      /\ SkipsOn(skips, skipping, f, acc, gap) /\ DropsOn(drops, dropping, f, acc, dropped)
  BY <1>1, <1>3, CountersAdd
<1>7. /\ next.seq = (IF Sequenced(f) THEN f.seq ELSE acc.seq)
      /\ next.untrusted = (IF Sequenced(f) THEN 0 ELSE acc.untrusted + 1)
      /\ next.drops = (IF f.drops # Null THEN f.drops ELSE acc.drops)
      /\ CountedIn(acc.buckets, next.buckets, f, j, gap, dropped)
  <2>1. j \in DOMAIN acc.buckets
    BY <1>2, <1>4 DEF AreBuckets
  <2> QED BY <1>1, <1>2, <1>3, <2>1, BucketedTurn
<1>8. PICK old, new : old = acc.buckets /\ new = next.buckets
  OBVIOUS
<1>9. /\ AreBuckets(old, B) /\ new = [b \in 1..B |-> new[b]] /\ \A b \in 1..B : b # j => new[b] = old[b]
      /\ Counted1(old[j], new[j], f, gap, dropped)
  BY <1>4, <1>7, <1>8 DEF CountedIn, AreBuckets
<1>10. IsBucket(new[j])
  <2>1. PICK o, n : o = old[j] /\ n = new[j]
    OBVIOUS
  <2>2. IsBucket(o) /\ Counted1(o, n, f, gap, dropped)
    BY <1>9, <2>1 DEF AreBuckets
  <2>3. IsBucket(n)
    BY <1>5, <2>2 DEF IsBucket, Counted1
  <2> QED BY <2>1, <2>3
<1>11. AreBuckets(new, B)
  <2>1. IsSeq(new) /\ Len(new) = B /\ DOMAIN new = 1..B
    BY <1>9, GivenFacts
  <2> QED BY <1>9, <1>10, <2>1 DEF AreBuckets
<1>13. /\ Sum(Values(new, "received")) = Sum(Values(old, "received")) + 1
       /\ Sum(Values(new, "dropped")) = Sum(Values(old, "dropped")) + dropped
       /\ Sum(Values(new, "skipped")) = Sum(Values(old, "skipped")) + gap
  <2>1. PICK x \in Int : x = 1
    OBVIOUS
  <2>2. /\ new[j]["received"] = old[j]["received"] + x /\ new[j]["dropped"] = old[j]["dropped"] + dropped
        /\ new[j]["skipped"] = old[j]["skipped"] + gap
    BY <1>9, <2>1 DEF Counted1
  <2>3. gap \in Int /\ dropped \in Int
    BY <1>5
  <2>4. PICK r, d, s : r = "received" /\ d = "dropped" /\ s = "skipped"
    OBVIOUS
  <2>5. Sum(Values(new, r)) = Sum(Values(old, r)) + x
    BY <1>9, <1>11, <2>1, <2>2, <2>4, ValuesAdd
  <2>6. Sum(Values(new, d)) = Sum(Values(old, d)) + dropped
    BY <1>9, <1>11, <2>2, <2>3, <2>4, ValuesAdd
  <2>7. Sum(Values(new, s)) = Sum(Values(old, s)) + gap
    BY <1>9, <1>11, <2>2, <2>3, <2>4, ValuesAdd
  <2> QED BY <2>1, <2>4, <2>5, <2>6, <2>7
<1>14. dropping.drops = next.drops /\ dropping.dropped = drops.dropped + dropped
  BY <1>5, <1>7 DEF DropsOn
<1>15. /\ DOMAIN skipping = {"seq", "untrusted", "skipped"} /\ skipping.seq = next.seq
       /\ skipping.untrusted = next.untrusted /\ skipping.skipped = skips.skipped + gap
  BY <1>5, <1>7 DEF SkipsOn
<1>16. next.seq \in OrNull /\ next.untrusted \in Nat /\ next.drops \in OrNull
  BY <1>4, <1>7
<1>17. /\ skips.skipped \in Nat /\ drops.dropped \in Nat /\ Sum(Values(old, "received")) = k
       /\ Sum(Values(old, "skipped")) = skips.skipped /\ Sum(Values(old, "dropped")) = drops.dropped
  BY <1>8 DEF TurnsAgree
<1>18. TurnsAgree(next, skipping, dropping, B, k + 1)
  BY <1>5, <1>8, <1>11, <1>13, <1>14, <1>15, <1>16, <1>17 DEF TurnsAgree
<1> QED BY <1>1, <1>18

\* An offset within the session is in one of its buckets.
LEMMA BucketOf ==
  ASSUME NEW d, d.duration \in Nat \ {0}, NEW at \in Nat, at < d.duration
  PROVE  at \div Second + 1 \in 1..BucketCount(d) /\ at \div Second \in Nat
<1>1. PICK D \in Nat \ {0}, S \in Nat \ {0} : D = d.duration /\ S = Second
  BY LagFacts
<1>2. (D + S - 1) \div S \in Nat /\ at \div S \in Nat
  BY <1>1
<1>3. PICK B \in Nat, q \in Nat : B = (D + S - 1) \div S /\ q = at \div S
  BY <1>2
<1>4. B * S + S > D + S - 1 /\ q * S <= at
  BY <1>3
<1>5. PICK x \in Int, y \in Int : x = B * S /\ y = q * S
  OBVIOUS
<1>6. y < x
  BY <1>1, <1>4, <1>5
<1>7. q < B
  <2> SUFFICES ASSUME B <= q PROVE FALSE
    OBVIOUS
  <2>1. PICK r \in Nat : q = B + r
    <3>1. q - B \in Nat /\ q = B + (q - B)
      OBVIOUS
    <3> QED BY <3>1
  <2>2. \A a \in Nat, b \in Nat, c \in Nat : (a + b) * c = a * c + b * c /\ b * c \in Nat
    OBVIOUS
  <2>3. y = x + r * S /\ r * S \in Nat
    BY <1>5, <2>1, <2>2
  <2> QED BY <1>6, <2>3
<1> QED BY <1>1, <1>3, <1>7 DEF BucketCount

NoSkips == [seq |-> Null, untrusted |-> 0, skipped |-> 0]
NoDrops == [drops |-> Null, dropped |-> 0]

LEMMA CountersStart ==
  ASSUME NEW B \in Nat, NEW start,
         start = [seq |-> Null, untrusted |-> 0, drops |-> Null, buckets |-> [b \in 1..B |-> EmptyBucket]]
  PROVE  TurnsAgree(start, NoSkips, NoDrops, B, 0)
<1>1. PICK e : e = EmptyBucket
  OBVIOUS
<1>2. IsBucket(e) /\ e.received = 0 /\ e.dropped = 0 /\ e.skipped = 0
  <2>1. e = [received |-> 0, dropped |-> 0, skipped |-> 0, rssi |-> 0, samples |-> 0, field |-> Null]
    BY <1>1 DEF EmptyBucket
  <2>2. DOMAIN e = BucketFields
    BY <2>1 DEF BucketFields
  <2>3. e.received = 0 /\ e.dropped = 0 /\ e.skipped = 0 /\ e.rssi = 0 /\ e.samples = 0
    BY <2>1
  <2> QED BY <2>2, <2>3 DEF IsBucket
<1>3. PICK buckets : buckets = [b \in 1..B |-> e]
  OBVIOUS
<1>4. IsSeq(buckets) /\ Len(buckets) = B /\ DOMAIN buckets = 1..B /\ \A b \in 1..B : buckets[b] = e
  <2>1. buckets = [b \in 1..B |-> buckets[b]]
    BY <1>3
  <2>2. \A b \in 1..B : buckets[b] = e
    BY <1>3
  <2> QED BY <2>1, <2>2, GivenFacts
<1>5. AreBuckets(buckets, B)
  BY <1>2, <1>4 DEF AreBuckets
<1>6. ASSUME NEW field \in {"received", "dropped", "skipped"} PROVE Sum(Values(buckets, field)) = 0
  <2>1. PICK v : v = Values(buckets, field)
    OBVIOUS
  <2>2. v = [b \in 1..B |-> buckets[b][field]]
    BY <1>4, <2>1 DEF Values
  <2>3. e["received"] = 0 /\ e["dropped"] = 0 /\ e["skipped"] = 0
    BY <1>2
  <2>4. PICK z \in {0, 1} : z = 0
    OBVIOUS
  <2>5. Len(v) = B /\ \A b \in 1..B : v[b] = z
    BY <1>4, <2>2, <2>3, <2>4
  <2>6. Sum(v) = IF z = 0 THEN 0 ELSE B
    BY <2>5, SumSame
  <2> QED BY <2>1, <2>4, <2>6
<1>7. start.buckets = buckets /\ start.seq = Null /\ start.untrusted = 0 /\ start.drops = Null
  BY <1>1, <1>3
<1>8. /\ DOMAIN NoSkips = {"seq", "untrusted", "skipped"} /\ NoSkips.seq = Null /\ NoSkips.untrusted = 0
      /\ NoSkips.skipped = 0 /\ NoDrops.drops = Null /\ NoDrops.dropped = 0
  BY DEF NoSkips, NoDrops
<1>9. Null \in OrNull
  BY DEF OrNull
<1> QED BY <1>5, <1>6, <1>7, <1>8, <1>9 DEF TurnsAgree

\* The buckets of a session and the two loops over its frames count the same.
LEMMA CountersEnd ==
  ASSUME NEW d, d.duration \in Nat \ {0}, NEW frames, NEW n, FramesFact(frames, n),
         \A i \in 1..n : frames[i].at < d.duration,
         NEW G, SkippedNextTurns(G, NoSkips, frames, n), NEW D, DroppedNextTurns(D, NoDrops, frames, n),
         NEW F, NEW B, B = BucketCount(d),
         BucketedTurns(F, [seq |-> Null, untrusted |-> 0, drops |-> Null, buckets |-> [b \in 1..B |-> EmptyBucket]], frames, n)
  PROVE  \A k \in 0..n : TurnsAgree(F[k], G[k], D[k], B, k)
<1>1. B \in Nat /\ n \in Nat
  BY BucketCountFacts DEF FramesFact
<1> DEFINE P == {k \in Nat : k <= n => TurnsAgree(F[k], G[k], D[k], B, k)}
<1>2. 0 \in P
  <2>1. PICK start : start = [seq |-> Null, untrusted |-> 0, drops |-> Null, buckets |-> [b \in 1..B |-> EmptyBucket]]
    OBVIOUS
  <2>2. TurnsAgree(start, NoSkips, NoDrops, B, 0)
    BY <1>1, <2>1, CountersStart
  <2>3. F[0] = start /\ G[0] = NoSkips /\ D[0] = NoDrops
    BY <2>1 DEF BucketedTurns, SkippedNextTurns, DroppedNextTurns
  <2> QED BY <2>2, <2>3
<1>3. ASSUME NEW k \in Nat, k \in P PROVE k + 1 \in P
  <2> SUFFICES ASSUME k + 1 <= n PROVE TurnsAgree(F[k + 1], G[k + 1], D[k + 1], B, k + 1)
    OBVIOUS
  <2>1. PICK m : m = k + 1
    OBVIOUS
  <2>2. m \in 1..n /\ m - 1 = k /\ k <= n
    BY <1>1, <2>1
  <2>3. PICK acc, skips, drops, f : acc = F[k] /\ skips = G[k] /\ drops = D[k] /\ f = frames[m]
    OBVIOUS
  <2>4. TurnsAgree(acc, skips, drops, B, k)
    BY <1>3, <2>2, <2>3
  <2>5. f.at \in Nat /\ {f.seq, f.drops} \subseteq OrNull /\ f.rssi \in Int /\ f.at < d.duration
    BY <2>2, <2>3 DEF FramesFact
  <2>6. f.at \div Second + 1 \in 1..B
    BY <2>5, BucketOf
  <2>7. TurnsAgree(Bucketed(acc, f), SkippedNext(skips, f), DroppedNext(drops, f), B, k + 1)
    BY <1>1, <2>4, <2>5, <2>6, CountersTurn
  <2>8. F[m] = Bucketed(acc, f) /\ G[m] = SkippedNext(skips, f) /\ D[m] = DroppedNext(drops, f)
    BY <2>2, <2>3 DEF BucketedTurns, SkippedNextTurns, DroppedNextTurns
  <2> QED BY <2>1, <2>7, <2>8
<1> HIDE DEF P
<1>4. Nat \subseteq P
  BY <1>2, <1>3, SetInduction
<1> QED BY <1>1, <1>4 DEF P

LEMMA CarriedFacts ==
  ASSUME NEW buckets, NEW B \in Nat, AreBuckets(buckets, B), NEW c, c = Carried(buckets)
  PROVE  /\ AreBuckets(c, B)
         /\ \A b \in 1..B : /\ c[b].received = buckets[b].received /\ c[b].dropped = buckets[b].dropped
                            /\ c[b].skipped = buckets[b].skipped /\ c[b].rssi = buckets[b].rssi
                            /\ c[b].samples = buckets[b].samples
<1>1. DOMAIN buckets = 1..B
  BY DEF AreBuckets
<1>2. PICK told : told = [b \in 1..B |->
        LET T == {a \in 1..b : buckets[a].field # Null} IN IF T = {} THEN Null ELSE buckets[Most(T)].field]
  OBVIOUS
<1>3. c = [b \in 1..B |-> [buckets[b] EXCEPT !.field = told[b]]]
  BY <1>1, <1>2, Zenon DEF Carried
<1>4. ASSUME NEW b \in 1..B
      PROVE  /\ IsBucket(c[b]) /\ c[b].received = buckets[b].received /\ c[b].dropped = buckets[b].dropped
             /\ c[b].skipped = buckets[b].skipped /\ c[b].rssi = buckets[b].rssi
             /\ c[b].samples = buckets[b].samples
  <2>1. PICK o, t, x : o = buckets[b] /\ t = told[b] /\ x = c[b]
    OBVIOUS
  <2>2. x = [o EXCEPT !.field = t]
    BY <1>3, <2>1
  <2>3. IsBucket(o)
    BY <2>1 DEF AreBuckets
  <2>4. DOMAIN o = BucketFields
    BY <2>3 DEF IsBucket
  <2>5. DOMAIN x = BucketFields /\ x.received = o.received /\ x.dropped = o.dropped /\ x.skipped = o.skipped
        /\ x.rssi = o.rssi /\ x.samples = o.samples
    BY <2>2, <2>4 DEF BucketFields
  <2>6. IsBucket(x)
    BY <2>3, <2>5 DEF IsBucket
  <2> QED BY <2>1, <2>5, <2>6
<1>5. c = [b \in 1..B |-> c[b]]
  BY <1>3
<1>6. IsSeq(c) /\ Len(c) = B /\ DOMAIN c = 1..B
  BY <1>5, GivenFacts
<1> QED BY <1>4, <1>6 DEF AreBuckets

-----------------------------------------------------------------------------
(* A range that is cut in two *)

\* The frames before an offset are the first ones.
LEMMA FramesBefore ==
  ASSUME NEW frames, NEW n, FramesFact(frames, n), NEW cut \in Int
  PROVE  \E m \in 0..n : /\ LowerBound(frames, cut) = m
                         /\ \A i \in 1..n : (frames[i].at < cut) = (i <= m)
<1>1. n \in Nat /\ DOMAIN frames = 1..n /\ (\A i \in 1..n : frames[i].at \in Nat)
      /\ (\A i \in 1..n, j \in 1..n : i <= j => frames[i].at <= frames[j].at)
  BY DEF FramesFact
<1> DEFINE P == {k \in Nat : k <= n => \E m \in 0..k : \A i \in 1..k : (frames[i].at < cut) = (i <= m)}
<1>2. 0 \in P
  OBVIOUS
<1>3. ASSUME NEW k \in Nat, k \in P PROVE k + 1 \in P
  <2> SUFFICES ASSUME k + 1 <= n PROVE \E m \in 0..(k + 1) : \A i \in 1..(k + 1) : (frames[i].at < cut) = (i <= m)
    OBVIOUS
  <2>1. PICK l : l = k + 1
    OBVIOUS
  <2>2. l \in 1..n /\ k <= n /\ l \in Nat
    BY <1>1, <2>1
  <2>3. PICK m \in 0..k : \A i \in 1..k : (frames[i].at < cut) = (i <= m)
    BY <1>3, <2>2
  <2>4. CASE frames[l].at < cut
    <3>1. ASSUME NEW i \in 1..l PROVE (frames[i].at < cut) = (i <= l)
      <4>1. i \in 1..n /\ i <= l
        BY <1>1, <2>2
      <4>2. frames[i].at <= frames[l].at /\ frames[i].at \in Nat /\ frames[l].at \in Nat
        BY <1>1, <2>2, <4>1
      <4> QED BY <2>4, <4>1, <4>2
    <3>2. l \in 0..l
      BY <2>2
    <3> QED BY <2>1, <3>1, <3>2
  <2>5. CASE ~(frames[l].at < cut)
    <3>1. m \in 0..l
      BY <2>1
    <3>2. \A i \in 1..l : i \in 1..k \/ i = l
      BY <2>1
    <3>3. ~(l <= m)
      BY <2>1
    <3>4. \A i \in 1..l : (frames[i].at < cut) = (i <= m)
      BY <2>3, <2>5, <3>2, <3>3
    <3> QED BY <2>1, <3>1, <3>4
  <2> QED BY <2>4, <2>5
<1> HIDE DEF P
<1>4. Nat \subseteq P
  BY <1>2, <1>3, SetInduction
<1>8. n \in P /\ n <= n
  BY <1>1, <1>4
<1>5. PICK m \in 0..n : \A i \in 1..n : (frames[i].at < cut) = (i <= m)
  BY <1>8 DEF P
<1>6. {i \in DOMAIN frames : frames[i].at < cut} = 1..m
  <2>1. \A i \in 1..m : i \in 1..n
    BY <1>1
  <2>2. \A i : i \in 1..n /\ i <= m <=> i \in 1..m
    BY <1>1
  <2> QED BY <1>1, <1>5, <2>2
<1>7. LowerBound(frames, cut) = m
  <2>1. m \in Nat
    BY <1>1
  <2>2. Cardinality(1..m) = m
    BY <2>1, FirstCount
  <2> QED BY <1>6, <2>2 DEF LowerBound
<1> QED BY <1>5, <1>7

\* A filter that keeps the first elements, and one that keeps those between two places.
LEMMA ChosenFirst ==
  ASSUME NEW seq, NEW n \in Nat, n = Len(seq), NEW m \in 0..n, NEW S, \A i \in 1..n : (i \in S) = (i <= m),
         NEW c, c = Chosen(seq, S)
  PROVE  IsSeq(c) /\ Len(c) = m /\ \A k \in 1..m : c[k] = seq[k]
<1>1. PICK e : e = At(n, S)
  OBVIOUS
<1>2. Places(e, n, S) /\ IsPick(c, seq, e)
  BY <1>1, ChosenFacts
<1>3. {i \in 1..n : i \in S} = 1..m
  <2>1. \A i : i \in 1..n /\ i <= m <=> i \in 1..m
    OBVIOUS
  <2> QED BY <2>1
<1>4. Len(e) = m
  BY <1>2, <1>3, PlacesCount, FirstCount
<1>5. \A i \in 1..m : i \in 1..n /\ i \in S
  OBVIOUS
<1>6. Places(e, m, S)
  <2>1. IsSeq(e) /\ Len(e) <= m
    BY <1>2, <1>4 DEF Places
  <2>2. \A k \in 1..Len(e) : e[k] \in 1..m /\ e[k] \in S
    BY <1>2 DEF Places
  <2>3. \A j \in 1..Len(e), k \in 1..Len(e) : j < k => e[j] < e[k]
    BY <1>2 DEF Places
  <2>4. \A i \in 1..m : i \in S => \E k \in 1..Len(e) : e[k] = i
    BY <1>2, <1>5 DEF Places
  <2> QED BY <2>1, <2>2, <2>3, <2>4 DEF Places
<1>7. \A k \in 1..m : e[k] = k
  BY <1>4, <1>6, PlacesAll
<1> QED BY <1>2, <1>4, <1>7 DEF IsPick

IsBetween(S, n, m, h) == \A i \in 1..n : (i \in S) = (m < i /\ i <= h)
IsMiddle(c, seq, m, h) == IsSeq(c) /\ Len(c) = h - m /\ \A k \in 1..Len(c) : c[k] = seq[m + k]

LEMMA ChosenMiddle ==
  ASSUME NEW seq, NEW n \in Nat, n = Len(seq), NEW m \in 0..n, NEW h \in m..n, NEW S, IsBetween(S, n, m, h)
  PROVE  IsMiddle(Chosen(seq, S), seq, m, h)
<1>11. PICK c, l : c = Chosen(seq, S) /\ l = h - m
  OBVIOUS
<1>12. \A i \in 1..n : (i \in S) = (m < i /\ i <= h)
  BY DEF IsBetween
<1>1. PICK e : e = At(n, S)
  OBVIOUS
<1>2. Places(e, n, S) /\ IsPick(c, seq, e)
  BY <1>1, <1>11, ChosenFacts
<1>3. l \in Nat /\ \A i : i \in 1..l => m + i \in 1..n /\ m + i \in S
  BY <1>11, <1>12
<1>4. PICK q \in Nat : q = Len(e)
  BY <1>2 DEF Places, IsSeq
<1>5. PICK g : g = [k \in 1..q |-> e[k] - m]
  OBVIOUS
<1>6. IsSeq(g) /\ Len(g) = q
  <2>1. g = [k \in 1..q |-> g[k]]
    BY <1>5
  <2> QED BY <2>1, GivenFacts
<1>7. q = l
  <2>1. q = Cardinality({i \in 1..n : i \in S})
    BY <1>2, <1>4, PlacesCount
  <2>2. {i \in 1..n : i \in S} = (m + 1)..h
    <3>1. \A i : i \in 1..n /\ m < i /\ i <= h <=> i \in (m + 1)..h
      OBVIOUS
    <3> QED BY <1>12, <3>1
  <2>3. Cardinality((m + 1)..h) = l
    <3>1. PICK a \in Int, b \in Int : a = m + 1 /\ b = h
      OBVIOUS
    <3>2. Cardinality(a..b) = IF a > b THEN 0 ELSE b - a + 1
      BY FS_Interval
    <3> QED BY <1>11, <3>1, <3>2
  <2> QED BY <2>1, <2>2, <2>3
<1>8. Places(g, l, 1..l)
  <2>1. \A k \in 1..q : e[k] \in 1..n /\ e[k] \in S
    BY <1>2, <1>4 DEF Places
  <2>2. \A k \in 1..q : g[k] = e[k] - m /\ g[k] \in 1..l
    BY <1>5, <1>11, <1>12, <2>1
  <2>3. \A j \in 1..q, k \in 1..q : j < k => e[j] < e[k]
    BY <1>2, <1>4 DEF Places
  <2>4. ASSUME NEW j \in 1..q, NEW k \in 1..q, j < k PROVE g[j] < g[k]
    <3>1. e[j] \in Int /\ e[k] \in Int /\ e[j] < e[k] /\ g[j] = e[j] - m /\ g[k] = e[k] - m
      BY <2>1, <2>2, <2>3, <2>4
    <3> QED BY <3>1
  <2>5. ASSUME NEW i \in 1..l PROVE \E k \in 1..q : g[k] = i
    <3>1. PICK p : p = m + i
      OBVIOUS
    <3>2. p \in 1..n /\ p \in S
      BY <1>3, <3>1
    <3>3. PICK k \in 1..q : e[k] = p
      BY <1>2, <1>4, <3>2 DEF Places
    <3>4. g[k] = i
      BY <2>2, <3>1, <3>3
    <3> QED BY <3>4
  <2> QED BY <1>6, <1>7, <2>2, <2>4, <2>5 DEF Places
<1>9. \A k \in 1..l : g[k] = k
  BY <1>3, <1>6, <1>7, <1>8, PlacesAll
<1>10. ASSUME NEW k \in 1..l PROVE e[k] = m + k
  <2>1. k \in 1..q /\ g[k] = e[k] - m /\ g[k] = k
    BY <1>5, <1>7, <1>9
  <2>2. e[k] \in 1..n
    BY <1>2, <1>4, <2>1 DEF Places
  <2> QED BY <2>1, <2>2
<1>13. IsSeq(c) /\ Len(c) = l /\ \A k \in 1..l : c[k] = seq[m + k]
  BY <1>2, <1>4, <1>7, <1>10 DEF IsPick
<1> QED BY <1>11, <1>13 DEF IsMiddle

SkipFields == {"seq", "untrusted", "skipped"}
SkipsFact(acc) == DOMAIN acc = SkipFields /\ acc.seq \in OrNull /\ acc.untrusted \in Nat /\ acc.skipped \in Nat

\* Two loops that know the same of the frames before: where no sequence number is known, what is
\* untrusted does not matter.
Alike(a, b) == a.seq = b.seq /\ (a.seq # Null => a.untrusted = b.untrusted)

LEMMA SkipTurn ==
  ASSUME NEW a, NEW b, SkipsFact(a), SkipsFact(b), Alike(a, b), NEW f, f.seq \in OrNull,
         NEW x, x = SkippedNext(a, f), NEW y, y = SkippedNext(b, f)
  PROVE  /\ SkipsFact(x) /\ SkipsFact(y) /\ Alike(x, y)
         /\ \E g \in Nat : x.skipped = a.skipped + g /\ y.skipped = b.skipped + g
<1>1. /\ DOMAIN a = SkipFields /\ a.seq \in OrNull /\ a.untrusted \in Nat /\ a.skipped \in Nat
      /\ DOMAIN b = SkipFields /\ b.seq \in OrNull /\ b.untrusted \in Nat /\ b.skipped \in Nat
      /\ a.seq = b.seq /\ (a.seq # Null => a.untrusted = b.untrusted)
  BY DEF SkipsFact, Alike
<1>2. CASE Sequenced(f)
  <2>1. PICK g : g = IF a.seq # Null THEN Gap(a.seq, f.seq, a.untrusted) ELSE 0
    OBVIOUS
  <2>2. f.seq \in Nat
    BY <1>2 DEF Sequenced, OrNull
  <2>3. g \in Nat
    <3>1. CASE a.seq # Null
      <4>1. a.seq \in Nat
        BY <1>1, <3>1 DEF OrNull
      <4> QED BY <1>1, <2>1, <2>2, <3>1, <4>1, GapIsNat
    <3>2. CASE a.seq = Null
      BY <2>1, <3>2
    <3> QED BY <3>1, <3>2
  <2>4. g = IF b.seq # Null THEN Gap(b.seq, f.seq, b.untrusted) ELSE 0
    BY <1>1, <2>1
  <2>5. x = [seq |-> f.seq, untrusted |-> 0, skipped |-> a.skipped + g]
    BY <1>2, <2>1 DEF SkippedNext
  <2>6. y = [seq |-> f.seq, untrusted |-> 0, skipped |-> b.skipped + g]
    BY <1>2, <2>4 DEF SkippedNext
  <2>7. SkipsFact(x) /\ x.skipped = a.skipped + g /\ x.seq = f.seq /\ x.untrusted = 0
    BY <1>1, <2>3, <2>5 DEF SkipsFact, SkipFields
  <2>8. SkipsFact(y) /\ y.skipped = b.skipped + g /\ y.seq = f.seq /\ y.untrusted = 0
    BY <1>1, <2>3, <2>6 DEF SkipsFact, SkipFields
  <2> QED BY <2>3, <2>7, <2>8 DEF Alike
<1>3. CASE ~Sequenced(f)
  <2>1. x = [a EXCEPT !.untrusted = a.untrusted + 1] /\ y = [b EXCEPT !.untrusted = b.untrusted + 1]
    BY <1>3, Zenon DEF SkippedNext
  <2>2. /\ DOMAIN x = SkipFields /\ x.seq = a.seq /\ x.untrusted = a.untrusted + 1 /\ x.skipped = a.skipped
        /\ DOMAIN y = SkipFields /\ y.seq = b.seq /\ y.untrusted = b.untrusted + 1 /\ y.skipped = b.skipped
    BY <1>1, <2>1 DEF SkipFields
  <2>3. SkipsFact(x) /\ SkipsFact(y) /\ Alike(x, y)
    BY <1>1, <2>2 DEF SkipsFact, Alike
  <2>4. PICK g \in Nat : g = 0
    OBVIOUS
  <2>5. x.skipped = a.skipped + g /\ y.skipped = b.skipped + g
    BY <1>1, <2>2, <2>4
  <2> QED BY <2>3, <2>4, <2>5
<1> QED BY <1>2, <1>3

Part(c, frames, m, l) == Len(c) = l /\ \A k \in 1..l : c[k] = frames[m + k]
SkipsType(G, n) == \A k \in 0..n : SkipsFact(G[k])
DropsType(D, n) == \A k \in 0..n : D[k].drops \in OrNull /\ D[k].dropped \in Nat

\* The loop over a part of the frames that starts with what the loop over all of them knows there
\* counts what that one counts in this part.
LEMMA SkipsOfPart ==
  ASSUME NEW frames, NEW n, FramesFact(frames, n), NEW G, SkippedNextTurns(G, NoSkips, frames, n),
         SkipsType(G, n),
         NEW m \in 0..n, NEW l \in Nat, m + l <= n,
         NEW part, Part(part, frames, m, l),
         NEW start, SkipsFact(start), Alike(start, G[m]), start.skipped = 0,
         NEW R, SkippedNextTurns(R, start, part, l)
  PROVE  R[l].skipped + G[m].skipped = G[m + l].skipped /\ R[l].skipped \in Nat
<1>1. /\ n \in Nat /\ m \in Nat /\ \A i \in 1..n : frames[i].seq \in OrNull
      /\ (\A k \in 1..l : part[k] = frames[m + k]) /\ \A k \in 0..n : SkipsFact(G[k])
  BY DEF FramesFact, Part, SkipsType
<1> DEFINE P == {k \in Nat : k <= l =>
                   SkipsFact(R[k]) /\ Alike(R[k], G[m + k]) /\ R[k].skipped + G[m].skipped = G[m + k].skipped}
<1>2. 0 \in P
  <2>1. R[0] = start /\ m + 0 = m
    BY <1>1 DEF SkippedNextTurns
  <2>2. G[m].skipped \in Nat
    BY <1>1 DEF SkipsFact
  <2> QED BY <2>1, <2>2
<1>3. ASSUME NEW k \in Nat, k \in P PROVE k + 1 \in P
  <2> SUFFICES ASSUME k + 1 <= l
               PROVE  SkipsFact(R[k + 1]) /\ Alike(R[k + 1], G[m + (k + 1)])
                      /\ R[k + 1].skipped + G[m].skipped = G[m + (k + 1)].skipped
    OBVIOUS
  <2>1. PICK j, p, q : j = k + 1 /\ p = m + k /\ q = m + (k + 1)
    OBVIOUS
  <2>2. j \in 1..l /\ j - 1 = k /\ k <= l /\ p \in 0..n /\ q \in 1..n /\ q - 1 = p /\ q = m + j
    BY <1>1, <2>1
  <2>3. PICK a, b, f, x, y : a = R[k] /\ b = G[p] /\ f = frames[q] /\ x = R[j] /\ y = G[q]
    OBVIOUS
  <2>4. SkipsFact(a) /\ Alike(a, b) /\ a.skipped + G[m].skipped = b.skipped
    BY <1>3, <2>1, <2>2, <2>3
  <2>5. SkipsFact(b) /\ f.seq \in OrNull
    BY <1>1, <2>2, <2>3
  <2>6. part[j] = f
    BY <1>1, <2>2, <2>3
  <2>7. x = SkippedNext(a, f) /\ y = SkippedNext(b, f)
    BY <2>2, <2>3, <2>6 DEF SkippedNextTurns
  <2>8. PICK g \in Nat : SkipsFact(x) /\ Alike(x, y) /\ x.skipped = a.skipped + g /\ y.skipped = b.skipped + g
    BY <2>4, <2>5, <2>7, SkipTurn
  <2>9. a.skipped \in Nat /\ G[m].skipped \in Nat /\ b.skipped \in Nat
    BY <1>1, <2>4, <2>5 DEF SkipsFact
  <2>10. x.skipped + G[m].skipped = y.skipped
    BY <2>4, <2>8, <2>9
  <2> QED BY <2>1, <2>3, <2>8, <2>10
<1> HIDE DEF P
<1>4. Nat \subseteq P
  BY <1>2, <1>3, SetInduction
<1> QED BY <1>1, <1>4 DEF P, SkipsFact

LEMMA DropsOfPart ==
  ASSUME NEW frames, NEW n, FramesFact(frames, n), NEW D, DroppedNextTurns(D, NoDrops, frames, n),
         DropsType(D, n),
         NEW m \in 0..n, NEW l \in Nat, m + l <= n,
         NEW part, Part(part, frames, m, l),
         NEW start, start.drops = D[m].drops, start.dropped = 0,
         NEW R, DroppedNextTurns(R, start, part, l)
  PROVE  R[l].dropped + D[m].dropped = D[m + l].dropped /\ R[l].dropped \in Nat
<1>1. /\ n \in Nat /\ m \in Nat /\ \A i \in 1..n : frames[i].drops \in OrNull
      /\ (\A k \in 1..l : part[k] = frames[m + k]) /\ \A k \in 0..n : D[k].drops \in OrNull /\ D[k].dropped \in Nat
  BY DEF FramesFact, Part, DropsType
<1> DEFINE P == {k \in Nat : k <= l =>
                   /\ R[k].drops = D[m + k].drops /\ R[k].dropped \in Nat
                   /\ R[k].dropped + D[m].dropped = D[m + k].dropped}
<1>2. 0 \in P
  <2>1. R[0] = start /\ m + 0 = m
    BY <1>1 DEF DroppedNextTurns
  <2>2. D[m].dropped \in Nat
    BY <1>1
  <2> QED BY <2>1, <2>2
<1>3. ASSUME NEW k \in Nat, k \in P PROVE k + 1 \in P
  <2> SUFFICES ASSUME k + 1 <= l
               PROVE  /\ R[k + 1].drops = D[m + (k + 1)].drops /\ R[k + 1].dropped \in Nat
                      /\ R[k + 1].dropped + D[m].dropped = D[m + (k + 1)].dropped
    OBVIOUS
  <2>1. PICK j, p, q : j = k + 1 /\ p = m + k /\ q = m + (k + 1)
    OBVIOUS
  <2>2. j \in 1..l /\ j - 1 = k /\ k <= l /\ p \in 0..n /\ q \in 1..n /\ q - 1 = p /\ q = m + j
    BY <1>1, <2>1
  <2>3. PICK a, b, f, x, y : a = R[k] /\ b = D[p] /\ f = frames[q] /\ x = R[j] /\ y = D[q]
    OBVIOUS
  <2>4. a.drops = b.drops /\ a.dropped \in Nat /\ a.dropped + D[m].dropped = b.dropped
    BY <1>3, <2>1, <2>2, <2>3
  <2>5. b.drops \in OrNull /\ f.drops \in OrNull /\ b.dropped \in Nat /\ D[m].dropped \in Nat
    BY <1>1, <2>2, <2>3
  <2>6. part[j] = f
    BY <1>1, <2>2, <2>3
  <2>7. x = DroppedNext(a, f) /\ y = DroppedNext(b, f)
    BY <2>2, <2>3, <2>6 DEF DroppedNextTurns
  <2>8. PICK g \in Nat : g = Dropped(b.drops, f.drops)
    BY <2>5, DroppedIsNat
  <2>9. x.dropped = a.dropped + g /\ x.drops = (IF f.drops # Null THEN f.drops ELSE a.drops)
    BY <2>4, <2>7, <2>8 DEF DroppedNext
  <2>10. y.dropped = b.dropped + g /\ y.drops = (IF f.drops # Null THEN f.drops ELSE b.drops)
    BY <2>7, <2>8 DEF DroppedNext
  <2>11. x.dropped + D[m].dropped = y.dropped /\ x.dropped \in Nat /\ x.drops = y.drops
    BY <2>4, <2>5, <2>8, <2>9, <2>10
  <2> QED BY <2>1, <2>3, <2>11
<1> HIDE DEF P
<1>4. Nat \subseteq P
  BY <1>2, <1>3, SetInduction
<1> QED BY <1>4 DEF P

-----------------------------------------------------------------------------
(* What is known of the frames before a range *)

\* The last frame with a sequence number among the first k.
LastSequenced(frames, k, M) ==
  M \in 1..k /\ Sequenced(frames[M]) /\ \A i \in (M + 1)..k : ~Sequenced(frames[i])
Doubted(frames, M, k) == {i \in (M + 1)..k : ~Trusted(frames[i])}

LEMMA DoubtedFacts ==
  ASSUME NEW frames, NEW M \in Nat, NEW k \in Nat, M <= k
  PROVE  /\ Doubted(frames, k, k) = {} /\ IsFiniteSet(Doubted(frames, M, k)) /\ Cardinality(Doubted(frames, M, k)) \in Nat
         /\ ~Trusted(frames[k + 1]) =>
              Cardinality(Doubted(frames, M, k + 1)) = Cardinality(Doubted(frames, M, k)) + 1
         /\ Trusted(frames[k + 1]) => Doubted(frames, M, k + 1) = Doubted(frames, M, k)
<1>1. PICK l : l = k + 1
  OBVIOUS
<1>2. PICK S, T : S = Doubted(frames, M, k) /\ T = Doubted(frames, M, l)
  OBVIOUS
<1>3. Doubted(frames, k, k) = {}
  <2>1. (k + 1)..k = {}
    OBVIOUS
  <2> QED BY <2>1 DEF Doubted
<1>4. S \subseteq 1..k /\ l \notin S
  BY <1>1, <1>2 DEF Doubted
<1>5. IsFiniteSet(S)
  BY <1>4, FirstCount, FS_Subset
<1>6. Cardinality(S) \in Nat
  BY <1>5, FS_CardinalityType
<1>7. \A i : i \in (M + 1)..l <=> i \in (M + 1)..k \/ i = l
  BY <1>1
<1>8. ~Trusted(frames[l]) => T = S \cup {l}
  BY <1>2, <1>7 DEF Doubted
<1>9. Trusted(frames[l]) => T = S
  BY <1>2, <1>7 DEF Doubted
<1>10. Cardinality(S \cup {l}) = Cardinality(S) + 1
  BY <1>4, <1>5, FS_AddElement
<1> QED BY <1>1, <1>2, <1>3, <1>5, <1>6, <1>8, <1>9, <1>10

LEMMA SkipsKnow ==
  ASSUME NEW frames, NEW n, FramesFact(frames, n), NEW G, SkippedNextTurns(G, NoSkips, frames, n),
         \A k \in 0..n : SkipsFact(G[k])
  PROVE  \A k \in 0..n :
           \/ G[k].seq = Null /\ \A i \in 1..k : ~Sequenced(frames[i])
           \/ \E M \in 1..k : /\ LastSequenced(frames, k, M) /\ G[k].seq = frames[M].seq
                              /\ G[k].untrusted = Cardinality(Doubted(frames, M, k))
<1>1. n \in Nat /\ (\A i \in 1..n : frames[i].seq \in OrNull)
      /\ (\A i \in 1..n, j \in 1..n : Trusted(frames[i]) /\ Trusted(frames[j]) => (frames[i].seq = Null) = (frames[j].seq = Null))
  BY DEF FramesFact
<1> DEFINE None(k) == G[k].seq = Null /\ \A i \in 1..k : ~Sequenced(frames[i])
           Last(k, M) == /\ LastSequenced(frames, k, M) /\ G[k].seq = frames[M].seq
                         /\ G[k].untrusted = Cardinality(Doubted(frames, M, k))
           P == {k \in Nat : k <= n => None(k) \/ \E M \in 1..k : Last(k, M)}
<1>2. 0 \in P
  <2>1. G[0] = NoSkips
    BY DEF SkippedNextTurns
  <2>2. G[0].seq = Null
    BY <2>1 DEF NoSkips
  <2> QED BY <2>2
<1>3. ASSUME NEW k \in Nat, k \in P PROVE k + 1 \in P
  <2> SUFFICES ASSUME k + 1 <= n PROVE None(k + 1) \/ \E M \in 1..(k + 1) : Last(k + 1, M)
    OBVIOUS
  <2>1. PICK l : l = k + 1
    OBVIOUS
  <2>2. l \in 1..n /\ l - 1 = k /\ k <= n /\ l \in Nat /\ k \in 0..n
    BY <1>1, <2>1
  <2>3. PICK a, f, x : a = G[k] /\ f = frames[l] /\ x = G[l]
    OBVIOUS
  <2>4. SkipsFact(a) /\ x = SkippedNext(a, f)
    BY <2>2, <2>3 DEF SkippedNextTurns
  <2>5. CASE Sequenced(f)
    <3>1. x.seq = f.seq /\ x.untrusted = 0
      BY <2>4, <2>5 DEF SkippedNext
    <3>2. (l + 1)..l = {}
      BY <2>2
    <3>3. LastSequenced(frames, l, l)
      BY <2>2, <2>3, <2>5, <3>2 DEF LastSequenced
    <3>7. l <= l
      BY <2>2
    <3>4. Doubted(frames, l, l) = {}
      BY <2>2, <3>7, DoubtedFacts
    <3>5. Cardinality(Doubted(frames, l, l)) = 0
      BY <3>4, FS_EmptySet
    <3>6. Last(l, l) /\ l \in 1..l
      BY <2>2, <2>3, <3>1, <3>3, <3>5
    <3> QED BY <2>1, <3>6
  <2>6. CASE ~Sequenced(f)
    <3>1. x = [a EXCEPT !.untrusted = a.untrusted + 1]
      BY <2>4, <2>6, Zenon DEF SkippedNext
    <3>2. x.seq = a.seq /\ x.untrusted = a.untrusted + 1
      BY <2>4, <3>1 DEF SkipsFact, SkipFields
    <3>3. \A i \in 1..l : i \in 1..k \/ i = l
      BY <2>1
    <3>4. CASE None(k)
      <4>1. x.seq = Null
        BY <2>3, <3>2, <3>4
      <4>2. \A i \in 1..l : ~Sequenced(frames[i])
        BY <2>3, <2>6, <3>3, <3>4
      <4> QED BY <2>1, <2>3, <4>1, <4>2
    <3>5. CASE \E M \in 1..k : Last(k, M)
      <4>1. PICK M \in 1..k : Last(k, M)
        BY <3>5
      <4>9. M \in 1..n
        BY <1>1, <2>2
      <4>10. LastSequenced(frames, k, M)
        BY <4>1
      <4>2. M \in 1..n /\ Sequenced(frames[M]) /\ \A i \in (M + 1)..k : ~Sequenced(frames[i])
        BY <4>9, <4>10 DEF LastSequenced
      <4>3. ~Trusted(f)
        BY <1>1, <2>2, <2>3, <2>6, <4>2 DEF Sequenced
      <4>4. \A i \in (M + 1)..l : i \in (M + 1)..k \/ i = l
        BY <2>1
      <4>5. LastSequenced(frames, l, M)
        BY <2>1, <2>3, <2>6, <4>1, <4>2, <4>4 DEF LastSequenced
      <4>6. Cardinality(Doubted(frames, M, l)) = Cardinality(Doubted(frames, M, k)) + 1
        <5>1. M \in Nat /\ M <= k
          BY <4>1
        <5> QED BY <2>1, <2>3, <4>3, <5>1, DoubtedFacts
      <4>7. Last(l, M)
        BY <2>3, <3>2, <4>1, <4>5, <4>6
      <4>8. M \in 1..l
        BY <2>1
      <4> QED BY <2>1, <4>7, <4>8
    <3>6. None(k) \/ \E M \in 1..k : Last(k, M)
      BY <1>3, <2>2
    <3> QED BY <3>4, <3>5, <3>6
  <2> QED BY <2>5, <2>6
<1> HIDE DEF P
<1>4. Nat \subseteq P
  BY <1>2, <1>3, SetInduction
<1> QED BY <1>1, <1>4 DEF P

\* The largest number of a set.
LEMMA MostIs ==
  ASSUME NEW S, NEW x \in S, x \in Int, \A y \in S : y \in Int /\ y <= x
  PROVE  Most(S) = x
<1>1. \E z \in S : \A y \in S : y <= z
  OBVIOUS
<1>2. Most(S) \in S /\ \A y \in S : y <= Most(S)
  BY <1>1 DEF Most
<1>3. PICK z : z = Most(S)
  OBVIOUS
<1>4. z \in S /\ x <= z
  BY <1>2, <1>3
<1>5. z \in Int /\ z <= x
  BY <1>4
<1> QED BY <1>3, <1>4, <1>5

\* Where a range begins, the frames before it say what the loop over all frames knows there.
LEMMA PrecedingKnows ==
  ASSUME NEW frames, NEW n, FramesFact(frames, n), NEW G, SkippedNextTurns(G, NoSkips, frames, n),
         SkipsType(G, n), NEW m \in 0..n, NEW p, p = Preceding(frames, m)
  PROVE  SkipsFact(p) /\ Alike(p, G[m]) /\ p.skipped = 0
<1>1. PICK known : known = {i \in 1..m : Sequenced(frames[i])}
  OBVIOUS
<1>2. n \in Nat /\ m \in Nat /\ m <= n /\ \A i \in 1..n : frames[i].seq \in OrNull
  BY DEF FramesFact
<1>3. CASE G[m].seq = Null /\ \A i \in 1..m : ~Sequenced(frames[i])
  <2>1. known = {}
    BY <1>1, <1>3
  <2>2. p = [seq |-> Null, untrusted |-> 0, skipped |-> 0]
    BY <1>1, <2>1, Zenon DEF Preceding
  <2>3. DOMAIN p = SkipFields /\ p.seq = Null /\ p.untrusted = 0 /\ p.skipped = 0
    BY <2>2 DEF SkipFields
  <2>4. Null \in OrNull
    BY DEF OrNull
  <2> QED BY <1>3, <2>3, <2>4 DEF SkipsFact, Alike
<1>4. ASSUME NEW M \in 1..m, LastSequenced(frames, m, M), G[m].seq = frames[M].seq,
             G[m].untrusted = Cardinality(Doubted(frames, M, m))
      PROVE  SkipsFact(p) /\ Alike(p, G[m]) /\ p.skipped = 0
  <2>1. M \in known
    BY <1>1, <1>4 DEF LastSequenced
  <2>2. ASSUME NEW y \in known PROVE y \in Int /\ y <= M
    <3>1. y \in 1..m /\ Sequenced(frames[y])
      BY <1>1
    <3>2. y \notin (M + 1)..m
      BY <1>4, <3>1 DEF LastSequenced
    <3> QED BY <3>1, <3>2
  <2>3. M \in Int
    OBVIOUS
  <2>4. Most(known) = M
    BY <2>1, <2>2, <2>3, MostIs
  <2>5. p = [seq |-> frames[Most(known)].seq, skipped |-> 0,
             untrusted |-> Cardinality({i \in Most(known) + 1..m : ~Trusted(frames[i])})]
    BY <1>1, <2>1, Zenon DEF Preceding
  <2>6. Cardinality({i \in M + 1..m : ~Trusted(frames[i])}) = Cardinality(Doubted(frames, M, m))
    BY DEF Doubted
  <2>7. PICK c : c = Cardinality(Doubted(frames, M, m))
    OBVIOUS
  <2>8. p = [seq |-> frames[M].seq, skipped |-> 0, untrusted |-> c]
    BY <2>4, <2>5, <2>6, <2>7
  <2>9. c \in Nat
    <3>1. M \in Nat /\ M <= m
      OBVIOUS
    <3> QED BY <1>2, <2>7, <3>1, DoubtedFacts
  <2>10. DOMAIN p = SkipFields /\ p.seq = frames[M].seq /\ p.untrusted = c /\ p.skipped = 0
    BY <2>8 DEF SkipFields
  <2>11. frames[M].seq \in OrNull
    BY <1>2
  <2> QED BY <1>4, <2>7, <2>9, <2>10, <2>11 DEF SkipsFact, Alike
<1>5. \/ G[m].seq = Null /\ \A i \in 1..m : ~Sequenced(frames[i])
      \/ \E M \in 1..m : /\ LastSequenced(frames, m, M) /\ G[m].seq = frames[M].seq
                         /\ G[m].untrusted = Cardinality(Doubted(frames, M, m))
  BY SkipsKnow DEF SkipsType
<1> QED BY <1>3, <1>4, <1>5

\* The smallest number of a set.
LEMMA LeastIs ==
  ASSUME NEW S, NEW x \in S, x \in Int, \A y \in S : y \in Int /\ x <= y
  PROVE  Least(S) = x
<1>1. \E z \in S : \A y \in S : z <= y
  OBVIOUS
<1>2. Least(S) \in S /\ \A y \in S : Least(S) <= y
  BY <1>1 DEF Least
<1>3. PICK z : z = Least(S)
  OBVIOUS
<1>4. z \in S /\ z <= x
  BY <1>2, <1>3
<1>5. z \in Int /\ x <= z
  BY <1>4
<1> QED BY <1>3, <1>4, <1>5

\* The last frame with a drop counter among the first k, and the first one of a part.
LastTelling(frames, k, M) ==
  M \in 1..k /\ frames[M].drops # Null /\ \A i \in (M + 1)..k : frames[i].drops = Null
FirstTelling(part, k, J) ==
  J \in 1..k /\ part[J].drops # Null /\ \A i \in 1..k : part[i].drops # Null => J <= i
Silent(part, k) == \A i \in 1..k : part[i].drops = Null

\* The loop over all frames knows the last counter there was.
LEMMA DropsKnow ==
  ASSUME NEW frames, NEW n, FramesFact(frames, n), NEW D, DroppedNextTurns(D, NoDrops, frames, n)
  PROVE  \A k \in 0..n : \/ D[k].drops = Null /\ Silent(frames, k)
                         \/ \E M : LastTelling(frames, k, M) /\ D[k].drops = frames[M].drops
<1>1. n \in Nat
  BY DEF FramesFact
<1> DEFINE Last(k, M) == LastTelling(frames, k, M) /\ D[k].drops = frames[M].drops
           P == {k \in Nat : k <= n => (D[k].drops = Null /\ Silent(frames, k)) \/ \E M : Last(k, M)}
<1>2. 0 \in P
  <2>1. D[0].drops = Null
    BY DEF DroppedNextTurns, NoDrops
  <2>2. Silent(frames, 0)
    BY DEF Silent
  <2> QED BY <2>1, <2>2
<1>3. ASSUME NEW k \in Nat, k \in P PROVE k + 1 \in P
  <2> SUFFICES ASSUME k + 1 <= n
               PROVE  (D[k + 1].drops = Null /\ Silent(frames, k + 1)) \/ \E M : Last(k + 1, M)
    OBVIOUS
  <2>1. PICK l : l = k + 1
    OBVIOUS
  <2>2. l \in 1..n /\ l - 1 = k /\ k <= n /\ l \in Nat /\ \A i \in 1..l : i \in 1..k \/ i = l
    BY <1>1, <2>1
  <2>3. PICK a, f, x : a = D[k] /\ f = frames[l] /\ x = D[l]
    OBVIOUS
  <2>4. x = DroppedNext(a, f)
    BY <2>2, <2>3 DEF DroppedNextTurns
  <2>5. x.drops = IF f.drops # Null THEN f.drops ELSE a.drops
    BY <2>4 DEF DroppedNext
  <2>6. CASE f.drops # Null
    <3>1. (l + 1)..l = {} /\ l \in 1..l
      BY <2>2
    <3>2. LastTelling(frames, l, l)
      BY <2>3, <2>6, <3>1 DEF LastTelling
    <3>3. Last(l, l)
      BY <2>3, <2>5, <2>6, <3>2
    <3> QED BY <2>1, <3>3
  <2>7. CASE f.drops = Null /\ a.drops = Null /\ Silent(frames, k)
    <3>1. Silent(frames, l) /\ x.drops = Null
      BY <2>2, <2>3, <2>5, <2>7 DEF Silent
    <3> QED BY <2>1, <2>3, <3>1
  <2>8. ASSUME f.drops = Null, NEW M, Last(k, M) PROVE \E N : Last(l, N)
    <3>1. M \in 1..k /\ frames[M].drops # Null /\ \A i \in (M + 1)..k : frames[i].drops = Null
      BY <2>8 DEF LastTelling
    <3>2. M \in 1..l /\ \A i \in (M + 1)..l : i \in (M + 1)..k \/ i = l
      BY <2>1, <3>1
    <3>3. LastTelling(frames, l, M)
      BY <2>3, <2>8, <3>1, <3>2 DEF LastTelling
    <3>4. x.drops = frames[M].drops
      BY <2>3, <2>5, <2>8
    <3> QED BY <2>3, <3>3, <3>4
  <2>9. (a.drops = Null /\ Silent(frames, k)) \/ \E M : Last(k, M)
    BY <1>3, <2>2, <2>3
  <2> QED BY <2>1, <2>6, <2>7, <2>8, <2>9
<1> HIDE DEF P
<1>4. Nat \subseteq P
  BY <1>2, <1>3, SetInduction
<1> QED BY <1>1, <1>4 DEF P

\* A loop over a part that starts without the counter counts all but what its first frame with a counter tells
\* of the frames since the last one before the part.
AllButFirst(R, D, part, m, k, J) ==
  /\ FirstTelling(part, k, J) /\ R[k].drops = D[m + k].drops
  /\ R[k].dropped + Dropped(D[m].drops, part[J].drops) + D[m].dropped = D[m + k].dropped

LEMMA DropsUnseen ==
  ASSUME NEW frames, NEW n, FramesFact(frames, n), NEW D, DroppedNextTurns(D, NoDrops, frames, n),
         DropsType(D, n),
         NEW m \in 0..n, NEW l \in Nat, m + l <= n,
         NEW part, Part(part, frames, m, l),
         NEW start, start.drops = Null, start.dropped = 0,
         NEW R, DroppedNextTurns(R, start, part, l)
  PROVE  /\ R[l].dropped \in Nat
         /\ \/ Silent(part, l) /\ R[l].dropped + D[m].dropped = D[m + l].dropped
            \/ \E J : AllButFirst(R, D, part, m, l, J)
<1>1. /\ n \in Nat /\ m \in Nat /\ \A i \in 1..n : frames[i].drops \in OrNull
      /\ (\A k \in 1..l : part[k] = frames[m + k]) /\ \A k \in 0..n : D[k].drops \in OrNull /\ D[k].dropped \in Nat
  BY DEF FramesFact, Part, DropsType
<1> DEFINE Still(k) == Silent(part, k) /\ R[k].drops = Null /\ R[k].dropped = 0
                       /\ D[m + k].drops = D[m].drops /\ D[m + k].dropped = D[m].dropped
           P == {k \in Nat : k <= l => R[k].dropped \in Nat /\ (Still(k) \/ \E J : AllButFirst(R, D, part, m, k, J))}
<1>2. 0 \in P
  <2>1. R[0] = start /\ m + 0 = m
    BY <1>1 DEF DroppedNextTurns
  <2>2. Silent(part, 0)
    BY DEF Silent
  <2> QED BY <2>1, <2>2
<1>3. ASSUME NEW k \in Nat, k \in P PROVE k + 1 \in P
  <2> SUFFICES ASSUME k + 1 <= l
               PROVE  R[k + 1].dropped \in Nat /\ (Still(k + 1) \/ \E J : AllButFirst(R, D, part, m, k + 1, J))
    OBVIOUS
  <2>1. PICK j, p, q : j = k + 1 /\ p = m + k /\ q = m + (k + 1)
    OBVIOUS
  <2>2. j \in 1..l /\ j - 1 = k /\ k <= l /\ p \in 0..n /\ q \in 1..n /\ q - 1 = p /\ q = m + j
    BY <1>1, <2>1
  <2>3. PICK a, b, f, x, y : a = R[k] /\ b = D[p] /\ f = frames[q] /\ x = R[j] /\ y = D[q]
    OBVIOUS
  <2>4. a.dropped \in Nat /\ (Still(k) \/ \E J : AllButFirst(R, D, part, m, k, J))
    BY <1>3, <2>2, <2>3
  <2>5. /\ b.drops \in OrNull /\ f.drops \in OrNull /\ b.dropped \in Nat /\ D[m].dropped \in Nat
        /\ D[m].drops \in OrNull
    BY <1>1, <2>2, <2>3
  <2>6. part[j] = f
    BY <1>1, <2>2, <2>3
  <2>7. x = DroppedNext(a, f) /\ y = DroppedNext(b, f)
    BY <2>2, <2>3, <2>6 DEF DroppedNextTurns
  <2>8. PICK g : g = Dropped(b.drops, f.drops) /\ g \in Nat
    BY <2>5, DroppedIsNat
  <2>9. /\ x.dropped = a.dropped + Dropped(a.drops, f.drops) /\ x.drops = (IF f.drops # Null THEN f.drops ELSE a.drops)
        /\ y.dropped = b.dropped + g /\ y.drops = (IF f.drops # Null THEN f.drops ELSE b.drops)
    BY <2>7, <2>8 DEF DroppedNext
  <2>10. \A i \in 1..j : i \in 1..k \/ i = j
    BY <2>1
  <2>11. CASE Still(k)
    <3>1. a.drops = Null /\ a.dropped = 0 /\ b.drops = D[m].drops /\ b.dropped = D[m].dropped /\ Silent(part, k)
      BY <2>1, <2>3, <2>11
    <3>2. x.dropped = 0
      BY <2>9, <3>1 DEF Dropped
    <3>3. CASE f.drops = Null
      <4>1. g = 0
        BY <2>8, <3>3 DEF Dropped
      <4>2. Silent(part, j)
        BY <2>6, <2>10, <3>1, <3>3 DEF Silent
      <4>3. x.drops = Null /\ y.drops = D[m].drops /\ y.dropped = D[m].dropped
        BY <2>5, <2>9, <3>1, <3>3, <4>1
      <4> QED BY <2>1, <2>3, <3>2, <4>2, <4>3
    <3>4. CASE f.drops # Null
      <4>1. FirstTelling(part, j, j)
        <5>1. j \in 1..j
          BY <2>1
        <5>2. \A i \in 1..j : part[i].drops # Null => j <= i
          BY <2>1, <2>10, <3>1 DEF Silent
        <5> QED BY <2>6, <3>4, <5>1, <5>2 DEF FirstTelling
      <4>2. x.drops = y.drops
        BY <2>9, <3>4
      <4>3. Dropped(D[m].drops, part[j].drops) = g
        BY <2>6, <2>8, <3>1
      <4>4. x.dropped + Dropped(D[m].drops, part[j].drops) + D[m].dropped = y.dropped
        BY <2>5, <2>8, <2>9, <3>1, <3>2, <4>3
      <4>5. AllButFirst(R, D, part, m, j, j)
        BY <2>2, <2>3, <4>1, <4>2, <4>4 DEF AllButFirst
      <4> QED BY <2>1, <2>3, <3>2, <4>5
    <3> QED BY <3>3, <3>4
  <2>12. ASSUME NEW J, AllButFirst(R, D, part, m, k, J)
         PROVE  x.dropped \in Nat /\ AllButFirst(R, D, part, m, j, J)
    <3>1. FirstTelling(part, k, J) /\ a.drops = b.drops
          /\ a.dropped + Dropped(D[m].drops, part[J].drops) + D[m].dropped = b.dropped
      BY <2>1, <2>3, <2>12 DEF AllButFirst
    <3>2. J \in 1..k /\ part[J].drops # Null /\ \A i \in 1..k : part[i].drops # Null => J <= i
      BY <3>1 DEF FirstTelling
    <3>3. J \in 1..j /\ J <= j
      BY <2>1, <3>2
    <3>4. FirstTelling(part, j, J)
      BY <2>10, <3>2, <3>3 DEF FirstTelling
    <3>5. x.drops = y.drops /\ x.dropped = a.dropped + g
      BY <2>8, <2>9, <3>1
    <3>6. PICK u : u = Dropped(D[m].drops, part[J].drops) /\ u \in Nat
      <4>1. J \in 1..l /\ m + J \in 1..n
        BY <1>1, <2>2, <3>2
      <4>2. part[J].drops \in OrNull
        BY <1>1, <4>1
      <4> QED BY <2>5, <4>2, DroppedIsNat
    <3>7. x.dropped + u + D[m].dropped = y.dropped /\ x.dropped \in Nat
      BY <2>4, <2>5, <2>8, <2>9, <3>1, <3>5, <3>6
    <3> QED BY <2>2, <2>3, <3>4, <3>5, <3>6, <3>7 DEF AllButFirst
  <2>13. CASE \E J : AllButFirst(R, D, part, m, k, J)
    BY <2>1, <2>3, <2>12, <2>13
  <2> QED BY <2>4, <2>11, <2>13
<1> HIDE DEF P
<1>4. Nat \subseteq P
  BY <1>2, <1>3, SetInduction
<1>5. R[l].dropped \in Nat /\ (Still(l) \/ \E J : AllButFirst(R, D, part, m, l, J))
  BY <1>4 DEF P
<1>6. D[m].dropped \in Nat
  BY <1>1
<1> QED BY <1>5, <1>6

-----------------------------------------------------------------------------
(* Missing frames of a part of the session *)

\* The two loops over the frames, and what they know after each of them.
Loops(frames, n, G, D) ==
  /\ FramesFact(frames, n) /\ SkippedNextTurns(G, NoSkips, frames, n) /\ DroppedNextTurns(D, NoDrops, frames, n)
  /\ SkipsType(G, n) /\ DropsType(D, n)

\* A range holds the frames after the first m, up to the one numbered h.
Spans(frames, n, range, m, h) ==
  /\ LowerBound(frames, range.from) = m
  /\ \A i \in 1..n : (frames[i].at < range.from) = (i <= m) /\ InRange(frames[i].at, range) = (m < i /\ i <= h)

Told(frames, S) == {i \in S : frames[i].drops # Null}

\* What is unseen, by the frames on both sides of the start of the range.
LEMMA UnseenIs ==
  ASSUME NEW frames, NEW n, FramesFact(frames, n), NEW m \in 0..n, NEW h \in m..n,
         NEW range, Spans(frames, n, range, m, h)
  PROVE  Unseen(frames, range) =
           IF Told(frames, 1..m) = {} \/ Told(frames, (m + 1)..h) = {} \/ m \in Told(frames, 1..m) THEN 0
           ELSE Dropped(frames[Most(Told(frames, 1..m))].drops, frames[Least(Told(frames, (m + 1)..h))].drops)
<1>1. n \in Nat /\ DOMAIN frames = 1..n
  BY DEF FramesFact
<1>2. PICK before, inside :
        /\ before = {i \in DOMAIN frames : frames[i].at < range.from /\ frames[i].drops # Null}
        /\ inside = {i \in DOMAIN frames : InRange(frames[i].at, range) /\ frames[i].drops # Null}
  OBVIOUS
<1>3. before = Told(frames, 1..m)
  <2>1. \A i : i \in 1..n /\ i <= m <=> i \in 1..m
    BY <1>1
  <2> QED BY <1>1, <1>2, <2>1 DEF Spans, Told
<1>4. inside = Told(frames, (m + 1)..h)
  <2>1. \A i : i \in 1..n /\ m < i /\ i <= h <=> i \in (m + 1)..h
    BY <1>1
  <2> QED BY <1>1, <1>2, <2>1 DEF Spans, Told
<1>5. LowerBound(frames, range.from) = m
  BY DEF Spans
<1>6. Unseen(frames, range) =
        IF before = {} \/ inside = {} \/ LowerBound(frames, range.from) \in before THEN 0
        ELSE Dropped(frames[Most(before)].drops, frames[Least(inside)].drops)
  BY <1>2, Zenon DEF Unseen
<1> QED BY <1>3, <1>4, <1>5, <1>6

\* An incident counts what the loop over all frames counts in its range, but for what is unseen at its start.
Accounts(frames, range, G, D, m, h) ==
  /\ SkippedInRange(frames, range) \in Nat /\ SkippedInRange(frames, range) + G[m].skipped = G[h].skipped
  /\ DroppedInRange(frames, range) \in Nat /\ Unseen(frames, range) \in Nat
  /\ DroppedInRange(frames, range) + Unseen(frames, range) + D[m].dropped = D[h].dropped

\* The counter of the record right before a place.
DropsBefore(frames, m) == IF m > 0 THEN frames[m].drops ELSE Null

LEMMA DropsAccount ==
  ASSUME NEW frames, NEW n, FramesFact(frames, n), NEW D, DroppedNextTurns(D, NoDrops, frames, n),
         DropsType(D, n),
         NEW m \in 0..n, NEW h \in m..n, NEW l \in Nat, m + l = h,
         NEW range, Spans(frames, n, range, m, h), NEW part, Part(part, frames, m, l),
         NEW start, start.drops = DropsBefore(frames, m), start.dropped = 0,
         NEW R, DroppedNextTurns(R, start, part, l)
  PROVE  R[l].dropped \in Nat /\ Unseen(frames, range) \in Nat
         /\ R[l].dropped + Unseen(frames, range) + D[m].dropped = D[h].dropped
<1>1. n \in Nat /\ m \in Nat /\ m + l <= n /\ \A i \in 1..n : frames[i].drops \in OrNull
  BY DEF FramesFact
<1>2. \A k \in 1..l : part[k] = frames[m + k]
  BY DEF Part
<1>3. PICK before, inside : before = Told(frames, 1..m) /\ inside = Told(frames, (m + 1)..h)
  OBVIOUS
<1>4. Unseen(frames, range) = IF before = {} \/ inside = {} \/ m \in before THEN 0
                              ELSE Dropped(frames[Most(before)].drops, frames[Least(inside)].drops)
  BY <1>3, UnseenIs
<1>5. D[m].dropped \in Nat
  BY DEF DropsType
<1>6. ASSUME start.drops = D[m].drops, Unseen(frames, range) = 0
      PROVE  R[l].dropped \in Nat /\ R[l].dropped + Unseen(frames, range) + D[m].dropped = D[h].dropped
  <2>1. R[l].dropped + D[m].dropped = D[m + l].dropped /\ R[l].dropped \in Nat
    BY <1>1, <1>6, DropsOfPart
  <2> QED BY <1>5, <1>6, <2>1
<1>7. CASE m = 0
  <2>1. before = {}
    BY <1>3, <1>7 DEF Told
  <2>2. D[m].drops = Null
    BY <1>7 DEF DroppedNextTurns, NoDrops
  <2>3. start.drops = D[m].drops /\ Unseen(frames, range) = 0
    BY <1>4, <1>7, <2>1, <2>2 DEF DropsBefore
  <2> QED BY <1>6, <2>3
<1>8. CASE m > 0 /\ Silent(frames, m) /\ D[m].drops = Null
  <2>1. before = {}
    BY <1>3, <1>8 DEF Told, Silent
  <2>2. m \in 1..m
    BY <1>1, <1>8
  <2>3. start.drops = D[m].drops /\ Unseen(frames, range) = 0
    BY <1>4, <1>8, <2>1, <2>2 DEF Silent, DropsBefore
  <2> QED BY <1>6, <2>3
<1>9. ASSUME m > 0, NEW M, LastTelling(frames, m, M), D[m].drops = frames[M].drops
      PROVE  R[l].dropped \in Nat /\ Unseen(frames, range) \in Nat
             /\ R[l].dropped + Unseen(frames, range) + D[m].dropped = D[h].dropped
  <2>1. M \in 1..m /\ frames[M].drops # Null /\ \A i \in (M + 1)..m : frames[i].drops = Null
    BY <1>9 DEF LastTelling
  <2>2. m \in 1..m /\ start.drops = frames[m].drops
    BY <1>1, <1>9 DEF DropsBefore
  <2>3. CASE frames[m].drops # Null
    <3>1. m \in before
      BY <1>3, <2>2, <2>3 DEF Told
    <3>2. M = m
      BY <1>1, <2>1, <2>2, <2>3
    <3>3. start.drops = D[m].drops /\ Unseen(frames, range) = 0
      BY <1>4, <1>9, <2>2, <3>1, <3>2
    <3> QED BY <1>6, <3>3
  <2>4. CASE frames[m].drops = Null
    <3>1. m \notin before /\ M \in before
      BY <1>3, <2>1, <2>4 DEF Told
    <3>2. Most(before) = M
      <4>1. \A y \in before : y \in Int /\ y <= M
        <5> SUFFICES ASSUME NEW y \in before PROVE y \in Int /\ y <= M
          OBVIOUS
        <5>1. y \in 1..m /\ frames[y].drops # Null
          BY <1>3 DEF Told
        <5>2. y \notin (M + 1)..m
          BY <2>1, <5>1
        <5> QED BY <1>1, <2>1, <5>1, <5>2
      <4>2. M \in Int
        BY <2>1
      <4> QED BY <3>1, <4>1, <4>2, MostIs
    <3>3. start.drops = Null
      BY <2>2, <2>4
    <3>4. /\ R[l].dropped \in Nat
          /\ \/ Silent(part, l) /\ R[l].dropped + D[m].dropped = D[m + l].dropped
             \/ \E J : AllButFirst(R, D, part, m, l, J)
      BY <1>1, <3>3, DropsUnseen
    <3>5. CASE Silent(part, l) /\ R[l].dropped + D[m].dropped = D[m + l].dropped
      <4>1. ASSUME NEW i \in inside PROVE FALSE
        <5>1. i \in (m + 1)..h /\ frames[i].drops # Null
          BY <1>3 DEF Told
        <5>2. PICK k : k = i - m
          OBVIOUS
        <5>3. k \in 1..l /\ i = m + k
          BY <1>1, <5>1, <5>2
        <5> QED BY <1>2, <3>5, <5>1, <5>3 DEF Silent
      <4>2. Unseen(frames, range) = 0
        BY <1>4, <4>1
      <4> QED BY <1>5, <3>4, <3>5, <4>2
    <3>6. ASSUME NEW J, AllButFirst(R, D, part, m, l, J)
          PROVE  Unseen(frames, range) \in Nat /\ R[l].dropped + Unseen(frames, range) + D[m].dropped = D[h].dropped
      <4>1. FirstTelling(part, l, J) /\ R[l].dropped + Dropped(D[m].drops, part[J].drops) + D[m].dropped = D[h].dropped
        BY <3>6 DEF AllButFirst
      <4>2. J \in 1..l /\ part[J].drops # Null /\ \A i \in 1..l : part[i].drops # Null => J <= i
        BY <4>1 DEF FirstTelling
      <4>3. PICK j : j = m + J
        OBVIOUS
      <4>4. j \in (m + 1)..h /\ j \in 1..n /\ part[J] = frames[j]
        BY <1>1, <1>2, <4>2, <4>3
      <4>5. j \in inside
        BY <1>3, <4>2, <4>4 DEF Told
      <4>6. Least(inside) = j
        <5>1. ASSUME NEW y \in inside PROVE y \in Int /\ j <= y
          <6>1. y \in (m + 1)..h /\ frames[y].drops # Null
            BY <1>3 DEF Told
          <6>2. PICK k : k = y - m
            OBVIOUS
          <6>3. k \in 1..l /\ y = m + k
            BY <1>1, <6>1, <6>2
          <6>4. J <= k
            BY <1>2, <4>2, <6>1, <6>3
          <6> QED BY <1>1, <4>2, <4>3, <6>3, <6>4
        <5>2. j \in Int
          BY <4>4
        <5> QED BY <4>5, <5>1, <5>2, LeastIs
      <4>7. Unseen(frames, range) = Dropped(frames[M].drops, frames[j].drops)
        BY <1>4, <3>1, <3>2, <4>5, <4>6
      <4>8. frames[M].drops \in OrNull /\ frames[j].drops \in OrNull
        BY <1>1, <2>1, <4>4
      <4> QED BY <1>9, <4>1, <4>4, <4>7, <4>8, DroppedIsNat
    <3> QED BY <3>4, <3>5, <3>6, <1>4, <1>5
  <2> QED BY <1>6, <2>3, <2>4
<1>10. m = 0 \/ m > 0
  BY <1>1
<1>11. \/ D[m].drops = Null /\ Silent(frames, m)
       \/ \E M : LastTelling(frames, m, M) /\ D[m].drops = frames[M].drops
  BY DropsKnow
<1>12. 0 \in Nat
  OBVIOUS
<1> QED BY <1>4, <1>7, <1>8, <1>9, <1>10, <1>11, <1>12

LEMMA PartCounts ==
  ASSUME NEW frames, NEW n, NEW G, NEW D, Loops(frames, n, G, D),
         NEW m \in 0..n, NEW h \in m..n, NEW range, Spans(frames, n, range, m, h)
  PROVE  Accounts(frames, range, G, D, m, h)
<1>1. /\ FramesFact(frames, n) /\ SkippedNextTurns(G, NoSkips, frames, n) /\ DroppedNextTurns(D, NoDrops, frames, n)
      /\ SkipsType(G, n) /\ DropsType(D, n)
  BY DEF Loops
<1>2. n \in Nat /\ DOMAIN frames = 1..n /\ n = Len(frames)
  BY <1>1 DEF FramesFact
<1>3. PICK c, l : c = RowsInRange(frames, range) /\ l = h - m
  OBVIOUS
<1>4. m + l = h
  BY <1>2, <1>3
<1>9. l \in Nat /\ m + l <= n
  BY <1>2, <1>3
<1>5. IsSeq(c) /\ Len(c) = l /\ \A k \in 1..l : c[k] = frames[m + k]
  <2>1. PICK S : S = {i \in DOMAIN frames : InRange(frames[i].at, range)}
    OBVIOUS
  <2>2. IsBetween(S, n, m, h)
    <3>1. \A i \in 1..n : (i \in S) = InRange(frames[i].at, range)
      BY <1>2, <2>1 DEF InRange
    <3> QED BY <3>1 DEF Spans, IsBetween
  <2>3. IsMiddle(Chosen(frames, S), frames, m, h)
    BY <1>2, <2>2, ChosenMiddle
  <2>4. c = Chosen(frames, S)
    BY <1>3, <2>1 DEF RowsInRange, Where
  <2> QED BY <1>3, <2>3, <2>4 DEF IsMiddle
<1>6. Part(c, frames, m, l)
  BY <1>5 DEF Part
<1>10. l = Len(c) /\ LowerBound(frames, range.from) = m
  BY <1>5 DEF Spans
<1>7. SkippedInRange(frames, range) \in Nat /\ SkippedInRange(frames, range) + G[m].skipped = G[h].skipped
  <2>1. PICK p : p = Preceding(frames, m)
    OBVIOUS
  <2>2. SkipsFact(p) /\ Alike(p, G[m]) /\ p.skipped = 0
    BY <1>1, <2>1, PrecedingKnows
  <2>3. PICK R : SkippedNextTurns(R, p, c, l) /\ SkippedNextLast(p, c) = R[l]
    BY <1>9, <1>10, SkippedNextRun
  <2>4. R[l].skipped + G[m].skipped = G[m + l].skipped /\ R[l].skipped \in Nat
    BY <1>1, <1>6, <1>9, <2>2, <2>3, SkipsOfPart
  <2>5. SkippedInRange(frames, range) = R[l].skipped
    BY <1>3, <1>10, <2>1, <2>3 DEF SkippedInRange, Steps, SkippedNextLast, IsSkippedNext
  <2> QED BY <1>4, <2>4, <2>5
<1>8. /\ DroppedInRange(frames, range) \in Nat /\ Unseen(frames, range) \in Nat
      /\ DroppedInRange(frames, range) + Unseen(frames, range) + D[m].dropped = D[h].dropped
  <2>1. PICK q : q = [drops |-> IF m > 0 THEN frames[m].drops ELSE Null, dropped |-> 0]
    OBVIOUS
  <2>2. q.drops = DropsBefore(frames, m) /\ q.dropped = 0
    BY <2>1 DEF DropsBefore
  <2>3. PICK R : DroppedNextTurns(R, q, c, l) /\ DroppedNextLast(q, c) = R[l]
    BY <1>9, <1>10, DroppedNextRun
  <2>4. R[l].dropped \in Nat /\ Unseen(frames, range) \in Nat
        /\ R[l].dropped + Unseen(frames, range) + D[m].dropped = D[h].dropped
    BY <1>1, <1>4, <1>6, <1>9, <2>2, <2>3, DropsAccount
  <2>5. DroppedInRange(frames, range) = R[l].dropped
    BY <1>3, <1>10, <2>1, <2>3 DEF DroppedInRange, Steps, DroppedNextLast, IsDroppedNext
  <2> QED BY <2>4, <2>5
<1> QED BY <1>7, <1>8 DEF Accounts

CutsAt(frames, n, cut, m) == cut \in Int /\ \A i \in 1..n : (frames[i].at < cut) = (i <= m)

LEMMA CutIs ==
  ASSUME NEW frames, NEW n, FramesFact(frames, n), NEW m \in 0..n, NEW cut \in Int, CutsAt(frames, n, cut, m)
  PROVE  LowerBound(frames, cut) = m
<1>1. PICK q \in 0..n : LowerBound(frames, cut) = q /\ \A i \in 1..n : (frames[i].at < cut) = (i <= q)
  BY FramesBefore
<1>2. n \in Nat
  BY DEF FramesFact
<1>3. \A i \in 1..n : (i <= q) = (i <= m)
  BY <1>1 DEF CutsAt
<1>4. (q \in 1..n => q <= m) /\ (m \in 1..n => m <= q)
  BY <1>3
<1> QED BY <1>1, <1>2, <1>4

\* A range between two cuts.
LEMMA RangeCounts ==
  ASSUME NEW frames, NEW n, NEW G, NEW D, Loops(frames, n, G, D),
         NEW m \in 0..n, NEW h \in 0..n, NEW range, range.from <= range.to,
         CutsAt(frames, n, range.from, m), CutsAt(frames, n, range.to, h)
  PROVE  m <= h /\ Accounts(frames, range, G, D, m, h)
<1>1. FramesFact(frames, n)
  BY DEF Loops
<1>2. n \in Nat /\ \A i \in 1..n : frames[i].at \in Nat
  BY <1>1 DEF FramesFact
<1>3. PICK from \in Int, to \in Int : from = range.from /\ to = range.to
  BY DEF CutsAt
<1>4. from <= to /\ \A i \in 1..n : (frames[i].at < from) = (i <= m) /\ (frames[i].at < to) = (i <= h)
  BY <1>3 DEF CutsAt
<1>5. m <= h
  <2> SUFFICES ASSUME h < m PROVE FALSE
    BY <1>2
  <2>1. m \in 1..n
    BY <1>2
  <2>2. frames[m].at \in Nat /\ frames[m].at < from /\ ~(frames[m].at < to)
    BY <1>2, <1>4, <2>1
  <2> QED BY <1>4, <2>2
<1>6. \A i \in 1..n : (frames[i].at < from) = (i <= m) /\ InRange(frames[i].at, range) = (m < i /\ i <= h)
  <2> SUFFICES ASSUME NEW i \in 1..n
               PROVE  (frames[i].at < from) = (i <= m) /\ InRange(frames[i].at, range) = (m < i /\ i <= h)
    OBVIOUS
  <2>1. InRange(frames[i].at, range) = (from <= frames[i].at /\ frames[i].at < to)
    BY <1>3 DEF InRange
  <2> QED BY <1>2, <1>4, <2>1
<1>7. LowerBound(frames, range.from) = m
  BY <1>1, <1>3, CutIs
<1>8. Spans(frames, n, range, m, h)
  BY <1>3, <1>6, <1>7 DEF Spans
<1>9. h \in m..n
  BY <1>2, <1>5
<1> QED BY <1>5, <1>8, <1>9, PartCounts

\* From the start of the session to a cut.
LEMMA HeadCounts ==
  ASSUME NEW frames, NEW n, NEW G, NEW D, Loops(frames, n, G, D),
         NEW m \in 0..n, NEW cut \in Nat, CutsAt(frames, n, cut, m)
  PROVE  /\ RowsInRange(frames, Till(cut)) = Chosen(frames, {i \in 1..n : i <= m})
         /\ IsSeq(RowsInRange(frames, Till(cut))) /\ Len(RowsInRange(frames, Till(cut))) = m
         /\ SkippedInRange(frames, Till(cut)) = G[m].skipped /\ DroppedInRange(frames, Till(cut)) = D[m].dropped
<1>1. /\ n \in Nat /\ DOMAIN frames = 1..n /\ n = Len(frames) /\ \A i \in 1..n : frames[i].at \in Nat
      /\ FramesFact(frames, n)
  BY DEF Loops, FramesFact
<1>2. \A i \in 1..n : (frames[i].at < cut) = (i <= m)
  BY DEF CutsAt
<1>3. PICK range : range = Till(cut)
  OBVIOUS
<1>4. range.from = 0 /\ range.to = cut
  BY <1>3 DEF Till
<1>5. PICK c : c = RowsInRange(frames, range)
  OBVIOUS
<1>6. PICK S : S = {i \in DOMAIN frames : InRange(frames[i].at, range)}
  OBVIOUS
<1>7. S = {i \in 1..n : i <= m}
  <2>1. \A i \in 1..n : InRange(frames[i].at, range) <=> i <= m
    BY <1>1, <1>2, <1>4 DEF InRange
  <2> QED BY <1>1, <1>6, <2>1
<1>8. c = Chosen(frames, S)
  BY <1>5, <1>6 DEF RowsInRange, Where
<1>9. IsSeq(c) /\ Len(c) = m
  <2>1. \A i \in 1..n : (i \in S) = (i <= m)
    BY <1>7
  <2> QED BY <1>1, <1>8, <2>1, ChosenFirst
<1>10. PICK z \in 0..n : z = 0
  BY <1>1
<1>11. CutsAt(frames, n, range.from, z) /\ CutsAt(frames, n, range.to, m) /\ range.from <= range.to
  <2>1. \A i \in 1..n : (frames[i].at < 0) = (i <= z)
    BY <1>1, <1>10
  <2> QED BY <1>4, <2>1 DEF CutsAt
<1>12. Accounts(frames, range, G, D, z, m)
  BY <1>11, RangeCounts
<1>13. G[z].skipped = 0 /\ D[z].dropped = 0
  <2>1. G[0] = NoSkips /\ D[0] = NoDrops
    BY DEF Loops, SkippedNextTurns, DroppedNextTurns
  <2>2. NoSkips.skipped = 0 /\ NoDrops.dropped = 0
    BY DEF NoSkips, NoDrops
  <2> QED BY <1>10, <2>1, <2>2
<1>14. Unseen(frames, range) = 0
  <2>1. {i \in DOMAIN frames : frames[i].at < range.from /\ frames[i].drops # Null} = {}
    BY <1>1, <1>4
  <2>2. PICK before : before = {i \in DOMAIN frames : frames[i].at < range.from /\ frames[i].drops # Null}
    OBVIOUS
  <2>3. before = {} => Unseen(frames, range) = 0
    BY <2>2, Zenon DEF Unseen
  <2> QED BY <2>1, <2>2, <2>3
<1>15. SkippedInRange(frames, range) = G[m].skipped /\ DroppedInRange(frames, range) = D[m].dropped
  BY <1>12, <1>13, <1>14 DEF Accounts
<1> QED BY <1>3, <1>5, <1>7, <1>8, <1>9, <1>15

-----------------------------------------------------------------------------
(* The losses of a session *)

NoFrames(B) == [seq |-> Null, untrusted |-> 0, drops |-> Null, buckets |-> [b \in 1..B |-> EmptyBucket]]

\* The three loops over the frames of a session.
Parsed(s, d, n, B, F, G, D) ==
  /\ Loops(s.frames, n, G, D) /\ B \in Nat /\ B = BucketCount(d)
  /\ BucketedTurns(F, NoFrames(B), s.frames, n) /\ s.buckets = Carried(F[n].buckets)
  /\ \A k \in 0..n : TurnsAgree(F[k], G[k], D[k], B, k)
  /\ s.doc = d /\ d.duration \in Nat \ {0} /\ \A i \in 1..n : s.frames[i].at < d.duration

LEMMA ParsedLoops ==
  ASSUME NEW d, IsDocument(d), Valid(d), NEW s, s = ParseSession(d), NEW n, n = Len(d.rows), NEW B, B = BucketCount(d)
  PROVE  \E F, G, D : Parsed(s, d, n, B, F, G, D)
<1>1. FramesFact(s.frames, n) /\ d.duration \in Nat \ {0} /\ \A i \in 1..n : s.frames[i].at < d.duration
  BY FramesFacts
<1>2. n \in Nat /\ n = Len(s.frames) /\ B \in Nat
  BY <1>1, BucketCountFacts DEF FramesFact
<1>3. s.doc = d /\ s.buckets = CreateMetricBuckets(d, s.frames)
  BY DEF ParseSession
<1>4. PICK frames, start : frames = s.frames /\ start = NoFrames(B)
  OBVIOUS
<1>5. PICK F : BucketedTurns(F, start, frames, n) /\ BucketedLast(start, frames) = F[n]
  <2>1. n = Len(frames) /\ n \in Nat
    BY <1>2, <1>4
  <2> QED BY <2>1, BucketedRun
<1>6. PICK G : SkippedNextTurns(G, NoSkips, frames, n)
  BY <1>2, <1>4, SkippedNextRun
<1>7. PICK D : DroppedNextTurns(D, NoDrops, frames, n)
  BY <1>2, <1>4, DroppedNextRun
<1>8. CreateMetricBuckets(d, frames) = Carried(F[n].buckets)
  <2>1. start = [seq |-> Null, untrusted |-> 0, drops |-> Null, buckets |-> [b \in 1..BucketCount(d) |-> EmptyBucket]]
    BY <1>4 DEF NoFrames
  <2>2. PICK c : c = CreateMetricBuckets(d, frames)
    OBVIOUS
  <2>3. c = Carried(BucketedLast(start, frames).buckets)
    BY <2>1, <2>2 DEF CreateMetricBuckets, Steps, BucketedLast, IsBucketed
  <2> QED BY <1>5, <2>2, <2>3
<1>9. \A k \in 0..n : TurnsAgree(F[k], G[k], D[k], B, k)
  BY <1>1, <1>4, <1>5, <1>6, <1>7, CountersEnd DEF NoFrames
<1>10. SkipsType(G, n) /\ DropsType(D, n)
  BY <1>9 DEF TurnsAgree, SkipsFact, SkipFields, SkipsType, DropsType
<1>11. Loops(frames, n, G, D)
  BY <1>1, <1>4, <1>6, <1>7, <1>10 DEF Loops
<1> QED BY <1>1, <1>2, <1>3, <1>4, <1>5, <1>8, <1>9, <1>11 DEF Parsed

\* What the buckets of a session add up to.
LEMMA BucketSums ==
  ASSUME NEW d, NEW s, NEW n, NEW B, NEW F, NEW G, NEW D, Parsed(s, d, n, B, F, G, D)
  PROVE  /\ AreBuckets(s.buckets, B)
         /\ Sum(Values(s.buckets, "received")) = n
         /\ Sum(Values(s.buckets, "skipped")) = G[n].skipped /\ G[n].skipped \in Nat
         /\ Sum(Values(s.buckets, "dropped")) = D[n].dropped /\ D[n].dropped \in Nat
         /\ \A b \in 1..B : s.buckets[b].rssi = F[n].buckets[b].rssi /\ s.buckets[b].samples = F[n].buckets[b].samples
<1>1. PICK x, y : x = F[n].buckets /\ y = s.buckets
  OBVIOUS
<1>2. n \in Nat /\ n \in 0..n /\ B \in Nat
  BY DEF Parsed, Loops, FramesFact
<1>3. TurnsAgree(F[n], G[n], D[n], B, n) /\ y = Carried(x)
  BY <1>1, <1>2 DEF Parsed
<1>4. /\ AreBuckets(x, B) /\ G[n].skipped \in Nat /\ D[n].dropped \in Nat
      /\ Sum(Values(x, "received")) = n /\ Sum(Values(x, "skipped")) = G[n].skipped
      /\ Sum(Values(x, "dropped")) = D[n].dropped
  BY <1>1, <1>3 DEF TurnsAgree
<1>5. /\ AreBuckets(y, B)
      /\ \A b \in 1..B : /\ y[b].received = x[b].received /\ y[b].dropped = x[b].dropped
                         /\ y[b].skipped = x[b].skipped /\ y[b].rssi = x[b].rssi /\ y[b].samples = x[b].samples
  BY <1>2, <1>3, <1>4, CarriedFacts
<1>6. ASSUME NEW field \in {"received", "dropped", "skipped"} PROVE Values(x, field) = Values(y, field)
  <2>1. Len(x) = B /\ Len(y) = B
    BY <1>4, <1>5 DEF AreBuckets
  <2>2. \A b \in 1..B : x[b][field] = y[b][field]
    BY <1>5
  <2> QED BY <2>1, <2>2 DEF Values
<1> QED BY <1>1, <1>4, <1>5, <1>6

\* A sum that is smaller in one place and larger in none is smaller.
LEMMA SumStrict ==
  ASSUME NEW v, NEW w, NEW n \in Nat, n = Len(v), n = Len(w),
         \A i \in 1..n : v[i] \in Int /\ w[i] \in Int /\ v[i] <= w[i], NEW j \in 1..n, v[j] < w[j]
  PROVE  Sum(v) < Sum(w)
<1>1. PICK F : SummedTo(F, v, n) /\ Sum(v) = F[n]
  BY SumRun
<1>2. PICK G : SummedTo(G, w, n) /\ Sum(w) = G[n]
  BY SumRun
<1>3. \A k \in 0..n : F[k] \in Int
  BY <1>1, SumType
<1>4. \A k \in 0..n : G[k] \in Int
  BY <1>2, SumType
<1> DEFINE P == {k \in Nat : k <= n => F[k] <= G[k] /\ (j <= k => F[k] < G[k])}
<1>5. 0 \in P
  BY <1>1, <1>2 DEF SummedTo
<1>6. ASSUME NEW k \in Nat, k \in P PROVE k + 1 \in P
  <2> SUFFICES ASSUME k + 1 <= n PROVE F[k + 1] <= G[k + 1] /\ (j <= k + 1 => F[k + 1] < G[k + 1])
    OBVIOUS
  <2>1. PICK m : m = k + 1
    OBVIOUS
  <2>2. m \in 1..n /\ m - 1 = k /\ k \in 0..n /\ k <= n /\ (j <= m => j <= k \/ j = m)
    BY <2>1
  <2>3. F[m] = F[k] + v[m] /\ G[m] = G[k] + w[m]
    BY <1>1, <1>2, <2>2 DEF SummedTo
  <2>4. F[k] \in Int /\ G[k] \in Int /\ F[k] <= G[k] /\ (j <= k => F[k] < G[k])
    BY <1>3, <1>4, <1>6, <2>2
  <2>5. v[m] \in Int /\ w[m] \in Int /\ v[m] <= w[m] /\ (j = m => v[m] < w[m])
    BY <2>2
  <2> QED BY <2>1, <2>2, <2>3, <2>4, <2>5
<1> HIDE DEF P
<1>7. Nat \subseteq P
  BY <1>5, <1>6, SetInduction
<1>8. F[n] < G[n]
  BY <1>7 DEF P
<1> QED BY <1>1, <1>2, <1>8

\* What the seconds miss, each by the larger of its two estimates, is the larger of the two sums exactly
\* where one estimate is nowhere below the other.
Listing(v, n) == v = [b \in 1..n |-> v[b]]
Below(v, w, n) == \A b \in 1..n : v[b] <= w[b]
Larger(x, v, w, n) == Len(x) = n /\ \A b \in 1..n : x[b] = Most({v[b], w[b]})

LEMMA LargerSums ==
  ASSUME NEW n \in Nat, NEW v, NEW w, NEW x, n = Len(v), n = Len(w), Larger(x, v, w, n),
         Listing(v, n), Listing(w, n), Listing(x, n),
         \A b \in 1..n : v[b] \in Int /\ w[b] \in Int
  PROVE  (Most({Sum(v), Sum(w)}) = Sum(x)) = (Below(v, w, n) \/ Below(w, v, n))
<1>1. n = Len(x)
  BY DEF Larger
<1>2. \A b \in 1..n : x[b] \in {v[b], w[b]} /\ v[b] <= x[b] /\ w[b] <= x[b] /\ x[b] \in Int
  <2> SUFFICES ASSUME NEW b \in 1..n
               PROVE  x[b] \in {v[b], w[b]} /\ v[b] <= x[b] /\ w[b] <= x[b] /\ x[b] \in Int
    OBVIOUS
  <2>1. PICK y \in Int, z \in Int : y = v[b] /\ z = w[b]
    OBVIOUS
  <2>2. Most({y, z}) \in {y, z} /\ y <= Most({y, z}) /\ z <= Most({y, z})
    BY MostOfTwo
  <2>3. x[b] = Most({y, z})
    BY <2>1 DEF Larger
  <2> QED BY <2>1, <2>2, <2>3
<1>3. PICK p, q, r : p = Sum(v) /\ q = Sum(w) /\ r = Sum(x)
  OBVIOUS
<1>4. p <= r /\ p \in Int /\ r \in Int
  <2>1. \A b \in 1..n : v[b] \in Int /\ x[b] \in Int /\ v[b] <= x[b]
    BY <1>2
  <2> QED BY <1>1, <1>3, <2>1, SumOrder
<1>5. q <= r /\ q \in Int
  <2>1. \A b \in 1..n : w[b] \in Int /\ x[b] \in Int /\ w[b] <= x[b]
    BY <1>2
  <2> QED BY <1>1, <1>3, <2>1, SumOrder
<1>6. Most({p, q}) \in {p, q} /\ p <= Most({p, q}) /\ q <= Most({p, q})
  BY <1>4, <1>5, MostOfTwo
<1>7. PICK t : t = Most({p, q})
  OBVIOUS
<1>8. t \in {p, q} /\ p <= t /\ q <= t
  BY <1>6, <1>7
<1>9. ASSUME Below(v, w, n) PROVE t = r
  <2>1. \A b \in 1..n : x[b] = w[b]
    <3> SUFFICES ASSUME NEW b \in 1..n PROVE x[b] = w[b]
      OBVIOUS
    <3>1. v[b] \in Int /\ w[b] \in Int /\ v[b] <= w[b]
      BY <1>9 DEF Below
    <3>2. x[b] \in {v[b], w[b]} /\ w[b] <= x[b]
      BY <1>2
    <3> QED BY <3>1, <3>2
  <2>2. x = w
    BY <2>1 DEF Listing
  <2>3. r = q
    BY <1>3, <2>2
  <2> QED BY <1>4, <1>5, <1>8, <2>3
<1>10. ASSUME Below(w, v, n) PROVE t = r
  <2>1. \A b \in 1..n : x[b] = v[b]
    <3> SUFFICES ASSUME NEW b \in 1..n PROVE x[b] = v[b]
      OBVIOUS
    <3>1. v[b] \in Int /\ w[b] \in Int /\ w[b] <= v[b]
      BY <1>10 DEF Below
    <3>2. x[b] \in {v[b], w[b]} /\ v[b] <= x[b]
      BY <1>2
    <3> QED BY <3>1, <3>2
  <2>2. x = v
    BY <2>1 DEF Listing
  <2>3. r = p
    BY <1>3, <2>2
  <2> QED BY <1>4, <1>5, <1>8, <2>3
<1>11. ASSUME ~Below(v, w, n), ~Below(w, v, n) PROVE t # r
  <2>1. PICK i \in 1..n : ~(v[i] <= w[i])
    BY <1>11 DEF Below
  <2>2. PICK j \in 1..n : ~(w[j] <= v[j])
    BY <1>11 DEF Below
  <2>3. v[i] \in Int /\ w[i] \in Int /\ v[j] \in Int /\ w[j] \in Int
    OBVIOUS
  <2>4. w[i] < x[i] /\ v[j] < x[j]
    BY <1>2, <2>1, <2>2, <2>3
  <2>5. q < r
    <3>1. \A b \in 1..n : w[b] \in Int /\ x[b] \in Int /\ w[b] <= x[b]
      BY <1>2
    <3> QED BY <1>1, <1>3, <2>4, <3>1, SumStrict
  <2>6. p < r
    <3>1. \A b \in 1..n : v[b] \in Int /\ x[b] \in Int /\ v[b] <= x[b]
      BY <1>2
    <3> QED BY <1>1, <1>3, <2>4, <3>1, SumStrict
  <2> QED BY <1>4, <1>5, <1>8, <2>5, <2>6
<1>12. (t = r) = (Below(v, w, n) \/ Below(w, v, n))
  BY <1>9, <1>10, <1>11
<1> QED BY <1>3, <1>7, <1>12

LEMMA MissingIsExactly ==
  ASSUME NEW buckets, NEW B \in Nat, AreBuckets(buckets, B)
  PROVE  (Most({Sum(Values(buckets, "skipped")), Sum(Values(buckets, "dropped"))})
            = Sum([b \in 1..B |-> MissingOf(buckets[b])]))
         = (\/ \A b \in 1..B : buckets[b].skipped <= buckets[b].dropped
            \/ \A b \in 1..B : buckets[b].dropped <= buckets[b].skipped)
<1>1. PICK v, w, x : v = Values(buckets, "skipped") /\ w = Values(buckets, "dropped")
                     /\ x = [b \in 1..B |-> MissingOf(buckets[b])]
  OBVIOUS
<1>2. Len(buckets) = B /\ \A b \in 1..B : buckets[b].skipped \in Int /\ buckets[b].dropped \in Int
  BY DEF AreBuckets, IsBucket
<1>3. v = [b \in 1..B |-> buckets[b].skipped] /\ w = [b \in 1..B |-> buckets[b].dropped]
  BY <1>1, <1>2 DEF Values
<1>4. \A b \in 1..B : v[b] = buckets[b].skipped /\ w[b] = buckets[b].dropped /\ x[b] = MissingOf(buckets[b])
  BY <1>1, <1>3
<1>5. B = Len(v) /\ B = Len(w) /\ Len(x) = B
      /\ Listing(v, B) /\ Listing(w, B) /\ Listing(x, B)
  BY <1>1, <1>3 DEF Listing
<1>6. Larger(x, v, w, B)
  <2>1. ASSUME NEW b \in 1..B PROVE x[b] = Most({v[b], w[b]})
    <3>1. {buckets[b].dropped, buckets[b].skipped} = {v[b], w[b]}
      BY <1>4
    <3> QED BY <1>4, <3>1 DEF MissingOf
  <2> QED BY <1>5, <2>1 DEF Larger
<1>7. \A b \in 1..B : v[b] \in Int /\ w[b] \in Int
  BY <1>2, <1>4
<1>8. (Most({Sum(v), Sum(w)}) = Sum(x)) = (Below(v, w, B) \/ Below(w, v, B))
  BY <1>5, <1>6, <1>7, LargerSums
<1>9. /\ Below(v, w, B) = \A b \in 1..B : buckets[b].skipped <= buckets[b].dropped
      /\ Below(w, v, B) = \A b \in 1..B : buckets[b].dropped <= buckets[b].skipped
  BY <1>4 DEF Below
<1> QED BY <1>1, <1>8, <1>9

\* An offset is before the end of a second exactly if that second is not before its own.
LEMMA BeforeSecond ==
  ASSUME NEW at \in Nat, NEW c \in Nat
  PROVE  (at < c * Second) = (at \div Second + 1 <= c)
<1>1. PICK S \in Nat \ {0} : S = Second
  BY LagFacts
<1>2. PICK q \in Nat : q = at \div S
  BY <1>1
<1>3. q * S <= at /\ at < q * S + S /\ q * S \in Nat
  BY <1>1, <1>2
<1>4. \A a \in Nat, b \in Nat : (a + b) * S = a * S + b * S /\ a * S \in Nat /\ b * S \in Nat
  OBVIOUS
<1>5. ASSUME q + 1 <= c PROVE at < c * S
  <2>1. PICK r \in Nat : r = c - (q + 1)
    BY <1>5
  <2>2. c = q + (1 + r) /\ 1 + r \in Nat
    BY <2>1
  <2>3. c * S = q * S + (1 + r) * S /\ (1 + r) * S = 1 * S + r * S /\ r * S \in Nat
    BY <1>4, <2>2
  <2>4. 1 * S = S
    OBVIOUS
  <2> QED BY <1>3, <2>3, <2>4
<1>6. ASSUME ~(q + 1 <= c) PROVE ~(at < c * S)
  <2>1. PICK r \in Nat : r = q - c
    BY <1>6
  <2>2. q = c + r
    BY <2>1
  <2>3. q * S = c * S + r * S /\ r * S \in Nat /\ c * S \in Nat
    BY <1>4, <2>2
  <2> QED BY <1>3, <2>3
<1> QED BY <1>1, <1>2, <1>5, <1>6

\* How many frames are before the end of each second.
SecondsEnd(frames, n, L, B) == \A c \in 0..B : L[c] \in 0..n /\ CutsAt(frames, n, c * Second, L[c])
Upto(x, k) == IF x <= k THEN x ELSE k

LEMMA UptoNext ==
  ASSUME NEW k \in Nat, NEW l, l = k + 1, NEW x \in Nat
  PROVE  /\ ~(l <= x) => Upto(x, l) = x /\ Upto(x, k) = x
         /\ l <= x => Upto(x, l) = l /\ Upto(x, k) = k
<1>1. CASE ~(l <= x)
  <2>1. x <= k /\ x <= l
    BY <1>1
  <2> QED BY <1>1, <2>1 DEF Upto
<1>2. CASE l <= x
  <2>1. ~(x <= k) /\ (x <= l => x = l)
    BY <1>2
  <2> QED BY <1>2, <2>1 DEF Upto
<1> QED BY <1>1, <1>2

\* A bucket has what the loops over all frames counted since its second began.
SecondHas(bucket, G, D, p, q) ==
  bucket.skipped + G[p].skipped = G[q].skipped /\ bucket.dropped + D[p].dropped = D[q].dropped

\* One frame more: it is in the second j, and the second b begins after p frames and ends after q.
Adds(G, D, k, l, p, gap, dropped) ==
  /\ {G[p].skipped, G[k].skipped, G[l].skipped, gap} \subseteq Nat /\ G[l].skipped = G[k].skipped + gap
  /\ {D[p].dropped, D[k].dropped, D[l].dropped, dropped} \subseteq Nat /\ D[l].dropped = D[k].dropped + dropped
Falls(l, k, j, b, p, q) ==
  l = k + 1 /\ {j, b, p, q} \subseteq Nat /\ (l <= p) = (j <= b - 1) /\ (l <= q) = (j <= b)
Gains(new, old, b, j, gap, dropped) ==
  /\ old.skipped \in Nat /\ old.dropped \in Nat /\ (b # j => new = old)
  /\ b = j => new.skipped = old.skipped + gap /\ new.dropped = old.dropped + dropped

LEMMA SecondTurn ==
  ASSUME NEW k \in Nat, NEW l, NEW p, NEW q, NEW j, NEW b, Falls(l, k, j, b, p, q),
         NEW G, NEW D, NEW gap, NEW dropped, Adds(G, D, k, l, p, gap, dropped),
         NEW old, NEW new, Gains(new, old, b, j, gap, dropped), SecondHas(old, G, D, Upto(p, k), Upto(q, k))
  PROVE  SecondHas(new, G, D, Upto(p, l), Upto(q, l))
<1>1. l = k + 1 /\ {j, b, p, q} \subseteq Nat /\ (l <= p) = (j <= b - 1) /\ (l <= q) = (j <= b)
  BY DEF Falls
<1>2. /\ {G[p].skipped, G[k].skipped, G[l].skipped, gap} \subseteq Nat /\ G[l].skipped = G[k].skipped + gap
      /\ {D[p].dropped, D[k].dropped, D[l].dropped, dropped} \subseteq Nat /\ D[l].dropped = D[k].dropped + dropped
  BY DEF Adds
<1>3. /\ old.skipped \in Nat /\ old.dropped \in Nat /\ (b # j => new = old)
      /\ b = j => new.skipped = old.skipped + gap /\ new.dropped = old.dropped + dropped
  BY DEF Gains
<1>4. /\ ~(l <= p) => Upto(p, l) = p /\ Upto(p, k) = p
      /\ ~(l <= q) => Upto(q, l) = q /\ Upto(q, k) = q
      /\ l <= p => Upto(p, l) = l /\ Upto(p, k) = k
      /\ l <= q => Upto(q, l) = l /\ Upto(q, k) = k
  BY <1>1, UptoNext
<1>5. CASE b < j
  <2>1. ~(l <= p) /\ ~(l <= q) /\ new = old
    BY <1>5, <1>1, <1>3
  <2>2. Upto(p, l) = p /\ Upto(p, k) = p /\ Upto(q, l) = q /\ Upto(q, k) = q
    BY <1>4, <2>1
  <2> QED BY <2>1, <2>2
<1>6. CASE b = j
  <2>1. ~(l <= p) /\ l <= q
    BY <1>6, <1>1
  <2>2. Upto(p, l) = p /\ Upto(p, k) = p /\ Upto(q, l) = l /\ Upto(q, k) = k
    BY <1>4, <2>1
  <2>3. old.skipped + G[p].skipped = G[k].skipped /\ old.dropped + D[p].dropped = D[k].dropped
    BY <2>2 DEF SecondHas
  <2>4. new.skipped = old.skipped + gap /\ new.dropped = old.dropped + dropped
    BY <1>6, <1>3
  <2>5. new.skipped + G[p].skipped = G[l].skipped /\ new.dropped + D[p].dropped = D[l].dropped
    BY <1>2, <1>3, <2>3, <2>4
  <2> QED BY <2>2, <2>5 DEF SecondHas
<1>7. CASE b > j
  <2>1. l <= p /\ l <= q /\ new = old
    BY <1>7, <1>1, <1>3
  <2>2. Upto(p, l) = l /\ Upto(p, k) = k /\ Upto(q, l) = l /\ Upto(q, k) = k
    BY <1>4, <2>1
  <2>3. old.skipped + G[k].skipped = G[k].skipped /\ old.dropped + D[k].dropped = D[k].dropped
    BY <2>2 DEF SecondHas
  <2>4. old.skipped + G[l].skipped = G[l].skipped /\ old.dropped + D[l].dropped = D[l].dropped
    BY <1>2, <1>3, <2>3
  <2> QED BY <2>1, <2>2, <2>4 DEF SecondHas
<1> QED BY <1>1, <1>5, <1>6, <1>7

LEMMA SecondsAccount ==
  ASSUME NEW d, NEW s, NEW n, NEW B, NEW F, NEW G, NEW D, Parsed(s, d, n, B, F, G, D),
         NEW L, SecondsEnd(s.frames, n, L, B)
  PROVE  \A b \in 1..B : SecondHas(s.buckets[b], G, D, L[b - 1], L[b])
<1>1. PICK frames : frames = s.frames
  OBVIOUS
<1>2. /\ FramesFact(frames, n) /\ B \in Nat /\ B = BucketCount(d) /\ BucketedTurns(F, NoFrames(B), frames, n)
      /\ SkippedNextTurns(G, NoSkips, frames, n) /\ DroppedNextTurns(D, NoDrops, frames, n)
      /\ s.buckets = Carried(F[n].buckets) /\ d.duration \in Nat \ {0}
  BY <1>1 DEF Parsed, Loops
<1>3. n \in Nat /\ \A i \in 1..n : frames[i].at \in Nat /\ {frames[i].seq, frames[i].drops} \subseteq OrNull
                                   /\ frames[i].at < d.duration
  BY <1>1, <1>2 DEF Parsed, FramesFact
<1>4. \A k \in 0..n : TurnsAgree(F[k], G[k], D[k], B, k)
  BY DEF Parsed
<1>5. \A k \in 0..n : AreBuckets(F[k].buckets, B) /\ G[k].skipped \in Nat /\ D[k].dropped \in Nat
  BY <1>4 DEF TurnsAgree
<1>6. \A c \in 0..B : L[c] \in 0..n /\ CutsAt(frames, n, c * Second, L[c])
  BY <1>1 DEF SecondsEnd
<1> DEFINE HasUpto(k, b) == SecondHas(F[k].buckets[b], G, D, Upto(L[b - 1], k), Upto(L[b], k))
           P == {k \in Nat : k <= n => \A b \in 1..B : HasUpto(k, b)}
<1>7. 0 \in P
  <2> SUFFICES ASSUME NEW b \in 1..B PROVE HasUpto(0, b)
    OBVIOUS
  <2>1. b \in 0..B /\ b - 1 \in 0..B
    BY <1>2
  <2>2. PICK p \in Nat, q \in Nat : p = L[b - 1] /\ q = L[b]
    BY <1>3, <1>6, <2>1
  <2>3. Upto(p, 0) = 0 /\ Upto(q, 0) = 0
    BY DEF Upto
  <2>4. F[0] = NoFrames(B)
    BY <1>2 DEF BucketedTurns
  <2>5. F[0].buckets[b] = EmptyBucket
    BY <2>4 DEF NoFrames
  <2>6. EmptyBucket.skipped = 0 /\ EmptyBucket.dropped = 0
    BY DEF EmptyBucket
  <2>7. G[0].skipped \in Nat /\ D[0].dropped \in Nat
    BY <1>3, <1>5
  <2>8. SecondHas(EmptyBucket, G, D, 0, 0)
    BY <2>6, <2>7 DEF SecondHas
  <2> QED BY <2>2, <2>3, <2>5, <2>8
<1>8. ASSUME NEW k \in Nat, k \in P PROVE k + 1 \in P
  <2> SUFFICES ASSUME k + 1 <= n, NEW b \in 1..B PROVE HasUpto(k + 1, b)
    OBVIOUS
  <2>1. PICK l : l = k + 1
    OBVIOUS
  <2>2. l \in 1..n /\ l - 1 = k /\ k <= n /\ k \in 0..n /\ l \in 0..n
    BY <1>3, <2>1
  <2>3. PICK acc, f, next : acc = F[k] /\ f = frames[l] /\ next = F[l]
    OBVIOUS
  <2>4. next = Bucketed(acc, f) /\ G[l] = SkippedNext(G[k], f) /\ D[l] = DroppedNext(D[k], f)
    BY <1>2, <2>2, <2>3 DEF BucketedTurns, SkippedNextTurns, DroppedNextTurns
  <2>5. f.at \in Nat /\ {f.seq, f.drops} \subseteq OrNull /\ f.at < d.duration
    BY <1>3, <2>2, <2>3
  <2>6. PICK j : j = f.at \div Second + 1
    OBVIOUS
  <2>7. j \in 1..B
    BY <1>2, <2>5, <2>6, BucketOf
  <2>8. TurnsAgree(acc, G[k], D[k], B, k) /\ AreBuckets(acc.buckets, B)
    BY <1>4, <1>5, <2>2, <2>3
  <2>9. PICK gap, dropped : gap = GapAt(acc, f) /\ dropped = Dropped(acc.drops, f.drops)
    OBVIOUS
  <2>10. /\ gap \in Nat /\ dropped \in Nat
         /\ SkipsOn(G[k], SkippedNext(G[k], f), f, acc, gap) /\ DropsOn(D[k], DroppedNext(D[k], f), f, acc, dropped)
    BY <1>2, <2>5, <2>8, <2>9, CountersAdd
  <2>11. G[l].skipped = G[k].skipped + gap /\ D[l].dropped = D[k].dropped + dropped
    BY <2>4, <2>10 DEF SkipsOn, DropsOn
  <2>12. CountedIn(acc.buckets, next.buckets, f, j, gap, dropped)
    <3>1. j \in DOMAIN acc.buckets
      BY <2>7, <2>8 DEF AreBuckets
    <3> QED BY <2>4, <2>6, <2>9, <3>1, BucketedTurn
  <2>13. PICK old, new : old = acc.buckets[b] /\ new = next.buckets[b]
    OBVIOUS
  <2>14. /\ b = j => new.skipped = old.skipped + gap /\ new.dropped = old.dropped + dropped
         /\ b # j => new = old
    <3>1. b \in DOMAIN acc.buckets
      BY <2>8 DEF AreBuckets
    <3> QED BY <2>12, <2>13, <3>1 DEF CountedIn, Counted1
  <2>15. old.skipped \in Nat /\ old.dropped \in Nat
    <3>1. IsBucket(old)
      BY <2>8, <2>13 DEF AreBuckets
    <3> QED BY <3>1 DEF IsBucket
  <2>16. ASSUME NEW c \in 0..B PROVE L[c] \in Nat /\ (l <= L[c]) = (j <= c)
    <3>1. L[c] \in 0..n /\ CutsAt(frames, n, c * Second, L[c])
      BY <1>6
    <3>2. (f.at < c * Second) = (l <= L[c])
      BY <2>2, <2>3, <3>1 DEF CutsAt
    <3>3. c \in Nat
      BY <1>2
    <3>4. (f.at < c * Second) = (f.at \div Second + 1 <= c)
      BY <2>5, <3>3, BeforeSecond
    <3> QED BY <1>3, <2>6, <3>1, <3>2, <3>4
  <2>17. b \in 0..B /\ b - 1 \in 0..B /\ b \in Nat /\ j \in Nat
    BY <1>2, <2>7
  <2>18. PICK p, q : p = L[b - 1] /\ q = L[b]
    OBVIOUS
  <2>19. p \in Nat /\ q \in Nat /\ (l <= p) = (j <= b - 1) /\ (l <= q) = (j <= b)
    BY <2>16, <2>17, <2>18
  <2>20. SecondHas(old, G, D, Upto(p, k), Upto(q, k))
    BY <1>8, <2>2, <2>3, <2>13, <2>18
  <2>21. /\ {G[p].skipped, G[k].skipped, G[l].skipped} \subseteq Nat
         /\ {D[p].dropped, D[k].dropped, D[l].dropped} \subseteq Nat
    <3>1. p \in 0..n
      BY <1>6, <2>17, <2>18
    <3> QED BY <1>5, <2>2, <3>1
  <2>22. Falls(l, k, j, b, p, q) /\ Adds(G, D, k, l, p, gap, dropped) /\ Gains(new, old, b, j, gap, dropped)
    BY <2>1, <2>10, <2>11, <2>14, <2>15, <2>17, <2>19, <2>21 DEF Falls, Adds, Gains
  <2>23. SecondHas(new, G, D, Upto(p, l), Upto(q, l))
    BY <2>20, <2>22, SecondTurn
  <2> QED BY <2>1, <2>3, <2>13, <2>18, <2>23
<1> HIDE DEF P
<1>9. Nat \subseteq P
  BY <1>7, <1>8, SetInduction
<1>10. ASSUME NEW b \in 1..B PROVE SecondHas(s.buckets[b], G, D, L[b - 1], L[b])
  <2>1. b \in 0..B /\ b - 1 \in 0..B
    BY <1>2
  <2>2. PICK p, q : p = L[b - 1] /\ q = L[b]
    OBVIOUS
  <2>3. p \in 0..n /\ q \in 0..n
    BY <1>6, <2>1, <2>2
  <2>4. Upto(p, n) = p /\ Upto(q, n) = q
    BY <2>3 DEF Upto
  <2>5. SecondHas(F[n].buckets[b], G, D, Upto(p, n), Upto(q, n))
    BY <1>3, <1>9, <2>2 DEF P
  <2>6. PICK x, y : x = F[n].buckets /\ y = s.buckets
    OBVIOUS
  <2>7. AreBuckets(x, B) /\ y = Carried(x)
    BY <1>2, <1>3, <1>5, <2>6
  <2>8. \A a \in 1..B : /\ y[a].received = x[a].received /\ y[a].dropped = x[a].dropped
                        /\ y[a].skipped = x[a].skipped /\ y[a].rssi = x[a].rssi /\ y[a].samples = x[a].samples
    BY <1>2, <2>7, CarriedFacts
  <2> QED BY <2>2, <2>4, <2>5, <2>6, <2>8 DEF SecondHas
<1> QED BY <1>10

LEMMA LeastOfTwo ==
  ASSUME NEW x \in Int, NEW y \in Int
  PROVE  Least({x, y}) \in {x, y} /\ Least({x, y}) <= x /\ Least({x, y}) <= y
<1>1. \E z \in {x, y} : \A w \in {x, y} : z <= w  OBVIOUS
<1> QED  BY <1>1 DEF Least

\* The losses an incident over the whole session counts are those of the buckets.
LEMMA WholeLosses ==
  ASSUME NEW d, NEW s, NEW n, NEW B, NEW F, NEW G, NEW D, Parsed(s, d, n, B, F, G, D),
         NEW whole, whole = Till(d.duration)
  PROVE  /\ RowsInRange(s.frames, whole) = s.frames /\ Len(s.frames) = Sum(Values(s.buckets, "received"))
         /\ MissingFramesInRange(s.frames, whole)
              = Most({Sum(Values(s.buckets, "skipped")), Sum(Values(s.buckets, "dropped"))})
<1>1. PICK frames : frames = s.frames
  OBVIOUS
<1>2. Loops(frames, n, G, D) /\ d.duration \in Nat /\ \A i \in 1..n : frames[i].at < d.duration
  BY <1>1 DEF Parsed
<1>3. n \in Nat /\ IsSeq(frames) /\ n = Len(frames)
  BY <1>2 DEF Loops, FramesFact
<1>4. PICK cut \in Nat : cut = d.duration
  BY <1>2
<1>5. n \in 0..n /\ CutsAt(frames, n, cut, n)
  BY <1>2, <1>3, <1>4 DEF CutsAt
<1>6. /\ RowsInRange(frames, Till(cut)) = Chosen(frames, {i \in 1..n : i <= n})
      /\ IsSeq(RowsInRange(frames, Till(cut))) /\ Len(RowsInRange(frames, Till(cut))) = n
      /\ SkippedInRange(frames, Till(cut)) = G[n].skipped /\ DroppedInRange(frames, Till(cut)) = D[n].dropped
  BY <1>2, <1>5, HeadCounts
<1>7. Chosen(frames, {i \in 1..n : i <= n}) = frames
  <2>1. PICK S : S = {i \in 1..n : i <= n}
    OBVIOUS
  <2>2. \A i \in 1..Len(frames) : i \in S
    BY <1>3, <2>1
  <2>3. Chosen(frames, S) = frames
    BY <1>3, <2>2, ChosenAll
  <2> QED BY <2>1, <2>3
<1>8. /\ Sum(Values(s.buckets, "received")) = n
      /\ Sum(Values(s.buckets, "skipped")) = G[n].skipped /\ Sum(Values(s.buckets, "dropped")) = D[n].dropped
  BY BucketSums
<1>9. PICK x, y : x = G[n].skipped /\ y = D[n].dropped
  OBVIOUS
<1>10. MissingFramesInRange(frames, whole) = Most({y, x})
  BY <1>4, <1>6, <1>9 DEF MissingFramesInRange
<1>11. {y, x} = {x, y}
  OBVIOUS
<1> QED BY <1>1, <1>3, <1>4, <1>6, <1>7, <1>8, <1>9, <1>10, <1>11

\* Any range, between its cuts.
LEMMA HeadLosses ==
  ASSUME NEW frames, NEW n, NEW G, NEW D, Loops(frames, n, G, D),
         NEW m \in 0..n, NEW cut \in Nat, CutsAt(frames, n, cut, m)
  PROVE  SkippedInRange(frames, Till(cut)) = G[m].skipped /\ DroppedInRange(frames, Till(cut)) = D[m].dropped
<1>1. /\ RowsInRange(frames, Till(cut)) = Chosen(frames, {i \in 1..n : i <= m})
      /\ IsSeq(RowsInRange(frames, Till(cut))) /\ Len(RowsInRange(frames, Till(cut))) = m
      /\ SkippedInRange(frames, Till(cut)) = G[m].skipped /\ DroppedInRange(frames, Till(cut)) = D[m].dropped
  BY HeadCounts
<1> QED BY <1>1

LEMMA RangesAgree ==
  ASSUME NEW d, NEW s, NEW n, NEW B, NEW F, NEW G, NEW D, Parsed(s, d, n, B, F, G, D)
  PROVE  RangesAddUp(s)
<1>1. PICK frames, duration : frames = s.frames /\ duration = s.doc.duration
  OBVIOUS
<1>2. Loops(frames, n, G, D) /\ duration \in Nat
  BY <1>1 DEF Parsed
<1>3. FramesFact(frames, n) /\ SkipsType(G, n) /\ DropsType(D, n)
  BY <1>2 DEF Loops
<1>5. Loops(frames, n, G, D)
  BY <1>2
<1>4. ASSUME NEW to \in 0..duration, NEW from \in 0..to, NEW range, range = [from |-> from, to |-> to]
      PROVE  /\ SkippedInRange(frames, Till(from)) + SkippedInRange(frames, range) = SkippedInRange(frames, Till(to))
             /\ DroppedInRange(frames, Till(from)) + DroppedInRange(frames, range) + Unseen(frames, range)
                  = DroppedInRange(frames, Till(to))
  <2>1. from \in Nat /\ to \in Nat /\ from <= to /\ range.from = from /\ range.to = to
    BY <1>2, <1>4
  <2>2. PICK m \in 0..n : LowerBound(frames, from) = m /\ \A i \in 1..n : (frames[i].at < from) = (i <= m)
    BY <1>3, <2>1, FramesBefore
  <2>3. PICK h \in 0..n : LowerBound(frames, to) = h /\ \A i \in 1..n : (frames[i].at < to) = (i <= h)
    BY <1>3, <2>1, FramesBefore
  <2>4. CutsAt(frames, n, from, m) /\ CutsAt(frames, n, to, h)
    BY <2>1, <2>2, <2>3 DEF CutsAt
  <2>1a. from \in Nat
    BY <2>1
  <2>1b. to \in Nat
    BY <2>1
  <2>2a. m \in 0..n
    OBVIOUS
  <2>3a. h \in 0..n
    OBVIOUS
  <2>4a. CutsAt(frames, n, from, m)
    BY <2>4
  <2>4b. CutsAt(frames, n, to, h)
    BY <2>4
  <2>5. SkippedInRange(frames, Till(from)) = G[m].skipped /\ DroppedInRange(frames, Till(from)) = D[m].dropped
    BY <1>5, <2>1a, <2>4a, <2>2a, HeadLosses
  <2>6. SkippedInRange(frames, Till(to)) = G[h].skipped /\ DroppedInRange(frames, Till(to)) = D[h].dropped
    BY <1>5, <2>1b, <2>4b, <2>3a, HeadLosses
  <2>7. CutsAt(frames, n, range.from, m) /\ CutsAt(frames, n, range.to, h) /\ range.from <= range.to
    BY <2>1, <2>4
  <2>8. Accounts(frames, range, G, D, m, h)
    BY <1>2, <2>7, RangeCounts
  <2>9. G[m].skipped \in Nat /\ D[m].dropped \in Nat
    BY <1>3 DEF SkipsType, DropsType, SkipsFact
  <2> QED BY <2>5, <2>6, <2>8, <2>9 DEF Accounts
<1> QED BY <1>1, <1>4, Zenon DEF RangesAddUp

\* Where a second begins and ends.
LEMMA SecondCuts ==
  ASSUME NEW d, d.duration \in Nat \ {0}, NEW B, B = BucketCount(d), NEW b \in 1..B
  PROVE  /\ {(b - 1) * Second, b * Second} \subseteq Nat
         /\ (b - 1) * Second <= b * Second /\ (b - 1) * Second <= d.duration
<1>1. B \in Nat /\ B * Second \in Nat /\ B * Second < d.duration + Second /\ Second \in Nat
  BY BucketCountFacts, LagFacts
<1>2. PICK S \in Nat, T \in Nat : S = Second /\ T = d.duration
  BY <1>1
<1>3. PICK a \in Nat, r \in Nat : a = b - 1 /\ r = B - b
  <2>1. B \in Nat
    BY <1>1
  <2>2. \A q \in Nat : \A c \in 1..q : c - 1 \in Nat /\ q - c \in Nat
    OBVIOUS
  <2>3. b - 1 \in Nat /\ B - b \in Nat
    BY <2>1, <2>2, Zenon
  <2> QED BY <2>3
<1>4. b = a + 1 /\ B = (a + r) + 1 /\ a + r \in Nat
  BY <1>1, <1>3
<1>5. \A x \in Nat, y \in Nat : (x + y) * S = x * S + y * S /\ x * S \in Nat /\ y * S \in Nat
  OBVIOUS
<1>6. 1 * S = S
  OBVIOUS
<1>7. b * S = a * S + S /\ a * S \in Nat
  BY <1>4, <1>5, <1>6
<1>8. B * S = (a * S + r * S) + S /\ r * S \in Nat
  BY <1>3, <1>4, <1>5, <1>6
<1>9. a * S <= T
  BY <1>1, <1>2, <1>7, <1>8
<1> QED BY <1>2, <1>3, <1>7, <1>9

\* A second is a range, and a bucket has what the incident over it counts.
LEMMA SecondsAgree ==
  ASSUME NEW d, NEW s, NEW n, NEW B, NEW F, NEW G, NEW D, Parsed(s, d, n, B, F, G, D)
  PROVE  SecondsAreRanges(s)
<1>1. PICK frames, duration : frames = s.frames /\ duration = s.doc.duration
  OBVIOUS
<1>2. /\ Loops(frames, n, G, D) /\ duration \in Nat \ {0} /\ duration = d.duration /\ B \in Nat /\ B = BucketCount(d)
      /\ \A i \in 1..n : frames[i].at < duration
  BY <1>1 DEF Parsed
<1>3. FramesFact(frames, n) /\ SkipsType(G, n) /\ DropsType(D, n) /\ n \in Nat
      /\ \A i \in 1..n : frames[i].at \in Nat
  BY <1>2 DEF Loops, FramesFact
<1>4. DOMAIN s.buckets = 1..B /\ \A b \in 1..B : s.buckets[b].skipped \in Nat /\ s.buckets[b].dropped \in Nat
  BY BucketSums DEF AreBuckets, IsBucket
<1>5. PICK L : L = [c \in 0..B |-> LowerBound(frames, c * Second)]
  OBVIOUS
<1>6. SecondsEnd(frames, n, L, B)
  <2>1. ASSUME NEW c \in 0..B PROVE L[c] \in 0..n /\ CutsAt(frames, n, c * Second, L[c])
    <3>1. PICK at \in Int : at = c * Second
      BY <1>2, LagFacts
    <3>2. PICK m \in 0..n : LowerBound(frames, at) = m /\ \A i \in 1..n : (frames[i].at < at) = (i <= m)
      BY <1>3, FramesBefore
    <3>3. L[c] = m
      BY <1>5, <3>1, <3>2
    <3> QED BY <3>1, <3>2, <3>3 DEF CutsAt
  <2> QED BY <2>1 DEF SecondsEnd
<1>7. \A b \in 1..B : SecondHas(s.buckets[b], G, D, L[b - 1], L[b])
  BY <1>1, <1>6, SecondsAccount
<1>8. ASSUME NEW b \in 1..B, NEW second, second = SecondOf(b, duration)
      PROVE  /\ s.buckets[b].skipped = SkippedInRange(frames, second)
             /\ s.buckets[b].dropped = DroppedInRange(frames, second) + Unseen(frames, second)
  <2>1. {(b - 1) * Second, b * Second} \subseteq Nat /\ (b - 1) * Second <= b * Second /\ (b - 1) * Second <= d.duration
    BY <1>2, SecondCuts
  <2>2. PICK from \in Int, end \in Int : from = (b - 1) * Second /\ end = b * Second
    BY <2>1
  <2>20. PICK to : to = Least({end, duration})
    OBVIOUS
  <2>3. second.from = from /\ second.to = to
    BY <1>8, <2>2, <2>20 DEF SecondOf
  <2>4. to \in {end, duration} /\ to <= end /\ to <= duration
    <3>1. duration \in Int
      BY <1>2
    <3>2. /\ Least({end, duration}) \in {end, duration}
          /\ Least({end, duration}) <= end /\ Least({end, duration}) <= duration
      BY <3>1, LeastOfTwo
    <3> QED BY <2>20, <3>2
  <2>5. from <= to /\ to \in Int
    BY <1>2, <2>1, <2>2, <2>4
  <2>6. b - 1 \in 0..B /\ b \in 0..B
    BY <1>2
  <2>7. PICK m, h : m = L[b - 1] /\ h = L[b]
    OBVIOUS
  <2>8. m \in 0..n /\ h \in 0..n /\ CutsAt(frames, n, from, m) /\ CutsAt(frames, n, end, h)
    BY <1>6, <2>2, <2>6, <2>7 DEF SecondsEnd
  <2>9. \A i \in 1..n : (frames[i].at < to) = (frames[i].at < end)
    BY <1>2, <1>3, <2>2, <2>4
  <2>10. CutsAt(frames, n, to, h)
    BY <2>5, <2>8, <2>9 DEF CutsAt
  <2>11. CutsAt(frames, n, second.from, m) /\ CutsAt(frames, n, second.to, h) /\ second.from <= second.to
    BY <2>3, <2>5, <2>8, <2>10
  <2>12. Accounts(frames, second, G, D, m, h)
    BY <1>2, <2>8, <2>11, RangeCounts
  <2>13. SecondHas(s.buckets[b], G, D, m, h)
    BY <1>7, <2>7
  <2>14. G[m].skipped \in Nat /\ D[m].dropped \in Nat /\ G[h].skipped \in Nat /\ D[h].dropped \in Nat
    BY <1>3, <2>8 DEF SkipsType, DropsType, SkipsFact
  <2>15. PICK x, y : x = s.buckets[b].skipped /\ y = s.buckets[b].dropped
    OBVIOUS
  <2>16. x \in Nat /\ y \in Nat /\ x + G[m].skipped = G[h].skipped /\ y + D[m].dropped = D[h].dropped
    BY <1>4, <2>13, <2>15 DEF SecondHas
  <2>17. PICK u, v, w : /\ u = SkippedInRange(frames, second)
                        /\ v = DroppedInRange(frames, second) /\ w = Unseen(frames, second)
    OBVIOUS
  <2>18. /\ u \in Nat /\ u + G[m].skipped = G[h].skipped
         /\ v \in Nat /\ w \in Nat /\ v + w + D[m].dropped = D[h].dropped
    BY <2>12, <2>17 DEF Accounts
  <2>19. x = u /\ y = v + w
    BY <2>14, <2>16, <2>18
  <2> QED BY <2>15, <2>17, <2>19
<1> QED BY <1>1, <1>4, <1>8, Zenon DEF SecondsAreRanges

-----------------------------------------------------------------------------
(* What a filter of a filter adds up to *)

Tells(T, c, Q, seq) == \A k \in 1..Len(c), i \in 1..Len(seq) : c[k] = seq[i] => (k \in T) = (i \in Q)
IsValued(x, c, v, seq) == IsSeq(x) /\ Len(x) = Len(c) /\ \A k \in 1..Len(c), i \in 1..Len(seq) : c[k] = seq[i] => x[k] = v[i]

\* A filter keeps the values of what it keeps.
LEMMA KeptValues ==
  ASSUME NEW seq, NEW n \in Nat, n = Len(seq), NEW H, NEW c, c = Chosen(seq, H),
         NEW v, IsSeq(v), Len(v) = n, NEW x, IsValued(x, c, v, seq)
  PROVE  x = Chosen(v, H)
<1>1. PICK p : p = At(n, H)
  OBVIOUS
<1>2. Places(p, n, H) /\ IsPick(c, seq, p)
  BY <1>1, ChosenFacts
<1>3. PICK y : y = Chosen(v, H)
  OBVIOUS
<1>4. IsPick(y, v, p)
  BY <1>1, <1>3, ChosenFacts
<1>5. PICK l \in Nat : l = Len(p)
  BY <1>2 DEF Places, IsSeq
<1>6. Len(c) = l /\ Len(y) = l /\ Len(x) = l /\ IsSeq(x) /\ IsSeq(y)
  BY <1>2, <1>4, <1>5 DEF IsPick, IsValued
<1>7. ASSUME NEW k \in 1..l PROVE x[k] = y[k]
  <2>1. PICK i : i = p[k]
    OBVIOUS
  <2>2. i \in 1..n /\ c[k] = seq[i] /\ y[k] = v[i]
    BY <1>2, <1>4, <1>5, <2>1 DEF Places, IsPick
  <2>3. x[k] = v[i]
    BY <1>6, <2>2 DEF IsValued
  <2> QED BY <2>2, <2>3
<1> QED BY <1>3, <1>6, <1>7, SeqEqual

LEMMA NestedSum ==
  ASSUME NEW seq, NEW n \in Nat, n = Len(seq), NEW H, NEW c, c = Chosen(seq, H), NEW Q, NEW T, Tells(T, c, Q, seq),
         NEW e, e = Chosen(c, T), NEW v, IsSeq(v), Len(v) = n, \A i \in 1..n : v[i] \in Int,
         NEW x, IsValued(x, e, v, seq),
         NEW u, u = [i \in 1..n |-> IF i \in H /\ i \in Q THEN v[i] ELSE 0]
  PROVE  Sum(x) = Sum(u)
<1>1. PICK p : p = At(n, H)
  OBVIOUS
<1>2. Places(p, n, H) /\ IsPick(c, seq, p)
  BY <1>1, ChosenFacts
<1>3. PICK l \in Nat : l = Len(p)
  BY <1>2 DEF Places, IsSeq
<1>4. l = Len(c)
  BY <1>2, <1>3 DEF IsPick
<1>5. PICK w : w = Chosen(v, H)
  OBVIOUS
<1>6. IsPick(w, v, p)
  BY <1>1, <1>5, ChosenFacts
<1>7. Len(w) = l /\ IsSeq(w) /\ \A k \in 1..l : w[k] = v[p[k]] /\ p[k] \in 1..n /\ p[k] \in H /\ c[k] = seq[p[k]]
  BY <1>2, <1>3, <1>6 DEF IsPick, Places
<1>8. IsValued(x, e, w, c)
  <2>1. IsSeq(x) /\ Len(x) = Len(e)
    BY DEF IsValued
  <2>2. ASSUME NEW k \in 1..Len(e), NEW j \in 1..Len(c), e[k] = c[j] PROVE x[k] = w[j]
    <3>1. PICK i : i = p[j]
      OBVIOUS
    <3>2. i \in 1..n /\ e[k] = seq[i] /\ w[j] = v[i]
      BY <1>4, <1>7, <2>2, <3>1
    <3>3. x[k] = v[i]
      BY <3>2 DEF IsValued
    <3> QED BY <3>2, <3>3
  <2> QED BY <2>1, <2>2 DEF IsValued
<1>9. x = Chosen(w, T)
  BY <1>4, <1>7, <1>8, KeptValues
<1>10. PICK z : z = [k \in 1..l |-> IF k \in T THEN w[k] ELSE 0]
  OBVIOUS
<1>11. Sum(x) = Sum(z)
  <2>1. \A k \in 1..l : w[k] \in Int
    BY <1>7
  <2> QED BY <1>7, <1>9, <1>10, <2>1, SumKept
<1>12. PICK t : t = [i \in 1..n |-> IF i \in Q THEN v[i] ELSE 0]
  OBVIOUS
<1>13. IsSeq(t) /\ Len(t) = n /\ \A i \in 1..n : t[i] = (IF i \in Q THEN v[i] ELSE 0) /\ t[i] \in Int
  <2>1. t = [i \in 1..n |-> t[i]]
    BY <1>12
  <2>2. \A i \in 1..n : t[i] = (IF i \in Q THEN v[i] ELSE 0) /\ t[i] \in Int
    BY <1>12
  <2> QED BY <2>1, <2>2, GivenFacts
<1>14. z = Chosen(t, H)
  <2>1. PICK y : y = Chosen(t, H)
    OBVIOUS
  <2>2. IsPick(y, t, p)
    BY <1>1, <1>13, <2>1, ChosenFacts
  <2>3. IsSeq(y) /\ Len(y) = l /\ \A k \in 1..l : y[k] = t[p[k]]
    BY <1>3, <2>2 DEF IsPick
  <2>4. IsSeq(z) /\ Len(z) = l
    <3>1. z = [k \in 1..l |-> z[k]]
      BY <1>10
    <3> QED BY <3>1, GivenFacts
  <2>5. ASSUME NEW k \in 1..l PROVE z[k] = y[k]
    <3>1. PICK i : i = p[k]
      OBVIOUS
    <3>2. i \in 1..n /\ c[k] = seq[i] /\ w[k] = v[i] /\ y[k] = t[i]
      BY <1>7, <2>3, <3>1
    <3>3. (k \in T) = (i \in Q)
      BY <1>4, <3>2 DEF Tells
    <3>4. z[k] = IF k \in T THEN w[k] ELSE 0
      BY <1>10
    <3>5. t[i] = IF i \in Q THEN v[i] ELSE 0
      BY <1>13, <3>2
    <3> QED BY <3>2, <3>3, <3>4, <3>5
  <2> QED BY <2>1, <2>3, <2>4, <2>5, SeqEqual
<1>15. PICK y : y = [i \in 1..n |-> IF i \in H THEN t[i] ELSE 0]
  OBVIOUS
<1>16. Sum(z) = Sum(y)
  BY <1>13, <1>14, <1>15, SumKept
<1>17. y = u
  <2>1. ASSUME NEW i \in 1..n PROVE y[i] = u[i]
    BY <1>13, <1>15
  <2> QED BY <1>15, <2>1
<1> QED BY <1>11, <1>16, <1>17

-----------------------------------------------------------------------------
(* Healthy seconds *)

HeardIn(frames, j) == {i \in DOMAIN frames : frames[i].at \div Second + 1 = j}
HeardAt(frames) == {i \in DOMAIN frames : frames[i].rssi # Null}
HeardSum(frames, v, n, j) == [i \in 1..n |-> IF i \in HeardAt(frames) /\ i \in HeardIn(frames, j) THEN v[i] ELSE 0]
Rssis(frames, n) == [i \in 1..n |-> frames[i].rssi]
Ones(n) == [i \in 1..n |-> 1]

\* A bucket holds the sum and the number of the RSSIs of its second.
LEMMA BucketHears ==
  ASSUME NEW frames, NEW n, FramesFact(frames, n), NEW B \in Nat, NEW F, BucketedTurns(F, NoFrames(B), frames, n),
         \A k \in 0..n : AreBuckets(F[k].buckets, B), \A i \in 1..n : frames[i].at \div Second + 1 \in 1..B,
         NEW j \in 1..B
  PROVE  /\ F[n].buckets[j].rssi = Sum(HeardSum(frames, Rssis(frames, n), n, j))
         /\ F[n].buckets[j].samples = Sum(HeardSum(frames, Ones(n), n, j))
<1>1. n \in Nat /\ DOMAIN frames = 1..n /\ \A i \in 1..n : frames[i].rssi \in Int
  BY DEF FramesFact
<1>2. PICK v, w : v = HeardSum(frames, Rssis(frames, n), n, j) /\ w = HeardSum(frames, Ones(n), n, j)
  OBVIOUS
<1>3. \A i \in 1..n :
        /\ v[i] = (IF frames[i].rssi # Null /\ frames[i].at \div Second + 1 = j THEN frames[i].rssi ELSE 0)
        /\ w[i] = (IF frames[i].rssi # Null /\ frames[i].at \div Second + 1 = j THEN 1 ELSE 0)
  BY <1>1, <1>2 DEF HeardSum, HeardIn, HeardAt, Rssis, Ones
<1>4. Len(v) = n /\ Len(w) = n
  BY <1>1, <1>2 DEF HeardSum
<1>5. PICK R : SummedTo(R, v, n) /\ Sum(v) = R[n]
  BY <1>1, <1>4, SumRun
<1>6. PICK N : SummedTo(N, w, n) /\ Sum(w) = N[n]
  BY <1>1, <1>4, SumRun
<1>7. \A k \in 0..n : R[k] \in Int /\ N[k] \in Int
  <2>1. \A i \in 1..n : v[i] \in Int /\ w[i] \in Int
    BY <1>1, <1>3
  <2> QED BY <1>1, <1>5, <1>6, <2>1, SumType
<1> DEFINE P == {k \in Nat : k <= n => F[k].buckets[j].rssi = R[k] /\ F[k].buckets[j].samples = N[k]}
<1>8. 0 \in P
  <2>1. F[0].buckets[j].rssi = 0 /\ F[0].buckets[j].samples = 0
    <3>1. F[0] = NoFrames(B)
      BY DEF BucketedTurns
    <3>2. NoFrames(B).buckets[j] = EmptyBucket
      BY DEF NoFrames
    <3>3. EmptyBucket.rssi = 0 /\ EmptyBucket.samples = 0
      BY DEF EmptyBucket
    <3> QED BY <3>1, <3>2, <3>3
  <2>2. R[0] = 0 /\ N[0] = 0
    BY <1>5, <1>6 DEF SummedTo
  <2> QED BY <2>1, <2>2
<1>9. ASSUME NEW k \in Nat, k \in P PROVE k + 1 \in P
  <2> SUFFICES ASSUME k + 1 <= n PROVE F[k + 1].buckets[j].rssi = R[k + 1] /\ F[k + 1].buckets[j].samples = N[k + 1]
    OBVIOUS
  <2>1. PICK m : m = k + 1
    OBVIOUS
  <2>2. m \in 1..n /\ m - 1 = k /\ k <= n /\ k \in 0..n
    BY <1>1, <2>1
  <2>3. PICK acc, f, next, g : acc = F[k] /\ f = frames[m] /\ next = F[m] /\ g = f.at \div Second + 1
    OBVIOUS
  <2>4. next = Bucketed(acc, f)
    BY <2>2, <2>3 DEF BucketedTurns
  <2>5. g \in DOMAIN acc.buckets /\ DOMAIN acc.buckets = 1..B
    BY <2>2, <2>3 DEF AreBuckets
  <2>6. CountedIn(acc.buckets, next.buckets, f, g, GapAt(acc, f), Dropped(acc.drops, f.drops))
    BY <2>3, <2>4, <2>5, BucketedTurn
  <2>7. PICK old, new : old = acc.buckets[j] /\ new = next.buckets[j]
    OBVIOUS
  <2>8. old.rssi = R[k] /\ old.samples = N[k]
    BY <1>9, <2>2, <2>3, <2>7
  <2>9. R[m] = R[k] + v[m] /\ N[m] = N[k] + w[m]
    BY <1>5, <1>6, <2>2 DEF SummedTo
  <2>10. R[k] \in Int /\ N[k] \in Int /\ f.rssi \in Int
    BY <1>1, <1>7, <2>2, <2>3
  <2>11. CASE g = j
    <3>1. /\ new.rssi = (IF f.rssi = Null THEN old.rssi ELSE old.rssi + f.rssi)
          /\ new.samples = (IF f.rssi = Null THEN old.samples ELSE old.samples + 1)
      BY <2>6, <2>7, <2>11 DEF CountedIn, Counted1
    <3>2. v[m] = (IF f.rssi # Null THEN f.rssi ELSE 0) /\ w[m] = IF f.rssi # Null THEN 1 ELSE 0
      BY <1>3, <2>2, <2>3, <2>11
    <3> QED BY <2>1, <2>3, <2>7, <2>8, <2>9, <2>10, <3>1, <3>2
  <2>12. CASE g # j
    <3>1. new = old
      BY <2>5, <2>6, <2>7, <2>12 DEF CountedIn
    <3>2. v[m] = 0 /\ w[m] = 0
      BY <1>3, <2>2, <2>3, <2>12
    <3> QED BY <2>1, <2>3, <2>7, <2>8, <2>9, <2>10, <3>1, <3>2
  <2> QED BY <2>11, <2>12
<1> HIDE DEF P
<1>10. Nat \subseteq P
  BY <1>8, <1>9, SetInduction
<1>11. n \in P /\ n <= n
  BY <1>1, <1>10
<1>12. F[n].buckets[j].rssi = R[n] /\ F[n].buckets[j].samples = N[n]
  BY <1>11 DEF P
<1> QED BY <1>2, <1>5, <1>6, <1>12

InSecond(heard, from, b) == Chosen(heard, {i \in DOMAIN heard : (heard[i].at - from) \div Second = b})
RssiOf(e) == [i \in 1..Len(e) |-> e[i].rssi]
HealthySeconds(heard, from) ==
  {b \in {(heard[i].at - from) \div Second : i \in DOMAIN heard} :
     Sum(RssiOf(InSecond(heard, from, b))) >= -90 * Len(InSecond(heard, from, b))}

\* The frames of a second that an incident hears are those its bucket has heard.
LEMMA SecondHeard ==
  ASSUME NEW frames, NEW n, FramesFact(frames, n), NEW heard, heard = Chosen(frames, HeardAt(frames)),
         NEW from, from = 0, NEW b \in Nat, NEW j, j = b + 1, NEW e, e = InSecond(heard, from, b)
  PROVE  /\ IsSeq(heard) /\ DOMAIN heard = 1..Len(heard) /\ IsSeq(e)
         /\ Sum(RssiOf(e)) = Sum(HeardSum(frames, Rssis(frames, n), n, j))
         /\ Len(e) = Sum(HeardSum(frames, Ones(n), n, j))
<1>1. n \in Nat /\ n = Len(frames) /\ IsSeq(frames) /\ DOMAIN frames = 1..n /\ \A i \in 1..n : frames[i].rssi \in Int /\ frames[i].at \in Nat
  BY DEF FramesFact
<1>2. IsSeq(heard)
  BY <1>1, KeptFacts
<1>3. DOMAIN heard = 1..Len(heard) /\ Len(heard) \in Nat
  BY <1>2, SeqFacts
<1>4. PICK T, H, Q : /\ T = {i \in DOMAIN heard : (heard[i].at - from) \div Second = b}
                     /\ H = HeardAt(frames) /\ Q = HeardIn(frames, j)
  OBVIOUS
<1>5. e = Chosen(heard, T)
  BY <1>4 DEF InSecond
<1>6. IsSeq(e)
  BY <1>2, <1>5, KeptFacts
<1>7. Tells(T, heard, Q, frames)
  <2>1. ASSUME NEW k \in 1..Len(heard), NEW i \in 1..n, heard[k] = frames[i] PROVE (k \in T) = (i \in Q)
    <3>1. PICK at \in Nat : at = heard[k].at /\ at = frames[i].at
      BY <1>1, <2>1
    <3>2. at - from = at
      OBVIOUS
    <3>3. k \in T <=> at \div Second = b
      BY <1>3, <1>4, <3>1, <3>2
    <3>4. i \in Q <=> at \div Second + 1 = j
      BY <1>1, <1>4, <3>1 DEF HeardIn
    <3>5. at \div Second \in Int
      BY LagFacts
    <3> QED BY <3>3, <3>4, <3>5
  <2> QED BY <1>1, <2>1 DEF Tells
<1>8. ASSUME NEW v, IsSeq(v), Len(v) = n, \A i \in 1..n : v[i] \in Int, NEW x, IsValued(x, e, v, frames)
      PROVE  Sum(x) = Sum(HeardSum(frames, v, n, j))
  <2>1. PICK u : u = HeardSum(frames, v, n, j)
    OBVIOUS
  <2>2. u = [i \in 1..n |-> IF i \in H /\ i \in Q THEN v[i] ELSE 0]
    BY <1>4, <2>1 DEF HeardSum
  <2>3. heard = Chosen(frames, H)
    BY <1>4
  <2> QED BY <1>1, <1>5, <1>7, <1>8, <2>1, <2>2, <2>3, NestedSum
<1>9. Sum(RssiOf(e)) = Sum(HeardSum(frames, Rssis(frames, n), n, j))
  <2>1. PICK v, x : v = Rssis(frames, n) /\ x = RssiOf(e)
    OBVIOUS
  <2>2. v = [i \in 1..n |-> v[i]] /\ \A i \in 1..n : v[i] = frames[i].rssi
    BY <2>1 DEF Rssis
  <2>3. IsSeq(v) /\ Len(v) = n
    BY <1>1, <2>2, GivenFacts
  <2>4. PICK l \in Nat : l = Len(e)
    BY <1>6 DEF IsSeq
  <2>5. x = [i \in 1..l |-> x[i]] /\ \A i \in 1..l : x[i] = e[i].rssi
    BY <2>1, <2>4 DEF RssiOf
  <2>6. IsSeq(x) /\ Len(x) = l
    BY <2>5, GivenFacts
  <2>7. IsValued(x, e, v, frames)
    BY <1>1, <2>2, <2>4, <2>5, <2>6 DEF IsValued
  <2>8. \A i \in 1..n : v[i] \in Int
    BY <1>1, <2>2
  <2> QED BY <1>8, <2>1, <2>3, <2>7, <2>8
<1>10. Len(e) = Sum(HeardSum(frames, Ones(n), n, j))
  <2>1. PICK l \in Nat : l = Len(e)
    BY <1>6 DEF IsSeq
  <2>2. PICK v, x : v = Ones(n) /\ x = Ones(l)
    OBVIOUS
  <2>3. v = [i \in 1..n |-> v[i]] /\ (\A i \in 1..n : v[i] = 1) /\ x = [i \in 1..l |-> x[i]] /\ \A i \in 1..l : x[i] = 1
    BY <2>2 DEF Ones
  <2>4. IsSeq(v) /\ Len(v) = n /\ IsSeq(x) /\ Len(x) = l
    BY <1>1, <2>3, GivenFacts
  <2>5. IsValued(x, e, v, frames)
    BY <1>1, <2>1, <2>3, <2>4 DEF IsValued
  <2>6. \A i \in 1..n : v[i] \in Int
    BY <2>3
  <2>7. Sum(x) = Sum(HeardSum(frames, v, n, j))
    BY <1>8, <2>4, <2>5, <2>6
  <2>8. PICK o \in {0, 1} : o = 1
    OBVIOUS
  <2>9. l = Len(x) /\ \A i \in 1..l : x[i] = o
    BY <2>3, <2>4, <2>8
  <2>10. Sum(x) = IF o = 0 THEN 0 ELSE l
    BY <2>9, SumSame
  <2> QED BY <2>1, <2>2, <2>7, <2>8, <2>10
<1> QED BY <1>2, <1>3, <1>6, <1>9, <1>10

\* A second is heard when a frame of it is.
LEMMA HeardSecond ==
  ASSUME NEW heard, IsSeq(heard), NEW from, NEW b, NEW e, e = InSecond(heard, from, b)
  PROVE  Len(e) > 0 <=> b \in {(heard[i].at - from) \div Second : i \in DOMAIN heard}
<1>1. PICK l \in Nat : l = Len(heard) /\ DOMAIN heard = 1..l
  BY SeqFacts
<1>2. PICK T : T = {i \in DOMAIN heard : (heard[i].at - from) \div Second = b}
  OBVIOUS
<1>3. PICK p : p = At(l, T)
  OBVIOUS
<1>4. Places(p, l, T) /\ IsPick(e, heard, p)
  <2>1. e = Chosen(heard, T)
    BY <1>2 DEF InSecond
  <2> QED BY <1>1, <1>3, <2>1, ChosenFacts
<1>5. PICK q \in Nat : q = Len(p) /\ q = Len(e)
  BY <1>4 DEF Places, IsPick, IsSeq
<1>6. ASSUME q > 0 PROVE \E i \in DOMAIN heard : b = (heard[i].at - from) \div Second
  <2>1. 1 \in 1..q
    BY <1>6
  <2>2. p[1] \in T
    BY <1>4, <1>5, <2>1 DEF Places
  <2> QED BY <1>2, <2>2
<1>7. ASSUME NEW i \in DOMAIN heard, b = (heard[i].at - from) \div Second PROVE q > 0
  <2>1. i \in T /\ i \in 1..l
    BY <1>1, <1>2, <1>7
  <2>2. \E k \in 1..Len(p) : p[k] = i
    BY <1>4, <2>1 DEF Places
  <2> QED BY <1>5, <2>2
<1> QED BY <1>5, <1>6, <1>7

\* The seconds an incident over the whole session finds healthy are the healthy buckets.
LEMMA HealthyAgree ==
  ASSUME NEW d, NEW s, NEW n, NEW B, NEW F, NEW G, NEW D, Parsed(s, d, n, B, F, G, D), NEW whole, whole.from = 0
  PROVE  HealthyBuckets(s.frames, whole) = Cardinality(Healthy(s.buckets))
<1>1. PICK frames, buckets, from : frames = s.frames /\ buckets = s.buckets /\ from = whole.from
  OBVIOUS
<1>2. FramesFact(frames, n) /\ n \in Nat /\ \A i \in 1..n : frames[i].at \in Nat /\ frames[i].at < d.duration
  <2>1. Loops(frames, n, G, D) /\ \A i \in 1..n : frames[i].at < d.duration
    BY <1>1 DEF Parsed
  <2>2. FramesFact(frames, n)
    BY <2>1 DEF Loops
  <2> QED BY <2>1, <2>2 DEF FramesFact
<1>3. \A i \in 1..n : frames[i].at \div Second + 1 \in 1..B /\ frames[i].at \div Second \in Nat
  <2>1. d.duration \in Nat \ {0} /\ B = BucketCount(d)
    BY DEF Parsed
  <2> QED BY <1>2, <2>1, BucketOf
<1>4. PICK heard : heard = Chosen(frames, HeardAt(frames))
  OBVIOUS
<1>5. PICK S, T : S = HealthySeconds(heard, from) /\ T = Healthy(buckets)
  OBVIOUS
<1>6. HealthyBuckets(frames, whole) = Cardinality(S)
  <2>1. heard = Heard(frames)
    BY <1>4 DEF Heard, Where, HeardAt
  <2>2. HealthyBuckets(frames, whole) = Cardinality(HealthySeconds(Heard(frames), whole.from))
    BY Zenon DEF HealthyBuckets, Where, SumOf, HealthySeconds, InSecond, RssiOf
  <2> QED BY <1>1, <1>5, <2>1, <2>2
<1>7. AreBuckets(buckets, B) /\ \A b \in 1..B : buckets[b].rssi = F[n].buckets[b].rssi /\ buckets[b].samples = F[n].buckets[b].samples
  BY <1>1, BucketSums
<1>8. B \in Nat /\ BucketedTurns(F, NoFrames(B), frames, n) /\ \A k \in 0..n : AreBuckets(F[k].buckets, B)
  BY <1>1 DEF Parsed, TurnsAgree
<1>9. IsSeq(heard) /\ DOMAIN heard = 1..Len(heard)
  <2>1. n = Len(frames) /\ IsSeq(frames)
    BY <1>2 DEF FramesFact
  <2>2. IsSeq(heard)
    BY <1>4, <2>1, KeptFacts
  <2> QED BY <2>2, SeqFacts
<1>10. PICK q : q = {(heard[i].at - from) \div Second : i \in DOMAIN heard}
  OBVIOUS
<1>11. ASSUME NEW b \in q PROVE b \in Nat /\ b + 1 \in 1..B
  <2>1. PICK i \in DOMAIN heard : b = (heard[i].at - from) \div Second
    BY <1>10
  <2>2. n = Len(frames) /\ IsSeq(frames)
    BY <1>2 DEF FramesFact
  <2>3. heard[i] \in Elems(heard)
    BY <1>9 DEF Elems
  <2>4. \E k \in 1..n : heard[i] = frames[k]
    BY <1>4, <2>2, <2>3, KeptFacts
  <2>5. PICK k \in 1..n : heard[i] = frames[k]
    BY <2>4
  <2>6. frames[k].at \in Nat /\ frames[k].at \div Second + 1 \in 1..B /\ frames[k].at \div Second \in Nat
    BY <1>2, <1>3
  <2>7. frames[k].at - from = frames[k].at
    BY <1>1, <2>6
  <2> QED BY <2>1, <2>5, <2>6, <2>7
<1>12. ASSUME NEW b \in Nat, NEW j \in 1..B, j = b + 1 PROVE b \in S <=> j \in T
  <2>1. PICK e : e = InSecond(heard, from, b)
    OBVIOUS
  <2>2. Sum(RssiOf(e)) = Sum(HeardSum(frames, Rssis(frames, n), n, j)) /\ Len(e) = Sum(HeardSum(frames, Ones(n), n, j))
    BY <1>1, <1>2, <1>4, <1>12, <2>1, SecondHeard
  <2>3. /\ F[n].buckets[j].rssi = Sum(HeardSum(frames, Rssis(frames, n), n, j))
        /\ F[n].buckets[j].samples = Sum(HeardSum(frames, Ones(n), n, j))
    BY <1>2, <1>3, <1>8, BucketHears
  <2>4. buckets[j].rssi = Sum(RssiOf(e)) /\ buckets[j].samples = Len(e)
    BY <1>7, <2>2, <2>3
  <2>5. Len(e) > 0 <=> b \in q
    BY <1>9, <1>10, <2>1, HeardSecond
  <2>6. b \in S <=> b \in q /\ Sum(RssiOf(e)) >= -90 * Len(e)
    BY <1>5, <1>10, <2>1 DEF HealthySeconds
  <2>7. DOMAIN buckets = 1..B
    BY <1>7 DEF AreBuckets
  <2>8. j \in T <=> buckets[j].samples > 0 /\ buckets[j].rssi >= -90 * buckets[j].samples
    BY <1>5, <2>7 DEF Healthy
  <2> QED BY <2>4, <2>5, <2>6, <2>8
<1>13. S \subseteq q
  BY <1>5, <1>10 DEF HealthySeconds
<1>14. T \subseteq 1..B
  BY <1>5, <1>7 DEF Healthy, AreBuckets
<1>15. PICK f : f = [b \in S |-> b + 1]
  OBVIOUS
<1>16. \A b \in S : b \in Nat /\ f[b] = b + 1 /\ f[b] \in T
  <2>1. ASSUME NEW b \in S PROVE b \in Nat /\ f[b] = b + 1 /\ f[b] \in T
    <3>1. b \in Nat /\ b + 1 \in 1..B /\ f[b] = b + 1
      BY <1>11, <1>13, <1>15
    <3>2. PICK j \in 1..B : j = b + 1
      BY <3>1
    <3>3. j \in T
      BY <1>12, <3>1, <3>2
    <3> QED BY <3>1, <3>2, <3>3
  <2> QED BY <2>1
<1>17. f \in Bijection(S, T)
  <2>1. f \in [S -> T]
    BY <1>15, <1>16
  <2>2. \A a \in S, b \in S : f[a] = f[b] => a = b
    BY <1>16
  <2>3. ASSUME NEW j \in T PROVE \E b \in S : f[b] = j
    <3>1. j \in 1..B
      BY <1>14
    <3>2. PICK b \in Nat : j = b + 1
      <4>1. j - 1 \in Nat /\ j = (j - 1) + 1
        BY <3>1
      <4> QED BY <4>1
    <3>3. b \in S
      BY <1>12, <3>1, <3>2
    <3> QED BY <1>16, <3>2, <3>3
  <2> QED BY <2>1, <2>2, <2>3 DEF Bijection, Injection, Surjection, IsInjective
<1>18. IsFiniteSet(T)
  BY <1>8, <1>14, FirstCount, FS_Subset
<1>19. ExistsBijection(S, T)
  BY <1>17 DEF ExistsBijection
<1>20. IsFiniteSet(S)
  <2>1. DOMAIN f = S
    BY <1>15
  <2>2. \A b \in S : f[b] \in 1..B
    BY <1>14, <1>16
  <2>3. S \subseteq 0..B
    BY <1>8, <1>16, <2>2
  <2>4. IsFiniteSet(0..B)
    BY <1>8, FS_Interval
  <2> QED BY <2>3, <2>4, FS_Subset
<1>21. Cardinality(T) = Cardinality(S)
  BY <1>19, <1>20, FS_Bijection
<1> QED BY <1>1, <1>5, <1>6, <1>21

\* The incident over the whole session and the buckets.
LEMMA WholeAgrees ==
  ASSUME NEW d, NEW s, NEW n, NEW B, NEW F, NEW G, NEW D, Parsed(s, d, n, B, F, G, D)
  PROVE  WholeIsSeconds(s)
<1>1. PICK whole : whole = Till(s.doc.duration)
  OBVIOUS
<1>2. PICK incident : incident = ProjectIncident(s, whole)
  OBVIOUS
<1>3. whole.from = 0 /\ whole = Till(d.duration)
  <2>1. s.doc.duration = d.duration
    BY DEF Parsed
  <2> QED BY <1>1, <2>1 DEF Till
<1>4. /\ RowsInRange(s.frames, whole) = s.frames /\ Len(s.frames) = Sum(Values(s.buckets, "received"))
      /\ MissingFramesInRange(s.frames, whole)
           = Most({Sum(Values(s.buckets, "skipped")), Sum(Values(s.buckets, "dropped"))})
  BY <1>3, WholeLosses
<1>5. HealthyBuckets(s.frames, whole) = Cardinality(Healthy(s.buckets))
  BY <1>3, HealthyAgree
<1>6. /\ incident.received = Len(RowsInRange(s.frames, whole))
      /\ incident.healthy = HealthyBuckets(RowsInRange(s.frames, whole), whole)
      /\ incident.missing = MissingFramesInRange(s.frames, whole)
  BY <1>2 DEF ProjectIncident
<1>7. PICK most : most = Most({Sum(Values(s.buckets, "skipped")), Sum(Values(s.buckets, "dropped"))})
  OBVIOUS
<1>8. AreBuckets(s.buckets, B) /\ B \in Nat
  BY BucketSums DEF Parsed
<1>9. (most = Sum([b \in 1..B |-> MissingOf(s.buckets[b])]))
        = (\/ \A b \in 1..B : s.buckets[b].skipped <= s.buckets[b].dropped
           \/ \A b \in 1..B : s.buckets[b].dropped <= s.buckets[b].skipped)
  BY <1>7, <1>8, MissingIsExactly
<1>10. Len(s.buckets) = B /\ DOMAIN s.buckets = 1..B
  BY <1>8 DEF AreBuckets
<1>11. /\ Values(s.buckets, "received") = [i \in 1..Len(s.buckets) |-> s.buckets[i].received]
       /\ Values(s.buckets, "skipped") = [i \in 1..Len(s.buckets) |-> s.buckets[i].skipped]
       /\ Values(s.buckets, "dropped") = [i \in 1..Len(s.buckets) |-> s.buckets[i].dropped]
  BY DEF Values
<1>12. /\ incident.received = Sum([i \in 1..Len(s.buckets) |-> s.buckets[i].received])
       /\ incident.healthy = Cardinality(Healthy(s.buckets))
  BY <1>4, <1>5, <1>6, <1>11
<1>13. incident.missing = most
  BY <1>4, <1>6, <1>7
<1>14. most = Most({Sum([i \in 1..Len(s.buckets) |-> s.buckets[i].skipped]),
                    Sum([i \in 1..Len(s.buckets) |-> s.buckets[i].dropped])})
  BY <1>7, <1>11
<1>15. (most = Sum([i \in 1..Len(s.buckets) |-> MissingOf(s.buckets[i])]))
         = (\/ \A b \in DOMAIN s.buckets : s.buckets[b].skipped <= s.buckets[b].dropped
            \/ \A b \in DOMAIN s.buckets : s.buckets[b].dropped <= s.buckets[b].skipped)
  BY <1>9, <1>10
<1> QED BY <1>1, <1>2, <1>12, <1>13, <1>14, <1>15, Zenon DEF WholeIsSeconds, SumOf

LEMMA SessionCountsOnce ==
  ASSUME NEW d, IsDocument(d), Valid(d), NEW s, s = ParseSession(d)
  PROVE  WholeIsSeconds(s) /\ SecondsAreRanges(s) /\ RangesAddUp(s)
<1>1. PICK n, B : n = Len(d.rows) /\ B = BucketCount(d)
  OBVIOUS
<1>2. PICK F, G, D : Parsed(s, d, n, B, F, G, D)
  BY <1>1, ParsedLoops
<1> QED BY <1>2, WholeAgrees, SecondsAgree, RangesAgree

LEMMA DeskCountsOnce == DeskInv => LossIsCountedOnce
<1> SUFFICES ASSUME DeskInv PROVE LossIsCountedOnce
  OBVIOUS
<1>1. ASSUME NEW side \in Sides, Is(session[side])
      PROVE  WholeIsSeconds(session[side]) /\ SecondsAreRanges(session[side]) /\ RangesAddUp(session[side])
  <2>1. session[side] # Nothing
    BY <1>1 DEF Is, Nothing
  <2>2. PICK d : Opened(session[side], d, series[side])
    BY <2>1 DEF DeskInv, SideInv
  <2>3. IsDocument(d) /\ Valid(d) /\ session[side] = ParseSession(d)
    BY <2>2, EvidenceAssumption DEF Opened
  <2> QED BY <2>3, SessionCountsOnce
<1> QED BY <1>1 DEF LossIsCountedOnce

\* For every document the validator accepts and whichever of its records carry the drop counter: a bucket and the
\* incidents over ranges, which count their missing frames with loops of their own, count every lost frame once.
\* They differ by what the drop counter tells across the start of a range whose preceding record does not carry
\* it, and by nothing else; and the incident over the whole session counts the buckets' missing frames exactly
\* where one of the two estimates is in no second below the other (createMetricBuckets against projectIncident
\* and missingFramesInRange).
THEOREM LossesAreCountedOnce == Spec => []LossIsCountedOnce
  BY Desk, DeskCountsOnce, PTL

-----------------------------------------------------------------------------
(* The alignment *)

\* The ranges resolveAlignment compares lie within the two selections, so that a case can cite them,
\* and have the duration the rates are divided by, whatever is aligned with what.
THEOREM ComparedRangesAreCited ==
  ASSUME NEW b, NEW c, NEW requested,
         IsRange(b.range), IsRange(c.range),
         Anchors(b, c, requested)[1] \in Int, Anchors(b, c, requested)[2] \in Int,
         Aligns(b, c, requested)
  PROVE  LET a == ResolveAlignment(b, c, requested) IN
         /\ RangeIsCited([incident |-> b.range], a.baseline)
         /\ RangeIsCited([incident |-> c.range], a.candidate)
         /\ a.baseline.to - a.baseline.from = a.duration
         /\ a.candidate.to - a.candidate.from = a.duration
<1> DEFINE at == Anchors(b, c, requested)
           bs == Relative(b.range, at[1])
           cs == Relative(c.range, at[2])
           shared == Overlap(bs, cs)
<1>1. bs = [from |-> b.range.from - at[1], to |-> b.range.to - at[1]]
      /\ cs = [from |-> c.range.from - at[2], to |-> c.range.to - at[2]]
  BY DEF Relative
<1>2. bs.from \in Int /\ bs.to \in Int /\ cs.from \in Int /\ cs.to \in Int
  BY <1>1 DEF IsRange
<1>3. shared.from \in {bs.from, cs.from} /\ bs.from <= shared.from /\ cs.from <= shared.from
  BY <1>2, MostOfTwo DEF Overlap
<1>4. shared.to \in {bs.to, cs.to} /\ shared.to <= bs.to /\ shared.to <= cs.to
  BY <1>2, LeastOfTwo DEF Overlap
<1>5. shared.to > shared.from  BY DEF Aligns
<1> HIDE DEF at, bs, cs, shared
<1>6. LET a == ResolveAlignment(b, c, requested) IN
      /\ a.duration = shared.to - shared.from
      /\ a.baseline = [from |-> shared.from + at[1], to |-> shared.to + at[1]]
      /\ a.candidate = [from |-> shared.from + at[2], to |-> shared.to + at[2]]
  BY DEF ResolveAlignment, Moved, at, bs, cs, shared
<1>7. at[1] \in Int /\ at[2] \in Int  BY DEF at
<1> QED  BY <1>1, <1>2, <1>3, <1>4, <1>5, <1>6, <1>7 DEF RangeIsCited, IsRange

-----------------------------------------------------------------------------
(* Exchanging the sources *)

\* Every value of the comparison is a ratio or missing.
Measured(model) ==
  \A id \in DOMAIN model.metrics : \A i \in {1, 2} :
    model.metrics[id].values[i] = NoValue \/ model.metrics[id].values[i] \in Int \X Int

Opposite(change) ==
  CASE change = "increased" -> "decreased" [] change = "decreased" -> "increased" [] OTHER -> change

LEMMA DirectionExchanged ==
  ASSUME NEW x, NEW y, x = NoValue \/ x \in Int \X Int, y = NoValue \/ y \in Int \X Int
  PROVE  /\ Direction(y, x) = Opposite(Direction(x, y))
         /\ Direction(x, y) \in {"unresolved", "unchanged", "increased", "decreased"}
<1>1. CASE NoValue \in {x, y}
  <2>1. Direction(x, y) = "unresolved" /\ Direction(y, x) = "unresolved"  BY <1>1 DEF Direction
  <2> QED  BY <2>1 DEF Opposite
<1>2. CASE NoValue \notin {x, y}
  <2>1. x[1] \in Int /\ x[2] \in Int /\ y[1] \in Int /\ y[2] \in Int  BY <1>2
  <2> DEFINE p == x[1] * y[2]  q == y[1] * x[2]
  <2>2. p \in Int /\ q \in Int  BY <2>1
  <2>3. Direction(x, y) = IF p = q THEN "unchanged" ELSE IF q > p THEN "increased" ELSE "decreased"
    BY <1>2 DEF Direction
  <2>4. Direction(y, x) = IF q = p THEN "unchanged" ELSE IF p > q THEN "increased" ELSE "decreased"
    BY <1>2 DEF Direction
  <2> HIDE DEF p, q
  <2> QED  BY <2>2, <2>3, <2>4 DEF Opposite
<1> QED  BY <1>1, <1>2

LEMMA AssessmentExchanged ==
  ASSUME NEW change \in {"unresolved", "unchanged", "increased", "decreased"}, NEW goal
  PROVE  /\ AssessmentFor(Opposite(change), goal) = Mirror(AssessmentFor(change, goal))
         /\ AssessmentFor(change, goal) \in {"improved", "regressed", "unchanged", "unresolved"}
  BY DEF AssessmentFor, Opposite, Mirror

LEMMA MetricExchanged ==
  ASSUME NEW id, NEW status, NEW x, NEW y, NEW n, NEW m,
         x = NoValue \/ x \in Int \X Int, y = NoValue \/ y \in Int \X Int
  PROVE  /\ Metric(id, status, <<y, x>>, <<m, n>>).assessment = Mirror(Metric(id, status, <<x, y>>, <<n, m>>).assessment)
         /\ Metric(id, status, <<x, y>>, <<n, m>>).assessment \in {"improved", "regressed", "unchanged", "unresolved"}
<1>1. CASE status = "comparable"
  <2>1. /\ Metric(id, status, <<y, x>>, <<m, n>>).assessment = AssessmentFor(Direction(y, x), Goal(id))
        /\ Metric(id, status, <<x, y>>, <<n, m>>).assessment = AssessmentFor(Direction(x, y), Goal(id))
    BY <1>1 DEF Metric
  <2> QED  BY <2>1, DirectionExchanged, AssessmentExchanged
<1>2. CASE status # "comparable"
  BY <1>2 DEF Metric, Mirror
<1> QED  BY <1>1, <1>2

\* What can be compared does not depend on the order of the sources.
LEMMA AreasExchanged ==
  ASSUME NEW b, NEW c, NEW same, NEW fb, NEW fc, NEW rb, NEW rc
  PROVE  Areas(c, b, same, fc, fb, rc, rb) = Areas(b, c, same, fb, fc, rb, rc)
<1>1. c.has \cap b.has = b.has \cap c.has  OBVIOUS
<1>2. \A needs, also : SupportedStatus(needs, c, b, same, also) = SupportedStatus(needs, b, c, same, also)
  BY <1>1, Zenon DEF SupportedStatus
<1>3. \A x, y : LinkStatus(y, x, same) = LinkStatus(x, y, same)
  <2> SUFFICES ASSUME NEW x, NEW y PROVE LinkStatus(y, x, same) = LinkStatus(x, y, same)  OBVIOUS
  <2>1. CASE x = y  BY <2>1
  <2>2. CASE x # y
    <3>1. CASE {} \in {x, y}  BY <3>1 DEF LinkStatus
    <3>2. CASE {} \notin {x, y}  BY <2>2, <3>2 DEF LinkStatus
    <3> QED  BY <3>1, <3>2
  <2> QED  BY <2>1, <2>2
<1>4. (<<>> \in {fc, fb}) = (<<>> \in {fb, fc}) /\ {c.status, b.status} = {b.status, c.status}
      /\ (c.basis = b.basis) = (b.basis = c.basis)
  OBVIOUS
<1> QED  BY <1>2, <1>3, <1>4, Zenon DEF Areas

Assessments == {"improved", "regressed", "unchanged", "unresolved"}

LEMMA OverallExchanged ==
  ASSUME NEW areas, NEW m, NEW n, DOMAIN m = DOMAIN n,
         \A id \in DOMAIN m : n[id].assessment = Mirror(m[id].assessment) /\ m[id].assessment \in Assessments
  PROVE  OverallAssessment(areas, n) = Mirror(OverallAssessment(areas, m))
<1> DEFINE found == {m[id].assessment : id \in DOMAIN m}
           mirrored == {n[id].assessment : id \in DOMAIN n}
           graded == {"review-required", "not-comparable"} \cap {areas[id] : id \in AreaIds} # {}
<1>1. /\ "improved" \in mirrored <=> "regressed" \in found
      /\ "regressed" \in mirrored <=> "improved" \in found
      /\ "unchanged" \in mirrored <=> "unchanged" \in found
  BY DEF Mirror, Assessments
<1>2. /\ OverallAssessment(areas, m) =
           IF graded THEN "unresolved"
           ELSE CASE {"improved", "regressed"} \cap found = {"improved"}  -> "improved"
                  [] {"improved", "regressed"} \cap found = {"regressed"} -> "regressed"
                  [] {"improved", "regressed"} \cap found = {} /\ "unchanged" \in found -> "unchanged"
                  [] OTHER -> "unresolved"
      /\ OverallAssessment(areas, n) =
           IF graded THEN "unresolved"
           ELSE CASE {"improved", "regressed"} \cap mirrored = {"improved"}  -> "improved"
                  [] {"improved", "regressed"} \cap mirrored = {"regressed"} -> "regressed"
                  [] {"improved", "regressed"} \cap mirrored = {} /\ "unchanged" \in mirrored -> "unchanged"
                  [] OTHER -> "unresolved"
  BY DEF OverallAssessment
<1> HIDE DEF found, mirrored, graded
<1> QED  BY <1>1, <1>2 DEF Mirror

\* Exchange two sources, aligned by the same anchors, and the assessment is the mirrored one: none of
\* the areas, ranges and metrics of compareSources depends on which source is the baseline.
LEMMA CompareExchanged ==
  ASSUME NEW b, NEW c, NEW requested, NEW model, NEW exchanged,
         model = CompareSources(b, c, requested), Measured(model),
         exchanged = CompareSources(c, b, Exchanged(model.alignment))
  PROVE  exchanged.assessment = Mirror(model.assessment)
<1> DEFINE al == ResolveAlignment(b, c, requested)
           la == ResolveAlignment(c, b, Exchanged(model.alignment))
<1>1. model.alignment = al  BY DEF CompareSources
<1>2. /\ la.baseline = al.candidate /\ la.candidate = al.baseline /\ la.duration = al.duration
  <2>1. /\ al.mode = requested.mode /\ al.anchors = Anchors(b, c, requested)
        /\ Exchanged(al).mode = al.mode
        /\ Exchanged(al).anchors = <<al.anchors[2], al.anchors[1]>>
    BY DEF ResolveAlignment, Exchanged
  <2> DEFINE at == Anchors(b, c, requested)  ta == Anchors(c, b, Exchanged(al))
  <2>2. ta[1] = at[2] /\ ta[2] = at[1]
    BY <2>1 DEF Anchors
  <2>3. \A x, y : Overlap(y, x) = Overlap(x, y)
    <3> SUFFICES ASSUME NEW x, NEW y PROVE Overlap(y, x) = Overlap(x, y)  OBVIOUS
    <3>1. {y.from, x.from} = {x.from, y.from} /\ {y.to, x.to} = {x.to, y.to}  OBVIOUS
    <3> QED  BY <3>1, Zenon DEF Overlap
  <2> HIDE DEF at, ta
  <2>4. Overlap(Relative(c.range, ta[1]), Relative(b.range, ta[2])) = Overlap(Relative(b.range, at[1]), Relative(c.range, at[2]))
    BY <2>2, <2>3
  <2> QED  BY <1>1, <2>2, <2>4 DEF ResolveAlignment, at, ta
<1> HIDE DEF al, la
<1> DEFINE bs == Aligned(b, al.baseline)  cs == Aligned(c, al.candidate)
           areas == Areas(b, c, b.decoder = c.decoder, bs.frames, cs.frames, bs.records, cs.records)
           metrics == BuildMetrics(bs, cs, areas, al.duration)
           scirtem == BuildMetrics(cs, bs, areas, al.duration)
<1>3. model.metrics = metrics /\ model.assessment = OverallAssessment(areas, metrics)
  BY DEF CompareSources, al
<1>4. exchanged.assessment = OverallAssessment(areas, scirtem)
  <2>1. (c.decoder = b.decoder) = (b.decoder = c.decoder)  OBVIOUS
  <2>2. Areas(c, b, c.decoder = b.decoder, cs.frames, bs.frames, cs.records, bs.records) = areas
    BY <2>1, AreasExchanged
  <2> QED  BY <1>2, <2>2 DEF CompareSources, la
<1>5. MetricIds(areas, cs, bs) = MetricIds(areas, bs, cs)
  BY DEF MetricIds
<1>6. \A id \in DOMAIN metrics : scirtem[id].assessment = Mirror(metrics[id].assessment) /\ metrics[id].assessment \in Assessments
  <2> SUFFICES ASSUME NEW id \in DOMAIN metrics
               PROVE  scirtem[id].assessment = Mirror(metrics[id].assessment) /\ metrics[id].assessment \in Assessments
    OBVIOUS
  <2> DEFINE status == areas[AreaOf(id)]
             x == Value(id, bs, status, al.duration)  y == Value(id, cs, status, al.duration)
             n == Len(Evidence(id, bs))  m == Len(Evidence(id, cs))
  <2> HIDE DEF areas, bs, cs
  <2>1. metrics[id] = Metric(id, status, <<x, y>>, <<n, m>>)
    BY Zenon DEF BuildMetrics
  <2>2. scirtem[id] = Metric(id, status, <<y, x>>, <<m, n>>)
    BY <1>5, Zenon DEF BuildMetrics
  <2>3. \A i \in {1, 2} : metrics[id].values[i] = NoValue \/ metrics[id].values[i] \in Int \X Int
    BY <1>3 DEF Measured
  <2> HIDE DEF metrics, scirtem, status, x, y, n, m
  <2>4. metrics[id].values = <<x, y>>  BY <2>1 DEF Metric
  <2>5. (x = NoValue \/ x \in Int \X Int) /\ (y = NoValue \/ y \in Int \X Int)
    BY <2>3, <2>4
  <2> QED  BY <2>1, <2>2, <2>5, MetricExchanged DEF Assessments
<1>7. DOMAIN metrics = DOMAIN scirtem  BY <1>5, Zenon DEF BuildMetrics
<1> QED  BY <1>3, <1>4, <1>6, <1>7, OverallExchanged

-----------------------------------------------------------------------------
(* A finding and its own counts *)

\* A finding passes the checks it is stored under and verified by (assertFindingSemantics), whatever was
\* compared, if its two inputs are consistent and the counts of its metrics are those of its inputs:
\* what compareSources decides from the sources is what the checks decide from the finding alone.
THEOREM FindingsAgree ==
  ASSUME NEW S, NEW b, NEW c, NEW requested, NEW f, Aligns(b, c, requested),
         f = Finding(CompareSources(b, c, requested)),
         Aligned(b, f.alignment.baseline).frames \in Seq(S),
         Aligned(c, f.alignment.candidate).frames \in Seq(S),
         InputHolds(f.baseline), InputHolds(f.candidate),
         \A id \in DOMAIN f.metrics : MetricCounts(id, f.metrics[id], f)
  PROVE  FindingHolds(f)
<1> DEFINE al == ResolveAlignment(b, c, requested)
           bs == Aligned(b, al.baseline)  cs == Aligned(c, al.candidate)
           areas == Areas(b, c, b.decoder = c.decoder, bs.frames, cs.frames, bs.records, cs.records)
           metrics == BuildMetrics(bs, cs, areas, al.duration)
<1>1. /\ f.baseline = FindingInput(b, al.baseline) /\ f.candidate = FindingInput(c, al.candidate)
      /\ f.alignment = al /\ f.areas = areas /\ f.metrics = metrics
      /\ f.assessment = OverallAssessment(f.areas, f.metrics)
  BY DEF Finding, CompareSources
<1>2. f.areas = ExpectedAreas(f.baseline, f.candidate)
  <2> DEFINE x == f.baseline  y == f.candidate  same == b.decoder = c.decoder
  <2>0. bs.frames \in Seq(S) /\ cs.frames \in Seq(S)  BY <1>1
  <2> HIDE DEF al
  <2>1. /\ x.has = b.has /\ x.decoder = b.decoder /\ x.basis = b.basis /\ x.status = b.status
        /\ x.frames = Len(bs.frames) /\ x.rssi = RssiProvenance(bs.records)
        /\ y.has = c.has /\ y.decoder = c.decoder /\ y.basis = c.basis /\ y.status = c.status
        /\ y.frames = Len(cs.frames) /\ y.rssi = RssiProvenance(cs.records)
    BY <1>1 DEF FindingInput
  <2>2. (<<>> \in {bs.frames, cs.frames}) = (0 \in {x.frames, y.frames})
    <3>1. \A s \in Seq(S) : Len(s) = 0 <=> s = <<>>  OBVIOUS
    <3> QED  BY <2>1, <3>1
  <2>3. ({} \in {x.rssi, y.rssi}) = (0 \in {x.heard, y.heard})
    BY DEF InputHolds
  <2>4. LinkStatus(x.rssi, y.rssi, same)
          = IF 0 \in {x.heard, y.heard} THEN "unavailable" ELSE LinkStatus(x.rssi, y.rssi, same)
    BY <2>3 DEF LinkStatus
  <2>5. \A needs, also :
          SupportedStatus(needs, b, c, same, also) =
            IF ~(needs \subseteq b.has \cap c.has) THEN "unavailable"
            ELSE IF ~same THEN "not-comparable"
            ELSE IF also \subseteq b.has \cap c.has THEN "comparable" ELSE "review-required"
    BY Zenon DEF SupportedStatus
  <2>6. \A name : ({name} \subseteq b.has \cap c.has) = (name \in b.has \cap c.has)  OBVIOUS
  <2>7. ({b.status, c.status} = {"verified"}) = (b.status = "verified" /\ c.status = "verified")  OBVIOUS
  <2> DEFINE left == areas  right == ExpectedAreas(x, y)
  <2>8. \A id \in AreaIds : left[id] = right[id]
    <3>1. left["alignment"] = right["alignment"]  BY DEF Areas, ExpectedAreas, AreaIds
    <3>2. left["packet-evidence"] = right["packet-evidence"]
      BY <2>1, <2>5, <2>6 DEF Areas, ExpectedAreas, AreaIds
    <3>3. left["capture-evidence"] = right["capture-evidence"]
      BY <2>1, <2>7 DEF Areas, ExpectedAreas, AreaIds
    <3>4. left["diagnostics"] = right["diagnostics"]
      BY <2>1, <2>5, <2>6 DEF Areas, ExpectedAreas, AreaIds
    <3>5. left["decoded-fields"] = right["decoded-fields"]
      BY <2>1, <2>2, <2>5, <2>6 DEF Areas, ExpectedAreas, AreaIds
    <3>6. left["link-observations"] = right["link-observations"]
      BY <2>1, <2>4 DEF Areas, ExpectedAreas, AreaIds
    <3> QED  BY <3>1, <3>2, <3>3, <3>4, <3>5, <3>6 DEF AreaIds
  <2>9. left = [id \in AreaIds |-> left[id]] /\ right = [id \in AreaIds |-> right[id]]
    BY Zenon DEF Areas, ExpectedAreas
  <2>10. left = right  BY <2>8, <2>9, Zenon
  <2> QED  BY <1>1, <2>10
<1>3. AlignmentHolds(f)
  <2>1. f.baseline.range = b.range /\ f.candidate.range = c.range  BY <1>1 DEF FindingInput
  <2>2. al.mode = requested.mode /\ al.anchors = Anchors(b, c, requested)  BY DEF ResolveAlignment
  <2>3. al.mode = "range-start" => al.anchors = <<b.range.from, c.range.from>>
    BY <2>2 DEF Anchors
  <2> DEFINE at == Anchors(b, c, requested)
             left == Relative(b.range, at[1])  right == Relative(c.range, at[2])  shared == Overlap(left, right)
  <2>4. /\ al.overlap = shared /\ al.duration = shared.to - shared.from
        /\ al.baseline = Moved(shared, at[1]) /\ al.candidate = Moved(shared, at[2])
        /\ al.unmatched = <<shared.from - left.from, left.to - shared.to,
                             shared.from - right.from, right.to - shared.to>>
    BY DEF ResolveAlignment
  <2>5. InRange(at[1], b.range) /\ InRange(at[2], c.range) /\ shared.to > shared.from
    BY DEF Aligns
  <2> HIDE DEF al, at, left, right, shared
  <2>6. al.anchors = at  BY <2>2 DEF at
  <2> QED  BY <1>1, <2>1, <2>3, <2>4, <2>5, <2>6 DEF AlignmentHolds, shared, left, right
<1> HIDE DEF al, bs, cs, areas
<1>4. CoreMetrics \subseteq DOMAIN f.metrics
  BY <1>1 DEF BuildMetrics, MetricIds
<1>5. ASSUME NEW id \in DOMAIN f.metrics PROVE MetricHolds(id, f.metrics[id], f)
  <2> DEFINE status == areas[AreaOf(id)]
             x == Value(id, bs, status, al.duration)  y == Value(id, cs, status, al.duration)
             n == Len(Evidence(id, bs))  m == Len(Evidence(id, cs))
  <2>1. f.metrics[id] = Metric(id, status, <<x, y>>, <<n, m>>)
    BY <1>1, <1>5, Zenon DEF BuildMetrics
  <2>2. id \notin CoreMetrics => status = "comparable"
    <3> SUFFICES ASSUME id \notin CoreMetrics PROVE status = "comparable"  OBVIOUS
    <3>1. id \in MetricIds(areas, bs, cs)  BY <1>1, <1>5, Zenon DEF BuildMetrics
    <3>2. id = "field" /\ areas["decoded-fields"] = "comparable"  BY <3>1 DEF MetricIds
    <3> QED  BY <3>2 DEF AreaOf
  <2>3. status = ExpectedAreas(f.baseline, f.candidate)[AreaOf(id)]  BY <1>1, <1>2
  <2> HIDE DEF status, x, y, n, m
  <2>4. /\ f.metrics[id].status = status /\ f.metrics[id].values = <<x, y>>
        /\ f.metrics[id].direction = IF status = "comparable" THEN Direction(x, y) ELSE "unresolved"
        /\ f.metrics[id].assessment = IF status = "comparable" THEN AssessmentFor(Direction(x, y), Goal(id))
                                                              ELSE "unresolved"
    BY <2>1 DEF Metric
  <2>5. MetricCounts(id, f.metrics[id], f)  BY <1>5
  <2> QED  BY <2>2, <2>3, <2>4, <2>5 DEF MetricHolds
<1> QED  BY <1>1, <1>2, <1>3, <1>4, <1>5 DEF FindingHolds

-----------------------------------------------------------------------------
(* The sources of a comparison *)

\* What a comparison reads of a source: its range is part of it, what it holds are sequences, of numbers
\* where numbers are added up, and it holds nothing of what it does not have.
Measurable(s) ==
  /\ IsSeq(s.records) /\ \A r \in Elems(s.records) : r.rssi \in Int
  /\ IsSeq(s.frames) /\ \A f \in Elems(s.frames) : f.field \in Int
  /\ IsSeq(s.diagnostics)

IsComparable(s) ==
  /\ {"records", "frames", "diagnostics"} \subseteq DOMAIN s
  /\ IsRange(s.range) /\ s.range.to <= s.duration /\ s.duration \in Nat
  /\ Measurable(s)
  /\ "records" \notin s.has => s.records = <<>>
  /\ "frames" \notin s.has => s.frames = <<>>
  /\ "diagnostics" \notin s.has => s.diagnostics = <<>>

\* A filter keeps a sequence, some of its elements, and none where there is none.
LEMMA KeptLength ==
  ASSUME NEW s, IsSeq(s), NEW S, NEW c, c = Chosen(s, S)
  PROVE  /\ IsSeq(c) /\ Len(c) \in Nat /\ Len(s) \in Nat /\ Len(c) <= Len(s) /\ Elems(c) \subseteq Elems(s)
         /\ (Len(c) = 0) = (\A i \in 1..Len(s) : i \notin S)
<1>1. PICK n \in Nat : n = Len(s)
  BY DEF IsSeq
<1>2. PICK e : e = At(n, S) /\ Places(e, n, S) /\ IsPick(c, s, e)
  BY <1>1, ChosenFacts
<1>3. PICK m \in Nat : m = Len(e)
  BY <1>2 DEF Places, IsSeq
<1>4. Len(c) = m /\ m <= n
  BY <1>2, <1>3 DEF IsPick, Places
<1>5. \A k \in 1..m : e[k] \in 1..n /\ e[k] \in S
  BY <1>2, <1>3 DEF Places
<1>6. \A i \in 1..n : i \in S => \E k \in 1..m : e[k] = i
  BY <1>2, <1>3 DEF Places
<1>7. (m = 0) = (\A i \in 1..n : i \notin S)
  <2>1. CASE m = 0
    <3>1. 1..m = {}
      BY <2>1
    <3> QED BY <1>6, <2>1, <3>1
  <2>2. CASE m # 0
    <3>1. 1 \in 1..m
      BY <2>2
    <3> QED BY <1>5, <2>2, <3>1
  <2> QED BY <2>1, <2>2
<1>8. IsSeq(c) /\ Elems(c) \subseteq Elems(s)
  BY KeptFacts
<1> QED BY <1>1, <1>4, <1>7, <1>8

\* What of a source lies in a range can be measured like the source.
LEMMA AlignedFacts ==
  ASSUME NEW s, IsComparable(s), NEW range, NEW a, a = Aligned(s, range)
  PROVE  /\ Measurable(a)
         /\ "records" \notin s.has => Len(a.records) = 0
         /\ "frames" \notin s.has => Len(a.frames) = 0
         /\ "diagnostics" \notin s.has => Len(a.diagnostics) = 0
<1>1. /\ a.records = Chosen(s.records, {i \in DOMAIN s.records : InRange(s.records[i].at, range)})
      /\ a.frames = Chosen(s.frames, {i \in DOMAIN s.frames : InRange(s.frames[i].at, range)})
      /\ a.diagnostics = Chosen(s.diagnostics, {i \in DOMAIN s.diagnostics :
                                  Intersects(s.diagnostics[i].at, s.diagnostics[i].to, range)})
  BY DEF IsComparable, Aligned, RowsInRange, DiagnosticsIn, Where
<1>2. /\ IsSeq(s.records) /\ IsSeq(s.frames) /\ IsSeq(s.diagnostics)
      /\ \A r \in Elems(s.records) : r.rssi \in Int
      /\ \A f \in Elems(s.frames) : f.field \in Int
  BY DEF IsComparable, Measurable
<1>3. /\ IsSeq(a.records) /\ Elems(a.records) \subseteq Elems(s.records)
      /\ Len(a.records) \in Nat /\ Len(s.records) \in Nat /\ Len(a.records) <= Len(s.records)
  BY <1>1, <1>2, KeptLength, ZenonT(60)
<1>4. /\ IsSeq(a.frames) /\ Elems(a.frames) \subseteq Elems(s.frames)
      /\ Len(a.frames) \in Nat /\ Len(s.frames) \in Nat /\ Len(a.frames) <= Len(s.frames)
  BY <1>1, <1>2, KeptLength, ZenonT(60)
<1>5. /\ IsSeq(a.diagnostics)
      /\ Len(a.diagnostics) \in Nat /\ Len(s.diagnostics) \in Nat /\ Len(a.diagnostics) <= Len(s.diagnostics)
  BY <1>1, <1>2, KeptLength, ZenonT(60)
<1>6. Measurable(a)
  BY <1>2, <1>3, <1>4, <1>5 DEF Measurable
<1>7. Len(<<>>) = 0
  BY FewFacts
<1>8. /\ "records" \notin s.has => Len(s.records) = 0
      /\ "frames" \notin s.has => Len(s.frames) = 0
      /\ "diagnostics" \notin s.has => Len(s.diagnostics) = 0
  BY <1>7 DEF IsComparable
<1> QED BY <1>3, <1>4, <1>5, <1>6, <1>8

\* RSSI is heard where it has a provenance.
LEMMA HeardFacts ==
  ASSUME NEW records, IsSeq(records)
  PROVE  /\ IsSeq(Heard(records)) /\ Elems(Heard(records)) \subseteq Elems(records)
         /\ Len(Heard(records)) \in Nat /\ Len(records) \in Nat /\ Len(Heard(records)) <= Len(records)
         /\ (Len(Heard(records)) = 0) = (RssiProvenance(records) = {})
<1>1. PICK S : S = {i \in DOMAIN records : records[i].rssi # Null}
  OBVIOUS
<1>2. Heard(records) = Chosen(records, S)
  BY <1>1 DEF Heard, Where
<1>3. /\ IsSeq(Heard(records)) /\ Elems(Heard(records)) \subseteq Elems(records)
      /\ Len(Heard(records)) \in Nat /\ Len(records) \in Nat /\ Len(Heard(records)) <= Len(records)
      /\ (Len(Heard(records)) = 0) = (\A i \in 1..Len(records) : i \notin S)
  BY <1>2, KeptLength
<1>4. DOMAIN records = 1..Len(records)
  BY SeqFacts
<1>5. (RssiProvenance(records) = {}) = (S = {})
  BY <1>1 DEF RssiProvenance
<1>6. (S = {}) = (\A i \in 1..Len(records) : i \notin S)
  BY <1>1, <1>4
<1> QED BY <1>3, <1>5, <1>6

\* What a finding states of a source that can be compared agrees with itself.
LEMMA InputAgrees ==
  ASSUME NEW s, IsComparable(s), NEW range
  PROVE  InputHolds(FindingInput(s, range))
<1>1. PICK a : a = Aligned(s, range)
  OBVIOUS
<1>2. PICK input : input = FindingInput(s, range)
  OBVIOUS
<1>3. /\ input.range = s.range /\ input.duration = s.duration /\ input.has = s.has
      /\ input.records = Len(a.records) /\ input.frames = Len(a.frames) /\ input.diagnostics = Len(a.diagnostics)
      /\ input.heard = Len(Heard(a.records)) /\ input.rssi = RssiProvenance(a.records)
  BY <1>1, <1>2 DEF FindingInput
<1>4. /\ Measurable(a)
      /\ "records" \notin s.has => Len(a.records) = 0
      /\ "frames" \notin s.has => Len(a.frames) = 0
      /\ "diagnostics" \notin s.has => Len(a.diagnostics) = 0
  BY <1>1, AlignedFacts
<1>5. IsSeq(a.records)
  BY <1>4 DEF Measurable
<1>6. /\ Len(Heard(a.records)) <= Len(a.records)
      /\ (Len(Heard(a.records)) = 0) = (RssiProvenance(a.records) = {})
  BY <1>5, HeardFacts
<1>7. s.range.to <= s.duration
  BY DEF IsComparable
<1>8. InputHolds(input)
  BY <1>3, <1>4, <1>6, <1>7 DEF InputHolds
<1> QED BY <1>2, <1>8

\* What a metric is made of is part of what is there.
LEMMA EvidenceFacts ==
  ASSUME NEW id, NEW a, Measurable(a), NEW e, e = Evidence(id, a)
  PROVE  /\ IsSeq(e) /\ Len(e) \in Nat
         /\ id = "average-rssi" => Elems(e) \subseteq Elems(a.records) /\ e = Heard(a.records)
         /\ id = "field" => Elems(e) \subseteq Elems(a.frames)
         /\ id \in {"packet-rate", "complete-frame-pct"} => e = a.frames
         /\ id = "integrity-failure-rate" => Len(e) <= Len(a.frames)
         /\ id \in {"warning-diagnostic-rate", "critical-diagnostic-rate"} => Len(e) <= Len(a.diagnostics)
<1>1. IsSeq(a.records) /\ IsSeq(a.frames) /\ IsSeq(a.diagnostics)
  BY DEF Measurable
<1>2. CASE id = "integrity-failure-rate"
  <2>1. e = Chosen(a.frames, {i \in DOMAIN a.frames : a.frames[i].check # "valid"})
    BY <1>2 DEF Evidence, Where
  <2>2. IsSeq(e) /\ Len(e) \in Nat /\ Len(e) <= Len(a.frames)
    BY <1>1, <2>1, KeptLength
  <2> QED BY <1>2, <2>2
<1>3. CASE id = "warning-diagnostic-rate"
  <2>1. e = Chosen(a.diagnostics, {i \in DOMAIN a.diagnostics : a.diagnostics[i].severity = "warning"})
    BY <1>3 DEF Evidence, Where
  <2>2. IsSeq(e) /\ Len(e) \in Nat /\ Len(e) <= Len(a.diagnostics)
    BY <1>1, <2>1, KeptLength
  <2> QED BY <1>3, <2>2
<1>4. CASE id = "critical-diagnostic-rate"
  <2>1. e = Chosen(a.diagnostics, {i \in DOMAIN a.diagnostics : a.diagnostics[i].severity = "critical"})
    BY <1>4 DEF Evidence, Where
  <2>2. IsSeq(e) /\ Len(e) \in Nat /\ Len(e) <= Len(a.diagnostics)
    BY <1>1, <2>1, KeptLength
  <2> QED BY <1>4, <2>2
<1>5. CASE id = "average-rssi"
  <2>1. e = Heard(a.records)
    BY <1>5 DEF Evidence
  <2>2. IsSeq(e) /\ Len(e) \in Nat /\ Elems(e) \subseteq Elems(a.records)
    BY <1>1, <2>1, HeardFacts
  <2> QED BY <1>5, <2>1, <2>2
<1>6. CASE id = "field"
  <2>1. e = Chosen(a.frames, {i \in DOMAIN a.frames : a.frames[i].field # Null})
    BY <1>6 DEF Evidence, Fielded, Where
  <2>2. IsSeq(e) /\ Len(e) \in Nat /\ Elems(e) \subseteq Elems(a.frames)
    BY <1>1, <2>1, KeptLength
  <2> QED BY <1>6, <2>2
<1>7. CASE id \notin {"integrity-failure-rate", "warning-diagnostic-rate", "critical-diagnostic-rate",
                      "average-rssi", "field"}
  <2>1. e = a.frames
    BY <1>7 DEF Evidence
  <2> QED BY <1>1, <1>7, <2>1 DEF IsSeq
<1> QED BY <1>2, <1>3, <1>4, <1>5, <1>6, <1>7

LEMMA SumIsInt ==
  ASSUME NEW v, Len(v) \in Nat, \A i \in 1..Len(v) : v[i] \in Int
  PROVE  Sum(v) \in Int
<1>1. PICK n \in Nat : n = Len(v)
  OBVIOUS
<1>2. PICK F : SummedTo(F, v, n) /\ Sum(v) = F[n]
  BY <1>1, SumRun
<1>3. \A i \in 1..n : v[i] \in Int
  BY <1>1
<1>4. F[n] \in Int
  BY <1>2, <1>3, SumType
<1> QED BY <1>2, <1>4

IsValue(x) == x = NoValue \/ x \in Int \X Int

LEMMA RatioFacts ==
  ASSUME NEW n \in Int, NEW d \in Int
  PROVE  IsValue(Ratio(n, d))
  BY DEF Ratio, IsValue

\* Every value is a ratio or missing, and a rate is there unless its area is unavailable.
LEMMA ValueFacts ==
  ASSUME NEW id, NEW a, Measurable(a), NEW status, NEW duration \in Int, NEW x, x = Value(id, a, status, duration)
  PROVE  /\ IsValue(x)
         /\ id \notin {"complete-frame-pct", "average-rssi", "field"} =>
              x = IF status = "unavailable" THEN NoValue ELSE <<Len(Evidence(id, a)), duration>>
<1>1. PICK e : e = Evidence(id, a)
  OBVIOUS
<1>2. PICK n : n = Len(e)
  OBVIOUS
<1>3. /\ IsSeq(e) /\ n \in Nat
      /\ id = "average-rssi" => Elems(e) \subseteq Elems(a.records)
      /\ id = "field" => Elems(e) \subseteq Elems(a.frames)
  BY <1>1, <1>2, EvidenceFacts
<1>4. CASE id = "complete-frame-pct"
  <2>1. PICK c : c = Chosen(e, {i \in DOMAIN e : e[i].status = "complete"})
    OBVIOUS
  <2>2. x = Ratio(Len(c), n)
    BY <1>1, <1>2, <1>4, <2>1 DEF Value, Where
  <2>3. Len(c) \in Nat
    BY <1>3, <2>1, KeptLength
  <2>4. IsValue(Ratio(Len(c), n))
    BY <1>3, <2>3, RatioFacts
  <2> QED BY <1>4, <2>2, <2>4
<1>5. CASE id = "average-rssi"
  <2>1. PICK v : v = [i \in 1..Len(e) |-> e[i].rssi]
    OBVIOUS
  <2>2. x = Ratio(Sum(v), n)
    BY <1>1, <1>2, <1>5, <2>1 DEF Value, SumOf
  <2>3. \A i \in 1..n : e[i] \in Elems(a.records)
    BY <1>2, <1>3, <1>5 DEF Elems
  <2>4. \A i \in 1..n : v[i] \in Int
    BY <1>2, <2>1, <2>3 DEF Measurable
  <2>5. Len(v) = n
    BY <1>2, <1>3, <2>1
  <2>6. Sum(v) \in Int
    BY <1>3, <2>4, <2>5, SumIsInt
  <2>7. IsValue(Ratio(Sum(v), n))
    BY <1>3, <2>6, RatioFacts
  <2> QED BY <1>5, <2>2, <2>7
<1>6. CASE id = "field"
  <2>1. PICK v : v = [i \in 1..Len(e) |-> e[i].field]
    OBVIOUS
  <2>2. x = Ratio(Sum(v), n)
    BY <1>1, <1>2, <1>6, <2>1 DEF Value, SumOf
  <2>3. \A i \in 1..n : e[i] \in Elems(a.frames)
    BY <1>2, <1>3, <1>6 DEF Elems
  <2>4. \A i \in 1..n : v[i] \in Int
    BY <1>2, <2>1, <2>3 DEF Measurable
  <2>5. Len(v) = n
    BY <1>2, <1>3, <2>1
  <2>6. Sum(v) \in Int
    BY <1>3, <2>4, <2>5, SumIsInt
  <2>7. IsValue(Ratio(Sum(v), n))
    BY <1>3, <2>6, RatioFacts
  <2> QED BY <1>6, <2>2, <2>7
<1>7. CASE id \notin {"complete-frame-pct", "average-rssi", "field"}
  <2>1. x = IF status = "unavailable" THEN NoValue ELSE <<n, duration>>
    BY <1>1, <1>2, <1>7 DEF Value
  <2>2. IsValue(x)
    BY <1>3, <2>1 DEF IsValue
  <2> QED BY <1>1, <1>2, <1>7, <2>1, <2>2
<1> QED BY <1>4, <1>5, <1>6, <1>7

LEMMA AnchorFacts ==
  ASSUME NEW b, NEW c, NEW requested, IsRange(b.range), IsRange(c.range), requested.anchors \in Int \X Int
  PROVE  Anchors(b, c, requested)[1] \in Int /\ Anchors(b, c, requested)[2] \in Int
  BY DEF Anchors, IsRange

LEMMA DurationFacts ==
  ASSUME NEW b, NEW c, NEW requested, IsRange(b.range), IsRange(c.range), requested.anchors \in Int \X Int
  PROVE  ResolveAlignment(b, c, requested).duration \in Int
<1>1. PICK p, q : p = Anchors(b, c, requested)[1] /\ q = Anchors(b, c, requested)[2]
  OBVIOUS
<1>2. p \in Int /\ q \in Int
  BY <1>1, AnchorFacts
<1>3. PICK bs, cs : bs = Relative(b.range, p) /\ cs = Relative(c.range, q)
  OBVIOUS
<1>4. bs.from \in Int /\ bs.to \in Int /\ cs.from \in Int /\ cs.to \in Int
  BY <1>2, <1>3 DEF Relative, IsRange
<1>5. Most({bs.from, cs.from}) \in {bs.from, cs.from} /\ Least({bs.to, cs.to}) \in {bs.to, cs.to}
  BY <1>4, MostOfTwo, LeastOfTwo
<1>6. PICK shared : shared = Overlap(bs, cs)
  OBVIOUS
<1>7. shared.from \in Int /\ shared.to \in Int
  BY <1>4, <1>5, <1>6 DEF Overlap
<1>8. ResolveAlignment(b, c, requested).duration = shared.to - shared.from
  BY <1>1, <1>3, <1>6 DEF ResolveAlignment
<1> QED BY <1>7, <1>8

\* The values and the counts of one metric are those of what it is made of on each side.
IsMeasured(m, id, bs, cs, duration) ==
  \E status :
    m = Metric(id, status, <<Value(id, bs, status, duration), Value(id, cs, status, duration)>>,
               <<Len(Evidence(id, bs)), Len(Evidence(id, cs))>>)

LEMMA MetricsMeasured ==
  ASSUME NEW b, NEW c, NEW requested, NEW f, f = Finding(CompareSources(b, c, requested)),
         NEW bs, bs = Aligned(b, f.alignment.baseline), NEW cs, cs = Aligned(c, f.alignment.candidate)
  PROVE  /\ f.alignment = ResolveAlignment(b, c, requested)
         /\ f.baseline = FindingInput(b, f.alignment.baseline)
         /\ f.candidate = FindingInput(c, f.alignment.candidate)
         /\ \A id \in DOMAIN f.metrics : IsMeasured(f.metrics[id], id, bs, cs, f.alignment.duration)
<1>1. PICK al : al = ResolveAlignment(b, c, requested)
  OBVIOUS
<1>2. f.alignment = al /\ f.baseline = FindingInput(b, al.baseline) /\ f.candidate = FindingInput(c, al.candidate)
  BY <1>1 DEF Finding, CompareSources
<1>3. PICK areas : areas = Areas(b, c, b.decoder = c.decoder, bs.frames, cs.frames, bs.records, cs.records)
  OBVIOUS
<1>4. f.metrics = BuildMetrics(bs, cs, areas, al.duration)
  <2>1. f.metrics = CompareSources(b, c, requested).metrics
    BY DEF Finding
  <2>2. CompareSources(b, c, requested).metrics
          = BuildMetrics(Aligned(b, al.baseline), Aligned(c, al.candidate),
                         Areas(b, c, b.decoder = c.decoder, Aligned(b, al.baseline).frames, Aligned(c, al.candidate).frames,
                               Aligned(b, al.baseline).records, Aligned(c, al.candidate).records), al.duration)
    BY <1>1 DEF CompareSources
  <2> QED BY <1>2, <1>3, <2>1, <2>2
<1>5. ASSUME NEW id \in DOMAIN f.metrics PROVE IsMeasured(f.metrics[id], id, bs, cs, al.duration)
  <2>1. PICK status : status = areas[AreaOf(id)]
    OBVIOUS
  <2>2. f.metrics[id] = Metric(id, status, <<Value(id, bs, status, al.duration), Value(id, cs, status, al.duration)>>,
                               <<Len(Evidence(id, bs)), Len(Evidence(id, cs))>>)
    BY <1>4, <1>5, <2>1, Zenon DEF BuildMetrics
  <2> QED BY <2>2 DEF IsMeasured
<1> QED BY <1>1, <1>2, <1>5

\* A metric is the ratio it states of the counts of the finding.
LEMMA CountsAgree ==
  ASSUME NEW b, IsComparable(b), NEW c, IsComparable(c), NEW requested, requested.anchors \in Int \X Int,
         NEW f, f = Finding(CompareSources(b, c, requested)), NEW id \in DOMAIN f.metrics
  PROVE  /\ MetricCounts(id, f.metrics[id], f)
         /\ IsValue(f.metrics[id].values[1]) /\ IsValue(f.metrics[id].values[2])
<1>1. PICK bs, cs : bs = Aligned(b, f.alignment.baseline) /\ cs = Aligned(c, f.alignment.candidate)
  OBVIOUS
<1>2. /\ f.alignment = ResolveAlignment(b, c, requested)
      /\ f.baseline = FindingInput(b, f.alignment.baseline) /\ f.candidate = FindingInput(c, f.alignment.candidate)
      /\ \A i \in DOMAIN f.metrics : IsMeasured(f.metrics[i], i, bs, cs, f.alignment.duration)
  BY <1>1, MetricsMeasured
<1>3. PICK D : D = f.alignment.duration
  OBVIOUS
<1>4. D \in Int
  BY <1>2, <1>3, DurationFacts DEF IsComparable
<1>5. Measurable(bs) /\ Measurable(cs)
  BY <1>1, AlignedFacts
<1>6. PICK m : m = f.metrics[id]
  OBVIOUS
<1>7. PICK status : m = Metric(id, status, <<Value(id, bs, status, D), Value(id, cs, status, D)>>,
                               <<Len(Evidence(id, bs)), Len(Evidence(id, cs))>>)
  BY <1>2, <1>3, <1>6 DEF IsMeasured
<1>8. PICK x, y : x = Value(id, bs, status, D) /\ y = Value(id, cs, status, D)
  OBVIOUS
<1>9. PICK e, g : e = Evidence(id, bs) /\ g = Evidence(id, cs)
  OBVIOUS
<1>10. PICK n, k : n = Len(e) /\ k = Len(g)
  OBVIOUS
<1>11. m.status = status /\ m.values = <<x, y>> /\ m.counts = <<n, k>>
  BY <1>7, <1>8, <1>9, <1>10 DEF Metric
<1>12. /\ n \in Nat
       /\ id = "average-rssi" => e = Heard(bs.records)
       /\ id \in {"packet-rate", "complete-frame-pct"} => e = bs.frames
       /\ id = "integrity-failure-rate" => n <= Len(bs.frames)
       /\ id \in {"warning-diagnostic-rate", "critical-diagnostic-rate"} => n <= Len(bs.diagnostics)
  BY <1>5, <1>9, <1>10, EvidenceFacts
<1>13. /\ k \in Nat
       /\ id = "average-rssi" => g = Heard(cs.records)
       /\ id \in {"packet-rate", "complete-frame-pct"} => g = cs.frames
       /\ id = "integrity-failure-rate" => k <= Len(cs.frames)
       /\ id \in {"warning-diagnostic-rate", "critical-diagnostic-rate"} => k <= Len(cs.diagnostics)
  BY <1>5, <1>9, <1>10, EvidenceFacts
<1>14. /\ IsValue(x)
       /\ id \notin {"complete-frame-pct", "average-rssi", "field"} =>
            x = IF status = "unavailable" THEN NoValue ELSE <<n, D>>
  BY <1>4, <1>5, <1>8, <1>9, <1>10, ValueFacts
<1>15. /\ IsValue(y)
       /\ id \notin {"complete-frame-pct", "average-rssi", "field"} =>
            y = IF status = "unavailable" THEN NoValue ELSE <<k, D>>
  BY <1>4, <1>5, <1>8, <1>9, <1>10, ValueFacts
<1>16. /\ f.baseline.frames = Len(bs.frames) /\ f.candidate.frames = Len(cs.frames)
       /\ f.baseline.diagnostics = Len(bs.diagnostics) /\ f.candidate.diagnostics = Len(cs.diagnostics)
       /\ f.baseline.heard = Len(Heard(bs.records)) /\ f.candidate.heard = Len(Heard(cs.records))
  <2>1. \A s, range : LET input == FindingInput(s, range)  a == Aligned(s, range) IN
          input.frames = Len(a.frames) /\ input.diagnostics = Len(a.diagnostics) /\ input.heard = Len(Heard(a.records))
    BY DEF FindingInput
  <2> QED BY <1>1, <1>2, <2>1
<1>17. id \notin {"complete-frame-pct", "average-rssi", "field"} => IsRate(m, <<n, k>>, D)
  <2> SUFFICES ASSUME id \notin {"complete-frame-pct", "average-rssi", "field"}, status # "unavailable"
               PROVE  \A i \in {1, 2} : m.values[i] # NoValue /\ m.values[i][1] * D = <<n, k>>[i] * m.values[i][2]
    BY <1>11 DEF IsRate
  <2>1. x = <<n, D>> /\ y = <<k, D>>
    BY <1>14, <1>15
  <2>2. m.values[1] = <<n, D>> /\ m.values[2] = <<k, D>> /\ <<n, k>>[1] = n /\ <<n, k>>[2] = k
    BY <1>11, <2>1
  <2>3. \A p, q : <<p, q>> # NoValue /\ <<p, q>>[1] = p /\ <<p, q>>[2] = q
    BY DEF NoValue
  <2> QED BY <2>2, <2>3
<1>18. MetricCounts(id, m, f)
  <2>1. CASE id = "packet-rate"
    <3>1. n = f.baseline.frames /\ k = f.candidate.frames
      BY <1>10, <1>12, <1>13, <1>16, <2>1
    <3>2. m.counts = <<f.baseline.frames, f.candidate.frames>> /\ IsRate(m, <<f.baseline.frames, f.candidate.frames>>, D)
      BY <1>11, <1>17, <2>1, <3>1
    <3> QED BY <1>3, <2>1, <3>2 DEF MetricCounts
  <2>2. CASE id = "complete-frame-pct"
    <3>1. n = f.baseline.frames /\ k = f.candidate.frames
      BY <1>10, <1>12, <1>13, <1>16, <2>2
    <3> QED BY <1>11, <2>2, <3>1 DEF MetricCounts
  <2>3. CASE id = "integrity-failure-rate"
    <3>1. m.counts[1] <= f.baseline.frames /\ m.counts[2] <= f.candidate.frames
      BY <1>11, <1>12, <1>13, <1>16, <2>3
    <3>2. IsRate(m, m.counts, D)
      BY <1>11, <1>17, <2>3
    <3> QED BY <1>3, <2>3, <3>1, <3>2 DEF MetricCounts
  <2>4. CASE id \in {"warning-diagnostic-rate", "critical-diagnostic-rate"}
    <3>1. m.counts[1] <= f.baseline.diagnostics /\ m.counts[2] <= f.candidate.diagnostics
      BY <1>11, <1>12, <1>13, <1>16, <2>4
    <3>2. IsRate(m, m.counts, D)
      BY <1>11, <1>17, <2>4
    <3> QED BY <1>3, <2>4, <3>1, <3>2 DEF MetricCounts
  <2>5. CASE id = "average-rssi"
    <3>1. n = f.baseline.heard /\ k = f.candidate.heard
      BY <1>10, <1>12, <1>13, <1>16, <2>5
    <3> QED BY <1>11, <2>5, <3>1 DEF MetricCounts
  <2>6. CASE id \notin CoreMetrics
    BY <2>6 DEF MetricCounts, CoreMetrics
  <2> QED BY <2>1, <2>2, <2>3, <2>4, <2>5, <2>6 DEF CoreMetrics
<1> QED BY <1>6, <1>11, <1>14, <1>15, <1>18

\* A finding of sources that can be compared passes the checks it is stored under, and its values are
\* ratios or missing.
LEMMA FindingIsSound ==
  ASSUME NEW b, IsComparable(b), NEW c, IsComparable(c), NEW requested, requested.anchors \in Int \X Int,
         Aligns(b, c, requested), NEW f, f = Finding(CompareSources(b, c, requested))
  PROVE  FindingHolds(f) /\ Measured(f)
<1>1. PICK bs, cs : bs = Aligned(b, f.alignment.baseline) /\ cs = Aligned(c, f.alignment.candidate)
  OBVIOUS
<1>2. f.baseline = FindingInput(b, f.alignment.baseline) /\ f.candidate = FindingInput(c, f.alignment.candidate)
  BY <1>1, MetricsMeasured
<1>3. InputHolds(f.baseline) /\ InputHolds(f.candidate)
  BY <1>2, InputAgrees
<1>4. \A id \in DOMAIN f.metrics : /\ MetricCounts(id, f.metrics[id], f)
                                   /\ IsValue(f.metrics[id].values[1]) /\ IsValue(f.metrics[id].values[2])
  BY CountsAgree
<1>5. Measured(f)
  BY <1>4 DEF Measured, IsValue
<1>6. PICK S : bs.frames \in Seq(S) /\ cs.frames \in Seq(S)
  <2>1. IsSeq(bs.frames) /\ IsSeq(cs.frames)
    BY <1>1, AlignedFacts DEF Measurable
  <2>2. PICK S : S = {bs.frames[i] : i \in 1..Len(bs.frames)} \cup {cs.frames[i] : i \in 1..Len(cs.frames)}
    OBVIOUS
  <2>3. bs.frames \in Seq(S) /\ cs.frames \in Seq(S)
    BY <2>1, <2>2 DEF IsSeq
  <2> QED BY <2>3
<1>7. FindingHolds(f)
  BY <1>1, <1>3, <1>4, <1>6, FindingsAgree
<1> QED BY <1>5, <1>7

\* The alignment of a mode and two anchors.
Resolved(b, c, mode, at) ==
  LET bs == Relative(b.range, at[1])  cs == Relative(c.range, at[2])  shared == Overlap(bs, cs)
  IN [mode |-> mode, anchors |-> at, overlap |-> shared, duration |-> shared.to - shared.from,
      baseline |-> Moved(shared, at[1]), candidate |-> Moved(shared, at[2]),
      unmatched |-> <<shared.from - bs.from, bs.to - shared.to, shared.from - cs.from, cs.to - shared.to>>]

\* An alignment that has been resolved resolves to itself, so that a comparison can be made again from
\* the alignment its finding states.
LEMMA ResolvedAgain ==
  ASSUME NEW b, NEW c, NEW requested, NEW al, al = ResolveAlignment(b, c, requested)
  PROVE  /\ ResolveAlignment(b, c, al) = al
         /\ Aligns(b, c, al) = Aligns(b, c, requested)
         /\ CompareSources(b, c, al) = CompareSources(b, c, requested)
<1>1. al.mode = requested.mode /\ al.anchors = Anchors(b, c, requested)
  BY DEF ResolveAlignment
<1>2. Anchors(b, c, al) = Anchors(b, c, requested)
  BY <1>1 DEF Anchors
<1>3. ResolveAlignment(b, c, al) = al
  <2>1. \A x : ResolveAlignment(b, c, x) = Resolved(b, c, x.mode, Anchors(b, c, x))
    BY DEF ResolveAlignment, Resolved
  <2> QED BY <1>1, <1>2, <2>1
<1>4. Aligns(b, c, al) = Aligns(b, c, requested)
  BY <1>2 DEF Aligns
<1>5. CompareSources(b, c, al) = CompareSources(b, c, requested)
  BY <1>3 DEF CompareSources
<1> QED BY <1>3, <1>4, <1>5

\* The source a session and a range of it make.
LEMMA SessionSourceIs ==
  ASSUME NEW s, NEW range, NEW x, x = SessionSource(s, range)
  PROVE  /\ {"records", "frames", "diagnostics"} \subseteq DOMAIN x
         /\ x.kind = "session" /\ x.range = range /\ x.duration = s.doc.duration /\ x.decoder = s.doc.decoder
         /\ x.status = s.receipt.status /\ x.basis = s.receipt.basis /\ x.has = Support
         /\ x.records = RowsInRange(s.doc.rows, range) /\ x.frames = RowsInRange(s.frames, range)
         /\ x.diagnostics = DiagnosticsIn(s.diagnostics, range)
  BY DEF SessionSource, Source

LEMMA SessionIsComparable ==
  ASSUME NEW d, IsDocument(d), Valid(d), NEW s, s = ParseSession(d), NEW range, IsRange(range), RangeFits(s, range),
         NEW x, x = SessionSource(s, range)
  PROVE  IsComparable(x)
<1>1. PICK n : RowsFact(d, n)
  BY RowFacts
<1>2. /\ s.doc = d /\ IsSeq(s.frames) /\ Len(s.frames) = n
      /\ \A i \in 1..n : s.frames[i] = Decoded(d.rows[i])
  BY <1>1, FrameFacts
<1>3. /\ IsSeq(d.rows) /\ n = Len(d.rows) /\ d.duration \in Nat
      /\ \A i \in 1..n : d.rows[i].rssi \in Int /\ d.rows[i].field \in Int
  BY <1>1 DEF RowsFact, IsRow
<1>4. \A e \in Elems(d.rows) : e.rssi \in Int
  BY <1>3 DEF Elems
<1>5. \A e \in Elems(s.frames) : e.field \in Int
  <2>1. \A r : Decoded(r).field = r.field
    BY DEF Decoded
  <2> QED BY <1>2, <1>3, <2>1 DEF Elems
<1>6. IsSeq(s.diagnostics)
  BY DiagnosticFacts
<1>7. /\ {"records", "frames", "diagnostics"} \subseteq DOMAIN x
      /\ x.range = range /\ x.duration = d.duration /\ x.has = Support
      /\ x.records = RowsInRange(d.rows, range) /\ x.frames = RowsInRange(s.frames, range)
      /\ x.diagnostics = DiagnosticsIn(s.diagnostics, range)
  BY <1>2, SessionSourceIs
<1>8. x.records = Chosen(d.rows, {i \in DOMAIN d.rows : InRange(d.rows[i].at, range)})
  BY <1>7 DEF RowsInRange, Where
<1>9. x.frames = Chosen(s.frames, {i \in DOMAIN s.frames : InRange(s.frames[i].at, range)})
  BY <1>7 DEF RowsInRange, Where
<1>10. x.diagnostics = Chosen(s.diagnostics, {i \in DOMAIN s.diagnostics :
                                Intersects(s.diagnostics[i].at, s.diagnostics[i].to, range)})
  BY <1>7 DEF DiagnosticsIn, Where
<1>11. IsSeq(x.records) /\ Elems(x.records) \subseteq Elems(d.rows)
  BY <1>3, <1>8, KeptFacts
<1>12. IsSeq(x.frames) /\ Elems(x.frames) \subseteq Elems(s.frames)
  BY <1>2, <1>9, KeptFacts
<1>13. IsSeq(x.diagnostics)
  BY <1>6, <1>10, KeptFacts
<1>14. Measurable(x)
  BY <1>4, <1>5, <1>11, <1>12, <1>13 DEF Measurable
<1>15. range.to <= d.duration
  BY <1>2 DEF RangeFits
<1> QED BY <1>3, <1>7, <1>14, <1>15 DEF IsComparable, Support

\* Diagnostics that differ in the frames they name alone.
Equivalent(p, q) ==
  /\ IsSeq(p) /\ IsSeq(q) /\ Len(p) = Len(q)
  /\ \A i \in 1..Len(p) : p[i].at = q[i].at /\ p[i].to = q[i].to /\ p[i].severity = q[i].severity

LEMMA EquivalentKept ==
  ASSUME NEW p, NEW q, Equivalent(p, q), NEW S
  PROVE  Equivalent(Chosen(p, S), Chosen(q, S))
<1>1. PICK n \in Nat : n = Len(p) /\ n = Len(q)
  BY DEF Equivalent, IsSeq
<1>2. PICK e : e = At(n, S)
  OBVIOUS
<1>3. Places(e, n, S) /\ IsPick(Chosen(p, S), p, e)
  BY <1>1, <1>2, ChosenFacts
<1>4. IsPick(Chosen(q, S), q, e)
  BY <1>1, <1>2, ChosenFacts
<1>5. PICK m \in Nat : m = Len(e) /\ \A k \in 1..m : e[k] \in 1..n
  BY <1>3 DEF Places, IsSeq
<1>6. PICK c, g : c = Chosen(p, S) /\ g = Chosen(q, S)
  OBVIOUS
<1>7. /\ IsSeq(c) /\ IsSeq(g) /\ Len(c) = m /\ Len(g) = m
      /\ \A k \in 1..m : c[k] = p[e[k]] /\ g[k] = q[e[k]]
  BY <1>3, <1>4, <1>5, <1>6 DEF IsPick
<1>8. \A i \in 1..n : p[i].at = q[i].at /\ p[i].to = q[i].to /\ p[i].severity = q[i].severity
  BY <1>1 DEF Equivalent
<1>9. Equivalent(c, g)
  BY <1>5, <1>7, <1>8 DEF Equivalent
<1> QED BY <1>6, <1>9

\* A bundle that names fewer frames per diagnostic has equivalent diagnostics.
LEMMA EquivalentSent ==
  ASSUME NEW diagnostics, IsSeq(diagnostics), \A e \in Elems(diagnostics) : Whole(e), NEW frames, NEW range
  PROVE  Equivalent(DiagnosticsForRange(diagnostics, frames, range), DiagnosticsIn(diagnostics, range))
<1>1. PICK kept : kept = Chosen(diagnostics, {i \in DOMAIN diagnostics :
                                 Intersects(diagnostics[i].at, diagnostics[i].to, range)})
  OBVIOUS
<1>2. IsSeq(kept) /\ Elems(kept) \subseteq Elems(diagnostics)
  BY <1>1, KeptFacts
<1>3. DiagnosticsIn(diagnostics, range) = kept
  BY <1>1 DEF DiagnosticsIn, Where
<1>4. PICK selected : selected = {frames[i].id : i \in DOMAIN frames}
  OBVIOUS
<1>5. DiagnosticsForRange(diagnostics, frames, range)
        = [i \in DOMAIN kept |-> [kept[i] EXCEPT !.frames = @ \cap selected]]
  BY <1>1, <1>4 DEF DiagnosticsForRange, Where
<1>6. PICK sent : sent = DiagnosticsForRange(diagnostics, frames, range)
  OBVIOUS
<1>7. DOMAIN kept = 1..Len(kept) /\ Len(kept) \in Nat
  BY <1>2, SeqFacts
<1>8. PICK n \in Nat : n = Len(kept)
  BY <1>7
<1>9. sent = [i \in 1..n |-> [kept[i] EXCEPT !.frames = @ \cap selected]]
  BY <1>5, <1>6, <1>7, <1>8
<1>10. IsSeq(sent) /\ Len(sent) = n
  <2>1. sent = [i \in 1..n |-> sent[i]]
    BY <1>9
  <2> QED BY <2>1, GivenFacts
<1>11. ASSUME NEW i \in 1..n
       PROVE  sent[i].at = kept[i].at /\ sent[i].to = kept[i].to /\ sent[i].severity = kept[i].severity
  <2>1. Whole(kept[i])
    BY <1>2, <1>8 DEF Elems
  <2>2. sent[i] = [kept[i] EXCEPT !.frames = @ \cap selected]
    BY <1>9
  <2> QED BY <2>1, <2>2 DEF Whole
<1>12. Equivalent(sent, kept)
  BY <1>2, <1>8, <1>10, <1>11 DEF Equivalent
<1> QED BY <1>3, <1>6, <1>12

\* What a bundle keeps of the source its session and its range make.
Sent(x, w, include) ==
  /\ x.range = w.range /\ x.duration = w.duration /\ x.decoder = w.decoder
  /\ x.status = w.status /\ x.basis = w.basis
  /\ x.has = {y \in Support : CASE y = "records" -> "raw" \in include
                                [] y = "frames"  -> "decoded" \in include
                                [] OTHER         -> "diagnostics" \in include}
  /\ x.records = IF "raw" \in include THEN w.records ELSE <<>>
  /\ x.frames = IF "decoded" \in include THEN w.frames ELSE <<>>
  /\ IF "diagnostics" \in include THEN Equivalent(x.diagnostics, w.diagnostics) ELSE x.diagnostics = <<>>

LEMMA ReceiverSourceIs ==
  ASSUME NEW b, NEW x, x = ReceiverSource(ReceiverDocument(b))
  PROVE  /\ {"records", "frames", "diagnostics"} \subseteq DOMAIN x
         /\ x.kind = "evidence-bundle" /\ x.identity = b /\ x.range = b.selection
         /\ x.duration = b.session.duration /\ x.decoder = b.session.decoder
         /\ x.status = b.receipt.status /\ x.basis = b.receipt.basis
         /\ x.has = {y \in Support : CASE y = "records" -> "raw" \in b.include
                                       [] y = "frames"  -> "decoded" \in b.include
                                       [] OTHER         -> "diagnostics" \in b.include}
         /\ x.records = b.raw /\ x.frames = b.packets /\ x.diagnostics = b.diagnostics.list
<1>1. PICK doc : doc = ReceiverDocument(b)
  OBVIOUS
<1>2. /\ doc.bundle = b /\ doc.session = b.session /\ doc.incident = b.selection /\ doc.available = b.include
      /\ doc.records = b.raw /\ doc.packets = b.packets /\ doc.diagnostics = b.diagnostics.list
      /\ doc.receipt = b.receipt
  BY <1>1 DEF ReceiverDocument
<1>3. PICK has : has = {y \in Support : CASE y = "records" -> "raw" \in doc.available
                                          [] y = "frames"  -> "decoded" \in doc.available
                                          [] OTHER         -> "diagnostics" \in doc.available}
  OBVIOUS
<1>4. x = [kind |-> "evidence-bundle", identity |-> doc.bundle, duration |-> doc.session.duration,
           decoder |-> doc.session.decoder, range |-> doc.incident, status |-> doc.receipt.status,
           basis |-> doc.receipt.basis, completeness |-> doc.completeness, has |-> has,
           records |-> doc.records, frames |-> doc.packets, diagnostics |-> doc.diagnostics]
  BY <1>1, <1>3, Zenon DEF ReceiverSource, Source
<1>5. /\ {"records", "frames", "diagnostics"} \subseteq DOMAIN x
      /\ x.kind = "evidence-bundle" /\ x.identity = doc.bundle /\ x.range = doc.incident
      /\ x.duration = doc.session.duration /\ x.decoder = doc.session.decoder
      /\ x.status = doc.receipt.status /\ x.basis = doc.receipt.basis /\ x.has = has
      /\ x.records = doc.records /\ x.frames = doc.packets /\ x.diagnostics = doc.diagnostics
  BY <1>4
<1> QED BY <1>2, <1>3, <1>5

LEMMA BundleIsSent ==
  ASSUME NEW b, NEW d, NEW s, NEW range, NEW include, NEW marks, NEW remarks,
         Built(b, d, s, range, include, marks, remarks),
         NEW x, x = ReceiverSource(ReceiverDocument(b)), NEW w, w = SessionSource(s, range)
  PROVE  /\ Sent(x, w, include) /\ IsComparable(w) /\ IsComparable(x)
         /\ x.kind = "evidence-bundle" /\ x.identity = b /\ b.selection = range /\ b.include = include
<1>1. IsDocument(d) /\ Valid(d) /\ s = ParseSession(d) /\ IsRange(range) /\ RangeFits(s, range)
  BY DEF Built
<1>2. PICK n : RowsFact(d, n)
  BY <1>1, RowFacts
<1>3. /\ s.doc = d /\ s.receipt = ReceiptOf(d)
      /\ DOMAIN s.frames = 1..n /\ DOMAIN d.rows = 1..n /\ \A i \in 1..n : s.frames[i].at = d.rows[i].at
  <2>1. DOMAIN d.rows = 1..n
    BY <1>2 DEF RowsFact
  <2> QED BY <1>1, <1>2, <2>1, FrameFacts
<1>4. IsComparable(w)
  BY <1>1, SessionIsComparable
<1>5. /\ w.range = range /\ w.duration = d.duration /\ w.decoder = d.decoder
      /\ w.status = ReceiptOf(d).status /\ w.basis = ReceiptOf(d).basis
      /\ w.records = RowsInRange(d.rows, range) /\ w.frames = RowsInRange(s.frames, range)
      /\ w.diagnostics = DiagnosticsIn(s.diagnostics, range)
  BY <1>3, SessionSourceIs
<1>6. w.records = Chosen(d.rows, RowPlaces(d, range))
  BY <1>5 DEF RowsInRange, Where, RowPlaces
<1>7. w.frames = Chosen(s.frames, RowPlaces(d, range))
  <2>1. {i \in DOMAIN s.frames : InRange(s.frames[i].at, range)} = RowPlaces(d, range)
    BY <1>3 DEF RowPlaces
  <2>2. w.frames = Chosen(s.frames, {i \in DOMAIN s.frames : InRange(s.frames[i].at, range)})
    BY <1>5 DEF RowsInRange, Where
  <2> QED BY <2>1, <2>2
<1>8. PICK sent : sent = DiagnosticsForRange(s.diagnostics, w.frames, range)
  OBVIOUS
<1>9. Equivalent(sent, w.diagnostics)
  <2>1. IsSeq(s.diagnostics) /\ \A e \in Elems(s.diagnostics) : Whole(e)
    BY <1>1, DiagnosticFacts DEF IsDiagnostic
  <2> QED BY <1>5, <1>8, <2>1, EquivalentSent
<1>10. /\ b.session = [version |-> d.version, source |-> d.source, duration |-> d.duration,
                       decoder |-> d.decoder, receipt |-> ReceiptOf(d)]
       /\ b.selection = range /\ b.include = include /\ b.receipt = ReceiptOf(d)
       /\ b.raw = IF "raw" \in include THEN w.records ELSE <<>>
       /\ b.packets = IF "decoded" \in include THEN w.frames ELSE <<>>
       /\ b.diagnostics = [range |-> range, list |-> IF "diagnostics" \in include THEN sent ELSE <<>>]
  <2>1. Fields(b, d, s, range, include, marks, remarks)
    BY BundleFields
  <2> QED BY <1>6, <1>7, <1>8, <2>1, Zenon DEF Fields
<1>11. /\ {"records", "frames", "diagnostics"} \subseteq DOMAIN x
       /\ x.kind = "evidence-bundle" /\ x.identity = b /\ x.range = b.selection
       /\ x.duration = b.session.duration /\ x.decoder = b.session.decoder
       /\ x.status = b.receipt.status /\ x.basis = b.receipt.basis
       /\ x.has = {y \in Support : CASE y = "records" -> "raw" \in b.include
                                     [] y = "frames"  -> "decoded" \in b.include
                                     [] OTHER         -> "diagnostics" \in b.include}
       /\ x.records = b.raw /\ x.frames = b.packets /\ x.diagnostics = b.diagnostics.list
  BY ReceiverSourceIs, SMTT(40)
<1>12. Sent(x, w, include)
  <2>1. x.range = w.range /\ x.duration = w.duration /\ x.decoder = w.decoder
        /\ x.status = w.status /\ x.basis = w.basis
    BY <1>5, <1>10, <1>11
  <2>2. x.records = IF "raw" \in include THEN w.records ELSE <<>>
    BY <1>10, <1>11
  <2>3. x.frames = IF "decoded" \in include THEN w.frames ELSE <<>>
    BY <1>10, <1>11
  <2>4. x.diagnostics = IF "diagnostics" \in include THEN sent ELSE <<>>
    BY <1>10, <1>11
  <2>5. IF "diagnostics" \in include THEN Equivalent(x.diagnostics, w.diagnostics) ELSE x.diagnostics = <<>>
    BY <1>9, <2>4
  <2>6. b.include = include
    BY <1>10
  <2> QED BY <1>11, <2>1, <2>2, <2>3, <2>5, <2>6 DEF Sent
<1>13. IsComparable(x)
  <2>1. /\ IsRange(w.range) /\ w.range.to <= w.duration /\ w.duration \in Nat
        /\ IsSeq(w.records) /\ (\A r \in Elems(w.records) : r.rssi \in Int)
        /\ IsSeq(w.frames) /\ (\A f \in Elems(w.frames) : f.field \in Int)
    BY <1>4 DEF IsComparable, Measurable
  <2>2. IsSeq(<<>>) /\ Elems(<<>>) = {}
    <3>1. IsSeq(<<>>) /\ Len(<<>>) = 0
      BY FewFacts
    <3>2. 1..0 = {}
      OBVIOUS
    <3> QED BY <3>1, <3>2 DEF Elems
  <2>3. /\ IsSeq(x.records) /\ (\A r \in Elems(x.records) : r.rssi \in Int)
        /\ IsSeq(x.frames) /\ (\A f \in Elems(x.frames) : f.field \in Int)
    BY <1>12, <2>1, <2>2 DEF Sent
  <2>4. IsSeq(x.diagnostics)
    BY <1>12, <2>2 DEF Sent, Equivalent
  <2>5. ("records" \in x.has) = ("raw" \in include) /\ ("frames" \in x.has) = ("decoded" \in include)
        /\ ("diagnostics" \in x.has) = ("diagnostics" \in include)
    BY <1>12 DEF Sent, Support
  <2>6. /\ "records" \notin x.has => x.records = <<>>
        /\ "frames" \notin x.has => x.frames = <<>>
        /\ "diagnostics" \notin x.has => x.diagnostics = <<>>
    BY <1>12, <2>5 DEF Sent
  <2>7. IsRange(x.range) /\ x.range.to <= x.duration /\ x.duration \in Nat
    BY <1>12, <2>1 DEF Sent
  <2>8. Measurable(x)
    BY <2>3, <2>4 DEF Measurable
  <2> QED BY <1>11, <2>6, <2>7, <2>8 DEF IsComparable
<1> QED BY <1>4, <1>10, <1>11, <1>12, <1>13

\* Two sources a comparison does not tell apart.
SameEvidence(x, w) ==
  /\ x.range = w.range /\ x.decoder = w.decoder /\ x.status = w.status /\ x.basis = w.basis /\ x.has = w.has
  /\ x.records = w.records /\ x.frames = w.frames /\ Equivalent(x.diagnostics, w.diagnostics)

LEMMA SentWhole ==
  ASSUME NEW x, NEW w, Sent(x, w, Groups), w.has = Support
  PROVE  SameEvidence(x, w)
<1>1. "raw" \in Groups /\ "decoded" \in Groups /\ "diagnostics" \in Groups
  BY DEF Groups
<1>2. x.has = Support
  BY <1>1 DEF Sent
<1> QED BY <1>1, <1>2 DEF Sent, SameEvidence

\* What is measured of two such sources is the same.
SameParts(a, g) ==
  a.records = g.records /\ a.frames = g.frames /\ Equivalent(a.diagnostics, g.diagnostics)

LEMMA AlignedSame ==
  ASSUME NEW x, IsComparable(x), NEW w, IsComparable(w), SameEvidence(x, w), NEW range
  PROVE  SameParts(Aligned(x, range), Aligned(w, range))
<1>1. PICK a, g : a = Aligned(x, range) /\ g = Aligned(w, range)
  OBVIOUS
<1>2. /\ a.records = RowsInRange(x.records, range) /\ a.frames = RowsInRange(x.frames, range)
      /\ a.diagnostics = DiagnosticsIn(x.diagnostics, range)
  BY <1>1 DEF IsComparable, Aligned
<1>3. /\ g.records = RowsInRange(w.records, range) /\ g.frames = RowsInRange(w.frames, range)
      /\ g.diagnostics = DiagnosticsIn(w.diagnostics, range)
  BY <1>1 DEF IsComparable, Aligned
<1>4. PICK p, q : p = x.diagnostics /\ q = w.diagnostics
  OBVIOUS
<1>5. Equivalent(p, q)
  BY <1>4 DEF SameEvidence
<1>6. DOMAIN p = 1..Len(p) /\ DOMAIN q = 1..Len(p)
  BY <1>5, SeqFacts DEF Equivalent
<1>7. PICK S : S = {i \in DOMAIN p : Intersects(p[i].at, p[i].to, range)}
  OBVIOUS
<1>8. S = {i \in DOMAIN q : Intersects(q[i].at, q[i].to, range)}
  BY <1>5, <1>6, <1>7 DEF Equivalent
<1>9. DiagnosticsIn(p, range) = Chosen(p, S)
  BY <1>7 DEF DiagnosticsIn, Where
<1>10. DiagnosticsIn(q, range) = Chosen(q, S)
  BY <1>8 DEF DiagnosticsIn, Where
<1>11. Equivalent(a.diagnostics, g.diagnostics)
  BY <1>2, <1>3, <1>4, <1>5, <1>9, <1>10, EquivalentKept
<1>12. a.records = g.records /\ a.frames = g.frames
  BY <1>2, <1>3 DEF SameEvidence
<1> QED BY <1>1, <1>11, <1>12 DEF SameParts

OfGravity(p, severity) == Chosen(p, {i \in DOMAIN p : p[i].severity = severity})

LEMMA GravityCounts ==
  ASSUME NEW p, NEW q, Equivalent(p, q), NEW severity
  PROVE  Len(OfGravity(p, severity)) = Len(OfGravity(q, severity))
<1>1. DOMAIN p = 1..Len(p) /\ DOMAIN q = 1..Len(p)
  BY SeqFacts DEF Equivalent
<1>2. PICK S : S = {i \in DOMAIN p : p[i].severity = severity}
  OBVIOUS
<1>3. S = {i \in DOMAIN q : q[i].severity = severity}
  BY <1>1, <1>2 DEF Equivalent
<1>4. Equivalent(Chosen(p, S), Chosen(q, S))
  BY EquivalentKept
<1>5. Len(Chosen(p, S)) = Len(Chosen(q, S))
  BY <1>4 DEF Equivalent
<1> QED BY <1>2, <1>3, <1>5 DEF OfGravity

LEMMA SameCounts ==
  ASSUME NEW a, NEW g, SameParts(a, g), NEW id
  PROVE  /\ Len(Evidence(id, a)) = Len(Evidence(id, g))
         /\ \A status, duration : Value(id, a, status, duration) = Value(id, g, status, duration)
<1>1. a.records = g.records /\ a.frames = g.frames /\ Equivalent(a.diagnostics, g.diagnostics)
  BY DEF SameParts
<1>2. PICK severity : severity = IF id = "warning-diagnostic-rate" THEN "warning" ELSE "critical"
  OBVIOUS
<1>3. CASE id \in {"warning-diagnostic-rate", "critical-diagnostic-rate"}
  <2>1. Evidence(id, a) = OfGravity(a.diagnostics, severity) /\ Evidence(id, g) = OfGravity(g.diagnostics, severity)
    BY <1>2, <1>3 DEF Evidence, Where, OfGravity
  <2>2. Len(Evidence(id, a)) = Len(Evidence(id, g))
    <3>1. PICK p, q : p = a.diagnostics /\ q = g.diagnostics
      OBVIOUS
    <3>2. Len(OfGravity(p, severity)) = Len(OfGravity(q, severity))
      BY <1>1, <3>1, GravityCounts
    <3> QED BY <2>1, <3>1, <3>2
  <2>3. \A x, status, duration :
          Value(id, x, status, duration) = IF status = "unavailable" THEN NoValue ELSE <<Len(Evidence(id, x)), duration>>
    BY <1>3 DEF Value
  <2> QED BY <2>2, <2>3
<1>4. CASE id \notin {"warning-diagnostic-rate", "critical-diagnostic-rate"}
  <2>1. Evidence(id, a) = Evidence(id, g)
    BY <1>1, <1>4 DEF Evidence
  <2>2. PICK e : e = Evidence(id, a) /\ e = Evidence(id, g)
    BY <2>1
  <2>3. ASSUME NEW status, NEW duration PROVE Value(id, a, status, duration) = Value(id, g, status, duration)
    BY <2>2 DEF Value
  <2> QED BY <2>1, <2>3
<1> QED BY <1>3, <1>4

\* Bundles that leave nothing out compare as their sessions do.
LEMMA WholeCompares ==
  ASSUME NEW b, IsComparable(b), NEW bw, IsComparable(bw), SameEvidence(b, bw),
         NEW c, IsComparable(c), NEW cw, IsComparable(cw), SameEvidence(c, cw), NEW requested,
         NEW model, model = CompareSources(b, c, requested), NEW whole, whole = CompareSources(bw, cw, requested)
  PROVE  whole.areas = model.areas /\ whole.metrics = model.metrics /\ whole.assessment = model.assessment
<1>1. b.range = bw.range /\ c.range = cw.range
  BY DEF SameEvidence
<1>2. PICK al : al = ResolveAlignment(b, c, requested)
  OBVIOUS
<1>3. al = ResolveAlignment(bw, cw, requested)
  <2>1. Anchors(b, c, requested) = Anchors(bw, cw, requested)
    BY <1>1 DEF Anchors
  <2>2. \A x, y : ResolveAlignment(x, y, requested) = Resolved(x, y, requested.mode, Anchors(x, y, requested))
    BY DEF ResolveAlignment, Resolved
  <2>3. \A mode, at : Resolved(b, c, mode, at) = Resolved(bw, cw, mode, at)
    BY <1>1 DEF Resolved
  <2> QED BY <1>2, <2>1, <2>2, <2>3
<1>4. PICK bs, cs, bt, ct : /\ bs = Aligned(b, al.baseline) /\ cs = Aligned(c, al.candidate)
                            /\ bt = Aligned(bw, al.baseline) /\ ct = Aligned(cw, al.candidate)
  OBVIOUS
<1>5. SameParts(bs, bt) /\ SameParts(cs, ct)
  BY <1>4, AlignedSame
<1>6. PICK areas : areas = Areas(b, c, b.decoder = c.decoder, bs.frames, cs.frames, bs.records, cs.records)
  OBVIOUS
<1>7. areas = Areas(bw, cw, bw.decoder = cw.decoder, bt.frames, ct.frames, bt.records, ct.records)
  <2>1. ASSUME NEW same, NEW fb, NEW fc, NEW rb, NEW rc
        PROVE  Areas(b, c, same, fb, fc, rb, rc) = Areas(bw, cw, same, fb, fc, rb, rc)
    <3>1. \A needs, also : SupportedStatus(needs, b, c, same, also) = SupportedStatus(needs, bw, cw, same, also)
      BY DEF SupportedStatus, SameEvidence
    <3>2. (b.basis = c.basis) = (bw.basis = cw.basis) /\ {b.status, c.status} = {bw.status, cw.status}
      BY DEF SameEvidence
    <3> QED BY <3>1, <3>2, Zenon DEF Areas
  <2>2. b.decoder = bw.decoder /\ c.decoder = cw.decoder
    BY DEF SameEvidence
  <2>3. bs.frames = bt.frames /\ cs.frames = ct.frames /\ bs.records = bt.records /\ cs.records = ct.records
    BY <1>5 DEF SameParts
  <2> QED BY <1>6, <2>1, <2>2, <2>3
<1>8. PICK metrics : metrics = BuildMetrics(bs, cs, areas, al.duration)
  OBVIOUS
<1>9. metrics = BuildMetrics(bt, ct, areas, al.duration)
  <2>1. MetricIds(areas, bs, cs) = MetricIds(areas, bt, ct)
    BY <1>5 DEF MetricIds, SameParts
  <2>2. ASSUME NEW id PROVE /\ Len(Evidence(id, bs)) = Len(Evidence(id, bt))
                            /\ \A status, duration : Value(id, bs, status, duration) = Value(id, bt, status, duration)
    BY <1>5, SameCounts, SMTT(40)
  <2>3. ASSUME NEW id PROVE /\ Len(Evidence(id, cs)) = Len(Evidence(id, ct))
                            /\ \A status, duration : Value(id, cs, status, duration) = Value(id, ct, status, duration)
    BY <1>5, SameCounts, SMTT(40)
  <2> QED BY <1>8, <2>1, <2>2, <2>3, Zenon DEF BuildMetrics
<1>10. model.areas = areas /\ model.metrics = metrics /\ model.assessment = OverallAssessment(areas, metrics)
  BY <1>2, <1>4, <1>6, <1>8 DEF CompareSources
<1>11. whole.areas = areas /\ whole.metrics = metrics /\ whole.assessment = OverallAssessment(areas, metrics)
  BY <1>3, <1>4, <1>7, <1>9 DEF CompareSources
<1> QED BY <1>10, <1>11

-----------------------------------------------------------------------------
(* The finding of the desk *)

\* A finding was made of sources that are still there: a session with a range in it, or a bundle that
\* was received.
FoundSource(side) ==
  IF finding[side].kind = "session"
  THEN Is(session[side]) /\ IsRange(finding[side].range) /\ RangeFits(session[side], finding[side].range)
  ELSE received[side] \notin {Nothing, Refused}

FoundOf(f, b, c) ==
  \E requested : requested.anchors \in Int \X Int /\ Aligns(b, c, requested) /\ f = Finding(CompareSources(b, c, requested))

FoundInv ==
  Is(finding) =>
    /\ FoundOf(finding, FindingSource("baseline"), FindingSource("candidate"))
    /\ \A side \in Sides : FoundSource(side)
    /\ finding["baseline"].kind = "session" <=> finding["candidate"].kind = "session"

LEMMA FindingNames ==
  ASSUME NEW b, NEW c, NEW f, FoundOf(f, b, c)
  PROVE  /\ f["baseline"].kind = b.kind /\ f["candidate"].kind = c.kind
         /\ f["baseline"].range = b.range /\ f["candidate"].range = c.range
         /\ f["baseline"].identity = b.identity /\ f["candidate"].identity = c.identity
<1>1. PICK requested : f = Finding(CompareSources(b, c, requested))
  BY DEF FoundOf
<1>2. \A s, range : LET input == FindingInput(s, range) IN
        input.kind = s.kind /\ input.range = s.range /\ input.identity = s.identity
  BY DEF FindingInput
<1>3. PICK al : al = ResolveAlignment(b, c, requested)
  OBVIOUS
<1>4. f["baseline"] = FindingInput(b, al.baseline) /\ f["candidate"] = FindingInput(c, al.candidate)
  BY <1>1, <1>3 DEF Finding, CompareSources
<1> QED BY <1>2, <1>4

LEMMA FoundKept ==
  ASSUME FoundInv, UNCHANGED finding, Is(finding),
         \A side \in Sides : finding[side].kind = "session" => session'[side] = session[side],
         \A side \in Sides : finding[side].kind # "session" => received'[side] = received[side]
  PROVE  FoundInv'
<1>1. ASSUME NEW side \in Sides PROVE FindingSource(side)' = FindingSource(side) /\ FoundSource(side)'
  <2>1. FoundSource(side)
    BY DEF FoundInv
  <2>2. CASE finding[side].kind = "session"
    <3>1. session'[side] = session[side]
      BY <2>2
    <3> QED BY <2>1, <2>2, <3>1 DEF FindingSource, FoundSource
  <2>3. CASE finding[side].kind # "session"
    <3>1. received'[side] = received[side]
      BY <2>3
    <3> QED BY <2>1, <2>3, <3>1 DEF FindingSource, FoundSource
  <2> QED BY <2>2, <2>3
<1>2. FindingSource("baseline")' = FindingSource("baseline") /\ FindingSource("candidate")' = FindingSource("candidate")
  BY <1>1 DEF Sides
<1>3. PICK b, c : b = FindingSource("baseline") /\ c = FindingSource("candidate")
  OBVIOUS
<1>4. FoundOf(finding, b, c)
  BY <1>3 DEF FoundInv
<1>5. FoundOf(finding', b, c)
  BY <1>4
<1>6. FoundOf(finding', FindingSource("baseline")', FindingSource("candidate")')
  BY <1>2, <1>3, <1>5
<1>7. finding'["baseline"].kind = "session" <=> finding'["candidate"].kind = "session"
  BY DEF FoundInv
<1> QED BY <1>1, <1>6, <1>7 DEF FoundInv

LEMMA RangeIsGiven ==
  ASSUME DeskInv, NEW side \in Sides, Is(session[side]), NEW range \in Ranges[series[side]]
  PROVE  IsRange(range)
<1>1. session[side] # Nothing
  BY DEF Is, Nothing
<1>2. PICK d : Opened(session[side], d, series[side])
  BY <1>1 DEF DeskInv, SideInv
<1>3. PICK name : name = series[side] /\ name \in Series
  BY <1>2 DEF Opened
<1> QED BY <1>3, EvidenceAssumption

LEMMA SessionsFound ==
  ASSUME DeskInv, NEW alignment \in Alignments, CompareSessions(alignment)
  PROVE  FoundInv'
<1>1. PICK p \in Ranges[series["baseline"]], q \in Ranges[series["candidate"]] :
        /\ RangeFits(session["baseline"], p) /\ RangeFits(session["candidate"], q)
        /\ Compared(SessionSource(session["baseline"], p), SessionSource(session["candidate"], q), alignment)
  BY DEF CompareSessions
<1>2. PICK b, c : b = SessionSource(session["baseline"], p) /\ c = SessionSource(session["candidate"], q)
  OBVIOUS
<1>3. /\ Aligns(b, c, alignment) /\ finding' = Finding(CompareSources(b, c, alignment))
      /\ session' = session /\ received' = received
  BY <1>1, <1>2 DEF Compared
<1>4. alignment.anchors \in Int \X Int
  BY EvidenceAssumption
<1>5. FoundOf(finding', b, c)
  BY <1>3, <1>4 DEF FoundOf
<1>6. b.kind = "session" /\ b.range = p /\ c.kind = "session" /\ c.range = q
  BY <1>2, SessionSourceIs
<1>7. /\ finding'["baseline"].kind = "session" /\ finding'["candidate"].kind = "session"
      /\ finding'["baseline"].range = p /\ finding'["candidate"].range = q
  BY <1>5, <1>6, FindingNames
<1>8. FindingSource("baseline")' = b /\ FindingSource("candidate")' = c
  BY <1>2, <1>3, <1>7 DEF FindingSource
<1>9. "baseline" \in Sides /\ "candidate" \in Sides
  BY DEF Sides
<1>10. Is(session["baseline"]) /\ Is(session["candidate"])
  BY <1>9 DEF CompareSessions
<1>11. IsRange(p) /\ IsRange(q)
  BY <1>9, <1>10, RangeIsGiven
<1>12. FoundSource("baseline")' /\ FoundSource("candidate")'
  BY <1>1, <1>3, <1>7, <1>10, <1>11 DEF FoundSource
<1>13. \A side \in Sides : FoundSource(side)'
  BY <1>12 DEF Sides
<1> QED BY <1>5, <1>7, <1>8, <1>13 DEF FoundInv

LEMMA BundlesFound ==
  ASSUME NEW alignment \in Alignments, CompareBundles(alignment)
  PROVE  FoundInv'
<1>1. PICK b, c : b = ReceiverSource(received["baseline"]) /\ c = ReceiverSource(received["candidate"])
  OBVIOUS
<1>2. /\ Aligns(b, c, alignment) /\ finding' = Finding(CompareSources(b, c, alignment))
      /\ session' = session /\ received' = received
  BY <1>1 DEF CompareBundles, Compared
<1>3. alignment.anchors \in Int \X Int
  BY EvidenceAssumption
<1>4. FoundOf(finding', b, c)
  BY <1>2, <1>3 DEF FoundOf
<1>5. b.kind = "evidence-bundle" /\ c.kind = "evidence-bundle"
  BY <1>1 DEF ReceiverSource, Source
<1>6. finding'["baseline"].kind = "evidence-bundle" /\ finding'["candidate"].kind = "evidence-bundle"
  BY <1>4, <1>5, FindingNames
<1>7. FindingSource("baseline")' = b /\ FindingSource("candidate")' = c
  BY <1>1, <1>2, <1>6 DEF FindingSource
<1>8. \A side \in Sides : received[side] \notin {Nothing, Refused}
  BY DEF CompareBundles
<1>9. \A side \in Sides : finding'[side].kind # "session" /\ received'[side] \notin {Nothing, Refused}
  BY <1>2, <1>6, <1>8 DEF Sides
<1>10. \A side \in Sides : FoundSource(side)'
  BY <1>9 DEF FoundSource
<1> QED BY <1>4, <1>6, <1>7, <1>10 DEF FoundInv

LEMMA FoundStarts == Init => FoundInv
  BY DEF Init, FoundInv, Is, Nothing

LEMMA FoundStep == DeskInv /\ FoundInv /\ [Next]_vars => FoundInv'
<1> SUFFICES ASSUME DeskInv, FoundInv, [Next]_vars PROVE FoundInv'
  OBVIOUS
<1>1. ASSUME NEW side \in Sides, NEW name \in Series, Open(side, name) PROVE FoundInv'
  <2>1. ~Is(finding) /\ finding' = finding  BY <1>1 DEF Open
  <2> QED BY <2>1 DEF FoundInv
<1>2. ASSUME NEW side \in Sides, NEW range, NEW include, Build(side, range, include) PROVE FoundInv'
  <2>1. ~Is(finding) /\ finding' = finding  BY <1>2 DEF Build
  <2> QED BY <2>1 DEF FoundInv
<1>3. ASSUME NEW side \in Sides, Receive(side) PROVE FoundInv'
  <2>1. PICK got : received' = [received EXCEPT ![side] = got]
    BY <1>3 DEF Receive
  <2>2. received[side] = Nothing /\ finding' = finding /\ session' = session
    BY <1>3 DEF Receive
  <2>3. CASE ~Is(finding)  BY <2>2, <2>3 DEF FoundInv
  <2>4. CASE Is(finding)
    <3>1. \A other \in Sides : finding[other].kind # "session" => received[other] # Nothing
      BY <2>4 DEF FoundInv, FoundSource
    <3>2. \A other \in Sides : finding[other].kind # "session" => received'[other] = received[other]
      BY <2>1, <2>2, <3>1
    <3> QED BY <2>2, <2>4, <3>2, FoundKept
  <2> QED BY <2>3, <2>4
<1>4. ASSUME NEW alignment \in Alignments, CompareSessions(alignment) \/ CompareBundles(alignment) PROVE FoundInv'
  BY <1>4, SessionsFound, BundlesFound
<1>5. CASE UNCHANGED vars
  <2>1. finding' = finding /\ session' = session /\ received' = received  BY <1>5 DEF vars
  <2>2. CASE ~Is(finding)  BY <2>1, <2>2 DEF FoundInv
  <2>3. CASE Is(finding)  BY <2>1, <2>3, FoundKept
  <2> QED BY <2>2, <2>3
<1> QED BY <1>1, <1>2, <1>3, <1>4, <1>5 DEF Next

LEMMA Found == Spec => [](DeskInv /\ FoundInv)
<1>1. Init => FoundInv  BY FoundStarts
<1>2. DeskInv /\ FoundInv /\ [Next]_vars => FoundInv'  BY FoundStep
<1> QED BY <1>1, <1>2, Desk, PTL DEF Spec

\* What was received is the document of the bundle, and its source what the bundle kept of the session's.
LEMMA ReceivedSource ==
  ASSUME DeskInv, NEW side \in Sides, received[side] \notin {Nothing, Refused},
         NEW x, x = ReceiverSource(received[side]),
         NEW w, w = SessionSource(session[side], bundle[side].selection)
  PROVE  /\ received[side].bundle = bundle[side] /\ received[side].incident = x.range
         /\ Sent(x, w, bundle[side].include) /\ IsComparable(x) /\ IsComparable(w) /\ w.has = Support
         /\ x.kind = "evidence-bundle" /\ x.identity = bundle[side]
<1>1. PICK b, s, r : b = bundle[side] /\ s = session[side] /\ r = received[side]
  OBVIOUS
<1>2. b # Nothing /\ r = IF Verifies(b) THEN ReceiverDocument(b) ELSE Refused
  BY <1>1 DEF DeskInv, SideInv
<1>3. r = ReceiverDocument(b)
  BY <1>1, <1>2
<1>4. PICK d, range, include : Built(b, d, s, range, include, Marks.markers, Marks.notes)
  BY <1>1, <1>2 DEF DeskInv, SideInv
<1>5. PICK v : v = SessionSource(s, range)
  OBVIOUS
<1>6. x = ReceiverSource(ReceiverDocument(b))
  BY <1>1, <1>3
<1>7. /\ Sent(x, v, include) /\ IsComparable(v) /\ IsComparable(x)
      /\ x.kind = "evidence-bundle" /\ x.identity = b /\ b.selection = range /\ b.include = include
  BY <1>4, <1>5, <1>6, BundleIsSent
<1>8. v = w
  BY <1>1, <1>5, <1>7
<1>9. w.has = Support
  BY SessionSourceIs
<1>10. r.bundle = b /\ r.incident = b.selection
  BY <1>3 DEF ReceiverDocument
<1>11. x.range = b.selection
  BY <1>6, ReceiverSourceIs
<1> QED BY <1>1, <1>7, <1>8, <1>9, <1>10, <1>11

LEMMA FoundIsComparable ==
  ASSUME DeskInv, NEW side \in Sides, FoundSource(side)
  PROVE  IsComparable(FindingSource(side))
<1>1. CASE finding[side].kind = "session"
  <2>1. PICK s, range : s = session[side] /\ range = finding[side].range
    OBVIOUS
  <2>2. Is(s) /\ IsRange(range) /\ RangeFits(s, range)
    BY <1>1, <2>1 DEF FoundSource
  <2>3. s # Nothing
    BY <2>2 DEF Is, Nothing
  <2>4. PICK d, name : Opened(s, d, name)
    BY <2>1, <2>3 DEF DeskInv, SideInv
  <2>5. IsDocument(d) /\ Valid(d) /\ s = ParseSession(d)
    BY <2>4, EvidenceAssumption DEF Opened
  <2>6. PICK x : x = SessionSource(s, range)
    OBVIOUS
  <2>7. IsComparable(x)
    BY <2>2, <2>5, <2>6, SessionIsComparable
  <2> QED BY <1>1, <2>1, <2>6, <2>7 DEF FindingSource
<1>2. CASE finding[side].kind # "session"
  <2>1. received[side] \notin {Nothing, Refused}
    BY <1>2 DEF FoundSource
  <2>2. IsComparable(ReceiverSource(received[side]))
    BY <2>1, ReceivedSource
  <2> QED BY <1>2, <2>2 DEF FindingSource
<1> QED BY <1>1, <1>2

\* Every finding passes its checks, and is mirrored by the exchange of its sources.
LEMMA FoundHolds ==
  ASSUME DeskInv, FoundInv, Is(finding)
  PROVE  FindingHolds(finding) /\ ExchangeMirrors
<1>1. PICK b, c : b = FindingSource("baseline") /\ c = FindingSource("candidate")
  OBVIOUS
<1>2. IsComparable(b) /\ IsComparable(c)
  <2>1. "baseline" \in Sides /\ "candidate" \in Sides
    BY DEF Sides
  <2>2. FoundSource("baseline") /\ FoundSource("candidate")
    BY <2>1 DEF FoundInv
  <2> QED BY <1>1, <2>1, <2>2, FoundIsComparable
<1>3. PICK requested : /\ requested.anchors \in Int \X Int /\ Aligns(b, c, requested)
                       /\ finding = Finding(CompareSources(b, c, requested))
  BY <1>1 DEF FoundInv, FoundOf
<1>4. FindingHolds(finding) /\ Measured(finding)
  BY <1>2, <1>3, FindingIsSound
<1>5. PICK model : model = CompareSources(b, c, requested)
  OBVIOUS
<1>6. /\ finding.alignment = model.alignment /\ finding.metrics = model.metrics
      /\ finding.assessment = model.assessment
  BY <1>3, <1>5 DEF Finding
<1>7. Measured(model)
  BY <1>4, <1>6 DEF Measured
<1>8. PICK exchanged : exchanged = CompareSources(c, b, Exchanged(model.alignment))
  OBVIOUS
<1>9. exchanged.assessment = Mirror(model.assessment)
  BY <1>5, <1>7, <1>8, CompareExchanged
<1>10. ExchangeMirrors
  BY <1>1, <1>6, <1>8, <1>9 DEF ExchangeMirrors
<1> QED BY <1>4, <1>10

\* A finding of bundles is reproduced by a case that holds them, cites ranges of both, and is the
\* finding of the sessions where the bundles leave nothing out.
LEMMA FoundReproduces ==
  ASSUME DeskInv, FoundInv, Is(finding), finding.baseline.kind = "evidence-bundle",
         NEW whole,
         whole = CompareSources(SessionSource(session["baseline"], bundle["baseline"].selection),
                                SessionSource(session["candidate"], bundle["candidate"].selection), finding.alignment)
  PROVE  /\ \A side \in Sides : RangeIsCited(received[side], finding.alignment[side])
         /\ bundle["baseline"] # bundle["candidate"] =>
              ComparisonReproduces({received[side] : side \in Sides}, finding)
         /\ (\A side \in Sides : bundle[side].include = Groups) =>
              whole.areas = finding.areas /\ whole.metrics = finding.metrics /\ whole.assessment = finding.assessment
<1>1. "baseline" \in Sides /\ "candidate" \in Sides
  BY DEF Sides
<1>2. finding["baseline"].kind # "session" /\ finding["candidate"].kind # "session"
  BY DEF FoundInv
<1>3. received["baseline"] \notin {Nothing, Refused} /\ received["candidate"] \notin {Nothing, Refused}
  BY <1>1, <1>2 DEF FoundInv, FoundSource
<1>4. PICK b, c, v, w : /\ b = ReceiverSource(received["baseline"]) /\ c = ReceiverSource(received["candidate"])
                        /\ v = SessionSource(session["baseline"], bundle["baseline"].selection)
                        /\ w = SessionSource(session["candidate"], bundle["candidate"].selection)
  OBVIOUS
<1>5. /\ received["baseline"].bundle = bundle["baseline"] /\ received["baseline"].incident = b.range
      /\ Sent(b, v, bundle["baseline"].include) /\ IsComparable(b) /\ IsComparable(v) /\ v.has = Support
      /\ b.kind = "evidence-bundle" /\ b.identity = bundle["baseline"]
  BY <1>1, <1>3, <1>4, ReceivedSource
<1>6. /\ received["candidate"].bundle = bundle["candidate"] /\ received["candidate"].incident = c.range
      /\ Sent(c, w, bundle["candidate"].include) /\ IsComparable(c) /\ IsComparable(w) /\ w.has = Support
      /\ c.kind = "evidence-bundle" /\ c.identity = bundle["candidate"]
  BY <1>1, <1>3, <1>4, ReceivedSource
<1>7. FoundOf(finding, b, c)
  BY <1>2, <1>4 DEF FoundInv, FindingSource
<1>8. PICK requested : /\ requested.anchors \in Int \X Int /\ Aligns(b, c, requested)
                       /\ finding = Finding(CompareSources(b, c, requested))
  BY <1>7 DEF FoundOf
<1>9. PICK al, model : al = ResolveAlignment(b, c, requested) /\ model = CompareSources(b, c, requested)
  OBVIOUS
<1>10. /\ finding.alignment = al /\ finding.areas = model.areas /\ finding.metrics = model.metrics
       /\ finding.assessment = model.assessment
  BY <1>8, <1>9 DEF Finding, CompareSources
<1>11. Aligns(b, c, al) /\ CompareSources(b, c, al) = model
  BY <1>8, <1>9, ResolvedAgain
<1>12. \A side \in Sides : RangeIsCited(received[side], finding.alignment[side])
  <2>1. IsRange(b.range) /\ IsRange(c.range)
    BY <1>5, <1>6 DEF IsComparable
  <2>2. Anchors(b, c, requested)[1] \in Int /\ Anchors(b, c, requested)[2] \in Int
    BY <1>8, <2>1, AnchorFacts
  <2>3. RangeIsCited([incident |-> b.range], al.baseline) /\ RangeIsCited([incident |-> c.range], al.candidate)
    BY <1>8, <1>9, <2>1, <2>2, ComparedRangesAreCited
  <2>4. RangeIsCited(received["baseline"], al["baseline"]) /\ RangeIsCited(received["candidate"], al["candidate"])
    BY <1>5, <1>6, <2>3 DEF RangeIsCited
  <2> QED BY <1>10, <2>4 DEF Sides
<1>13. ASSUME bundle["baseline"] # bundle["candidate"]
       PROVE  ComparisonReproduces({received[side] : side \in Sides}, finding)
  <2>1. PICK documents : documents = {received[side] : side \in Sides}
    OBVIOUS
  <2>2. PICK p, q : p = received["baseline"] /\ q = received["candidate"]
    OBVIOUS
  <2>3. p \in documents /\ q \in documents
    BY <1>1, <2>1, <2>2
  <2>4. /\ finding.baseline.kind = "evidence-bundle" /\ finding.candidate.kind = "evidence-bundle"
        /\ finding.baseline.identity = bundle["baseline"] /\ finding.candidate.identity = bundle["candidate"]
    BY <1>5, <1>6, <1>7, FindingNames
  <2>5. p.bundle = finding.baseline.identity /\ q.bundle = finding.candidate.identity
    BY <1>5, <1>6, <2>2, <2>4
  <2>6. Aligns(ReceiverSource(p), ReceiverSource(q), finding.alignment)
    BY <1>4, <1>10, <1>11, <2>2
  <2>7. Finding(CompareSources(ReceiverSource(p), ReceiverSource(q), finding.alignment)) = finding
    BY <1>4, <1>8, <1>9, <1>10, <1>11, <2>2
  <2>8. FindingHolds(finding)
    BY FoundHolds
  <2>9. PICK named, others : /\ named = {d \in documents : d.bundle = finding.baseline.identity}
                             /\ others = {d \in documents : d.bundle = finding.candidate.identity}
    OBVIOUS
  <2>10. p \in named /\ q \in others
    BY <2>3, <2>5, <2>9
  <2>11. finding.baseline.identity # finding.candidate.identity
    BY <1>13, <2>4
  <2>12. ComparisonReproduces(documents, finding)
    BY <2>4, <2>6, <2>7, <2>8, <2>9, <2>10, <2>11 DEF ComparisonReproduces
  <2> QED BY <2>1, <2>12
<1>14. ASSUME \A side \in Sides : bundle[side].include = Groups
       PROVE  whole.areas = finding.areas /\ whole.metrics = finding.metrics /\ whole.assessment = finding.assessment
  <2>1. Sent(b, v, Groups) /\ Sent(c, w, Groups)
    BY <1>1, <1>5, <1>6, <1>14
  <2>2. SameEvidence(b, v) /\ SameEvidence(c, w)
    BY <1>5, <1>6, <2>1, SentWhole
  <2>3. whole = CompareSources(v, w, al) /\ model = CompareSources(b, c, al)
    BY <1>4, <1>10, <1>11
  <2>4. whole.areas = model.areas /\ whole.metrics = model.metrics /\ whole.assessment = model.assessment
    BY <1>5, <1>6, <2>2, <2>3, WholeCompares
  <2> QED BY <1>10, <2>4
<1> QED BY <1>12, <1>13, <1>14

LEMMA DeskReproduces == DeskInv /\ FoundInv => FindingReproduces
<1> SUFFICES ASSUME DeskInv, FoundInv, Is(finding) PROVE FindingReproduces
  BY DEF FindingReproduces
<1>1. FindingHolds(finding) /\ ExchangeMirrors
  BY FoundHolds
<1>2. PICK whole :
        whole = CompareSources(SessionSource(session["baseline"], bundle["baseline"].selection),
                               SessionSource(session["candidate"], bundle["candidate"].selection), finding.alignment)
  OBVIOUS
<1>3. finding.baseline.kind = "evidence-bundle" =>
        /\ \A side \in Sides : RangeIsCited(received[side], finding.alignment[side])
        /\ bundle["baseline"] # bundle["candidate"] =>
             ComparisonReproduces({received[side] : side \in Sides}, finding)
        /\ (\A side \in Sides : bundle[side].include = Groups) =>
             whole.areas = finding.areas /\ whole.metrics = finding.metrics /\ whole.assessment = finding.assessment
  BY <1>2, FoundReproduces
<1> QED BY <1>1, <1>2, <1>3 DEF FindingReproduces

LEMMA DeskMirrors == DeskInv /\ FoundInv => ExchangeMirrors
<1>1. CASE Is(finding)
  BY <1>1, FoundHolds
<1>2. CASE ~Is(finding)
  BY <1>2 DEF ExchangeMirrors
<1> QED BY <1>1, <1>2

\* Whatever sessions or bundles were compared, aligned in whatever way, exchanging the sources of the
\* finding mirrors its assessment (compareSources of comparison.ts).
THEOREM FindingsAreMirrored == Spec => []ExchangeMirrors
  BY Found, DeskMirrors, PTL

\* A finding passes the checks it is stored under, and where it is one of bundles, a case that holds them
\* makes it again from the alignment it states, can cite the ranges it compares, and had bundles that
\* leave nothing out been compared as sessions, it would be the same (comparison.ts, case-verifier.ts:70).
THEOREM FindingsReproduce == Spec => []FindingReproduces
  BY Found, DeskReproduces, PTL

=============================================================================
