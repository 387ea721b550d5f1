-------------------------------- MODULE Pipes --------------------------------
(***************************************************************************)
(* Facts about a pipe, a sequence of lines: what it has, has once, or has  *)
(* before others, after a line is written, read, or all are lost.          *)
(***************************************************************************)
EXTENDS Naturals, Sequences, TLAPS

In(s, x)   == \E i \in DOMAIN s : s[i] = x
Has(s, L)  == \E i \in DOMAIN s : s[i] \in L
Once(s, L) == \A i, j \in DOMAIN s : s[i] \in L /\ s[j] \in L => i = j
\* Lines of K come before those of L.
Before(s, K, L) == \A i, j \in DOMAIN s : s[i] \in K /\ s[j] \in L => i < j

\* A line is written to a pipe.
LEMMA Appended ==
    ASSUME NEW S, NEW s \in Seq(S), NEW x \in S
    PROVE  /\ Append(s, x) \in Seq(S)
           /\ \A y : In(Append(s, x), y) <=> In(s, y) \/ y = x
           /\ \A L : Has(Append(s, x), L) <=> Has(s, L) \/ x \in L
           /\ \A L : Once(s, L) /\ (x \in L => ~Has(s, L)) => Once(Append(s, x), L)
           /\ \A K, L : Before(s, K, L) /\ (x \in K => ~Has(s, L) /\ x \notin L)
                            => Before(Append(s, x), K, L)
<1> DEFINE t == Append(s, x)
<1>1. /\ t \in Seq(S) /\ DOMAIN t = 1..(Len(s) + 1) /\ DOMAIN s = 1..Len(s) /\ Len(s) \in Nat
      /\ \A i \in DOMAIN s : t[i] = s[i]
      /\ t[Len(s) + 1] = x
  OBVIOUS
<1> HIDE DEF t
<1>2. \A i : i \in DOMAIN t <=> i \in DOMAIN s \/ i = Len(s) + 1
  BY <1>1
<1>3. \A y : In(t, y) <=> In(s, y) \/ y = x
  BY <1>1, <1>2 DEF In
<1>4. \A L : Has(t, L) <=> Has(s, L) \/ x \in L
  BY <1>1, <1>2 DEF Has
<1>5. \A L : Once(s, L) /\ (x \in L => ~Has(s, L)) => Once(t, L)
  BY <1>1, <1>2 DEF Once, Has
<1>6. \A K, L : Before(s, K, L) /\ (x \in K => ~Has(s, L) /\ x \notin L) => Before(t, K, L)
  BY <1>1, <1>2 DEF Before, Has
<1> QED BY <1>1, <1>3, <1>4, <1>5, <1>6 DEF t

\* The oldest line is read.
LEMMA Taken ==
    ASSUME NEW S, NEW s \in Seq(S), s # <<>>
    PROVE  /\ Tail(s) \in Seq(S) /\ Head(s) \in S /\ In(s, Head(s))
           /\ \A y : In(Tail(s), y) => In(s, y)
           /\ \A L : Has(Tail(s), L) => Has(s, L)
           /\ \A L : Head(s) \in L => Has(s, L)
           /\ \A L : Has(s, L) => Has(Tail(s), L) \/ Head(s) \in L
           /\ \A L : Once(s, L) => Once(Tail(s), L)
           /\ \A L : Once(s, L) /\ Head(s) \in L => ~Has(Tail(s), L)
           /\ \A K, L : Before(s, K, L) => Before(Tail(s), K, L)
           /\ \A K, L : Before(s, K, L) /\ Head(s) \in L => ~Has(Tail(s), K)
<1> DEFINE t == Tail(s)
<1>1. /\ t \in Seq(S) /\ DOMAIN t = 1..(Len(s) - 1) /\ DOMAIN s = 1..Len(s)
      /\ Len(s) \in Nat \ {0}
      /\ \A i \in DOMAIN t : t[i] = s[i + 1]
      /\ Head(s) = s[1] /\ Head(s) \in S
  OBVIOUS
<1> HIDE DEF t
<1>2. /\ \A i \in DOMAIN t : i + 1 \in DOMAIN s /\ i \in Nat \ {0}
      /\ \A i \in DOMAIN s : i = 1 \/ i - 1 \in DOMAIN t
      /\ \A i \in DOMAIN s : i = 1 \/ t[i - 1] = s[i]
      /\ 1 \in DOMAIN s
  BY <1>1
<1>3. In(s, Head(s)) /\ \A y : In(t, y) => In(s, y)
  BY <1>1, <1>2 DEF In
<1>4. /\ \A L : Has(t, L) => Has(s, L)
      /\ \A L : Head(s) \in L => Has(s, L)
      /\ \A L : Has(s, L) => Has(t, L) \/ Head(s) \in L
  BY <1>1, <1>2 DEF Has
<1>5. \A L : Once(s, L) => Once(t, L)
  BY <1>1, <1>2 DEF Once
<1>6. \A L : Once(s, L) /\ Head(s) \in L => ~Has(t, L)
  BY <1>1, <1>2 DEF Once, Has
<1>7. \A K, L : Before(s, K, L) => Before(t, K, L)
  BY <1>1, <1>2 DEF Before
<1>8. \A K, L : Before(s, K, L) /\ Head(s) \in L => ~Has(t, K)
  BY <1>1, <1>2 DEF Before, Has
<1> QED BY <1>1, <1>3, <1>4, <1>5, <1>6, <1>7, <1>8 DEF t

\* No line, or two, are written.
LEMMA Concat ==
    ASSUME NEW S, NEW s \in Seq(S), NEW x \in S, NEW y \in S
    PROVE  /\ s \o <<>> = s
           /\ s \o <<x>> = Append(s, x)
           /\ s \o <<x, y>> = Append(Append(s, x), y)
OBVIOUS

\* An empty pipe.
LEMMA Emptied ==
    /\ \A y : ~In(<<>>, y)
    /\ \A L : ~Has(<<>>, L) /\ Once(<<>>, L)
    /\ \A K, L : Before(<<>>, K, L)
BY DEF In, Has, Once, Before
=============================================================================
