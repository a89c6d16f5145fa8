------------------------- MODULE StreamCodecsProofs -------------------------
(***************************************************************************)
(* Theorems about StreamCodecs: whatever the streams' words, the messages, *)
(* the segments TCP cuts the streams into and the order they arrive in,    *)
(*   - the frame decoders read the frames that were sent (FramesIntact),   *)
(*   - the Host rewrite leaves the rest of a request as it was             *)
(*     (RequestIntact),                                                    *)
(*   - the client logs a request as often as its code does, and a plain   *)
(*     one once its answer is over (LoggedOnce),                           *)
(*   - the relay passes on the body of the answer (AnswerRelayed).         *)
(* Each of them follows from an inductive invariant that says what the     *)
(* reader's state is after the first n words of the stream, whatever       *)
(* segments brought them: FramesInv, RequestInv, LoggedInv, RelayInv.      *)
(*                                                                         *)
(* A stream is known by where its parts stand in it (Holds, Places, Laid), *)
(* a buffer by the window of the stream it shows (Window), and a loop of   *)
(* the code by one pass and the fixed point it stops at (Loop).            *)
(***************************************************************************)
EXTENDS StreamCodecs, FiniteSetTheorems, SequenceTheorems, TLAPS

-----------------------------------------------------------------------------
\* Induction over the naturals and loops that stop at a fixed point
\*
\* The well-foundedness of the finite sets of naturals gives a least element, that
\* gives induction, and induction gives the function a loop is: the library's own
\* induction theorems take an operator and cannot be cited.

\* Every set of naturals that is not empty has a least element.
LEMMA LeastNat ==
  ASSUME NEW T \in SUBSET Nat, T # {}
  PROVE  \E n \in T : \A m \in T : n <= m
<1> DEFINE R == StrictSubsetOrdering(Nat)
           F == FiniteSubsetsOf(Nat)
           I == {1..n : n \in T}
<1>1. IsWellFoundedOn(R, F)
  BY FS_StrictSubsetOrderingWellFounded
<1>2. I \subseteq F /\ I # {}
  <2>1. ASSUME NEW n \in Nat PROVE IsFiniteSet(1..n) /\ 1..n \subseteq Nat
    BY FS_Interval
  <2> QED
    BY <2>1 DEF FiniteSubsetsOf
<1> HIDE DEF R, F
<1>3. \E x \in I : \A y \in I : <<y, x>> \notin R
  BY <1>1, <1>2, WFMin
<1>4. PICK n \in T : \A m \in T : <<1..m, 1..n>> \notin R
  BY <1>3
<1> SUFFICES ASSUME NEW m \in T, ~(n <= m) PROVE FALSE
  OBVIOUS
<1>5. n \in Nat /\ m \in Nat /\ m < n
  OBVIOUS
<1>6. 1..m \subseteq 1..n /\ n \in 1..n /\ n \notin 1..m
  BY <1>5
<1>7. <<1..m, 1..n>> \in R
  BY <1>5, <1>6 DEF R, StrictSubsetOrdering
<1> QED
  BY <1>4, <1>7

\* Induction over the naturals, for a set instead of an operator.
LEMMA Induction ==
  ASSUME NEW T \in SUBSET Nat, 0 \in T, \A n \in T : n + 1 \in T
  PROVE  T = Nat
<1> SUFFICES ASSUME Nat \ T # {} PROVE FALSE
  OBVIOUS
<1>1. PICK n \in Nat \ T : \A m \in Nat \ T : n <= m
  BY LeastNat
<1>2. n # 0 /\ n - 1 \in Nat /\ n - 1 \in T
  BY <1>1
<1> QED
  BY <1>1, <1>2

\* h is what iterating the function g from a gives.
Iterates(h, S, g, a) ==
  h \in [Nat -> S] /\ h[0] = a /\ \A n \in Nat : h[n + 1] = g[h[n]]

\* f makes the same steps as g, as long as it stays in S.
Follows(f, S, g, a) ==
  f[0] = a /\ \A n \in Nat : f[n] \in S => f[n + 1] = g[f[n]]

\* Every step of g makes smaller, or changes nothing.
Shrinks(S, g, size) ==
  size \in [S -> Nat] /\ \A p \in S : g[p] = p \/ size[g[p]] < size[p]

\* The function that applies g again and again to a exists.
LEMMA Iteration ==
  ASSUME NEW S, NEW a \in S, NEW g \in [S -> S]
  PROVE  \E h : Iterates(h, S, g, a)
<1> DEFINE Upto(n) == {p \in [Nat -> S] : p[0] = a /\ \A i \in Nat : i < n => p[i + 1] = g[p[i]]}
           T == {n \in Nat : Upto(n) # {}}
           E == {n \in Nat : \A p, q \in Upto(n) : p[n] = q[n]}
<1>1. T = Nat
  <2>1. 0 \in T
    <3>1. [i \in Nat |-> a] \in Upto(0)
      OBVIOUS
    <3> QED
      BY <3>1
  <2>2. ASSUME NEW n \in T PROVE n + 1 \in T
    <3>1. PICK p \in Upto(n) : TRUE
      OBVIOUS
    <3> DEFINE q == [i \in Nat |-> IF i = n + 1 THEN g[p[n]] ELSE p[i]]
    <3>2. q \in [Nat -> S] /\ q[0] = a
      BY <3>1
    <3>3. ASSUME NEW i \in Nat, i < n + 1 PROVE q[i + 1] = g[q[i]]
      BY <3>1, <3>3
    <3>4. q \in Upto(n + 1)
      BY <3>2, <3>3
    <3> QED
      BY <3>4
  <2> HIDE DEF T
  <2>3. T \subseteq Nat
    BY DEF T
  <2> QED
    BY <2>1, <2>2, <2>3, Induction
<1>2. E = Nat
  <2>1. 0 \in E
    OBVIOUS
  <2>2. ASSUME NEW n \in E PROVE n + 1 \in E
    <3>1. SUFFICES ASSUME NEW p \in Upto(n + 1), NEW q \in Upto(n + 1)
                   PROVE  p[n + 1] = q[n + 1]
      OBVIOUS
    <3>2. p \in Upto(n) /\ q \in Upto(n)
      OBVIOUS
    <3>3. p[n] = q[n]
      BY <3>2
    <3> QED
      BY <3>3
  <2> HIDE DEF E
  <2>3. E \subseteq Nat
    BY DEF E
  <2> QED
    BY <2>1, <2>2, <2>3, Induction
<1> DEFINE f == [n \in Nat |-> CHOOSE p \in Upto(n) : TRUE]
           h == [n \in Nat |-> f[n][n]]
<1>3. ASSUME NEW n \in Nat PROVE f[n] \in Upto(n)
  <2>1. Upto(n) # {}
    BY <1>1
  <2> QED
    BY <2>1
<1> HIDE DEF f
<1>4. h \in [Nat -> S] /\ h[0] = a
  BY <1>3
<1>5. ASSUME NEW n \in Nat PROVE h[n + 1] = g[h[n]]
  <2>1. f[n + 1] \in Upto(n + 1) /\ f[n] \in Upto(n)
    BY <1>3
  <2>2. f[n + 1] \in Upto(n) /\ f[n + 1][n + 1] = g[f[n + 1][n]]
    BY <2>1
  <2>3. f[n + 1][n] = f[n][n]
    BY <1>2, <2>1, <2>2
  <2> QED
    BY <2>2, <2>3
<1> QED
  BY <1>4, <1>5 DEF Iterates

\* A loop whose steps shrink what they change stops at a fixed point before size
\* steps are over.
LEMMA Loop ==
  ASSUME NEW S, NEW a \in S, NEW g \in [S -> S], NEW size, Shrinks(S, g, size),
         NEW f, Follows(f, S, g, a)
  PROVE  f[size[a]] \in S /\ g[f[size[a]]] = f[size[a]]
<1>0. PICK h : Iterates(h, S, g, a)
  BY Iteration
<1>1. h \in [Nat -> S] /\ h[0] = a /\ \A n \in Nat : h[n + 1] = g[h[n]]
  BY <1>0 DEF Iterates
<1> USE DEF Shrinks
<1>2. g[h[size[a]]] = h[size[a]]
  <2> DEFINE T == {n \in Nat : g[h[n]] = h[n] \/ size[h[n]] + n <= size[a]}
  <2>1. 0 \in T
    BY <1>1
  <2>2. ASSUME NEW n \in T PROVE n + 1 \in T
    <3>1. n \in Nat /\ h[n] \in S /\ h[n + 1] = g[h[n]]
      BY <1>1
    <3>2. CASE g[h[n]] = h[n]
      BY <3>1, <3>2
    <3>3. CASE g[h[n]] # h[n]
      <4>1. size[h[n]] \in Nat /\ size[h[n + 1]] \in Nat /\ size[a] \in Nat
        BY <3>1
      <4>2. size[h[n + 1]] < size[h[n]]
        BY <3>1, <3>3
      <4>3. size[h[n]] + n <= size[a]
        BY <3>3
      <4>4. size[h[n + 1]] + (n + 1) <= size[a]
        BY <3>1, <4>1, <4>2, <4>3
      <4> QED
        BY <3>1, <4>4
    <3> QED
      BY <3>2, <3>3
  <2> HIDE DEF T
  <2>3. T \subseteq Nat
    BY DEF T
  <2>4. size[a] \in T
    BY <2>1, <2>2, <2>3, Induction
  <2>5. h[size[a]] \in S
    BY <1>1
  <2>6. g[h[size[a]]] \in S
    BY <2>5
  <2> QED
    BY <2>4, <2>5, <2>6 DEF T
<1>3. \A n \in Nat : f[n] = h[n]
  <2> DEFINE T == {n \in Nat : f[n] = h[n]}
  <2>1. 0 \in T
    BY <1>1 DEF Follows
  <2>2. ASSUME NEW n \in T PROVE n + 1 \in T
    BY <1>1 DEF Follows
  <2> HIDE DEF T
  <2>3. T \subseteq Nat
    BY DEF T
  <2>4. T = Nat
    BY <2>1, <2>2, <2>3, Induction
  <2> QED
    BY <2>4 DEF T
<1> QED
  BY <1>1, <1>2, <1>3

\* push (ws-framing.js) stops where a pass changes nothing: every other pass shortens
\* the buffer.
LEMMA DrainLoop ==
  ASSUME NEW S, NEW a \in S, Len(a.buf) \in Nat,
         NEW size \in [S -> Nat], size[a] = Len(a.buf),
         \A p \in S : DrainPass(p) \in S /\ (DrainPass(p) = p \/ size[DrainPass(p)] < size[p])
  PROVE  Drain(a) \in S /\ DrainPass(Drain(a)) = Drain(a)
<1> DEFINE g == [p \in S |-> DrainPass(p)]
           pass[n \in Nat] == IF n = 0 THEN a ELSE DrainPass(pass[n - 1])
<1>1. g \in [S -> S] /\ \A p \in S : g[p] = DrainPass(p)
  OBVIOUS
<1>2. PICK h : Iterates(h, S, g, a)
  BY <1>1, Iteration
<1>3. h \in [Nat -> S] /\ h[0] = a /\ \A n \in Nat : h[n + 1] = DrainPass(h[n])
  BY <1>1, <1>2 DEF Iterates
<1>4. h = [n \in Nat |-> IF n = 0 THEN a ELSE DrainPass(h[n - 1])]
  <2>1. ASSUME NEW n \in Nat PROVE h[n] = IF n = 0 THEN a ELSE DrainPass(h[n - 1])
    <3>1. CASE n = 0
      BY <1>3, <3>1
    <3>2. CASE n # 0
      <4>1. n - 1 \in Nat /\ (n - 1) + 1 = n
        BY <3>2
      <4>2. h[(n - 1) + 1] = DrainPass(h[n - 1])
        BY <1>3, <4>1
      <4> QED
        BY <3>2, <4>1, <4>2
    <3> QED
      BY <3>1, <3>2
  <2> QED
    BY <1>3, <2>1
<1>5. pass = [n \in Nat |-> IF n = 0 THEN a ELSE DrainPass(pass[n - 1])]
  BY <1>4
<1>6. Drain(a) = pass[Len(a.buf)]
  BY DEF Drain
<1> HIDE DEF pass, g
<1>7. Follows(pass, S, g, a)
  <2>1. ASSUME NEW n \in Nat PROVE pass[n + 1] = DrainPass(pass[n])
    <3>1. n + 1 \in Nat /\ n + 1 # 0 /\ (n + 1) - 1 = n
      OBVIOUS
    <3>2. pass[n + 1] = IF n + 1 = 0 THEN a ELSE DrainPass(pass[(n + 1) - 1])
      BY <1>5, <3>1
    <3> QED
      BY <3>1, <3>2
  <2>2. pass[0] = a
    BY <1>5
  <2> QED
    BY <1>1, <2>1, <2>2 DEF Follows
<1>8. Shrinks(S, g, size)
  BY <1>1 DEF Shrinks
<1>9. pass[size[a]] \in S /\ g[pass[size[a]]] = pass[size[a]]
  BY <1>1, <1>7, <1>8, Loop
<1> QED
  BY <1>1, <1>6, <1>9

-----------------------------------------------------------------------------
\* Sequences, the numbers in a frame's header, the mask

\* The bytes of a stream: the two header bytes, and the plain ones; the bits of a payload.
Byte == [fin : BOOLEAN, opcode : Nat] \cup [masked : BOOLEAN, code : Nat] \cup Nat
Bit == {0, 1}

\* Quotient and remainder.
LEMMA DivMod ==
  ASSUME NEW b \in Nat \ {0}, NEW n \in Nat
  PROVE  n = b * (n \div b) + (n % b) /\ n % b \in 0..(b - 1) /\ n \div b \in Nat
OBVIOUS

\* A product bounds the quotient.
LEMMA DivBelow ==
  ASSUME NEW b \in Nat \ {0}, NEW c \in Nat, NEW n \in Nat, n < b * c
  PROVE  n \div b < c
<1>1. n \div b \in Nat /\ b * (n \div b) <= n
  BY DivMod
<1>2. SUFFICES ASSUME n \div b >= c PROVE FALSE
  BY <1>1
<1>3. b * (n \div b) >= b * c
  BY <1>1, <1>2
<1> QED
  BY <1>1, <1>3

\* The bases of the length fields are at least 2.
LEMMA Bases == Base \in Nat \ {0, 1} /\ Base2 \in Nat \ {0} /\ Base4 \in Nat \ {0}
<1>1. Base \in Nat \ {0, 1}
  BY FramingAssumption
<1>2. Base * Base \in Nat \ {0}
  BY <1>1
<1>3. Base2 \in Nat \ {0}
  BY <1>2 DEF Base2
<1>4. Base2 * Base2 \in Nat \ {0}
  BY <1>3
<1> QED
  BY <1>1, <1>3, <1>4 DEF Base4

\* Sums of lengths, as equations that the provers do not take for ones about domains
LEMMA SumRewritten ==
  ASSUME NEW a \in Nat, NEW b \in Nat, NEW c \in Nat, NEW d \in Nat,
         a <= b, b <= a, c <= a + d, a + d <= c
  PROVE  b <= c /\ c <= b + d /\ b + d <= c
OBVIOUS

\* Concatenation as an operator of its own, which the provers do not expand
Cat(u, v) == u \o v

\* w is u with v behind it.
Joins(w, T, u, v) ==
  /\ w \in Seq(T) /\ Len(w) \in Nat
  /\ Len(w) <= Len(u) + Len(v) /\ Len(u) + Len(v) <= Len(w)
  /\ \A i \in 1..Len(u) : w[i] = u[i]
  /\ \A i \in 1..Len(v) : w[Len(u) + i] = v[i]

\* Cat joins two sequences.
LEMMA Concat ==
  ASSUME NEW T, NEW u \in Seq(T), NEW v \in Seq(T)
  PROVE  Joins(Cat(u, v), T, u, v)
<1> DEFINE x == u \o v
<1>1. x \in Seq(T) /\ Len(x) = Len(u) + Len(v)
      /\ \A i \in 1..(Len(u) + Len(v)) : x[i] = IF i <= Len(u) THEN u[i] ELSE v[i - Len(u)]
  BY ConcatProperties
<1>2. Len(u) \in Nat /\ Len(v) \in Nat
  OBVIOUS
<1> HIDE DEF x
<1>3. ASSUME NEW i \in 1..Len(v) PROVE x[Len(u) + i] = v[i]
  <2>1. Len(u) + i \in 1..(Len(u) + Len(v)) /\ ~(Len(u) + i <= Len(u)) /\ (Len(u) + i) - Len(u) = i
    BY <1>2
  <2> QED
    BY <1>1, <2>1
<1>4. Joins(x, T, u, v)
  BY <1>1, <1>2, <1>3 DEF Joins
<1> QED
  BY <1>4 DEF x, Cat

\* Two bytes and two more are four.
LEMMA Pairs ==
  ASSUME NEW a, NEW b, NEW c, NEW d
  PROVE  <<a,b>> \o <<c,d>> = <<a,b,c,d>>
<1> DEFINE T == {a,b,c,d}
    x == <<a,b>> y == <<c,d>> z == <<a,b,c,d>>
<1>1. /\ x \in Seq(T) /\ y \in Seq(T) /\ z \in Seq(T)
      /\ Len(x) <= 2 /\ Len(x) >= 2 /\ Len(y) <= 2 /\ Len(y) >= 2 /\ Len(z) <= 4 /\ Len(z) >= 4
 OBVIOUS
<1>2. x[1] = a /\ x[2] = b /\ y[1] = c /\ y[2] = d /\ z[1] = a /\ z[2] = b /\ z[3] = c /\ z[4] = d
 OBVIOUS
<1> HIDE DEF x, y, z, T
<1>3. Len(x \o y) = Len(z) /\ x \o y \in Seq(T)
  BY <1>1
<1>4. \A i \in 1..4 : (x \o y)[i] = z[i]
  BY <1>1, <1>2
<1>5. \A i \in 1..Len(x \o y) : (x \o y)[i] = z[i]
  BY <1>1, <1>3, <1>4
<1>6. x \o y = z
  BY <1>1, <1>3, <1>5, SeqEqual
<1> QED BY <1>6 DEF x, y, z

\* Four bytes and four more are eight.
LEMMA Quads ==
  ASSUME NEW a, NEW b, NEW c, NEW d, NEW e, NEW f, NEW g, NEW h
  PROVE  <<a,b,c,d>> \o <<e,f,g,h>> = <<a,b,c,d,e,f,g,h>>
<1> DEFINE T == {a,b,c,d,e,f,g,h}
    x == <<a,b,c,d>> y == <<e,f,g,h>> z == <<a,b,c,d,e,f,g,h>>
<1>1. /\ x \in Seq(T) /\ y \in Seq(T) /\ z \in Seq(T)
      /\ Len(x) <= 4 /\ Len(x) >= 4 /\ Len(y) <= 4 /\ Len(y) >= 4 /\ Len(z) <= 8 /\ Len(z) >= 8
 OBVIOUS
<1>2. x[1] = a /\ x[2] = b /\ x[3] = c /\ x[4] = d
 OBVIOUS
<1>2a. y[1] = e /\ y[2] = f /\ y[3] = g /\ y[4] = h
 OBVIOUS
<1>2b. z[1] = a /\ z[2] = b /\ z[3] = c /\ z[4] = d /\ z[5] = e /\ z[6] = f /\ z[7] = g /\ z[8] = h
 OBVIOUS
<1> HIDE DEF x, y, z, T
<1>3. Len(x \o y) = Len(z) /\ x \o y \in Seq(T)
  BY <1>1
<1>4. \A i \in 1..8 : (x \o y)[i] = z[i]
  BY <1>1, <1>2, <1>2a, <1>2b
<1>5. \A i \in 1..Len(x \o y) : (x \o y)[i] = z[i]
  BY <1>1, <1>3, <1>4
<1>6. x \o y = z
  BY <1>1, <1>3, <1>5, SeqEqual
<1> QED BY <1>6 DEF x, y, z

\* writeUInt16BE and readUInt16BE are inverse where the number fits.
LEMMA Length16 ==
  ASSUME NEW n \in Nat
  PROVE  /\ UInt16(n) \in Seq(Byte) /\ 2 <= Len(UInt16(n)) /\ Len(UInt16(n)) <= 2
         /\ \A f : (\A i \in 1..2 : f[2 + i] = UInt16(n)[i]) => ReadUInt16(f, 3) = n
<1>1. n \div Base \in Nat /\ n % Base \in Nat /\ n = Base * (n \div Base) + (n % Base)
  BY DivMod, Bases
<1>2. n \div Base \in Byte /\ n % Base \in Byte
  BY <1>1 DEF Byte
<1>3. /\ UInt16(n) \in Seq(Byte) /\ 2 <= Len(UInt16(n)) /\ Len(UInt16(n)) <= 2
      /\ UInt16(n)[1] = n \div Base /\ UInt16(n)[2] = n % Base
  BY <1>2 DEF UInt16
<1>4. ASSUME NEW f, \A i \in 1..2 : f[2 + i] = UInt16(n)[i] PROVE ReadUInt16(f, 3) = n
  <2>1. f[3] = n \div Base /\ f[4] = n % Base
    BY <1>3, <1>4
  <2> QED
    BY <1>1, <2>1 DEF ReadUInt16
<1> QED
  BY <1>3, <1>4

\* The eight bytes of a length, whatever wrote them: the number is read again, its upper half is 0.
LEMMA Length64 ==
  ASSUME NEW n \in Nat, n < Base4
  PROVE  /\ UInt64(n) = UInt32(0) \o UInt32(n)
         /\ UInt64(n) \in Seq(Byte) /\ 8 <= Len(UInt64(n)) /\ Len(UInt64(n)) <= 8
         /\ \A f : (\A i \in 1..8 : f[2 + i] = UInt64(n)[i])
              => ReadUInt64(f, 3) = n /\ ReadUInt32(f, 3) = 0
<1> DEFINE top == n \div Base2  low == n % Base2
           a == top \div Base  b == top % Base  c == low \div Base  d == low % Base
<1>1. n \div Base4 = 0 /\ n % Base4 = n
  <2>1. n \div Base4 \in Nat /\ n \div Base4 < 1 /\ n = Base4 * (n \div Base4) + (n % Base4)
    BY DivMod, DivBelow, Bases
  <2> QED
    BY <2>1, DivMod, Bases
<1>2. /\ top \in Nat /\ low \in Nat /\ n = Base2 * top + low
      /\ a \in Nat /\ b \in Nat /\ top = Base * a + b
      /\ c \in Nat /\ d \in Nat /\ low = Base * c + d
  <2>1. top \in Nat /\ low \in Nat /\ n = Base2 * top + low
    BY DivMod, Bases
  <2> HIDE DEF top, low
  <2>2. a \in Nat /\ b \in Nat /\ top = Base * a + b
    BY <2>1, DivMod, Bases
  <2>3. c \in Nat /\ d \in Nat /\ low = Base * c + d
    BY <2>1, DivMod, Bases
  <2> QED
    BY <2>1, <2>2, <2>3
<1>3. /\ 0 \div Base2 = 0 /\ 0 % Base2 = 0 /\ 0 \div Base = 0 /\ 0 % Base = 0
  <2>1. ASSUME NEW k \in Nat \ {0} PROVE 0 \div k = 0 /\ 0 % k = 0
    <3>1. 0 \div k \in Nat /\ 0 \div k < 1 /\ 0 = k * (0 \div k) + (0 % k)
      BY DivMod, DivBelow
    <3> QED
      BY <3>1
  <2> QED
    BY <2>1, Bases
<1>4. UInt32(0) = <<0, 0, 0, 0>>
  BY <1>3, Pairs DEF UInt32, UInt16
<1>5. UInt32(n) = <<a, b, c, d>>
  BY Pairs DEF UInt32, UInt16
<1> HIDE DEF top, low, a, b, c, d
<1>6. UInt64(n) = UInt32(0) \o UInt32(n)
  BY <1>1 DEF UInt64
<1>7. UInt64(n) = <<0, 0, 0, 0, a, b, c, d>>
  <2>1. <<0, 0, 0, 0>> \o <<a, b, c, d>> = <<0, 0, 0, 0, a, b, c, d>>
    BY Quads
  <2> QED
    BY <1>4, <1>5, <1>6, <2>1, Zenon
<1>8. \A k \in Nat : k \in Byte
  BY DEF Byte
<1>9. UInt64(n) \in Seq(Byte) /\ 8 <= Len(UInt64(n)) /\ Len(UInt64(n)) <= 8
  <2>1. 0 \in Byte /\ a \in Byte /\ b \in Byte /\ c \in Byte /\ d \in Byte
    BY <1>2, <1>8
  <2> QED
    BY <1>7, <2>1
<1>10. ASSUME NEW f, \A i \in 1..8 : f[2 + i] = UInt64(n)[i]
       PROVE  ReadUInt64(f, 3) = n /\ ReadUInt32(f, 3) = 0
  <2>1. /\ f[3] = 0 /\ f[4] = 0 /\ f[5] = 0 /\ f[6] = 0
        /\ f[7] = a /\ f[8] = b /\ f[9] = c /\ f[10] = d
    BY <1>7, <1>10
  <2>2. /\ ReadUInt16(f, 3) = 0 /\ ReadUInt16(f, 5) = 0
        /\ ReadUInt16(f, 7) = top /\ ReadUInt16(f, 9) = low
    BY <1>2, <2>1, Bases DEF ReadUInt16
  <2>3. ReadUInt32(f, 3) = 0 /\ ReadUInt32(f, 7) = n
    BY <1>2, <2>2, Bases DEF ReadUInt32
  <2> QED
    BY <2>3, Bases DEF ReadUInt64
<1> QED
  BY <1>6, <1>9, <1>10

\* Masking twice with the same key gives the data back.
LEMMA MaskedTwice ==
  ASSUME NEW data \in Seq(Bit), NEW key \in [1..4 -> Bit]
  PROVE  /\ Masked(data, key) \in Seq(Bit) /\ Len(Masked(data, key)) = Len(data)
         /\ Masked(Masked(data, key), key) = data
<1> DEFINE m == Masked(data, key)
<1>1. ASSUME NEW i \in 1..Len(data) PROVE key[((i - 1) % 4) + 1] \in Bit /\ data[i] \in Bit
  <2>1. ((i - 1) % 4) + 1 \in 1..4
    OBVIOUS
  <2> QED
    BY <2>1
<1>2. \A d, k \in Bit : (d + k) % 2 \in Bit /\ (((d + k) % 2) + k) % 2 = d
  BY DEF Bit
<1>3. m = [i \in 1..Len(data) |-> (data[i] + key[((i - 1) % 4) + 1]) % 2]
  BY DEF Masked
<1>4. m \in Seq(Bit) /\ Len(m) = Len(data)
  <2>1. m \in [1..Len(data) -> Bit]
    BY <1>1, <1>2, <1>3
  <2> QED
    BY <1>3, <2>1
<1> HIDE DEF m
<1>5. Masked(m, key) = [i \in 1..Len(data) |-> (m[i] + key[((i - 1) % 4) + 1]) % 2]
  BY <1>4 DEF Masked
<1>6. \A i \in 1..Len(data) : (m[i] + key[((i - 1) % 4) + 1]) % 2 = data[i]
  BY <1>1, <1>2, <1>3
<1>7. Masked(m, key) = data
  BY <1>5, <1>6
<1> QED
  BY <1>4, <1>7 DEF m

-----------------------------------------------------------------------------
\* A frame as its encoder lays it out

\* The encoders of the code, the messages they are given and the masking keys.
Encoders == {"server", "client", "replay"}
Message == [opcode : DataOpcodes, data : Seq(Bit)]
Keys == [1..4 -> Bit]

\* The length of a payload, as the second byte of a frame and the bytes behind it tell it
Tells(code, length, len) ==
  \/ len < Short /\ code = len /\ length = <<>>
  \/ code = Code16 /\ length = UInt16(len)
  \/ code = Code64 /\ length = UInt64(len)

\* The parts of a frame
Parts(f, m, masked, code, length, key, payload) ==
  /\ f = Cat(Cat(Cat(<<[fin |-> TRUE, opcode |-> m.opcode], [masked |-> masked, code |-> code]>>,
                     length), key), payload)
  /\ Tells(code, length, Len(m.data))

\* A function on 1..n is a sequence of length n.
LEMMA FunctionIsSeq ==
  ASSUME NEW T, NEW n \in Nat, NEW s \in [1..n -> T]
  PROVE  s \in Seq(T) /\ n <= Len(s) /\ Len(s) <= n
OBVIOUS

\* A masking key is a sequence of four bytes.
LEMMA KeyIsSeq ==
  ASSUME NEW key \in Keys
  PROVE  key \in Seq(Byte) /\ 4 <= Len(key) /\ Len(key) <= 4 /\ key # <<>>
<1>1. \A i \in 1..4 : key[i] \in Byte
  BY DEF Keys, Bit, Byte
<1>2. key \in Seq(Byte) /\ 4 <= Len(key) /\ Len(key) <= 4
  <2>1. key \in [1..4 -> Byte]
    BY <1>1 DEF Keys
  <2> QED
    BY <2>1, FunctionIsSeq
<1> QED
  BY <1>2

\* The opcodes of messages are not the one of a continuation.
LEMMA DataOpcode == DataOpcodes \subseteq Nat \ {0}
<1>1. DataOpcodes \subseteq {0, 1, 2, 8, 9, 10} \ {0}
  BY DEF DataOpcodes, Opcodes
<1> QED
  BY <1>1

\* encodeFrame lays out header, length, key and payload.
LEMMA EncodeFrameParts ==
  ASSUME NEW m \in Message, Len(m.data) < Base4, NEW key
  PROVE  \E code, length :
           Parts(EncodeFrame(m.opcode, m.data, key), m, key # <<>>, code, length, key,
                 IF key = <<>> THEN m.data ELSE Masked(m.data, key))
<1> DEFINE len == Len(m.data)
           code == LengthCode(len)
           length == LengthBytes(len)
<1>1. len \in Nat
  BY DEF Message
<1>2. Tells(code, length, len)
  <2>1. CASE len < Short
    BY <2>1 DEF Tells, LengthCode, LengthBytes
  <2>2. CASE len >= Short /\ len < Base2
    <3>1. ~(len < Short)
      BY <1>1, <2>2, FramingAssumption
    <3> QED
      BY <2>2, <3>1 DEF Tells, LengthCode, LengthBytes
  <2>3. CASE ~(len < Short) /\ ~(len >= Short /\ len < Base2)
    <3>1. UInt32(0) \o UInt32(len) = UInt64(len)
      BY <1>1, Length64
    <3> QED
      BY <2>3, <3>1 DEF Tells, LengthCode, LengthBytes
  <2> QED
    BY <1>1, <2>1, <2>2, <2>3
<1> HIDE DEF code, length
<1>3. EncodeFrame(m.opcode, m.data, key)
        = Cat(Cat(Cat(<<[fin |-> TRUE, opcode |-> m.opcode],
                        [masked |-> key # <<>>, code |-> code]>>, length), key),
              IF key = <<>> THEN m.data ELSE Masked(m.data, key))
  BY DEF EncodeFrame, Cat, code, length
<1>4. Parts(EncodeFrame(m.opcode, m.data, key), m, key # <<>>, code, length, key,
            IF key = <<>> THEN m.data ELSE Masked(m.data, key))
  BY <1>2, <1>3 DEF Parts
<1> QED
  BY <1>4

\* The replay's encoder lays a frame out in the same way, always masked.
LEMMA ReplayFrameParts ==
  ASSUME NEW m \in Message, NEW key
  PROVE  \E code, length :
           Parts(ReplayFrame(m.opcode, m.data, key), m, TRUE, code, length, key,
                 Masked(m.data, key))
<1> DEFINE len == Len(m.data)
           code == IF len <= Short - 1 THEN len ELSE IF len <= Base2 - 1 THEN Code16 ELSE Code64
           length == IF code = Code16 THEN UInt16(len)
                     ELSE IF code = Code64 THEN UInt64(len) ELSE <<>>
<1>1. len \in Nat /\ Short \in Nat \ {0} /\ Code16 = Short /\ Code64 = Short + 1
  BY FramingAssumption DEF Message, Code16, Code64
<1>2. Tells(code, length, len)
  <2>1. CASE len <= Short - 1
    <3>1. len < Short /\ code = len /\ code # Code16 /\ code # Code64
      BY <1>1, <2>1
    <3> QED
      BY <3>1 DEF Tells
  <2>2. CASE ~(len <= Short - 1) /\ len <= Base2 - 1
    <3>1. code = Code16
      BY <2>2
    <3> QED
      BY <3>1 DEF Tells
  <2>3. CASE ~(len <= Short - 1) /\ ~(len <= Base2 - 1)
    <3>1. code = Code64 /\ code # Code16
      BY <1>1, <2>3
    <3> QED
      BY <3>1 DEF Tells
  <2> QED
    BY <2>1, <2>2, <2>3
<1>3. ReplayFrame(m.opcode, m.data, key)
        = Cat(Cat(Cat(<<[fin |-> TRUE, opcode |-> m.opcode], [masked |-> TRUE, code |-> code]>>,
                      length), key), Masked(m.data, key))
  BY DEF ReplayFrame, Cat
<1> HIDE DEF code, length
<1>4. Parts(ReplayFrame(m.opcode, m.data, key), m, TRUE, code, length, key, Masked(m.data, key))
  BY <1>2, <1>3 DEF Parts
<1> QED
  BY <1>4

-----------------------------------------------------------------------------
\* A frame read back: where the header, the key and the payload stand

\* The bytes of f behind place at are those of s.
Holds(f, at, s) == \A i \in 1..Len(s) : f[at + i] = s[i]

\* A sequence that stands at a place of f is the stretch of f behind that place.
LEMMA Piece ==
  ASSUME NEW T, NEW f, NEW s \in Seq(T), NEW at \in Nat, Holds(f, at, s)
  PROVE  SubSeq(f, at + 1, at + Len(s)) = s
<1> DEFINE p == SubSeq(f, at + 1, at + Len(s))
<1>1. Len(s) \in Nat /\ \A i \in 1..Len(s) : s[i] \in T
  OBVIOUS
<1>2. \A i \in 1..Len(s) : f[at + i] = s[i]
  BY DEF Holds
<1>3. ASSUME NEW j \in (at + 1)..(at + Len(s)) PROVE f[j] \in T
  <2>1. j - at \in 1..Len(s) /\ at + (j - at) = j
    BY <1>1
  <2> QED
    BY <1>1, <1>2, <2>1
<1>4. /\ p \in Seq(T)
      /\ Len(p) = IF at + 1 <= at + Len(s) THEN at + Len(s) - (at + 1) + 1 ELSE 0
      /\ \A i \in 1..(at + Len(s) - (at + 1) + 1) : p[i] = f[(at + 1) + i - 1]
  <2>1. at + 1 \in Int /\ at + Len(s) \in Int
    BY <1>1
  <2> QED
    BY <1>3, <2>1, SubSeqProperties
<1> HIDE DEF p
<1>5. Len(p) = Len(s)
  BY <1>1, <1>4
<1>6. ASSUME NEW i \in 1..Len(s) PROVE p[i] = s[i]
  <2>1. i \in 1..(at + Len(s) - (at + 1) + 1) /\ (at + 1) + i - 1 = at + i
    BY <1>1
  <2> QED
    BY <1>2, <1>4, <2>1
<1>7. p = s
  BY <1>4, <1>5, <1>6, SeqEqual
<1> QED
  BY <1>7 DEF p

\* f consists of four parts, one behind the other.
Placed(f, T, h, l, k, p) ==
  /\ f \in Seq(T) /\ Len(f) \in Nat
  /\ Len(f) <= Len(h) + Len(l) + Len(k) + Len(p)
  /\ Len(h) + Len(l) + Len(k) + Len(p) <= Len(f)
  /\ Holds(f, 0, h) /\ Holds(f, Len(h), l) /\ Holds(f, Len(h) + Len(l), k)
  /\ Holds(f, Len(h) + Len(l) + Len(k), p)

\* Where the four parts of a concatenation stand.
LEMMA PartPlaces ==
  ASSUME NEW T, NEW h \in Seq(T), NEW l \in Seq(T), NEW k \in Seq(T), NEW p \in Seq(T)
  PROVE  Placed(Cat(Cat(Cat(h, l), k), p), T, h, l, k, p)
<1> DEFINE a == Cat(h, l)  b == Cat(a, k)  f == Cat(b, p)
<1> HIDE DEF a, b, f
<1>1. Joins(a, T, h, l)
  BY Concat DEF a
<1>2. Joins(b, T, a, k)
  <2>1. a \in Seq(T)
    BY <1>1 DEF Joins
  <2> QED
    BY <2>1, Concat DEF b
<1>4. Joins(f, T, b, p)
  <2>1. b \in Seq(T)
    BY <1>2 DEF Joins
  <2> QED
    BY <2>1, Concat DEF f
<1> USE DEF Joins
<1>5. Len(h) \in Nat /\ Len(l) \in Nat /\ Len(k) \in Nat /\ Len(p) \in Nat
  OBVIOUS
<1>11. /\ Len(a) \in Nat /\ Len(a) <= Len(h) + Len(l) /\ Len(h) + Len(l) <= Len(a)
       /\ Len(b) \in Nat /\ Len(b) <= Len(a) + Len(k) /\ Len(a) + Len(k) <= Len(b)
  BY <1>1, <1>2
<1>6. Holds(f, 0, h)
  <2>1. ASSUME NEW i \in 1..Len(h) PROVE f[0 + i] = h[i]
    <3>1. i \in 1..Len(a) /\ i \in 1..Len(b) /\ 0 + i = i
      BY <1>1, <1>2, <1>5
    <3> QED
      BY <1>1, <1>2, <1>4, <3>1
  <2> QED
    BY <2>1 DEF Holds
<1>7. Holds(f, Len(h), l)
  <2>1. ASSUME NEW i \in 1..Len(l) PROVE f[Len(h) + i] = l[i]
    <3>1. Len(h) + i \in 1..Len(a) /\ Len(h) + i \in 1..Len(b)
      BY <1>1, <1>2, <1>5
    <3> QED
      BY <1>1, <1>2, <1>4, <3>1
  <2> QED
    BY <2>1 DEF Holds
<1>8. Holds(f, Len(h) + Len(l), k)
  <2>1. ASSUME NEW i \in 1..Len(k) PROVE f[(Len(h) + Len(l)) + i] = k[i]
    <3>1. Len(a) + i = (Len(h) + Len(l)) + i
      <4> DEFINE x == Len(a)  y == Len(h)  z == Len(l)
      <4>1. i \in Nat /\ x \in Nat /\ y \in Nat /\ z \in Nat /\ x <= y + z /\ y + z <= x
        BY <1>5, <1>11
      <4> HIDE DEF x, y, z
      <4>2. x + i = (y + z) + i
        BY <4>1
      <4> QED
        BY <4>2 DEF x, y, z
    <3>2. Len(a) + i \in 1..Len(b)
      BY <1>5, <1>11
    <3>3. f[Len(a) + i] = b[Len(a) + i] /\ b[Len(a) + i] = k[i]
      BY <1>2, <1>4, <3>2
    <3> QED
      BY <3>1, <3>3, Zenon
  <2> QED
    BY <2>1 DEF Holds
<1>9. Holds(f, Len(h) + Len(l) + Len(k), p)
  <2>1. ASSUME NEW i \in 1..Len(p) PROVE f[(Len(h) + Len(l) + Len(k)) + i] = p[i]
    <3>1. Len(b) + i = (Len(h) + Len(l) + Len(k)) + i
      <4> DEFINE x == Len(a)  y == Len(h)  z == Len(l)  v == Len(b)  w == Len(k)
      <4>1. /\ i \in Nat /\ x \in Nat /\ y \in Nat /\ z \in Nat /\ x <= y + z /\ y + z <= x
            /\ v \in Nat /\ w \in Nat /\ v <= x + w /\ x + w <= v
        BY <1>5, <1>11
      <4> HIDE DEF x, y, z, v, w
      <4>2. v + i = (y + z + w) + i
        BY <4>1
      <4> QED
        BY <4>2 DEF x, y, z, v, w
    <3>2. f[Len(b) + i] = p[i]
      BY <1>4
    <3> QED
      BY <3>1, <3>2, Zenon
  <2> QED
    BY <2>1 DEF Holds
<1>10. Placed(f, T, h, l, k, p)
  BY <1>1, <1>2, <1>4, <1>5, <1>6, <1>7, <1>8, <1>9 DEF Placed
<1> QED
  BY <1>10 DEF f, b, a

\* Stated by two inequalities: the provers mistake an equation about Len for one about domains.
Wide(f, length) == LengthWidth(f) <= Len(length) /\ Len(length) <= LengthWidth(f)

\* Each of the three forms of the length field is read back as the length written.
LEMMA LengthRead ==
  ASSUME NEW len \in Nat, len < Base4, NEW code, NEW length, Tells(code, length, len)
  PROVE  /\ code \in Nat /\ length \in Seq(Byte)
         /\ \A f : f[2].code = code /\ Holds(f, 2, length) =>
              /\ LengthWidth(f) \in {0, 2, 8} /\ Wide(f, length)
              /\ PayloadLen(f) = len /\ ~TooLarge(f)
<1>1. Short \in Nat \ {0} /\ Code16 = Short /\ Code64 = Short + 1
  BY FramingAssumption DEF Code16, Code64
<1>2. CASE len < Short /\ code = len /\ length = <<>>
  <2>1. code # Code16 /\ code # Code64 /\ code \in Nat
    BY <1>1, <1>2
  <2>2. ASSUME NEW f, f[2].code = code
        PROVE  LengthWidth(f) = 0 /\ PayloadLen(f) = len /\ ~TooLarge(f)
    BY <1>2, <2>1, <2>2 DEF LengthWidth, PayloadLen, TooLarge
  <2>3. length \in Seq(Byte) /\ Len(length) = 0
    BY <1>2
  <2> QED
    BY <2>1, <2>2, <2>3 DEF Wide
<1>3. CASE code = Code16 /\ length = UInt16(len)
  <2>1. code \in Nat /\ code # Code64
    BY <1>1, <1>3
  <2>2. length \in Seq(Byte) /\ 2 <= Len(length) /\ Len(length) <= 2
    BY <1>3, Length16
  <2>3. ASSUME NEW f, f[2].code = code, Holds(f, 2, length)
        PROVE  /\ LengthWidth(f) \in {0, 2, 8} /\ Wide(f, length)
               /\ PayloadLen(f) = len /\ ~TooLarge(f)
    <3>1. \A i \in 1..2 : f[2 + i] = length[i]
      BY <2>2, <2>3 DEF Holds
    <3>2. ReadUInt16(f, 3) = len
      BY <1>3, <3>1, Length16
    <3>3. f[2].code = Code16 /\ f[2].code # Code64
      BY <1>3, <2>1, <2>3
    <3>4. LengthWidth(f) = 2
      BY <3>3 DEF LengthWidth
    <3>5. PayloadLen(f) = len
      BY <3>2, <3>4 DEF PayloadLen
    <3>6. ~TooLarge(f)
      BY <2>1, <2>3 DEF TooLarge
    <3> QED
      BY <2>2, <3>4, <3>5, <3>6 DEF Wide
  <2> QED
    BY <2>1, <2>2, <2>3
<1>4. CASE code = Code64 /\ length = UInt64(len)
  <2>1. code \in Nat /\ code # Code16
    BY <1>1, <1>4
  <2>2. length \in Seq(Byte) /\ 8 <= Len(length) /\ Len(length) <= 8
    BY <1>4, Length64
  <2>3. ASSUME NEW f, f[2].code = code, Holds(f, 2, length)
        PROVE  /\ LengthWidth(f) \in {0, 2, 8} /\ Wide(f, length)
               /\ PayloadLen(f) = len /\ ~TooLarge(f)
    <3>1. \A i \in 1..8 : f[2 + i] = length[i]
      <4>1. \A i \in 1..Len(length) : f[2 + i] = length[i]
        BY <2>3 DEF Holds
      <4>3. ASSUME NEW i \in 1..8 PROVE i \in 1..Len(length)
        BY <2>2
      <4> QED
        BY <4>1, <4>3
    <3>2. ReadUInt64(f, 3) = len /\ ReadUInt32(f, 3) = 0
      BY <1>4, <3>1, Length64
    <3>3. f[2].code = Code64 /\ f[2].code # Code16
      BY <1>4, <2>1, <2>3
    <3>4. LengthWidth(f) = 8
      BY <3>3 DEF LengthWidth
    <3>5. PayloadLen(f) = len
      BY <3>2, <3>4 DEF PayloadLen
    <3>6. ~TooLarge(f)
      BY <3>2 DEF TooLarge
    <3> QED
      BY <2>2, <3>4, <3>5, <3>6 DEF Wide
  <2> QED
    BY <2>1, <2>2, <2>3
<1> QED
  BY <1>2, <1>3, <1>4 DEF Tells

\* f is one frame with the message m, for a parser that has read all of it.
Whole(f, m) ==
  /\ f \in Seq(Byte)
  /\ LengthWidth(f) \in {0, 2, 8} /\ f[2].masked \in BOOLEAN
  /\ PayloadLen(f) = Len(m.data) /\ FrameEnd(f) = Len(f)
  /\ f[1].fin = TRUE /\ f[1].opcode = m.opcode /\ ~TooLarge(f)
  /\ FrameAt(f) = m

\* What is laid out that way is read back as the message it was made of.
LEMMA PartsWhole ==
  ASSUME NEW m \in Message, Len(m.data) < Base4, NEW f, NEW masked \in BOOLEAN, NEW code,
         NEW length, NEW key, NEW payload, Parts(f, m, masked, code, length, key, payload),
         masked => key \in Keys /\ payload = Masked(m.data, key),
         ~masked => key = <<>> /\ payload = m.data
  PROVE  Whole(f, m)
<1> DEFINE h1 == [fin |-> TRUE, opcode |-> m.opcode]
           h2 == [masked |-> masked, code |-> code]
           h == <<h1, h2>>
           len == Len(m.data)
<1>1. /\ m.opcode \in Nat \ {0} /\ m.data \in Seq(Bit) /\ len \in Nat /\ len < Base4
      /\ Short \in Nat \ {0} /\ Code16 = Short /\ Code64 = Short + 1
  <2>1. m.opcode \in DataOpcodes /\ m.data \in Seq(Bit)
    BY DEF Message
  <2>2. m.opcode \in Nat \ {0}
    BY <2>1, DataOpcode
  <2>3. len \in Nat /\ len < Base4
    BY <2>1
  <2>4. Short \in Nat \ {0} /\ Code16 = Short /\ Code64 = Short + 1
    BY FramingAssumption DEF Code16, Code64
  <2> QED
    BY <2>1, <2>2, <2>3, <2>4
<1>2. /\ code \in Nat /\ length \in Seq(Byte)
      /\ \A g : g[2].code = code /\ Holds(g, 2, length) =>
           /\ LengthWidth(g) \in {0, 2, 8} /\ Wide(g, length)
           /\ PayloadLen(g) = len /\ ~TooLarge(g)
  <2>1. Tells(code, length, len)
    BY DEF Parts
  <2> HIDE DEF len
  <2> QED
    BY <1>1, <2>1, LengthRead
<1>3. h \in Seq(Byte) /\ 2 <= Len(h) /\ Len(h) <= 2 /\ h[1] = h1 /\ h[2] = h2
  <2>1. h1 \in Byte /\ h2 \in Byte
    BY <1>1, <1>2 DEF Byte
  <2> HIDE DEF h1, h2
  <2> QED
    BY <2>1
<1>5. payload \in Seq(Bit) /\ Len(payload) = len
  BY <1>1, MaskedTwice DEF Keys
<1>6. payload \in Seq(Byte)
  <2>1. Bit \subseteq Byte
    BY DEF Bit, Byte
  <2> QED
    BY <1>5, <2>1, SeqMonotonic
<1>7. key \in Seq(Byte)
  <2>1. CASE masked
    BY <2>1, KeyIsSeq
  <2>2. CASE ~masked
    BY <2>2
  <2> QED
    BY <2>1, <2>2
<1> HIDE DEF h
<1>8. Placed(f, Byte, h, length, key, payload)
  <2>1. f = Cat(Cat(Cat(h, length), key), payload)
    BY DEF Parts, h
  <2>2. Placed(Cat(Cat(Cat(h, length), key), payload), Byte, h, length, key, payload)
    BY <1>2, <1>3, <1>6, <1>7, PartPlaces
  <2> QED
    BY <2>1, <2>2
<1>10. /\ f \in Seq(Byte) /\ Len(f) \in Nat
       /\ Len(f) <= Len(h) + Len(length) + Len(key) + Len(payload)
       /\ Len(h) + Len(length) + Len(key) + Len(payload) <= Len(f)
       /\ Holds(f, 0, h) /\ Holds(f, Len(h), length) /\ Holds(f, Len(h) + Len(length), key)
       /\ Holds(f, Len(h) + Len(length) + Len(key), payload)
  BY <1>8 DEF Placed
<1>9. /\ f[1].fin = TRUE /\ f[1].opcode = m.opcode
      /\ f[2].masked = masked /\ f[2].code = code
  <2>1. \A i \in 1..Len(h) : f[0 + i] = h[i]
    BY <1>10 DEF Holds
  <2>2. 1 \in 1..Len(h) /\ 2 \in 1..Len(h) /\ 0 + 1 = 1 /\ 0 + 2 = 2
    BY <1>3
  <2>3. f[0 + 1] = h1 /\ f[0 + 2] = h2
    BY <1>3, <2>1, <2>2
  <2> QED
    BY <2>2, <2>3
<1> HIDE DEF h1, h2
<1>11. /\ LengthWidth(f) \in {0, 2, 8} /\ Wide(f, length) /\ PayloadLen(f) = len
       /\ ~TooLarge(f)
  <2>1. \A i \in 1..Len(length) : f[Len(h) + i] = length[i]
    BY <1>10 DEF Holds
  <2>2. Holds(f, 2, length)
    BY <1>2, <1>3, <2>1 DEF Holds
  <2> QED
    BY <1>2, <1>9, <2>2
<1>12. f[2].masked = masked /\ DataAt(f) = Len(h) + Len(length) + Len(key)
  <2>1. f[2].masked = masked
    BY <1>9
  <2>2. CASE masked
    <3>1. 4 <= Len(key) /\ Len(key) <= 4
      BY <2>2, KeyIsSeq
    <3> QED
      BY <1>3, <1>11, <2>1, <2>2, <3>1 DEF DataAt, Wide
  <2>3. CASE ~masked
    BY <1>3, <1>11, <2>1, <2>3 DEF DataAt, Wide
  <2> QED
    BY <2>1, <2>2, <2>3
<1>13. FrameEnd(f) = Len(f)
  <2>1. /\ Len(payload) \in Nat /\ Len(h) \in Nat /\ Len(length) \in Nat /\ Len(key) \in Nat
        /\ Len(payload) <= len /\ len <= Len(payload) /\ len \in Nat
    BY <1>1, <1>2, <1>3, <1>5, <1>7
  <2> DEFINE total == Len(f)  before == Len(h) + Len(length) + Len(key)  last == Len(payload)
  <2>2. /\ total \in Nat /\ before \in Nat /\ last \in Nat /\ len \in Nat
        /\ total <= before + last /\ before + last <= total /\ last <= len /\ len <= last
    BY <1>10, <2>1
  <2>3. FrameEnd(f) = before + len
    BY <1>11, <1>12 DEF FrameEnd
  <2> HIDE DEF total, before, last, len
  <2>4. FrameEnd(f) = total
    BY <2>2, <2>3
  <2> QED
    BY <2>4 DEF total
<1>14. SubSeq(f, DataAt(f) + 1, FrameEnd(f)) = payload
  <2>1. DataAt(f) \in Nat /\ Holds(f, DataAt(f), payload) /\ FrameEnd(f) = DataAt(f) + Len(payload)
    BY <1>3, <1>2, <1>5, <1>7, <1>10, <1>11, <1>12 DEF FrameEnd
  <2> QED
    BY <1>5, <2>1, Piece
<1>15. FrameAt(f) = m
  <2>1. m = [opcode |-> m.opcode, data |-> m.data]
    BY DEF Message
  <2>2. CASE masked
    <3>1. 4 <= Len(key) /\ Len(key) <= 4 /\ key \in Keys
      BY <2>2, KeyIsSeq
    <3>2. Len(h) + Len(length) \in Nat /\ Holds(f, Len(h) + Len(length), key)
      BY <1>3, <1>2, <1>10
    <3>3. SubSeq(f, (Len(h) + Len(length)) + 1, (Len(h) + Len(length)) + Len(key)) = key
      BY <1>7, <3>2, Piece
    <3>4. /\ DataAt(f) - 3 = (Len(h) + Len(length)) + 1
          /\ DataAt(f) = (Len(h) + Len(length)) + Len(key)
      BY <1>3, <1>2, <1>12, <3>1
    <3>5. SubSeq(f, DataAt(f) - 3, DataAt(f)) = key
      BY <3>3, <3>4
    <3>6. Masked(payload, key) = m.data
      BY <1>1, <2>2, <3>1, MaskedTwice DEF Keys
    <3> QED
      BY <1>9, <1>12, <1>14, <2>1, <2>2, <3>5, <3>6 DEF FrameAt
  <2>3. CASE ~masked
    BY <1>9, <1>12, <1>14, <2>1, <2>3 DEF FrameAt
  <2> QED
    BY <2>2, <2>3
<1> QED
  BY <1>10, <1>9, <1>11, <1>12, <1>13, <1>15 DEF Whole

-----------------------------------------------------------------------------
\* A buffer that begins with a frame, and one that is the beginning of a frame

\* Whatever encoder made a frame, the decoder reads the message back.
LEMMA EncodeWhole ==
  ASSUME NEW encoder \in Encoders, NEW m \in Message, Len(m.data) < Base4, NEW key \in Keys
  PROVE  Whole(Encode(encoder, m, key), m)
<1>1. key # <<>>
  BY KeyIsSeq
<1>2. CASE encoder = "server"
  <2> DEFINE f == EncodeFrame(m.opcode, m.data, <<>>)
  <2>1. PICK code, length : Parts(f, m, <<>> # <<>>, code, length, <<>>,
                                  IF <<>> = <<>> THEN m.data ELSE Masked(m.data, <<>>))
    BY EncodeFrameParts
  <2> HIDE DEF f
  <2>2. Parts(f, m, FALSE, code, length, <<>>, m.data)
    BY <2>1
  <2>3. Whole(f, m)
    BY <2>2, PartsWhole
  <2> QED
    BY <1>2, <2>3 DEF Encode, f
<1>3. CASE encoder = "client"
  <2> DEFINE f == EncodeFrame(m.opcode, m.data, key)
  <2>1. PICK code, length : Parts(f, m, key # <<>>, code, length, key,
                                  IF key = <<>> THEN m.data ELSE Masked(m.data, key))
    BY EncodeFrameParts
  <2> HIDE DEF f
  <2>2. Parts(f, m, TRUE, code, length, key, Masked(m.data, key))
    BY <1>1, <2>1
  <2>3. Whole(f, m)
    BY <2>2, PartsWhole
  <2> QED
    BY <1>3, <2>3 DEF Encode, f
<1>4. CASE encoder = "replay"
  <2> DEFINE f == ReplayFrame(m.opcode, m.data, key)
  <2>1. PICK code, length : Parts(f, m, TRUE, code, length, key, Masked(m.data, key))
    BY ReplayFrameParts
  <2> HIDE DEF f
  <2>2. Whole(f, m)
    BY <2>1, PartsWhole
  <2> QED
    BY <1>4, <2>2 DEF Encode, f
<1> QED
  BY <1>2, <1>3, <1>4 DEF Encoders

\* The first n bytes of f and g are the same.
Agree(f, g, n) == \A i \in 1..n : f[i] = g[i]

\* The width of the length field, and that the header ends before the fifteenth byte.
LEMMA Widths ==
  ASSUME NEW f
  PROVE  /\ LengthWidth(f) = IF f[2].code = Code16 THEN 2 ELSE IF f[2].code = Code64 THEN 8 ELSE 0
         /\ DataAt(f) \in 2..14
<1>1. Code16 # Code64
  BY FramingAssumption DEF Code16, Code64
<1>2. CASE f[2].code = Code16
  <2>1. f[2].code # Code64
    BY <1>1, <1>2
  <2>2. LengthWidth(f) = 2
    BY <1>2, <2>1 DEF LengthWidth
  <2> QED
    BY <1>2, <2>2 DEF DataAt
<1>3. CASE f[2].code = Code64
  <2>1. f[2].code # Code16
    BY <1>1, <1>3
  <2>2. LengthWidth(f) = 8
    BY <1>3, <2>1 DEF LengthWidth
  <2> QED
    BY <1>3, <2>1, <2>2 DEF DataAt
<1>4. CASE f[2].code # Code16 /\ f[2].code # Code64
  <2>1. LengthWidth(f) = 0
    BY <1>4 DEF LengthWidth
  <2> QED
    BY <1>4, <2>1 DEF DataAt
<1> QED
  BY <1>2, <1>3, <1>4

\* Numbers at places where two buffers agree are the same.
LEMMA SameNumbers ==
  ASSUME NEW f, NEW g, NEW at \in Nat
  PROVE  /\ (\A i \in at..(at + 1) : f[i] = g[i]) => ReadUInt16(f, at) = ReadUInt16(g, at)
         /\ (\A i \in at..(at + 3) : f[i] = g[i]) => ReadUInt32(f, at) = ReadUInt32(g, at)
         /\ (\A i \in at..(at + 7) : f[i] = g[i]) => ReadUInt64(f, at) = ReadUInt64(g, at)
<1>1. ASSUME NEW a \in Nat, \A i \in a..(a + 1) : f[i] = g[i]
      PROVE  ReadUInt16(f, a) = ReadUInt16(g, a)
  <2>1. f[a] = g[a] /\ f[a + 1] = g[a + 1]
    BY <1>1
  <2> QED
    BY <2>1 DEF ReadUInt16
<1>2. ASSUME NEW a \in Nat, \A i \in a..(a + 3) : f[i] = g[i]
      PROVE  ReadUInt32(f, a) = ReadUInt32(g, a)
  <2>1. ReadUInt16(f, a) = ReadUInt16(g, a)
    BY <1>1, <1>2
  <2>2. ReadUInt16(f, a + 2) = ReadUInt16(g, a + 2)
    <3>1. a + 2 \in Nat /\ \A i \in (a + 2)..((a + 2) + 1) : f[i] = g[i]
      BY <1>2
    <3> QED
      BY <1>1, <3>1
  <2> QED
    BY <2>1, <2>2 DEF ReadUInt32
<1>3. ASSUME NEW a \in Nat, \A i \in a..(a + 7) : f[i] = g[i]
      PROVE  ReadUInt64(f, a) = ReadUInt64(g, a)
  <2>1. ReadUInt32(f, a) = ReadUInt32(g, a)
    BY <1>2, <1>3
  <2>2. ReadUInt32(f, a + 4) = ReadUInt32(g, a + 4)
    <3>1. a + 4 \in Nat /\ \A i \in (a + 4)..((a + 4) + 3) : f[i] = g[i]
      BY <1>3
    <3> QED
      BY <1>2, <3>1
  <2> QED
    BY <2>1, <2>2 DEF ReadUInt64
<1> QED
  BY <1>1, <1>2, <1>3

\* What precedes the payload tells the same in every buffer that holds it.
LEMMA SameHeader ==
  ASSUME NEW f, NEW g, NEW n \in Nat, n >= 2, Agree(f, g, n)
  PROVE  /\ LengthWidth(f) = LengthWidth(g) /\ DataAt(f) = DataAt(g) /\ f[2] = g[2]
         /\ Fragmented(f) = Fragmented(g)
         /\ n >= DataAt(f) => FrameEnd(f) = FrameEnd(g)
         /\ n >= 10 => ReadUInt32(f, 3) = ReadUInt32(g, 3)
<1>1. f[1] = g[1] /\ f[2] = g[2]
  BY DEF Agree
<1>2. LengthWidth(f) = LengthWidth(g) /\ DataAt(f) = DataAt(g) /\ Fragmented(f) = Fragmented(g)
  BY <1>1 DEF LengthWidth, DataAt, Fragmented
<1>3. ASSUME n >= DataAt(f) PROVE PayloadLen(f) = PayloadLen(g)
  <2>1. CASE LengthWidth(f) = 0
    BY <1>1, <1>2, <2>1 DEF PayloadLen
  <2>2. CASE LengthWidth(f) = 2
    <3>1. n >= 4
      BY <1>3, <2>2 DEF DataAt
    <3>2. \A i \in 3..(3 + 1) : f[i] = g[i]
      BY <3>1 DEF Agree
    <3>3. ReadUInt16(f, 3) = ReadUInt16(g, 3)
      BY <3>2, SameNumbers
    <3> QED
      BY <1>2, <2>2, <3>3 DEF PayloadLen
  <2>3. CASE LengthWidth(f) = 8
    <3>1. n >= 10
      BY <1>3, <2>3 DEF DataAt
    <3>2. \A i \in 3..(3 + 7) : f[i] = g[i]
      BY <3>1 DEF Agree
    <3>3. ReadUInt64(f, 3) = ReadUInt64(g, 3)
      BY <3>2, SameNumbers
    <3> QED
      BY <1>2, <2>3, <3>3 DEF PayloadLen
  <2> QED
    BY <2>1, <2>2, <2>3, Widths
<1>4. ASSUME n >= 10 PROVE ReadUInt32(f, 3) = ReadUInt32(g, 3)
  <2>1. \A i \in 3..(3 + 3) : f[i] = g[i]
    BY <1>4 DEF Agree
  <2> QED
    BY <2>1, SameNumbers
<1> QED
  BY <1>1, <1>2, <1>3, <1>4 DEF FrameEnd

\* Two functions that agree from a to b have the same stretch there.
LEMMA SameSub ==
  ASSUME NEW f, NEW g, NEW a \in Int, NEW b \in Int, \A i \in a..b : f[i] = g[i]
  PROVE  SubSeq(f, a, b) = SubSeq(g, a, b)
<1> DEFINE T == {f[i] : i \in a..b}
           p == SubSeq(f, a, b)  q == SubSeq(g, a, b)
<1>1. \A i \in a..b : f[i] \in T /\ g[i] \in T
  OBVIOUS
<1> HIDE DEF T
<1>2. /\ p \in Seq(T) /\ Len(p) = IF a <= b THEN b - a + 1 ELSE 0
      /\ \A i \in 1..(b - a + 1) : p[i] = f[a + i - 1]
  BY <1>1, SubSeqProperties
<1>3. /\ q \in Seq(T) /\ Len(q) = IF a <= b THEN b - a + 1 ELSE 0
      /\ \A i \in 1..(b - a + 1) : q[i] = g[a + i - 1]
  BY <1>1, SubSeqProperties
<1> HIDE DEF p, q
<1>4. Len(p) = Len(q)
  BY <1>2, <1>3
<1>5. ASSUME NEW i \in 1..Len(p) PROVE p[i] = q[i]
  <2>1. i \in 1..(b - a + 1) /\ a + i - 1 \in a..b
    BY <1>2
  <2> QED
    BY <1>2, <1>3, <2>1
<1>6. p = q
  BY <1>2, <1>3, <1>4, <1>5, SeqEqual
<1> QED
  BY <1>6 DEF p, q

\* A whole frame has its header, and is not fragmented.
LEMMA WholeHas ==
  ASSUME NEW f, NEW m \in Message, Whole(f, m)
  PROVE  /\ Len(f) \in Nat /\ Len(f) >= 2 /\ Len(f) >= DataAt(f) /\ FrameEnd(f) \in Nat
         /\ m.data \in Seq(Bit) /\ Len(m.data) \in Nat
         /\ ~Fragmented(f)
<1>1. m.data \in Seq(Bit) /\ m.opcode \in DataOpcodes
  BY DEF Message
<1>2. Len(m.data) \in Nat /\ m.opcode # 0
  BY <1>1, DataOpcode
<1>3. Len(f) = DataAt(f) + Len(m.data)
  BY DEF Whole, FrameEnd
<1>4. ~Fragmented(f)
  BY <1>2 DEF Whole, Fragmented, Opcodes
<1>5. DataAt(f) \in 2..14
  BY Widths
<1> HIDE DEF Whole
<1>6. Len(f) \in Nat /\ Len(f) >= 2 /\ Len(f) >= DataAt(f)
  <2> DEFINE F == Len(f)  d == DataAt(f)  n == Len(m.data)
  <2>1. F = d + n /\ d \in 2..14 /\ n \in Nat
    BY <1>2, <1>3, <1>5
  <2> HIDE DEF F, d, n
  <2>2. F \in Nat /\ F >= 2 /\ F >= d
    BY <2>1
  <2> QED
    BY <2>2 DEF F, d
<1>7. FrameEnd(f) \in Nat
  <2>1. PayloadLen(f) = Len(m.data)
    BY DEF Whole
  <2> QED
    BY <1>2, <1>5, <2>1 DEF FrameEnd
<1> QED
  BY <1>1, <1>2, <1>4, <1>6, <1>7

\* A buffer that starts with all of a frame has that frame.
LEMMA Longer ==
  ASSUME NEW f, NEW m \in Message, Whole(f, m),
         NEW g, Len(g) \in Nat, Len(g) >= Len(f), Agree(f, g, Len(f))
  PROVE  /\ HasFrame(g) /\ ~TooLarge(g) /\ ~Fragmented(g)
         /\ FrameEnd(g) = Len(f) /\ FrameAt(g) = m
<1>1. /\ Len(f) \in Nat /\ Len(f) >= 2 /\ Len(f) >= DataAt(f) /\ FrameEnd(f) \in Nat
      /\ ~Fragmented(f)
  BY WholeHas
<1>2. /\ LengthWidth(f) = LengthWidth(g) /\ DataAt(f) = DataAt(g) /\ f[2] = g[2]
      /\ Fragmented(f) = Fragmented(g)
      /\ FrameEnd(f) = FrameEnd(g)
      /\ Len(f) >= 10 => ReadUInt32(f, 3) = ReadUInt32(g, 3)
  BY <1>1, SameHeader
<1>3. FrameEnd(g) = Len(f) /\ FrameAt(f) = m /\ ~TooLarge(f) /\ f[1].opcode = m.opcode
  BY <1>2 DEF Whole
<1>4. HasFrame(g)
  <2>1. DataAt(g) \in 2..14
    BY Widths
  <2>2. FrameEnd(g) <= Len(f) /\ DataAt(g) \in Nat /\ FrameEnd(g) \in Nat
    BY <1>1, <1>3, <2>1
  <2> QED
    BY <1>1, <1>2, <2>2 DEF HasFrame
<1>5. ~TooLarge(g)
  <2>1. SUFFICES ASSUME f[2].code = Code64 PROVE ~TooLarge(g)
    BY <1>2 DEF TooLarge
  <2>2. LengthWidth(f) = 8
    <3>1. Code16 # Code64
      BY FramingAssumption DEF Code16, Code64
    <3> QED
      BY <2>1, <3>1, Widths
  <2>3. Len(f) >= 10
    BY <1>1, <2>2 DEF DataAt
  <2> QED
    BY <1>2, <1>3, <2>1, <2>3 DEF TooLarge
<1>6. FrameAt(g) = FrameAt(f)
  <2>1. DataAt(f) \in 2..14 /\ f[2].masked = g[2].masked /\ g[1].opcode = f[1].opcode
    BY <1>1, <1>2, Widths DEF Agree
  <2>2. SubSeq(f, DataAt(f) + 1, FrameEnd(f)) = SubSeq(g, DataAt(f) + 1, FrameEnd(f))
    <3> DEFINE a == DataAt(f)  l == Len(f)
    <3>0. a \in Nat /\ l \in Nat
      BY <1>1, <2>1
    <3> HIDE DEF a, l
    <3>1. \A i \in (a + 1)..l : f[i] = g[i]
      <4>1. \A i \in (a + 1)..l : i \in 1..l
        BY <3>0
      <4> QED
        BY <4>1 DEF Agree, l
    <3>2. FrameEnd(f) = l
      BY DEF Whole, l
    <3>3. a + 1 \in Int /\ l \in Int
      BY <3>0
    <3>4. SubSeq(f, a + 1, l) = SubSeq(g, a + 1, l)
      BY <3>1, <3>3, SameSub
    <3> QED
      BY <3>2, <3>4 DEF a
  <2>3. ASSUME f[2].masked
        PROVE  SubSeq(f, DataAt(f) - 3, DataAt(f)) = SubSeq(g, DataAt(f) - 3, DataAt(f))
    <3>1. DataAt(f) >= 6
      BY <2>3, Widths DEF DataAt
    <3>2. \A i \in (DataAt(f) - 3)..DataAt(f) : f[i] = g[i]
      <4> DEFINE l == Len(f)  a == DataAt(f)
      <4>1. a \in Nat /\ l \in Nat /\ 6 <= a /\ a <= l
        BY <1>1, <2>1, <3>1
      <4> HIDE DEF a, l
      <4>2. \A i \in (a - 3)..a : i \in 1..l
        BY <4>1
      <4> QED
        BY <4>2 DEF Agree, a, l
    <3> DEFINE a == DataAt(f)
    <3>3. a - 3 \in Int /\ a \in Int
      BY <2>1
    <3> HIDE DEF a
    <3>4. SubSeq(f, a - 3, a) = SubSeq(g, a - 3, a)
      BY <3>2, <3>3, SameSub DEF a
    <3> QED
      BY <3>4 DEF a
  <2> QED
    BY <1>2, <2>1, <2>2, <2>3 DEF FrameAt
<1> QED
  BY <1>1, <1>2, <1>3, <1>4, <1>5, <1>6

\* A buffer that is the beginning of a frame waits for more.
LEMMA Shorter ==
  ASSUME NEW f, NEW m \in Message, Whole(f, m),
         NEW g, Len(g) \in Nat, Len(g) < Len(f), Agree(f, g, Len(g))
  PROVE  ~HasFrame(g) /\ ~TooLarge(g)
<1>1. Len(f) \in Nat /\ Len(f) >= 2 /\ Len(f) >= DataAt(f)
  BY WholeHas
<1>2. CASE Len(g) < 2
  BY <1>2 DEF HasFrame, TooLarge
<1>3. CASE Len(g) >= 2
  <2>1. /\ DataAt(f) = DataAt(g) /\ f[2] = g[2]
        /\ Len(g) >= DataAt(f) => FrameEnd(f) = FrameEnd(g)
        /\ Len(g) >= 10 => ReadUInt32(f, 3) = ReadUInt32(g, 3)
    BY <1>3, SameHeader
  <2>2. FrameEnd(f) = Len(f) /\ ~TooLarge(f)
    BY DEF Whole
  <2>3. ~HasFrame(g)
    BY <1>1, <2>1, <2>2 DEF HasFrame
  <2>4. ~TooLarge(g)
    BY <1>1, <2>1, <2>2 DEF TooLarge
  <2> QED
    BY <2>3, <2>4
<1> QED
  BY <1>2, <1>3

\* A buffer that is the beginning of a frame the parser does not support waits for more, or fails.
LEMMA FaultShorter ==
  ASSUME NEW f, Len(f) \in Nat, TooLarge(f) \/ (HasFrame(f) /\ Fragmented(f)),
         NEW g, Len(g) \in Nat, Len(g) <= Len(f), Agree(f, g, Len(g))
  PROVE  TooLarge(g) \/ ~HasFrame(g) \/ Fragmented(g)
<1> SUFFICES ASSUME HasFrame(g), ~Fragmented(g) PROVE TooLarge(g)
  OBVIOUS
<1>1. Len(g) >= 2 /\ Len(g) >= DataAt(g)
  BY DEF HasFrame
<1>2. /\ Fragmented(f) = Fragmented(g) /\ DataAt(f) = DataAt(g) /\ f[2] = g[2]
      /\ Len(g) >= 10 => ReadUInt32(f, 3) = ReadUInt32(g, 3)
  BY <1>1, SameHeader
<1>3. TooLarge(f)
  BY <1>2
<1>4. f[2].code = Code64 /\ ReadUInt32(f, 3) # 0
  BY <1>3 DEF TooLarge
<1>5. Len(g) >= 10
  <2>1. Code16 # Code64
    BY FramingAssumption DEF Code16, Code64
  <2>2. LengthWidth(f) = 8
    BY <1>4, <2>1, Widths
  <2> QED
    BY <1>1, <1>2, <2>2 DEF DataAt
<1> QED
  BY <1>2, <1>4, <1>5 DEF TooLarge

-----------------------------------------------------------------------------
\* Sequences joined in a row, as the encoders of a stream join them

\* e[n] is the first n pieces, one behind the other.
Joined(e, T, N, piece) ==
  /\ e \in [0..N -> Seq(T)] /\ e[0] = <<>>
  /\ \A n \in 1..N : Joins(e[n], T, e[n - 1], piece[n])

\* The recursion by which such an e is written
Recursion(e, N, piece) ==
  e = [n \in 0..N |-> IF n = 0 THEN <<>> ELSE Cat(e[n - 1], piece[n])]

\* Pieces can be joined in a row.
LEMMA JoinedExists ==
  ASSUME NEW T, NEW N \in Nat, NEW piece \in [1..N -> Seq(T)]
  PROVE  \E e : Recursion(e, N, piece)
<1> DEFINE S == Nat \X Seq(T)
           next(p) == IF p[1] + 1 \in 1..N THEN Cat(p[2], piece[p[1] + 1]) ELSE p[2]
           g == [p \in S |-> <<p[1] + 1, next(p)>>]
           a == <<0, <<>> >>
<1>1. a \in S
  <2>1. <<>> \in Seq(T)
    BY EmptySeq
  <2> QED
    BY <2>1, Zenon
<1>2. ASSUME NEW p \in S PROVE <<p[1] + 1, next(p)>> \in S
  <2>1. p[1] + 1 \in Nat /\ p[2] \in Seq(T)
    OBVIOUS
  <2>2. CASE p[1] + 1 \in 1..N
    <3>1. piece[p[1] + 1] \in Seq(T)
      BY <2>2
    <3>2. Cat(p[2], piece[p[1] + 1]) \in Seq(T)
      BY <2>1, <3>1, Concat DEF Joins
    <3> QED
      BY <2>1, <2>2, <3>2
  <2>3. CASE p[1] + 1 \notin 1..N
    BY <2>1, <2>3
  <2> QED
    BY <2>2, <2>3
<1>3. g \in [S -> S]
  BY <1>2
<1> HIDE DEF g, a
<1>4. PICK h : Iterates(h, S, g, a)
  BY <1>1, <1>3, Iteration
<1>5. /\ h \in [Nat -> S] /\ h[0] = <<0, <<>> >>
      /\ \A n \in Nat : h[n + 1] = <<h[n][1] + 1, next(h[n])>>
  BY <1>4 DEF Iterates, g, a
<1> DEFINE I == {n \in Nat : h[n][1] = n}
<1>6. I = Nat
  <2>1. 0 \in I
    BY <1>5
  <2> HIDE DEF next
  <2>2. ASSUME NEW n \in I PROVE n + 1 \in I
    <3>1. h[n + 1][1] = h[n][1] + 1
      BY <1>5
    <3> QED
      BY <3>1
  <2>3. I \in SUBSET Nat
    OBVIOUS
  <2> HIDE DEF I
  <2> QED
    BY <2>1, <2>2, <2>3, Induction
<1> DEFINE e == [n \in 0..N |-> h[n][2]]
<1>7. ASSUME NEW n \in 0..N PROVE e[n] = IF n = 0 THEN <<>> ELSE Cat(e[n - 1], piece[n])
  <2>1. CASE n = 0
    BY <1>5, <2>1
  <2>2. CASE n # 0
    <3>1. n - 1 \in Nat /\ n - 1 \in 0..N /\ (n - 1) + 1 = n /\ n \in 1..N
      BY <2>2
    <3>2. h[n - 1][1] = n - 1
      BY <1>6, <3>1
    <3>3. next(h[n - 1]) = Cat(h[n - 1][2], piece[n])
      BY <3>1, <3>2
    <3>4. h[n] = <<h[n - 1][1] + 1, next(h[n - 1])>>
      BY <1>5, <3>1
    <3> QED
      BY <2>2, <3>1, <3>3, <3>4
  <2> QED
    BY <2>1, <2>2
<1> HIDE DEF next
<1>8. e = [n \in 0..N |-> IF n = 0 THEN <<>> ELSE Cat(e[n - 1], piece[n])]
  BY <1>7
<1> QED
  BY <1>8 DEF Recursion

\* The recursion of the encoders does join them.
LEMMA RecursionJoins ==
  ASSUME NEW T, NEW N \in Nat, NEW piece \in [1..N -> Seq(T)], NEW e, Recursion(e, N, piece)
  PROVE  Joined(e, T, N, piece)
<1>1. e = [n \in 0..N |-> IF n = 0 THEN <<>> ELSE Cat(e[n - 1], piece[n])]
  BY DEF Recursion
<1>2. \A n \in 1..N : n \in 0..N /\ n # 0 /\ n - 1 \in 0..N
  OBVIOUS
<1>3. e[0] = <<>> /\ \A n \in 1..N : e[n] = Cat(e[n - 1], piece[n])
  <2>1. 0 \in 0..N
    OBVIOUS
  <2>2. \A n \in 0..N : e[n] = IF n = 0 THEN <<>> ELSE Cat(e[n - 1], piece[n])
    BY <1>1
  <2> QED
    BY <1>2, <2>1, <2>2
<1> DEFINE I == {n \in Nat : n <= N => e[n] \in Seq(T)}
<1>4. I = Nat
  <2>1. 0 \in I
    BY <1>3, EmptySeq
  <2>2. ASSUME NEW n \in I PROVE n + 1 \in I
    <3>1. SUFFICES ASSUME n + 1 <= N PROVE e[n + 1] \in Seq(T)
      OBVIOUS
    <3>2. n + 1 \in 1..N /\ (n + 1) - 1 = n /\ e[n] \in Seq(T)
      BY <3>1
    <3>3. e[n + 1] = Cat(e[n], piece[n + 1]) /\ piece[n + 1] \in Seq(T)
      BY <1>3, <3>2
    <3> QED
      BY <3>2, <3>3, Concat DEF Joins
  <2>3. I \in SUBSET Nat
    OBVIOUS
  <2> HIDE DEF I
  <2> QED
    BY <2>1, <2>2, <2>3, Induction
<1>5. \A n \in 0..N : e[n] \in Seq(T)
  BY <1>4
<1>6. e \in [0..N -> Seq(T)]
  <2>1. e = [n \in 0..N |-> e[n]]
    BY <1>1
  <2> QED
    BY <1>5, <2>1
<1>7. ASSUME NEW n \in 1..N PROVE Joins(e[n], T, e[n - 1], piece[n])
  <2>1. e[n] = Cat(e[n - 1], piece[n]) /\ e[n - 1] \in Seq(T) /\ piece[n] \in Seq(T)
    BY <1>2, <1>3, <1>5
  <2>2. Joins(Cat(e[n - 1], piece[n]), T, e[n - 1], piece[n])
    BY <2>1, Concat
  <2> QED
    BY <2>1, <2>2
<1> QED
  BY <1>3, <1>6, <1>7 DEF Joined

\* Where the pieces end
Offsets(e, N) == [n \in 0..N |-> Len(e[n])]

\* at tells the places of the pieces in every e[n].
Places(at, e, N, piece) ==
  /\ at \in [0..N -> Nat] /\ at[0] = 0
  /\ \A n \in 0..N : Len(e[n]) <= at[n] /\ at[n] <= Len(e[n])
  /\ \A n \in 1..N : at[n] = at[n - 1] + Len(piece[n])
  /\ \A n \in 0..N : \A k \in 0..n :
       /\ at[k] <= at[n]
       /\ k # 0 => Holds(e[n], at[k - 1], piece[k])
       /\ Agree(e[k], e[n], at[k])

\* In the join of them all, each piece stands behind the ones before it.
LEMMA JoinedPlaces ==
  ASSUME NEW T, NEW N \in Nat, NEW piece \in [1..N -> Seq(T)], NEW e, Joined(e, T, N, piece)
  PROVE  Places(Offsets(e, N), e, N, piece)
<1> DEFINE at == Offsets(e, N)
           size == [n \in 1..N |-> Len(piece[n])]
<1>1. \A n \in 0..N : e[n] \in Seq(T) /\ Len(e[n]) \in Nat
  BY DEF Joined
<1>2. /\ at \in [0..N -> Nat] /\ at[0] = 0
      /\ \A n \in 0..N : Len(e[n]) <= at[n] /\ at[n] <= Len(e[n])
  <2>1. Len(e[0]) = 0
    BY DEF Joined
  <2> QED
    BY <1>1, <2>1 DEF Offsets
<1>3. \A n \in 1..N : n - 1 \in 0..N /\ n \in 0..N
  OBVIOUS
<1>4. size \in [1..N -> Nat] /\ \A n \in 1..N : size[n] = Len(piece[n])
  <2>1. \A n \in 1..N : piece[n] \in Seq(T) /\ Len(piece[n]) \in Nat
    OBVIOUS
  <2> QED
    BY <2>1
<1>5. ASSUME NEW n \in 1..N
      PROVE  /\ at[n] = at[n - 1] + size[n]
             /\ Agree(e[n - 1], e[n], at[n - 1])
             /\ Holds(e[n], at[n - 1], piece[n])
  <2>1. Joins(e[n], T, e[n - 1], piece[n])
    BY DEF Joined
  <2>2. /\ at[n] = Len(e[n]) /\ at[n - 1] = Len(e[n - 1])
    BY <1>3 DEF Offsets
  <2>3. /\ at[n] \in Nat /\ at[n - 1] \in Nat /\ size[n] \in Nat /\ size[n] = Len(piece[n])
        /\ Len(e[n - 1]) \in Nat
    BY <1>1, <1>2, <1>3, <1>4
  <2>4. at[n] <= at[n - 1] + size[n] /\ at[n - 1] + size[n] <= at[n]
    BY <2>1, <2>2, <2>3 DEF Joins
  <2>5. Agree(e[n - 1], e[n], at[n - 1]) /\ Holds(e[n], at[n - 1], piece[n])
    BY <2>1, <2>2 DEF Joins, Agree, Holds
  <2> HIDE DEF at, size
  <2>6. at[n] = at[n - 1] + size[n]
    <3> DEFINE x == at[n]  y == at[n - 1]  z == size[n]
    <3>1. x \in Nat /\ y \in Nat /\ z \in Nat /\ x <= y + z /\ y + z <= x
      BY <2>3, <2>4
    <3> HIDE DEF x, y, z
    <3>2. x = y + z
      BY <3>1
    <3> QED
      BY <3>2 DEF x, y, z
  <2> QED
    BY <2>5, <2>6, Zenon
<1> HIDE DEF at, size
<1> DEFINE P(n, k) == /\ at[k] <= at[n]
                      /\ k # 0 => Holds(e[n], at[k - 1], piece[k])
                      /\ Agree(e[k], e[n], at[k])
           I == {n \in Nat : n <= N => \A k \in 0..n : P(n, k)}
<1>6. I = Nat
  <2>1. 0 \in I
    <3>1. P(0, 0)
      BY <1>2 DEF Agree
    <3> HIDE DEF P
    <3> QED
      BY <3>1
  <2>2. ASSUME NEW n \in I PROVE n + 1 \in I
    <3>1. SUFFICES ASSUME n + 1 <= N, NEW k \in 0..(n + 1) PROVE P(n + 1, k)
      BY DEF I
    <3>2. n + 1 \in 1..N /\ (n + 1) - 1 = n /\ n \in 0..N /\ n + 1 \in 0..N
      BY <3>1
    <3>3. /\ at[n + 1] = at[n] + size[n + 1]
          /\ Agree(e[n], e[n + 1], at[n])
          /\ Holds(e[n + 1], at[n], piece[n + 1])
      BY <1>5, <3>2
    <3>4. CASE k = n + 1
      <4>1. Agree(e[k], e[n + 1], at[k])
        BY <3>4 DEF Agree
      <4>2. at[k] <= at[n + 1]
        BY <1>2, <3>2, <3>4
      <4>3. Holds(e[n + 1], at[k - 1], piece[k])
        BY <3>2, <3>3, <3>4
      <4> QED
        BY <4>1, <4>2, <4>3
    <3>5. CASE k # n + 1
      <4>1. k \in 0..n /\ k \in 0..N
        BY <3>2, <3>5
      <4>2. P(n, k)
        BY <3>2, <4>1
      <4>3. at[k] \in Nat /\ at[n] \in Nat /\ at[n + 1] \in Nat /\ size[n + 1] \in Nat
        BY <1>2, <1>4, <3>2, <4>1
      <4>4. at[k] <= at[n + 1]
        BY <3>3, <4>2, <4>3
      <4>5. Agree(e[k], e[n + 1], at[k])
        BY <3>3, <4>2, <4>3 DEF Agree
      <4>6. ASSUME k # 0 PROVE Holds(e[n + 1], at[k - 1], piece[k])
        <5>1. k \in 1..N /\ k - 1 \in 0..N
          BY <4>1, <4>6
        <5>2. /\ at[k - 1] \in Nat /\ size[k] \in Nat /\ size[k] = Len(piece[k])
              /\ at[k] = at[k - 1] + size[k]
              /\ Holds(e[n], at[k - 1], piece[k])
          BY <1>2, <1>4, <1>5, <4>2, <4>6, <5>1
        <5>3. ASSUME NEW i \in 1..size[k]
              PROVE  e[n + 1][at[k - 1] + i] = piece[k][i]
          <6>1. at[k - 1] + i \in 1..at[n]
            <7>1. at[k] <= at[n]
              BY <4>2
            <7>2. at[k - 1] \in Nat /\ size[k] \in Nat /\ at[k] = at[k - 1] + size[k]
              BY <5>2
            <7> DEFINE a == at[k - 1]  b == at[k]  c == at[n]  l == size[k]
            <7>3. b <= c /\ a \in Nat /\ l \in Nat /\ b = a + l /\ c \in Nat /\ i \in 1..l
              BY <4>3, <7>1, <7>2
            <7> HIDE DEF a, b, c, l
            <7>4. a + i \in 1..c
              BY <7>3
            <7> QED
              BY <7>4 DEF a, c
          <6> QED
            BY <3>3, <5>2, <6>1 DEF Holds, Agree
        <5> QED
          BY <5>2, <5>3 DEF Holds
      <4> QED
        BY <4>4, <4>5, <4>6
    <3> QED
      BY <3>4, <3>5
  <2>3. I \in SUBSET Nat
    OBVIOUS
  <2> HIDE DEF I
  <2> QED
    BY <2>1, <2>2, <2>3, Induction
<1>7. ASSUME NEW n \in 0..N, NEW k \in 0..n PROVE P(n, k)
  <2>1. n \in I
    <3> HIDE DEF I
    <3> QED
      BY <1>6
  <2> QED
    BY <2>1
<1>8. Places(at, e, N, piece)
  BY <1>2, <1>4, <1>5, <1>7 DEF Places
<1> QED
  BY <1>8 DEF at

-----------------------------------------------------------------------------
\* Windows: the stretch of a stream that has been read and not yet consumed

\* The bytes from behind place a up to place x, as an operator the provers do not expand
Window(bytes, a, x) == SubSeq(bytes, a + 1, x)

\* w has n bytes, those of bytes from behind place a.
Shows(w, T, bytes, a, n) ==
  /\ w \in Seq(T) /\ Len(w) \in Nat /\ Len(w) <= n /\ n <= Len(w)
  /\ \A i \in 1..n : w[i] = bytes[a + i]

\* The window shows the bytes it was cut from.
LEMMA WindowShows ==
  ASSUME NEW T, NEW bytes \in Seq(T), NEW a \in Nat, NEW x \in a..Len(bytes)
  PROVE  Shows(Window(bytes, a, x), T, bytes, a, x - a)
<1> DEFINE w == SubSeq(bytes, a + 1, x)
<1>1. Len(bytes) \in Nat /\ a + 1 \in Int /\ x \in Int /\ x - a \in Nat
  OBVIOUS
<1>2. \A i \in (a + 1)..x : bytes[i] \in T
  BY <1>1
<1>3. /\ w \in Seq(T) /\ Len(w) = IF a + 1 <= x THEN x - (a + 1) + 1 ELSE 0
      /\ \A i \in 1..(x - (a + 1) + 1) : w[i] = bytes[(a + 1) + i - 1]
  BY <1>1, <1>2, SubSeqProperties, SMTT(30)
<1> HIDE DEF w
<1>4. Len(w) \in Nat /\ Len(w) <= x - a /\ x - a <= Len(w)
  BY <1>1, <1>3
<1>5. ASSUME NEW i \in 1..(x - a) PROVE w[i] = bytes[a + i]
  <2>1. i \in 1..(x - (a + 1) + 1) /\ (a + 1) + i - 1 = a + i
    BY <1>1
  <2> QED
    BY <1>3, <2>1
<1>6. Shows(w, T, bytes, a, x - a)
  BY <1>3, <1>4, <1>5 DEF Shows
<1> QED
  BY <1>6 DEF w, Window

\* What shows the same bytes is the same sequence.
LEMMA ShowsSame ==
  ASSUME NEW T, NEW bytes, NEW a, NEW n \in Nat, NEW v, NEW w,
         Shows(v, T, bytes, a, n), Shows(w, T, bytes, a, n)
  PROVE  v = w
<1>1. v \in Seq(T) /\ w \in Seq(T) /\ Len(v) = Len(w)
  BY DEF Shows
<1>2. \A i \in 1..Len(v) : v[i] = w[i]
  BY DEF Shows
<1> QED
  BY <1>1, <1>2, SeqEqual

\* A window of a window is a window.
LEMMA WindowOfWindow ==
  ASSUME NEW T, NEW bytes \in Seq(T), NEW a \in Nat, NEW x \in a..Len(bytes),
         NEW b \in 0..(x - a), NEW c \in b..(x - a)
  PROVE  Window(Window(bytes, a, x), b, c) = Window(bytes, a + b, a + c)
<1> DEFINE v == Window(bytes, a, x)  w == Window(v, b, c)
<1> HIDE DEF v, w
<1>1. Len(bytes) \in Nat
  OBVIOUS
<1>2. Shows(v, T, bytes, a, x - a)
  BY WindowShows DEF v
<1>3. v \in Seq(T) /\ b \in Nat /\ c \in b..Len(v)
  BY <1>1, <1>2 DEF Shows
<1>4. Shows(w, T, v, b, c - b)
  BY <1>3, WindowShows DEF w
<1>5. c - b \in Nat /\ (a + c) - (a + b) = c - b
  BY <1>1
<1>6. Shows(w, T, bytes, a + b, c - b)
  <2>1. ASSUME NEW i \in 1..(c - b) PROVE w[i] = bytes[(a + b) + i]
    <3>1. b + i \in 1..(x - a) /\ a + (b + i) = (a + b) + i
      BY <1>1
    <3>2. w[i] = v[b + i] /\ v[b + i] = bytes[a + (b + i)]
      BY <1>2, <1>4, <3>1 DEF Shows
    <3> QED
      BY <3>1, <3>2
  <2> QED
    BY <1>4, <2>1 DEF Shows
<1>7. Shows(Window(bytes, a + b, a + c), T, bytes, a + b, c - b)
  <2>1. a + b \in Nat /\ a + c \in (a + b)..Len(bytes)
    BY <1>1
  <2> QED
    BY <1>5, <2>1, WindowShows
<1>8. w = Window(bytes, a + b, a + c)
  BY <1>5, <1>6, <1>7, ShowsSame
<1> QED
  BY <1>8 DEF w, v

\* Adjacent windows join.
LEMMA WindowsJoin ==
  ASSUME NEW T, NEW bytes \in Seq(T), NEW a \in Nat, NEW x \in a..Len(bytes),
         NEW y \in x..Len(bytes)
  PROVE  Window(bytes, a, x) \o Window(bytes, x, y) = Window(bytes, a, y)
<1> DEFINE u == Window(bytes, a, x)  v == Window(bytes, x, y)  w == Cat(u, v)
<1> HIDE DEF u, v, w
<1>1. Len(bytes) \in Nat /\ x \in Nat /\ y \in a..Len(bytes) /\ x - a \in Nat /\ y - x \in Nat
      /\ y - a \in Nat
  OBVIOUS
<1>2. Shows(u, T, bytes, a, x - a) /\ Shows(v, T, bytes, x, y - x)
  BY <1>1, WindowShows DEF u, v
<1>3. Joins(w, T, u, v)
  <2>1. u \in Seq(T) /\ v \in Seq(T)
    BY <1>2 DEF Shows
  <2> QED
    BY <2>1, Concat DEF w
<1>4. Shows(w, T, bytes, a, y - a)
  <2>1. w \in Seq(T) /\ Len(w) \in Nat /\ Len(w) <= y - a /\ y - a <= Len(w)
    BY <1>1, <1>2, <1>3 DEF Shows, Joins
  <2>2. ASSUME NEW i \in 1..(y - a) PROVE w[i] = bytes[a + i]
    <3>1. /\ Len(u) \in Nat /\ Len(u) <= x - a /\ x - a <= Len(u)
          /\ Len(v) \in Nat /\ Len(v) <= y - x /\ y - x <= Len(v)
      BY <1>1, <1>2 DEF Shows
    <3>2. CASE i <= x - a
      BY <1>1, <1>2, <1>3, <3>1, <3>2 DEF Shows, Joins
    <3>3. CASE i > x - a
      <4>1. i - (x - a) \in 1..(y - x) /\ x + (i - (x - a)) = a + i
        BY <1>1, <3>3
      <4>2. w[i] = v[i - (x - a)]
        <5>1. Len(u) + (i - (x - a)) = i /\ i - (x - a) \in 1..Len(v)
          BY <1>1, <3>1, <4>1
        <5>2. w[Len(u) + (i - (x - a))] = v[i - (x - a)]
          BY <1>3, <5>1 DEF Joins
        <5> QED
          BY <5>1, <5>2
      <4>3. v[i - (x - a)] = bytes[x + (i - (x - a))]
        BY <1>2, <4>1 DEF Shows
      <4> QED
        BY <4>1, <4>2, <4>3
    <3> QED
      BY <1>1, <3>2, <3>3
  <2> QED
    BY <2>1, <2>2 DEF Shows
<1>5. Shows(Window(bytes, a, y), T, bytes, a, y - a)
  BY <1>1, WindowShows
<1>6. w = Window(bytes, a, y)
  BY <1>1, <1>4, <1>5, ShowsSame
<1> QED
  BY <1>6 DEF u, v, w, Cat

-----------------------------------------------------------------------------
\* The frame stream of the model: its frames one behind the other, then the fault

\* The frames of stream s, the bytes that occur in it, its frames joined, and where
\* each of them ends.
FrameOf(s) == [n \in 1..Len(s.messages) |-> Encode(s.encoder, s.messages[n], s.key)]
AnyByte(s) == Byte \cup {s.fault[i] : i \in 1..Len(s.fault)}
Encodings(s) == Encoded(s.encoder, s.key, s.messages)
Ends(s) == Offsets(Encodings(s), Len(s.messages))

\* Encoded joins the frames of the messages.
LEMMA EncodedRecursion ==
  ASSUME NEW encoder, NEW key, NEW messages, Len(messages) \in Nat,
         NEW piece, piece = [n \in 1..Len(messages) |-> Encode(encoder, messages[n], key)],
         NEW T, piece \in [1..Len(messages) -> Seq(T)]
  PROVE  Recursion(Encoded(encoder, key, messages), Len(messages), piece)
<1> DEFINE N == Len(messages)
           encoded[n \in 0..N] ==
             IF n = 0 THEN <<>> ELSE encoded[n - 1] \o Encode(encoder, messages[n], key)
<1>1. PICK e : Recursion(e, N, piece)
  BY JoinedExists
<1>2. \A n \in 1..N : piece[n] = Encode(encoder, messages[n], key)
  OBVIOUS
<1>3. ASSUME NEW f PROVE [n \in 0..N |-> IF n = 0 THEN <<>> ELSE Cat(f[n - 1], piece[n])]
        = [n \in 0..N |-> IF n = 0 THEN <<>> ELSE f[n - 1] \o Encode(encoder, messages[n], key)]
  <2>1. ASSUME NEW n \in 0..N, n # 0
        PROVE  Cat(f[n - 1], piece[n]) = f[n - 1] \o Encode(encoder, messages[n], key)
    <3>1. n \in 1..N
      BY <2>1
    <3>2. piece[n] = Encode(encoder, messages[n], key)
      BY <1>2, <3>1
    <3> QED
      BY <3>2 DEF Cat
  <2> QED
    BY <2>1, Zenon
<1>4. e = [n \in 0..N |-> IF n = 0 THEN <<>> ELSE e[n - 1] \o Encode(encoder, messages[n], key)]
  BY <1>1, <1>3, Zenon DEF Recursion
<1>5. encoded = [n \in 0..N |-> IF n = 0 THEN <<>>
                                ELSE encoded[n - 1] \o Encode(encoder, messages[n], key)]
  BY <1>4, Zenon
<1>6. Encoded(encoder, key, messages) = encoded
  BY Zenon DEF Encoded
<1> HIDE DEF encoded
<1>7. Recursion(encoded, N, piece)
  BY <1>3, <1>5, Zenon DEF Recursion
<1> QED
  BY <1>6, <1>7

\* What the stream s consists of: the frames of its messages, each at its place, then the fault.
FrameChannel(s, at, N, piece) ==
  /\ N \in Nat /\ s.messages \in Seq(Message) /\ N = Len(s.messages)
  /\ at \in [0..N -> Nat] /\ at[0] = 0
  /\ \A n \in 1..N : /\ s.messages[n] \in Message /\ Whole(piece[n], s.messages[n])
                     /\ at[n] = at[n - 1] + Len(piece[n])
                     /\ Holds(s.bytes, at[n - 1], piece[n])
  /\ \A n \in 0..N : \A k \in 0..n : at[k] <= at[n]
  /\ s.bytes \in Seq(AnyByte(s)) /\ Len(s.bytes) \in Nat
  /\ Len(s.fault) \in Nat /\ Holds(s.bytes, at[N], s.fault)
  /\ at[N] <= Len(s.bytes)
  /\ Len(s.bytes) <= at[N] + Len(s.fault) /\ at[N] + Len(s.fault) <= Len(s.bytes)
  /\ s.fault # <<>> => TooLarge(s.fault) \/ (HasFrame(s.fault) /\ Fragmented(s.fault))
  /\ s.kind = "frames"

\* A frame stream of the model is a channel of frames, with or without a fault.
LEMMA FrameStreamChannel ==
  ASSUME NEW s, FrameStream(s)
  PROVE  FrameChannel(s, Ends(s), Len(s.messages), FrameOf(s))
<1> DEFINE N == Len(s.messages)
           piece == FrameOf(s)
           T == AnyByte(s)
           e == Encodings(s)
           at == Ends(s)
<1>1. /\ s = Frames(s.encoder, s.key, s.messages, s.fault)
      /\ s.encoder \in Encoders /\ s.key \in Keys
      /\ s.messages \in Seq(Message)
      /\ \A i \in DOMAIN s.messages : Len(s.messages[i].data) < Base4
      /\ IsSequence(s.fault)
      /\ s.fault # <<>> => TooLarge(s.fault) \/ (HasFrame(s.fault) /\ Fragmented(s.fault))
  BY DEF FrameStream, Encoders, Keys, Message, Bit
<1>2. s.kind = "frames" /\ s.bytes = Cat(e[N], s.fault)
  <2>1. Frames(s.encoder, s.key, s.messages, s.fault).kind = "frames"
    BY DEF Frames
  <2>2. Frames(s.encoder, s.key, s.messages, s.fault).bytes = Cat(e[N], s.fault)
    BY DEF Frames, Cat, Encodings
  <2> QED
    BY <1>1, <2>1, <2>2
<1>3. N \in Nat /\ \A n \in 1..N : s.messages[n] \in Message /\ Len(s.messages[n].data) < Base4
  BY <1>1
<1>4. ASSUME NEW n \in 1..N PROVE Whole(piece[n], s.messages[n]) /\ piece[n] \in Seq(T)
  <2>1. piece[n] = Encode(s.encoder, s.messages[n], s.key)
    BY DEF FrameOf
  <2>2. Whole(piece[n], s.messages[n])
    BY <1>1, <1>3, <2>1, EncodeWhole
  <2>3. piece[n] \in Seq(Byte)
    BY <2>2 DEF Whole
  <2>4. Byte \subseteq T
    BY DEF AnyByte
  <2> QED
    BY <2>2, <2>3, <2>4, SeqMonotonic
<1>5. piece = [n \in 1..N |-> Encode(s.encoder, s.messages[n], s.key)]
  BY DEF FrameOf
<1>6. piece \in [1..N -> Seq(T)]
  <2>1. piece = [n \in 1..N |-> piece[n]]
    BY <1>5
  <2> QED
    BY <1>4, <2>1
<1>7. s.fault \in Seq(T) /\ Len(s.fault) \in Nat
  <2>1. Len(s.fault) \in Nat /\ s.fault = [i \in 1..Len(s.fault) |-> s.fault[i]]
    BY <1>1 DEF IsSequence
  <2>2. \A i \in 1..Len(s.fault) : s.fault[i] \in T
    BY DEF AnyByte
  <2>3. s.fault \in [1..Len(s.fault) -> T]
    BY <2>1, <2>2
  <2> QED
    BY <2>1, <2>3, FunctionIsSeq
<1> HIDE DEF piece, T
<1>8. Recursion(e, N, piece)
  BY <1>3, <1>5, <1>6, EncodedRecursion DEF Encodings
<1>9. Joined(e, T, N, piece)
  BY <1>3, <1>6, <1>8, RecursionJoins
<1>10. Places(at, e, N, piece)
  BY <1>3, <1>6, <1>9, JoinedPlaces DEF Ends
<1> HIDE DEF e, at, N
<1>11. /\ at \in [0..N -> Nat] /\ at[0] = 0 /\ N \in 0..N
       /\ \A n \in 1..N : at[n] = at[n - 1] + Len(piece[n])
       /\ \A n \in 0..N : \A k \in 0..n : at[k] <= at[n]
       /\ \A k \in 1..N : Holds(e[N], at[k - 1], piece[k])
       /\ e[N] \in Seq(T) /\ Len(e[N]) \in Nat /\ Len(e[N]) <= at[N] /\ at[N] <= Len(e[N])
  <2>1. N \in 0..N /\ \A k \in 1..N : k \in 0..N /\ k # 0
    BY <1>3
  <2>2. e[N] \in Seq(T) /\ Len(e[N]) \in Nat
    BY <1>9, <2>1 DEF Joined
  <2>3. /\ at \in [0..N -> Nat] /\ at[0] = 0
        /\ \A n \in 0..N : Len(e[n]) <= at[n] /\ at[n] <= Len(e[n])
        /\ \A n \in 1..N : at[n] = at[n - 1] + Len(piece[n])
        /\ \A n \in 0..N : \A k \in 0..n : at[k] <= at[n]
    BY <1>10, Zenon DEF Places
  <2>4. \A k \in 0..N : k # 0 => Holds(e[N], at[k - 1], piece[k])
    BY <1>10, <2>1, Zenon DEF Places
  <2>5. \A k \in 1..N : Holds(e[N], at[k - 1], piece[k])
    BY <2>1, <2>4, Zenon
  <2> QED
    BY <2>1, <2>2, <2>3, <2>5, Zenon
<1>12. Joins(s.bytes, T, e[N], s.fault)
  BY <1>2, <1>7, <1>11, Concat
<1>13. /\ s.bytes \in Seq(T) /\ Len(s.bytes) \in Nat /\ at[N] <= Len(s.bytes)
       /\ Len(s.bytes) <= at[N] + Len(s.fault) /\ at[N] + Len(s.fault) <= Len(s.bytes)
  <2>1. at[N] \in Nat /\ Len(e[N]) \in Nat /\ Len(e[N]) <= at[N] /\ at[N] <= Len(e[N])
    BY <1>11
  <2>2. /\ s.bytes \in Seq(T) /\ Len(s.bytes) \in Nat
        /\ Len(s.bytes) <= Len(e[N]) + Len(s.fault) /\ Len(e[N]) + Len(s.fault) <= Len(s.bytes)
    BY <1>12 DEF Joins
  <2>3. Len(s.fault) \in Nat
    BY <1>7
  <2>4. /\ at[N] <= Len(s.bytes)
        /\ Len(s.bytes) <= at[N] + Len(s.fault) /\ at[N] + Len(s.fault) <= Len(s.bytes)
    BY <2>1, <2>2, <2>3, SumRewritten, Zenon
  <2> QED
    BY <2>2, <2>4
<1>14. Holds(s.bytes, at[N], s.fault)
  <2>1. ASSUME NEW i \in 1..Len(s.fault) PROVE s.bytes[at[N] + i] = s.fault[i]
    <3>1. Len(e[N]) + i = at[N] + i
      <4>1. at[N] \in Nat /\ Len(e[N]) \in Nat /\ Len(e[N]) <= at[N] /\ at[N] <= Len(e[N])
        BY <1>11
      <4> QED
        BY <1>7, <4>1
    <3> QED
      BY <1>12, <3>1 DEF Joins
  <2> QED
    BY <2>1 DEF Holds
<1>15. ASSUME NEW n \in 1..N PROVE Holds(s.bytes, at[n - 1], piece[n])
  <2>1. ASSUME NEW i \in 1..Len(piece[n]) PROVE s.bytes[at[n - 1] + i] = piece[n][i]
    <3>1. piece[n] \in Seq(T) /\ Len(piece[n]) \in Nat /\ n - 1 \in 0..N
      BY <1>3, <1>6
    <3>2. at[n - 1] \in Nat /\ at[n] \in Nat /\ at[N] \in Nat /\ at[n] <= at[N]
      BY <1>11, <3>1
    <3>3. at[n] = at[n - 1] + Len(piece[n])
      BY <1>11
    <3>4. at[n - 1] + i \in 1..Len(e[N])
      <4> DEFINE p == at[n - 1]  q == at[n]  l == Len(e[N])  z == Len(piece[n])  w == at[N]
      <4>1. /\ p \in Nat /\ q \in Nat /\ l \in Nat /\ z \in Nat /\ w \in Nat
            /\ q = p + z /\ q <= w /\ w <= l /\ i \in 1..z
        BY <1>11, <3>1, <3>2, <3>3
      <4> HIDE DEF p, q, l, z, w
      <4>2. p + i \in 1..l
        BY <4>1
      <4> QED
        BY <4>2 DEF p, l
    <3>5. s.bytes[at[n - 1] + i] = e[N][at[n - 1] + i]
      BY <1>12, <3>4 DEF Joins
    <3>6. e[N][at[n - 1] + i] = piece[n][i]
      BY <1>11 DEF Holds
    <3> QED
      BY <3>5, <3>6
  <2> QED
    BY <2>1 DEF Holds
<1> QED
  BY <1>1, <1>2, <1>3, <1>4, <1>7, <1>11, <1>13, <1>14, <1>15 DEF FrameChannel, T, piece, N, at

-----------------------------------------------------------------------------
\* One pass of the frame decoder on what is left of the stream

\* A window from the start is a prefix.
LEMMA WindowPrefix ==
  ASSUME NEW T, NEW u \in Seq(T), NEW k \in 0..Len(u)
  PROVE  /\ IsPrefix(Window(u, 0, k), u)
         /\ Window(u, 0, k) \in Seq(T) /\ Len(Window(u, 0, k)) <= k /\ k <= Len(Window(u, 0, k))
         /\ Len(Window(u, 0, k)) \in Nat
<1> DEFINE w == Window(u, 0, k)
<1>1. k \in Nat /\ Len(u) \in Nat /\ 0 \in Nat /\ k \in 0..Len(u) /\ k - 0 = k
  OBVIOUS
<1> HIDE DEF w
<1>2. Shows(w, T, u, 0, k)
  BY <1>1, WindowShows DEF w
<1>3. /\ w \in Seq(T) /\ Len(w) \in Nat /\ Len(w) <= k /\ k <= Len(w)
      /\ \A i \in 1..k : w[i] = u[0 + i]
  BY <1>2 DEF Shows
<1>4. SubSeq(w, 1, Len(w)) = SubSeq(u, 1, Len(w))
  <2> DEFINE l == Len(w)
  <2>1. \A i \in 1..l : w[i] = u[i]
    BY <1>1, <1>3
  <2>2. 1 \in Int /\ l \in Int
    BY <1>3
  <2> HIDE DEF l
  <2>3. SubSeq(w, 1, l) = SubSeq(u, 1, l)
    BY <2>1, <2>2, SameSub
  <2> QED
    BY <2>3 DEF l
<1>5. IsPrefix(w, u)
  <2>1. Len(w) <= Len(u)
    BY <1>1, <1>3
  <2> QED
    BY <1>4, <2>1, Zenon DEF IsPrefix
<1> QED
  BY <1>3, <1>5 DEF w

\* The window from the start to the end is all of it.
LEMMA WindowAll ==
  ASSUME NEW T, NEW u \in Seq(T)
  PROVE  Window(u, 0, Len(u)) = u
<1> DEFINE w == Window(u, 0, Len(u))
<1>1. Len(u) \in Nat /\ 0 \in Nat /\ Len(u) \in 0..Len(u) /\ Len(u) - 0 = Len(u)
  OBVIOUS
<1> HIDE DEF w
<1>2. Shows(w, T, u, 0, Len(u))
  BY <1>1, WindowShows DEF w
<1>3. Shows(u, T, u, 0, Len(u))
  <2>1. \A i \in 1..Len(u) : u[i] = u[0 + i]
    OBVIOUS
  <2> QED
    BY <1>1, <2>1 DEF Shows
<1>4. w = u
  BY <1>1, <1>2, <1>3, ShowsSame
<1> QED
  BY <1>4 DEF w

\* One more element lengthens the window from the start.
LEMMA WindowAppend ==
  ASSUME NEW T, NEW u \in Seq(T), NEW k \in Nat, k + 1 <= Len(u)
  PROVE  Append(Window(u, 0, k), u[k + 1]) = Window(u, 0, k + 1)
<1> DEFINE w == Window(u, 0, k)  v == Window(u, 0, k + 1)  a == Append(w, u[k + 1])
<1>1. /\ Len(u) \in Nat /\ 0 \in Nat /\ k \in 0..Len(u) /\ k + 1 \in 0..Len(u)
      /\ k - 0 = k /\ (k + 1) - 0 = k + 1 /\ k + 1 \in Nat /\ u[k + 1] \in T
  OBVIOUS
<1> HIDE DEF w, v
<1>2. Shows(w, T, u, 0, k) /\ Shows(v, T, u, 0, k + 1)
  <2>1. Shows(w, T, u, 0, k - 0)
    BY <1>1, WindowShows DEF w
  <2>2. Shows(v, T, u, 0, (k + 1) - 0)
    BY <1>1, WindowShows DEF v
  <2> QED
    BY <1>1, <2>1, <2>2
<1>3. /\ w \in Seq(T) /\ Len(w) \in Nat /\ Len(w) <= k /\ k <= Len(w)
      /\ \A i \in 1..k : w[i] = u[0 + i]
  BY <1>2 DEF Shows
<1>4. /\ a \in Seq(T) /\ Len(a) = Len(w) + 1
      /\ \A i \in 1..Len(w) : a[i] = w[i]
      /\ a[Len(w) + 1] = u[k + 1]
  BY <1>1, <1>3, AppendProperties
<1> HIDE DEF a
<1>5. Len(a) \in Nat /\ Len(a) <= k + 1 /\ k + 1 <= Len(a)
  BY <1>3, <1>4
<1>6. ASSUME NEW i \in 1..(k + 1) PROVE a[i] = u[0 + i]
  <2>1. CASE i \in 1..k
    BY <1>3, <1>4, <2>1
  <2>2. CASE i = k + 1
    <3>1. Len(w) + 1 = i
      BY <1>3, <2>2
    <3> QED
      BY <1>4, <2>2, <3>1
  <2> QED
    BY <2>1, <2>2
<1>7. Shows(a, T, u, 0, k + 1)
  BY <1>4, <1>5, <1>6 DEF Shows
<1>8. a = v
  BY <1>1, <1>2, <1>7, ShowsSame
<1> QED
  BY <1>8 DEF a, w, v

\* The states of a parser that has not failed, and of one that has
Fine(buf, frames) == [buf |-> buf, frames |-> frames, failed |-> FALSE]
Broken(buf, frames) == [buf |-> buf, frames |-> frames, failed |-> TRUE]

\* What a pass of push does, case by case.
LEMMA PassOf ==
  ASSUME NEW buf, NEW frames
  PROVE  /\ ~TooLarge(buf) /\ ~HasFrame(buf) => DrainPass(Fine(buf, frames)) = Fine(buf, frames)
         /\ TooLarge(buf) => DrainPass(Fine(buf, frames)) = Broken(buf, frames)
         /\ ~TooLarge(buf) /\ HasFrame(buf) /\ Fragmented(buf) =>
              DrainPass(Fine(buf, frames)) = Broken(AfterFrame(buf), frames)
         /\ ~TooLarge(buf) /\ HasFrame(buf) /\ ~Fragmented(buf) =>
              DrainPass(Fine(buf, frames)) = Fine(AfterFrame(buf), Append(frames, FrameAt(buf)))
         /\ DrainPass(Broken(buf, frames)) = Broken(buf, frames)
BY Zenon DEF DrainPass, Fine, Broken

\* The state of the parser of captures.
Captured(buf, frames) == [buf |-> buf, frames |-> frames]

\* What a pass of _parseWsFrames does, case by case.
LEMMA CapturePassOf ==
  ASSUME NEW buf, NEW frames
  PROVE  /\ ~HasFrame(buf) => CapturePass(Captured(buf, frames)) = Captured(buf, frames)
         /\ HasFrame(buf) /\ ~Fragmented(buf) =>
              CapturePass(Captured(buf, frames))
                = Captured(AfterFrame(buf), Append(frames, FrameAt(buf)))
BY Zenon DEF CapturePass, Captured, Fragmented

\* The parser that has read x bytes of a channel and delivered k messages
Between(s, at, k, x) == Fine(Window(s.bytes, at[k], x), Window(s.messages, 0, k))

\* The bytes that k messages and what has come of the rest leave waiting
LEMMA Waiting ==
  ASSUME NEW s, NEW at, NEW N, NEW piece, FrameChannel(s, at, N, piece),
         NEW k \in 0..N, NEW x \in at[k]..Len(s.bytes)
  PROVE  /\ Shows(Window(s.bytes, at[k], x), AnyByte(s), s.bytes, at[k], x - at[k])
         /\ Len(s.bytes) \in Nat /\ at[k] \in Nat /\ x \in Nat
<1>1. s.bytes \in Seq(AnyByte(s)) /\ Len(s.bytes) \in Nat /\ at[k] \in Nat
  BY DEF FrameChannel
<1> QED
  BY <1>1, WindowShows

\* A message that is all there is what the next pass takes.
LEMMA NextFrame ==
  ASSUME NEW s, NEW at, NEW N, NEW piece, FrameChannel(s, at, N, piece),
         NEW k \in 0..N, k < N, NEW x \in at[k]..Len(s.bytes), at[k + 1] <= x
  PROVE  LET buf == Window(s.bytes, at[k], x) IN
         /\ HasFrame(buf) /\ ~TooLarge(buf) /\ ~Fragmented(buf)
         /\ AfterFrame(buf) = Window(s.bytes, at[k + 1], x)
         /\ FrameAt(buf) = s.messages[k + 1]
         /\ at[k] + 2 <= at[k + 1] /\ at[k + 1] \in Nat
<1> DEFINE buf == Window(s.bytes, at[k], x)
           f == piece[k + 1]
           T == AnyByte(s)
           size == Len(f)
<1> HIDE DEF buf, f, T
<1>1. /\ N \in Nat /\ k + 1 \in 1..N /\ (k + 1) - 1 = k /\ k \in Nat /\ k + 1 \in 0..N
  BY DEF FrameChannel
<1>2. Shows(buf, T, s.bytes, at[k], x - at[k]) /\ Len(s.bytes) \in Nat /\ at[k] \in Nat /\ x \in Nat
  BY Waiting DEF buf, T
<1>3. /\ s.messages[k + 1] \in Message /\ Whole(f, s.messages[k + 1])
      /\ at[k + 1] = at[k] + size
      /\ Holds(s.bytes, at[k], f)
      /\ s.bytes \in Seq(T)
  BY <1>1 DEF FrameChannel, f, T
<1>4. size \in Nat /\ size >= 2
  BY <1>3, WholeHas
<1>5. /\ Len(buf) \in Nat /\ Len(buf) <= x - at[k] /\ x - at[k] <= Len(buf)
      /\ \A i \in 1..(x - at[k]) : buf[i] = s.bytes[at[k] + i]
  BY <1>2 DEF Shows
<1>6. \A i \in 1..size : s.bytes[at[k] + i] = f[i]
  BY <1>3 DEF Holds
<1> HIDE DEF size
<1>7. /\ at[k + 1] \in Nat /\ at[k] + 2 <= at[k + 1] /\ x \in at[k + 1]..Len(s.bytes)
      /\ size \in 0..(x - at[k]) /\ x - at[k] \in size..(x - at[k])
      /\ at[k] + size = at[k + 1] /\ at[k] + (x - at[k]) = x
  BY <1>2, <1>3, <1>4
<1>8. Agree(f, buf, size) /\ Len(buf) >= size
  <2>1. ASSUME NEW i \in 1..size PROVE f[i] = buf[i]
    <3>1. i \in 1..(x - at[k])
      BY <1>7
    <3> QED
      BY <1>5, <1>6, <3>1
  <2>2. Len(buf) >= size
    BY <1>4, <1>5, <1>7
  <2> QED
    BY <2>1, <2>2 DEF Agree
<1>9. /\ HasFrame(buf) /\ ~TooLarge(buf) /\ ~Fragmented(buf)
      /\ FrameEnd(buf) = size /\ FrameAt(buf) = s.messages[k + 1]
  BY <1>3, <1>5, <1>8, Longer, Zenon DEF size
<1>10. AfterFrame(buf) = Window(s.bytes, at[k + 1], x)
  <2>1. Window(Window(s.bytes, at[k], x), size, x - at[k])
          = Window(s.bytes, at[k] + size, at[k] + (x - at[k]))
    <3>1. /\ s.bytes \in Seq(T) /\ at[k] \in Nat /\ x \in at[k]..Len(s.bytes)
          /\ size \in 0..(x - at[k]) /\ x - at[k] \in size..(x - at[k])
      BY <1>2, <1>3, <1>7
    <3> QED
      BY <3>1, WindowOfWindow
  <2> DEFINE n == Len(buf)
  <2>2. n \in Nat /\ n <= x - at[k] /\ x - at[k] <= n
    BY <1>5
  <2>3. AfterFrame(buf) = Window(buf, size, n)
    BY <1>9, Zenon DEF AfterFrame, Window
  <2> HIDE DEF n
  <2>4. n = x - at[k]
    BY <1>2, <2>2
  <2> QED
    BY <1>7, <2>1, <2>3, <2>4, Zenon DEF buf
<1> QED
  BY <1>7, <1>9, <1>10, Zenon DEF buf

\* As long as the next message is not all there, and behind the last one, a pass does nothing.
LEMMA NoFrame ==
  ASSUME NEW s, NEW at, NEW N, NEW piece, FrameChannel(s, at, N, piece),
         NEW k \in 0..N, NEW x \in at[k]..Len(s.bytes),
         k < N => x < at[k + 1], k = N => s.fault = <<>>
  PROVE  ~HasFrame(Window(s.bytes, at[k], x)) /\ ~TooLarge(Window(s.bytes, at[k], x))
<1> DEFINE buf == Window(s.bytes, at[k], x)
           f == piece[k + 1]
           T == AnyByte(s)
           size == Len(f)
<1> HIDE DEF buf, f, T
<1>2. Shows(buf, T, s.bytes, at[k], x - at[k]) /\ Len(s.bytes) \in Nat /\ at[k] \in Nat /\ x \in Nat
  BY Waiting DEF buf, T
<1>5. /\ Len(buf) \in Nat /\ Len(buf) <= x - at[k] /\ x - at[k] <= Len(buf)
      /\ \A i \in 1..(x - at[k]) : buf[i] = s.bytes[at[k] + i]
  BY <1>2 DEF Shows
<1>6. CASE k < N
  <2>1. /\ N \in Nat /\ k + 1 \in 1..N /\ (k + 1) - 1 = k /\ k \in Nat /\ k + 1 \in 0..N
    BY <1>6 DEF FrameChannel
  <2>2. /\ s.messages[k + 1] \in Message /\ Whole(f, s.messages[k + 1])
        /\ at[k + 1] = at[k] + size /\ at[k + 1] \in Nat
        /\ Holds(s.bytes, at[k], f)
    BY <2>1 DEF FrameChannel, f
  <2>3. size \in Nat /\ size >= 2
    BY <2>2, WholeHas
  <2>4. \A i \in 1..size : s.bytes[at[k] + i] = f[i]
    BY <2>2 DEF Holds
  <2> HIDE DEF size
  <2>5. x - at[k] < size
    BY <1>2, <1>6, <2>2, <2>3
  <2>6. Len(buf) < size
    BY <1>2, <1>5, <2>3, <2>5
  <2>7. Agree(f, buf, Len(buf))
    <3>1. ASSUME NEW i \in 1..Len(buf) PROVE f[i] = buf[i]
      <4>1. i \in 1..size /\ i \in 1..(x - at[k])
        BY <1>2, <1>5, <2>3, <2>5
      <4> QED
        BY <1>5, <2>4, <4>1
    <3> QED
      BY <3>1 DEF Agree
  <2>8. ~HasFrame(buf) /\ ~TooLarge(buf)
    BY <1>5, <2>2, <2>6, <2>7, Shorter, Zenon DEF size
  <2> QED
    BY <2>8 DEF buf
<1>7. CASE k = N
  <2>1. Len(s.fault) = 0
    BY <1>7
  <2>2. Len(s.bytes) <= at[N] + 0
    BY <2>1 DEF FrameChannel
  <2>3. x = at[k]
    BY <1>2, <1>7, <2>2
  <2>4. ~(Len(buf) >= 2) /\ ~(Len(buf) >= 10)
    BY <1>2, <1>5, <2>3
  <2>5. ~HasFrame(buf) /\ ~TooLarge(buf)
    BY <2>4 DEF HasFrame, TooLarge
  <2> QED
    BY <2>5 DEF buf
<1> QED
  <2>1. k < N \/ k = N
    BY DEF FrameChannel
  <2> QED
    BY <1>6, <1>7, <2>1

\* Behind the last message a frame that is not supported is never delivered, and found once it
\* has come.
LEMMA FaultAhead ==
  ASSUME NEW s, NEW at, NEW N, NEW piece, FrameChannel(s, at, N, piece), s.fault # <<>>,
         NEW x \in at[N]..Len(s.bytes)
  PROVE  LET buf == Window(s.bytes, at[N], x) IN
         /\ TooLarge(buf) \/ ~HasFrame(buf) \/ Fragmented(buf)
         /\ x = Len(s.bytes) => TooLarge(buf) \/ (HasFrame(buf) /\ Fragmented(buf))
<1> DEFINE buf == Window(s.bytes, at[N], x)
           f == s.fault
           T == AnyByte(s)
           size == Len(f)
<1> HIDE DEF buf, T
<1>1. N \in 0..N
  BY DEF FrameChannel
<1>2. Shows(buf, T, s.bytes, at[N], x - at[N]) /\ Len(s.bytes) \in Nat /\ at[N] \in Nat /\ x \in Nat
  BY <1>1, Waiting DEF buf, T
<1>3. /\ TooLarge(f) \/ (HasFrame(f) /\ Fragmented(f))
      /\ size \in Nat /\ Holds(s.bytes, at[N], f)
      /\ Len(s.bytes) <= at[N] + size /\ at[N] + size <= Len(s.bytes)
      /\ s.bytes \in Seq(T)
  BY DEF FrameChannel, T
<1>5. /\ Len(buf) \in Nat /\ Len(buf) <= x - at[N] /\ x - at[N] <= Len(buf)
      /\ \A i \in 1..(x - at[N]) : buf[i] = s.bytes[at[N] + i]
  BY <1>2 DEF Shows
<1>6. \A i \in 1..size : s.bytes[at[N] + i] = f[i]
  BY <1>3 DEF Holds
<1> HIDE DEF size, f
<1>7. x - at[N] <= size /\ Len(buf) <= size
  BY <1>2, <1>3, <1>5
<1>8. \A i \in 1..Len(buf) : f[i] = buf[i]
  <2>1. ASSUME NEW i \in 1..Len(buf) PROVE f[i] = buf[i]
    <3>1. i \in 1..size /\ i \in 1..(x - at[N])
      BY <1>2, <1>3, <1>5, <1>7
    <3> QED
      BY <1>5, <1>6, <3>1
  <2> QED
    BY <2>1
<1>9. TooLarge(buf) \/ ~HasFrame(buf) \/ Fragmented(buf)
  <2>1. Agree(f, buf, Len(buf))
    BY <1>8 DEF Agree
  <2>2. Len(f) \in Nat /\ Len(buf) \in Nat /\ Len(buf) <= Len(f)
    BY <1>3, <1>5, <1>7 DEF size
  <2> QED
    BY <1>3, <2>1, <2>2, FaultShorter, Zenon
<1>10. ASSUME x = Len(s.bytes) PROVE TooLarge(buf) \/ (HasFrame(buf) /\ Fragmented(buf))
  <2>1. Len(buf) >= size
    BY <1>2, <1>3, <1>5, <1>10
  <2>2. CASE TooLarge(f)
    <3>1. size >= 10 /\ f[2].code = Code64 /\ ReadUInt32(f, 3) # 0
      BY <2>2 DEF TooLarge, size
    <3>2. Agree(f, buf, 10)
      <4>1. ASSUME NEW i \in 1..10 PROVE i \in 1..Len(buf)
        BY <1>3, <1>5, <2>1, <3>1
      <4> QED
        BY <1>8, <4>1 DEF Agree
    <3>3. f[2] = buf[2] /\ ReadUInt32(f, 3) = ReadUInt32(buf, 3)
      BY <3>2, SameHeader
    <3>4. Len(buf) >= 10
      BY <1>3, <1>5, <2>1, <3>1
    <3> QED
      BY <3>1, <3>3, <3>4 DEF TooLarge
  <2>3. CASE HasFrame(f) /\ Fragmented(f)
    <3>1. size >= 2 /\ size >= DataAt(f) /\ size >= FrameEnd(f)
      BY <2>3 DEF HasFrame, size
    <3>2. Agree(f, buf, size)
      <4>1. ASSUME NEW i \in 1..size PROVE i \in 1..Len(buf)
        BY <1>3, <1>5, <2>1
      <4> QED
        BY <1>8, <4>1 DEF Agree
    <3>3. /\ DataAt(f) = DataAt(buf) /\ Fragmented(f) = Fragmented(buf)
          /\ FrameEnd(f) = FrameEnd(buf)
      BY <1>3, <3>1, <3>2, SameHeader
    <3>4. Len(buf) = size
      BY <1>3, <1>5, <1>7, <2>1
    <3> QED
      BY <2>3, <3>1, <3>3, <3>4 DEF HasFrame
  <2> QED
    BY <1>3, <2>2, <2>3
<1> QED
  BY <1>9, <1>10 DEF buf

\* What the parser has become once its loop is through, with x bytes read
Settled(s, at, N, x, p) ==
  \/ \E k \in 0..N : at[k] <= x /\ p = Between(s, at, k, x) /\ DrainPass(p) = p
  \/ s.fault # <<>> /\ \E buf : p = Broken(buf, s.messages)

\* A pass takes the next frame if all of it is there and waits if not.
LEMMA BetweenPass ==
  ASSUME NEW s, NEW at, NEW N, NEW piece, FrameChannel(s, at, N, piece),
         NEW k \in 0..N, NEW x \in at[k]..Len(s.bytes)
  PROVE  /\ k < N /\ at[k + 1] <= x => /\ DrainPass(Between(s, at, k, x)) = Between(s, at, k + 1, x)
                                       /\ at[k] + 2 <= at[k + 1] /\ at[k + 1] \in Nat
         /\ (k < N /\ ~(at[k + 1] <= x)) \/ (k = N /\ s.fault = <<>>) =>
              DrainPass(Between(s, at, k, x)) = Between(s, at, k, x)
<1> DEFINE buf == Window(s.bytes, at[k], x)
           frames == Window(s.messages, 0, k)
<1>1. s.messages \in Seq(Message) /\ N = Len(s.messages) /\ N \in Nat /\ k \in Nat
  BY DEF FrameChannel
<1>2. Len(s.bytes) \in Nat /\ at[k] \in Nat /\ x \in Nat
  BY Waiting
<1>3. Between(s, at, k, x) = Fine(buf, frames)
  BY DEF Between
<1> HIDE DEF buf, frames
<1>4. ASSUME k < N, at[k + 1] <= x
      PROVE  /\ DrainPass(Between(s, at, k, x)) = Between(s, at, k + 1, x)
             /\ at[k] + 2 <= at[k + 1] /\ at[k + 1] \in Nat
  <2>1. /\ HasFrame(buf) /\ ~TooLarge(buf) /\ ~Fragmented(buf)
        /\ AfterFrame(buf) = Window(s.bytes, at[k + 1], x)
        /\ FrameAt(buf) = s.messages[k + 1]
        /\ at[k] + 2 <= at[k + 1] /\ at[k + 1] \in Nat
    BY <1>4, NextFrame, Zenon DEF buf
  <2>2. DrainPass(Fine(buf, frames)) = Fine(AfterFrame(buf), Append(frames, FrameAt(buf)))
    BY <2>1, PassOf, Zenon
  <2>3. k + 1 <= Len(s.messages)
    BY <1>1, <1>4
  <2>4. Append(Window(s.messages, 0, k), s.messages[k + 1]) = Window(s.messages, 0, k + 1)
    BY <1>1, <2>3, WindowAppend, Zenon
  <2>5. Append(frames, FrameAt(buf)) = Window(s.messages, 0, k + 1)
    BY <2>1, <2>4, Zenon DEF frames
  <2> QED
    BY <1>3, <2>1, <2>2, <2>5, Zenon DEF Between
<1>5. ASSUME (k < N /\ ~(at[k + 1] <= x)) \/ (k = N /\ s.fault = <<>>)
      PROVE  DrainPass(Between(s, at, k, x)) = Between(s, at, k, x)
  <2>1. (k < N => x < at[k + 1]) /\ (k = N => s.fault = <<>>)
    <3>1. CASE k < N
      <4>1. at[k + 1] \in Nat
        <5>1. at \in [0..N -> Nat]
          BY DEF FrameChannel
        <5>2. k + 1 \in 0..N
          BY <1>1, <3>1
        <5> QED
          BY <5>1, <5>2
      <4> QED
        BY <1>1, <1>2, <1>5, <3>1, <4>1
    <3>2. CASE k = N
      BY <1>1, <1>5, <3>2
    <3> QED
      BY <1>5, <3>1, <3>2
  <2>2. ~HasFrame(buf) /\ ~TooLarge(buf)
    BY <2>1, NoFrame, Zenon DEF buf
  <2> QED
    BY <1>3, <2>2, PassOf, Zenon
<1> QED
  BY <1>4, <1>5

\* A pass on the fault waits or gives up, and gives up once all of it is there.
LEMMA FaultPass ==
  ASSUME NEW s, NEW at, NEW N, NEW piece, FrameChannel(s, at, N, piece), s.fault # <<>>,
         NEW x \in at[N]..Len(s.bytes)
  PROVE  LET p == Between(s, at, N, x)
             buf == Window(s.bytes, at[N], x)
         IN  /\ DrainPass(p) \in {p, Broken(buf, s.messages), Broken(AfterFrame(buf), s.messages)}
             /\ x = Len(s.bytes) => DrainPass(p) # p
             /\ DrainPass(p) = p \/ Len(buf) > 0
<1> DEFINE p == Between(s, at, N, x)
           buf == Window(s.bytes, at[N], x)
<1>1. s.messages \in Seq(Message) /\ N = Len(s.messages)
  BY DEF FrameChannel
<1>2. p = Fine(buf, s.messages)
  BY <1>1, WindowAll, Zenon DEF Between
<1>3. /\ TooLarge(buf) \/ ~HasFrame(buf) \/ Fragmented(buf)
      /\ x = Len(s.bytes) => TooLarge(buf) \/ (HasFrame(buf) /\ Fragmented(buf))
  BY FaultAhead, Zenon
<1>4. Broken(buf, s.messages) # p /\ Broken(AfterFrame(buf), s.messages) # p
  <2> HIDE DEF buf
  <2> QED
    BY <1>2 DEF Broken, Fine
<1>5. CASE TooLarge(buf)
  <2>1. DrainPass(p) = Broken(buf, s.messages)
    BY <1>2, <1>5, PassOf, Zenon
  <2>2. Len(buf) > 0
    <3> HIDE DEF buf
    <3>1. Len(buf) >= 10
      BY <1>5 DEF TooLarge
    <3>2. Len(buf) \in Int
      <4>1. N \in 0..N
        BY DEF FrameChannel
      <4>2. Shows(buf, AnyByte(s), s.bytes, at[N], x - at[N])
        BY <4>1, Waiting DEF buf
      <4> QED
        BY <4>2 DEF Shows
    <3> QED
      BY <3>1, <3>2
  <2> QED
    BY <1>4, <2>1, <2>2, Zenon
<1>6. CASE ~TooLarge(buf) /\ ~HasFrame(buf)
  <2>1. DrainPass(p) = p
    BY <1>2, <1>6, PassOf, Zenon
  <2>2. x # Len(s.bytes)
    BY <1>3, <1>6
  <2> QED
    BY <2>1, <2>2, Zenon
<1>7. CASE ~TooLarge(buf) /\ HasFrame(buf)
  <2>1. DrainPass(p) = Broken(AfterFrame(buf), s.messages)
    BY <1>2, <1>3, <1>7, PassOf, Zenon
  <2>2. Len(buf) > 0
    <3> HIDE DEF buf
    <3>1. Len(buf) >= 2
      BY <1>7 DEF HasFrame
    <3>2. Len(buf) \in Int
      <4>1. N \in 0..N
        BY DEF FrameChannel
      <4>2. Shows(buf, AnyByte(s), s.bytes, at[N], x - at[N])
        BY <4>1, Waiting DEF buf
      <4> QED
        BY <4>2 DEF Shows
    <3> QED
      BY <3>1, <3>2
  <2> QED
    BY <1>4, <2>1, <2>2, Zenon
<1> QED
  BY <1>5, <1>6, <1>7, Zenon

-----------------------------------------------------------------------------
\* The frame decoders settle where the stream tells them to

\* Once the loop is through, no message that has come is left.
LEMMA DrainSettles ==
  ASSUME NEW s, NEW at, NEW N, NEW piece, FrameChannel(s, at, N, piece),
         NEW k \in 0..N, NEW x \in at[k]..Len(s.bytes)
  PROVE  Settled(s, at, N, x, Drain(Between(s, at, k, x)))
<1> DEFINE a == Between(s, at, k, x)
           J == {j \in 0..N : at[j] <= x}
           F == {Between(s, at, j, x) : j \in J}
           last == Window(s.bytes, at[N], x)
           B == IF s.fault # <<>>
                THEN {Broken(last, s.messages), Broken(AfterFrame(last), s.messages)} ELSE {}
           S == F \cup B
           size == [p \in S |-> IF p.failed THEN 0 ELSE Len(p.buf)]
<1>1. /\ N \in Nat /\ N \in 0..N /\ at \in [0..N -> Nat] /\ Len(s.bytes) \in Nat
  BY DEF FrameChannel
<1>2. x \in Nat /\ at[k] <= x /\ x <= Len(s.bytes) /\ at[k] \in Nat
  BY <1>1
<1>3. \A j \in J : j \in 0..N /\ at[j] \in Nat /\ x \in at[j]..Len(s.bytes)
  BY <1>1, <1>2
<1> HIDE DEF J
<1>4. ASSUME NEW j \in J
      PROVE  /\ Between(s, at, j, x) \in S
             /\ size[Between(s, at, j, x)] \in Nat
             /\ size[Between(s, at, j, x)] = x - at[j]
             /\ size[Between(s, at, j, x)] = Len(Window(s.bytes, at[j], x))
  <2> DEFINE p == Between(s, at, j, x)
             n == Len(Window(s.bytes, at[j], x))
  <2>1. p \in S
    BY DEF S
  <2>2. size[p] = n
    <3>1. p.failed = FALSE /\ p.buf = Window(s.bytes, at[j], x)
      BY DEF Between, Fine
    <3>2. size[p] = IF p.failed THEN 0 ELSE Len(p.buf)
      BY <2>1
    <3> HIDE DEF p, size
    <3> QED
      BY <3>1, <3>2, Zenon
  <2>3. n \in Nat /\ n <= x - at[j] /\ x - at[j] <= n
    <3>1. Shows(Window(s.bytes, at[j], x), AnyByte(s), s.bytes, at[j], x - at[j])
      BY <1>3, Waiting
    <3> QED
      BY <3>1 DEF Shows
  <2>4. at[j] \in Nat /\ x \in Nat
    BY <1>2, <1>3
  <2> HIDE DEF n, size, p
  <2>5. n = x - at[j]
    BY <2>3, <2>4
  <2> QED
    BY <2>1, <2>2, <2>3, <2>5, Zenon DEF n, p
<1>5. ASSUME NEW p \in B
      PROVE  /\ p \in S /\ size[p] = 0 /\ DrainPass(p) = p
             /\ s.fault # <<>> /\ \E buf : p = Broken(buf, s.messages)
  <2>1. s.fault # <<>> /\ \E buf : p = Broken(buf, s.messages)
    BY DEF B
  <2>2. PICK buf : p = Broken(buf, s.messages)
    BY <2>1
  <2>3. p.failed = TRUE
    BY <2>2 DEF Broken
  <2>4. DrainPass(p) = p
    BY <2>2, PassOf, Zenon
  <2>5. p \in S
    BY DEF S
  <2>6. size[p] = 0
    <3>1. size[p] = IF p.failed THEN 0 ELSE Len(p.buf)
      BY <2>5
    <3> HIDE DEF size, B
    <3> QED
      BY <2>3, <3>1, Zenon
  <2> QED
    BY <2>1, <2>4, <2>5, <2>6, Zenon
<1>6. size \in [S -> Nat]
  <2>1. ASSUME NEW p \in S PROVE size[p] \in Nat
    <3>1. CASE p \in B
      <4> HIDE DEF size, B, S
      <4> QED
        BY <1>5, <3>1
    <3>2. CASE p \in F
      <4>1. PICK j \in J : p = Between(s, at, j, x)
        BY <3>2
      <4> HIDE DEF size, B, S, F
      <4> QED
        BY <1>4, <4>1, Zenon
    <3> QED
      BY <3>1, <3>2
  <2>2. size = [p \in S |-> size[p]]
    OBVIOUS
  <2> HIDE DEF size, S
  <2> QED
    BY <2>1, <2>2
<1>7. ASSUME NEW p \in S
      PROVE  DrainPass(p) \in S /\ (DrainPass(p) = p \/ size[DrainPass(p)] < size[p])
  <2>1. CASE p \in B
    <3> HIDE DEF size, B, S
    <3> QED
      BY <1>5, <2>1, Zenon
  <2>2. CASE p \in F
    <3>1. PICK j \in J : p = Between(s, at, j, x)
      BY <2>2
    <3> HIDE DEF size, F
    <3>2. j \in 0..N /\ at[j] \in Nat /\ x \in at[j]..Len(s.bytes)
      BY <1>3
    <3>3. CASE j < N /\ at[j + 1] <= x
      <4>1. /\ DrainPass(p) = Between(s, at, j + 1, x)
            /\ at[j] + 2 <= at[j + 1] /\ at[j + 1] \in Nat
        BY <3>1, <3>2, <3>3, BetweenPass
      <4>2. j + 1 \in J
        BY <1>1, <3>2, <3>3 DEF J
      <4>3. /\ Between(s, at, j + 1, x) \in S
            /\ size[Between(s, at, j + 1, x)] = x - at[j + 1]
            /\ size[p] = x - at[j]
        BY <1>4, <3>1, <4>2, Zenon
      <4>4. x - at[j + 1] < x - at[j]
        BY <1>2, <3>2, <4>1
      <4> HIDE DEF S, B
      <4> QED
        BY <4>1, <4>3, <4>4, Zenon
    <3>4. CASE j < N /\ ~(at[j + 1] <= x)
      <4>1. DrainPass(p) = p
        BY <3>1, <3>2, <3>4, BetweenPass
      <4> HIDE DEF S
      <4> QED
        BY <4>1, Zenon
    <3>5. CASE j = N
      <4>1. CASE s.fault = <<>>
        <5> HIDE DEF S
        <5> QED
          BY <3>1, <3>2, <3>5, <4>1, BetweenPass, Zenon
      <4>2. CASE s.fault # <<>>
        <5>1. /\ DrainPass(p) \in
                   {p, Broken(last, s.messages), Broken(AfterFrame(last), s.messages)}
              /\ DrainPass(p) = p \/ Len(last) > 0
          <6>1. x \in at[N]..Len(s.bytes)
            BY <3>2, <3>5, Zenon
          <6> QED
            BY <3>1, <3>5, <4>2, <6>1, FaultPass, Zenon
        <5>2. SUFFICES ASSUME DrainPass(p) # p
                       PROVE  DrainPass(p) \in S /\ size[DrainPass(p)] < size[p]
          BY Zenon
        <5>3. DrainPass(p) \in B
          <6> HIDE DEF last
          <6> QED
            BY <4>2, <5>1, <5>2, Zenon
        <5>4. DrainPass(p) \in S /\ size[DrainPass(p)] = 0
          <6> HIDE DEF S, B, last
          <6> QED
            BY <1>5, <5>3, Zenon
        <5>5. size[p] = Len(last)
          BY <1>4, <3>1, <3>5, Zenon
        <5> HIDE DEF S, B, last
        <5>6. 0 < size[p]
          BY <5>1, <5>2, <5>5
        <5> QED
          BY <5>4, <5>6, Zenon
      <4> QED
        BY <4>1, <4>2
    <3> QED
      <4>1. j < N \/ j = N
        BY <1>1, <3>2
      <4> QED
        BY <3>3, <3>4, <3>5, <4>1
  <2> QED
    BY <2>1, <2>2
<1>8. a \in S /\ Len(a.buf) \in Nat /\ size[a] = Len(a.buf)
  <2>1. k \in J
    BY <1>2 DEF J
  <2>2. a.buf = Window(s.bytes, at[k], x)
    BY DEF Between, Fine
  <2>3. a \in S /\ size[a] \in Nat /\ size[a] = Len(Window(s.bytes, at[k], x))
    BY <1>4, <2>1, Zenon
  <2> HIDE DEF a, S, size
  <2> QED
    BY <2>2, <2>3, Zenon
<1> HIDE DEF a, S, size, B, F
<1>9. Drain(a) \in S /\ DrainPass(Drain(a)) = Drain(a)
  BY <1>6, <1>7, <1>8, DrainLoop
<1>10. CASE Drain(a) \in B
  <2>1. s.fault # <<>> /\ \E buf : Drain(a) = Broken(buf, s.messages)
    BY <1>5, <1>10, Zenon
  <2> QED
    BY <2>1, Zenon DEF Settled, a
<1>11. CASE Drain(a) \in F
  <2>1. PICK j \in J : Drain(a) = Between(s, at, j, x)
    BY <1>11 DEF F
  <2>2. j \in 0..N /\ at[j] <= x
    BY DEF J
  <2> QED
    BY <1>9, <2>1, <2>2, Zenon DEF Settled, a
<1> QED
  BY <1>9, <1>10, <1>11 DEF S

\* The parser of captures stops where a pass changes nothing.
LEMMA CaptureLoop ==
  ASSUME NEW S, NEW buf, Captured(buf, <<>>) \in S, Len(buf) \in Nat,
         NEW size \in [S -> Nat], size[Captured(buf, <<>>)] = Len(buf),
         \A p \in S : CapturePass(p) \in S /\ (CapturePass(p) = p \/ size[CapturePass(p)] < size[p])
  PROVE  \E p \in S : CapturedFrames(buf) = p.frames /\ CapturePass(p) = p
<1> DEFINE a == Captured(buf, <<>>)
           g == [p \in S |-> CapturePass(p)]
           pass[n \in Nat] == IF n = 0 THEN a ELSE CapturePass(pass[n - 1])
<1>1. g \in [S -> S] /\ \A p \in S : g[p] = CapturePass(p)
  OBVIOUS
<1>2. PICK h : Iterates(h, S, g, a)
  BY <1>1, Iteration
<1>3. h \in [Nat -> S] /\ h[0] = a /\ \A n \in Nat : h[n + 1] = CapturePass(h[n])
  BY <1>1, <1>2 DEF Iterates
<1> HIDE DEF a
<1>4. h = [n \in Nat |-> IF n = 0 THEN a ELSE CapturePass(h[n - 1])]
  <2>1. ASSUME NEW n \in Nat PROVE h[n] = IF n = 0 THEN a ELSE CapturePass(h[n - 1])
    <3>1. CASE n = 0
      BY <1>3, <3>1
    <3>2. CASE n # 0
      <4>1. n - 1 \in Nat /\ (n - 1) + 1 = n
        BY <3>2
      <4>2. h[(n - 1) + 1] = CapturePass(h[n - 1])
        BY <1>3, <4>1
      <4> QED
        BY <3>2, <4>1, <4>2
    <3> QED
      BY <3>1, <3>2
  <2> QED
    BY <1>3, <2>1
<1>5. pass = [n \in Nat |-> IF n = 0 THEN a ELSE CapturePass(pass[n - 1])]
  BY <1>4
<1>6. CapturedFrames(buf) = pass[Len(buf)].frames
  BY DEF CapturedFrames, Captured, a
<1> HIDE DEF pass, g
<1>7. Follows(pass, S, g, a)
  <2>1. ASSUME NEW n \in Nat PROVE pass[n + 1] = CapturePass(pass[n])
    <3>1. n + 1 \in Nat /\ n + 1 # 0 /\ (n + 1) - 1 = n
      OBVIOUS
    <3>2. pass[n + 1] = IF n + 1 = 0 THEN a ELSE CapturePass(pass[(n + 1) - 1])
      BY <1>5, <3>1
    <3> QED
      BY <3>1, <3>2
  <2>2. pass[0] = a
    BY <1>5
  <2> QED
    BY <1>1, <2>1, <2>2 DEF Follows
<1>8. Shrinks(S, g, size)
  BY <1>1 DEF Shrinks
<1>9. a \in S /\ size[a] = Len(buf)
  BY DEF a
<1>10. pass[size[a]] \in S /\ g[pass[size[a]]] = pass[size[a]]
  BY <1>1, <1>7, <1>8, <1>9, Loop
<1> QED
  BY <1>1, <1>6, <1>9, <1>10

\* The capture parser that has taken k messages out of the first x bytes
CapturedTo(s, at, k, x) == Captured(Window(s.bytes, at[k], x), Window(s.messages, 0, k))

\* A pass of the parser of captures takes the next whole frame, or none.
LEMMA CapturedToPass ==
  ASSUME NEW s, NEW at, NEW N, NEW piece, FrameChannel(s, at, N, piece),
         NEW k \in 0..N, NEW x \in at[k]..Len(s.bytes)
  PROVE  /\ k < N /\ at[k + 1] <= x =>
              /\ CapturePass(CapturedTo(s, at, k, x)) = CapturedTo(s, at, k + 1, x)
              /\ at[k] + 2 <= at[k + 1] /\ at[k + 1] \in Nat
         /\ (k < N /\ ~(at[k + 1] <= x)) \/ (k = N /\ s.fault = <<>>) =>
              CapturePass(CapturedTo(s, at, k, x)) = CapturedTo(s, at, k, x)
<1> DEFINE buf == Window(s.bytes, at[k], x)
           frames == Window(s.messages, 0, k)
<1>1. s.messages \in Seq(Message) /\ N = Len(s.messages) /\ N \in Nat /\ k \in Nat
      /\ at \in [0..N -> Nat]
  BY DEF FrameChannel
<1>2. Len(s.bytes) \in Nat /\ at[k] \in Nat /\ x \in Nat
  BY Waiting
<1>3. CapturedTo(s, at, k, x) = Captured(buf, frames)
  BY DEF CapturedTo
<1> HIDE DEF buf, frames
<1>4. ASSUME k < N, at[k + 1] <= x
      PROVE  /\ CapturePass(CapturedTo(s, at, k, x)) = CapturedTo(s, at, k + 1, x)
             /\ at[k] + 2 <= at[k + 1] /\ at[k + 1] \in Nat
  <2>1. /\ HasFrame(buf) /\ ~TooLarge(buf) /\ ~Fragmented(buf)
        /\ AfterFrame(buf) = Window(s.bytes, at[k + 1], x)
        /\ FrameAt(buf) = s.messages[k + 1]
        /\ at[k] + 2 <= at[k + 1] /\ at[k + 1] \in Nat
    BY <1>4, NextFrame, Zenon DEF buf
  <2>2. CapturePass(Captured(buf, frames)) = Captured(AfterFrame(buf), Append(frames, FrameAt(buf)))
    BY <2>1, CapturePassOf, Zenon
  <2>3. k + 1 <= Len(s.messages)
    BY <1>1, <1>4
  <2>4. Append(Window(s.messages, 0, k), s.messages[k + 1]) = Window(s.messages, 0, k + 1)
    BY <1>1, <2>3, WindowAppend, Zenon
  <2>5. Append(frames, FrameAt(buf)) = Window(s.messages, 0, k + 1)
    BY <2>1, <2>4, Zenon DEF frames
  <2> QED
    BY <1>3, <2>1, <2>2, <2>5, Zenon DEF CapturedTo
<1>5. ASSUME (k < N /\ ~(at[k + 1] <= x)) \/ (k = N /\ s.fault = <<>>)
      PROVE  CapturePass(CapturedTo(s, at, k, x)) = CapturedTo(s, at, k, x)
  <2>1. (k < N => x < at[k + 1]) /\ (k = N => s.fault = <<>>)
    <3>1. CASE k < N
      <4>1. at[k + 1] \in Nat
        <5>1. k + 1 \in 0..N
          BY <1>1, <3>1
        <5> QED
          BY <1>1, <5>1
      <4> QED
        BY <1>1, <1>2, <1>5, <3>1, <4>1
    <3>2. CASE k = N
      BY <1>1, <1>5, <3>2
    <3> QED
      BY <1>5, <3>1, <3>2
  <2>2. ~HasFrame(buf) /\ ~TooLarge(buf)
    BY <2>1, NoFrame, Zenon DEF buf
  <2> QED
    BY <1>3, <2>2, CapturePassOf, Zenon
<1> QED
  BY <1>4, <1>5

\* The capture parser finds as many messages as have come.
LEMMA CaptureFinds ==
  ASSUME NEW s, NEW at, NEW N, NEW piece, FrameChannel(s, at, N, piece), s.fault = <<>>,
         NEW x \in 0..Len(s.bytes)
  PROVE  \E k \in 0..N : /\ at[k] <= x /\ (k < N => ~(at[k + 1] <= x))
                         /\ CapturedFrames(Window(s.bytes, 0, x)) = Window(s.messages, 0, k)
<1> DEFINE buf0 == Window(s.bytes, 0, x)
           a == Captured(buf0, <<>>)
           J == {j \in 0..N : at[j] <= x}
           S == {CapturedTo(s, at, j, x) : j \in J}
           size == [p \in S |-> Len(p.buf)]
<1>1. /\ N \in Nat /\ 0 \in 0..N /\ at \in [0..N -> Nat] /\ Len(s.bytes) \in Nat /\ at[0] = 0
      /\ s.messages \in Seq(Message)
  BY DEF FrameChannel
<1>2. x \in Nat /\ x <= Len(s.bytes) /\ 0 \in J
  BY <1>1
<1>3. \A j \in J : j \in 0..N /\ at[j] \in Nat /\ x \in at[j]..Len(s.bytes)
  BY <1>1, <1>2
<1> HIDE DEF J
<1>4. ASSUME NEW j \in J
      PROVE  /\ CapturedTo(s, at, j, x) \in S
             /\ size[CapturedTo(s, at, j, x)] \in Nat
             /\ size[CapturedTo(s, at, j, x)] = x - at[j]
             /\ size[CapturedTo(s, at, j, x)] = Len(Window(s.bytes, at[j], x))
  <2> DEFINE p == CapturedTo(s, at, j, x)
             n == Len(Window(s.bytes, at[j], x))
  <2>1. p \in S
    BY DEF S
  <2>2. size[p] = n
    <3>1. p.buf = Window(s.bytes, at[j], x)
      BY DEF CapturedTo, Captured
    <3>2. size[p] = Len(p.buf)
      BY <2>1
    <3> HIDE DEF p, size
    <3> QED
      BY <3>1, <3>2, Zenon
  <2>3. n \in Nat /\ n <= x - at[j] /\ x - at[j] <= n
    <3>1. Shows(Window(s.bytes, at[j], x), AnyByte(s), s.bytes, at[j], x - at[j])
      BY <1>3, Waiting
    <3> QED
      BY <3>1 DEF Shows
  <2>4. at[j] \in Nat /\ x \in Nat
    BY <1>2, <1>3
  <2> HIDE DEF n, size, p
  <2>5. n = x - at[j]
    BY <2>3, <2>4
  <2> QED
    BY <2>1, <2>2, <2>3, <2>5, Zenon DEF n, p
<1>5. size \in [S -> Nat]
  <2>1. ASSUME NEW p \in S PROVE size[p] \in Nat
    <3>1. PICK j \in J : p = CapturedTo(s, at, j, x)
      OBVIOUS
    <3> HIDE DEF size, S
    <3> QED
      BY <1>4, <3>1, Zenon
  <2>2. size = [p \in S |-> size[p]]
    OBVIOUS
  <2> HIDE DEF size, S
  <2> QED
    BY <2>1, <2>2
<1>6. ASSUME NEW j \in J
      PROVE  /\ CapturePass(CapturedTo(s, at, j, x)) = CapturedTo(s, at, j, x)
                  \/ /\ j + 1 \in J /\ j < N /\ at[j] + 2 <= at[j + 1]
                     /\ CapturePass(CapturedTo(s, at, j, x)) = CapturedTo(s, at, j + 1, x)
             /\ j < N /\ at[j + 1] <= x =>
                  CapturePass(CapturedTo(s, at, j, x)) # CapturedTo(s, at, j, x)
  <2> HIDE DEF S, size
  <2>1. j \in 0..N /\ at[j] \in Nat /\ x \in at[j]..Len(s.bytes)
    BY <1>3
  <2>2. CASE j < N /\ at[j + 1] <= x
    <3>1. /\ CapturePass(CapturedTo(s, at, j, x)) = CapturedTo(s, at, j + 1, x)
          /\ at[j] + 2 <= at[j + 1] /\ at[j + 1] \in Nat
      BY <2>1, <2>2, CapturedToPass
    <3>2. j + 1 \in J
      BY <1>1, <2>1, <2>2 DEF J
    <3>3. /\ size[CapturedTo(s, at, j, x)] = x - at[j]
          /\ size[CapturedTo(s, at, j + 1, x)] = x - at[j + 1]
      BY <1>4, <3>2, Zenon
    <3>4. x - at[j] # x - at[j + 1]
      BY <1>2, <2>1, <3>1
    <3> QED
      BY <2>2, <3>1, <3>2, <3>3, <3>4, Zenon
  <2>3. CASE j < N /\ ~(at[j + 1] <= x)
    <3>1. CapturePass(CapturedTo(s, at, j, x)) = CapturedTo(s, at, j, x)
      BY <2>1, <2>3, CapturedToPass
    <3> QED
      BY <2>3, <3>1, Zenon
  <2>4. CASE j = N
    <3>1. CapturePass(CapturedTo(s, at, j, x)) = CapturedTo(s, at, j, x)
      BY <2>1, <2>4, CapturedToPass
    <3>2. ~(j < N)
      BY <1>1, <2>4
    <3> QED
      BY <3>1, <3>2, Zenon
  <2> QED
    <3>1. j < N \/ j = N
      BY <1>1, <2>1
    <3> QED
      BY <2>2, <2>3, <2>4, <3>1
<1>7. ASSUME NEW p \in S
      PROVE  CapturePass(p) \in S /\ (CapturePass(p) = p \/ size[CapturePass(p)] < size[p])
  <2>1. PICK j \in J : p = CapturedTo(s, at, j, x)
    OBVIOUS
  <2> HIDE DEF size, S
  <2>2. CASE CapturePass(p) = p
    BY <2>2, Zenon
  <2>3. CASE CapturePass(p) # p
    <3>1. /\ j + 1 \in J /\ at[j] + 2 <= at[j + 1]
          /\ CapturePass(p) = CapturedTo(s, at, j + 1, x)
      BY <1>6, <2>1, <2>3, Zenon
    <3>2. /\ CapturePass(p) \in S /\ size[p] = x - at[j]
          /\ size[CapturePass(p)] = x - at[j + 1]
      BY <1>4, <2>1, <3>1, Zenon
    <3>3. at[j] \in Nat /\ at[j + 1] \in Nat
      BY <1>3, <3>1
    <3>4. x - at[j + 1] < x - at[j]
      BY <1>2, <3>1, <3>3
    <3> QED
      BY <3>2, <3>4, Zenon
  <2> QED
    BY <2>2, <2>3
<1>8. a \in S /\ Len(buf0) \in Nat /\ size[a] = Len(buf0)
  <2>1. Window(s.messages, 0, 0) = <<>>
    <3>1. 0 \in 0..Len(s.messages)
      BY <1>1
    <3>2. /\ Window(s.messages, 0, 0) \in Seq(Message)
          /\ Len(Window(s.messages, 0, 0)) <= 0 /\ Len(Window(s.messages, 0, 0)) \in Nat
      BY <1>1, <3>1, WindowPrefix
    <3> DEFINE w == Window(s.messages, 0, 0)
    <3> HIDE DEF w
    <3>3. Len(w) <= 0 /\ Len(w) \in Nat /\ w \in Seq(Message)
      BY <3>2 DEF w
    <3>4. w = <<>>
      BY <3>3
    <3> QED
      BY <3>4 DEF w
  <2>2. a = CapturedTo(s, at, 0, x) /\ Len(buf0) = Len(Window(s.bytes, at[0], x))
    BY <1>1, <2>1, Zenon DEF CapturedTo
  <2> HIDE DEF a, S, size, buf0
  <2> QED
    BY <1>2, <1>4, <2>2, Zenon
<1> HIDE DEF S, size, buf0
<1>9. PICK p \in S : CapturedFrames(buf0) = p.frames /\ CapturePass(p) = p
  BY <1>5, <1>7, <1>8, CaptureLoop
<1>10. PICK j \in J : p = CapturedTo(s, at, j, x)
  BY DEF S
<1>11. p.frames = Window(s.messages, 0, j)
  BY <1>10 DEF CapturedTo, Captured
<1>12. j \in 0..N /\ at[j] <= x
  BY DEF J
<1>13. j < N => ~(at[j + 1] <= x)
  BY <1>6, <1>9, <1>10, Zenon
<1> QED
  BY <1>9, <1>11, <1>12, <1>13, Zenon DEF buf0

-----------------------------------------------------------------------------
\* FramesIntact

\* The stream of a behaviour is one of the streams of its kind.
Kinds ==
  /\ stream.kind = "frames" => stream \in FrameStreams
  /\ stream.kind = "response" => stream \in ResponseStreams
  /\ stream.kind = "request" => stream \in RequestStreams

\* The stream never changes.
LEMMA KindsHold == Spec => []Kinds
<1>1. Init => Kinds
  <2>1. SUFFICES ASSUME Init PROVE Kinds
    OBVIOUS
  <2>2. stream \in FrameStreams \cup ResponseStreams \cup RequestStreams
    BY <2>1 DEF Init
  <2>3. CASE stream \in FrameStreams
    <3>1. stream = Frames(stream.encoder, stream.key, stream.messages, stream.fault)
      BY <2>3, StreamsAssumption DEF FrameStream
    <3>2. Frames(stream.encoder, stream.key, stream.messages, stream.fault).kind = "frames"
      BY DEF Frames
    <3>3. stream.kind = "frames"
      BY <3>1, <3>2
    <3> QED
      BY <2>3, <3>3 DEF Kinds
  <2>4. CASE stream \in ResponseStreams
    <3>1. stream = Response(stream.preamble, stream.pair, stream.head, stream.chunks, stream.rest)
      BY <2>4, StreamsAssumption DEF ResponseStream
    <3>2. Response(stream.preamble, stream.pair, stream.head, stream.chunks, stream.rest).kind
            = "response"
      BY DEF Response
    <3>3. stream.kind = "response"
      BY <3>1, <3>2
    <3> QED
      BY <2>4, <3>3 DEF Kinds
  <2>5. CASE stream \in RequestStreams
    <3>1. stream = Request(stream.before, stream.host, stream.after)
      BY <2>5, StreamsAssumption DEF RequestStream
    <3>2. Request(stream.before, stream.host, stream.after).kind = "request"
      BY DEF Request
    <3>3. stream.kind = "request"
      BY <3>1, <3>2
    <3> QED
      BY <2>5, <3>3 DEF Kinds
  <2> QED
    BY <2>2, <2>3, <2>4, <2>5
<1>2. Kinds /\ [Next]_vars => Kinds'
  <2>1. [Next]_vars => stream' = stream
    BY DEF Next, vars, FramesArrive, RequestCollected, LocalWrites, LocalCloses, DataEnds,
           ServerReads, ServerSeesEnd, RequestArrives
  <2> QED
    BY <2>1 DEF Kinds
<1> QED
  BY <1>1, <1>2, PTL DEF Spec

\* The inductive invariant of FramesIntact: the decoder has settled on the bytes that
\* arrived.
FramesInv ==
  stream.kind = "frames" =>
    /\ near \in 0..Len(stream.bytes)
    /\ Settled(stream, Ends(stream), Len(stream.messages), near, first)

\* It holds at first.
LEMMA FramesStart ==
  ASSUME Init, Kinds, stream.kind = "frames"
  PROVE  FramesInv
<1> DEFINE s == stream
           at == Ends(s)
           N == Len(s.messages)
<1>1. FrameChannel(s, at, N, FrameOf(s))
  BY StreamsAssumption, FrameStreamChannel DEF Kinds
<1> HIDE DEF s, at, N
<1>2. /\ N \in Nat /\ 0 \in 0..N /\ at[0] = 0 /\ Len(s.bytes) \in Nat /\ N = Len(s.messages)
      /\ s.bytes \in Seq(AnyByte(s)) /\ s.messages \in Seq(Message)
  BY <1>1 DEF FrameChannel
<1>3. near = 0 /\ first = Fine(<<>>, <<>>)
  BY DEF Init, NewParser, Fine
<1>4. ASSUME NEW T, NEW u \in Seq(T) PROVE Window(u, 0, 0) = <<>>
  <2> DEFINE w == Window(u, 0, 0)
  <2> HIDE DEF w
  <2>1. w \in Seq(T) /\ Len(w) <= 0 /\ Len(w) \in Nat
    <3>1. 0 \in 0..Len(u)
      OBVIOUS
    <3> QED
      BY <3>1, WindowPrefix DEF w
  <2>2. w = <<>>
    BY <2>1
  <2> QED
    BY <2>2 DEF w
<1>5. first = Between(s, at, 0, 0)
  <2>1. Window(s.bytes, 0, 0) = <<>> /\ Window(s.messages, 0, 0) = <<>>
    BY <1>2, <1>4
  <2> QED
    BY <1>2, <1>3, <2>1, Zenon DEF Between
<1>6. DrainPass(first) = first
  <2>1. ~(Len(<<>>) >= 2) /\ ~(Len(<<>>) >= 10)
    OBVIOUS
  <2>2. ~HasFrame(<<>>) /\ ~TooLarge(<<>>)
    BY <2>1 DEF HasFrame, TooLarge
  <2> QED
    BY <1>3, <2>2, PassOf, Zenon
<1>7. at[0] <= 0
  BY <1>2
<1>8. Settled(s, at, N, near, first)
  BY <1>2, <1>3, <1>5, <1>6, <1>7, Zenon DEF Settled
<1>9. near \in 0..Len(s.bytes)
  BY <1>2, <1>3
<1> QED
  BY <1>8, <1>9 DEF FramesInv, s, at, N

\* A segment of any size keeps it.
LEMMA FramesRead ==
  ASSUME FramesInv, Kinds, stream.kind = "frames",
         NEW n \in 1..(Len(stream.bytes) - near), FramesArrive(n)
  PROVE  FramesInv'
<1> DEFINE s == stream
           at == Ends(s)
           N == Len(s.messages)
           x == near + n
           piece == FrameOf(s)
<1>1. FrameChannel(s, at, N, piece)
  BY StreamsAssumption, FrameStreamChannel DEF Kinds
<1>2. /\ stream' = s /\ near' = x /\ near \in 0..Len(s.bytes)
      /\ Settled(s, at, N, near, first)
      /\ first' = ParseSegment(first, SubSeq(s.bytes, near + 1, near + n))
  BY DEF FramesArrive, FramesInv, Arrive, Segment
<1> HIDE DEF s, at, N, piece
<1>3. Len(s.bytes) \in Nat /\ s.bytes \in Seq(AnyByte(s)) /\ N \in Nat /\ at \in [0..N -> Nat]
  BY <1>1 DEF FrameChannel
<1>4. near \in Nat /\ x \in 0..Len(s.bytes) /\ x \in near..Len(s.bytes) /\ x \in Nat
  BY <1>2, <1>3 DEF s
<1>5. Settled(s, at, N, x, first')
  <2>1. CASE s.fault # <<>> /\ \E buf : first = Broken(buf, s.messages)
    <3>1. first.failed = TRUE
      BY <2>1 DEF Broken
    <3>2. first' = first
      BY <1>2, <3>1 DEF ParseSegment
    <3> QED
      BY <2>1, <3>2, Zenon DEF Settled
  <2>2. CASE \E k \in 0..N :
               at[k] <= near /\ first = Between(s, at, k, near) /\ DrainPass(first) = first
    <3>1. PICK k \in 0..N : at[k] <= near /\ first = Between(s, at, k, near)
      BY <2>2
    <3>2. at[k] \in Nat /\ near \in at[k]..Len(s.bytes) /\ x \in at[k]..Len(s.bytes)
      BY <1>2, <1>3, <1>4, <3>1
    <3> HIDE DEF x
    <3>3. Window(s.bytes, at[k], near) \o Window(s.bytes, near, x) = Window(s.bytes, at[k], x)
      BY <1>3, <1>4, <3>2, WindowsJoin
    <3>4. first' = Drain([first EXCEPT !.buf = @ \o Window(s.bytes, near, x)])
      <4>1. first.failed = FALSE
        BY <3>1 DEF Between, Fine
      <4>2. SubSeq(s.bytes, near + 1, near + n) = Window(s.bytes, near, x)
        BY Zenon DEF Window, x
      <4> QED
        BY <1>2, <4>1, <4>2, Zenon DEF ParseSegment
    <3>5. [first EXCEPT !.buf = @ \o Window(s.bytes, near, x)] = Between(s, at, k, x)
      <4> DEFINE u == Window(s.bytes, at[k], near)  w == Window(s.bytes, near, x)
                 frames == Window(s.messages, 0, k)  v == Window(s.bytes, at[k], x)
      <4>1. first = Fine(u, frames) /\ u \o w = v
        BY <3>1, <3>3 DEF Between
      <4> HIDE DEF u, w, v, frames
      <4>2. [first EXCEPT !.buf = @ \o w] = Fine(v, frames)
        <5>1. first.buf \o w = v
          BY <4>1, Zenon DEF Fine
        <5>2. [first EXCEPT !.buf = v] = Fine(v, frames)
          <6>1. PICK c : c = FALSE /\ first = [buf |-> u, frames |-> frames, failed |-> c]
            BY <4>1, Zenon DEF Fine
          <6>2. [first EXCEPT !.buf = v] = [buf |-> v, frames |-> frames, failed |-> c]
            BY <6>1
          <6> QED
            BY <6>1, <6>2, Zenon DEF Fine
        <5> QED
          BY <5>1, <5>2, Zenon
      <4> QED
        BY <4>2, Zenon DEF Between, w, v, frames
    <3>6. Settled(s, at, N, x, Drain(Between(s, at, k, x)))
      BY <1>1, <3>2, DrainSettles
    <3> QED
      BY <3>4, <3>5, <3>6, Zenon
  <2> QED
    BY <1>2, <2>1, <2>2 DEF Settled
<1> QED
  BY <1>2, <1>4, <1>5 DEF FramesInv, s, at, N

\* It is an invariant.
LEMMA FramesInvHolds == Spec => []FramesInv
<1>1. Init /\ Kinds => FramesInv
  BY FramesStart DEF FramesInv
<1>2. FramesInv /\ Kinds /\ [Next]_vars => FramesInv'
  <2> SUFFICES ASSUME FramesInv, Kinds, [Next]_vars PROVE FramesInv'
    OBVIOUS
  <2>1. ASSUME NEW n \in 1..(Len(stream.bytes) - near), FramesArrive(n) PROVE FramesInv'
    <3>1. stream.kind = "frames"
      BY <2>1 DEF FramesArrive
    <3> QED
      BY <2>1, <3>1, FramesRead
  <2>2. ASSUME NEW n, LocalWrites(n) \/ RequestArrives(n) \/ ServerReads(n) PROVE FramesInv'
    BY <2>2 DEF LocalWrites, RequestArrives, ServerReads, FramesInv
  <2>3. CASE RequestCollected \/ LocalCloses \/ DataEnds
    BY <2>3 DEF RequestCollected, LocalCloses, DataEnds, FramesInv
  <2>4. CASE ServerSeesEnd
    <3>1. stream' = stream /\ near' = near /\ first' = first
      BY <2>4 DEF ServerSeesEnd
    <3> QED
      BY <3>1 DEF FramesInv
  <2>5. CASE UNCHANGED vars
    <3>1. stream' = stream /\ near' = near /\ first' = first
      BY <2>5 DEF vars
    <3> QED
      BY <3>1 DEF FramesInv
  <2> QED
    BY <2>1, <2>2, <2>3, <2>4, <2>5 DEF Next
<1> QED
  BY <1>1, <1>2, KindsHold, PTL DEF Spec

\* A settled parser has delivered what has come.
LEMMA SettledIntact ==
  ASSUME FramesInv, Kinds PROVE FramesIntact
<1> SUFFICES ASSUME stream.kind = "frames"
             PROVE  /\ IsPrefix(first.frames, stream.messages)
                    /\ Sent => /\ first.frames = stream.messages
                                /\ first.failed = (stream.fault # <<>>)
                    /\ stream.fault = <<>> =>
                         CapturedFrames(SubSeq(stream.bytes, 1, near)) = first.frames
  BY DEF FramesIntact
<1> DEFINE s == stream
           at == Ends(s)
           N == Len(s.messages)
           piece == FrameOf(s)
<1>1. FrameChannel(s, at, N, piece)
  BY StreamsAssumption, FrameStreamChannel DEF Kinds
<1>2. near \in 0..Len(s.bytes) /\ Settled(s, at, N, near, first)
  BY DEF FramesInv
<1> HIDE DEF s, at, N, piece
<1>3. /\ Len(s.bytes) \in Nat /\ s.bytes \in Seq(AnyByte(s)) /\ N \in Nat /\ at \in [0..N -> Nat]
      /\ s.messages \in Seq(Message) /\ N = Len(s.messages) /\ at[N] <= Len(s.bytes)
      /\ \A m \in 0..N : \A k \in 0..m : at[k] <= at[m]
  BY <1>1 DEF FrameChannel
<1>4. near \in Nat /\ near <= Len(s.bytes)
  BY <1>2, <1>3
<1>5. CASE s.fault # <<>> /\ \E buf : first = Broken(buf, s.messages)
  <2>1. first.failed = TRUE /\ first.frames = s.messages
    BY <1>5 DEF Broken
  <2>2. IsPrefix(Window(s.messages, 0, Len(s.messages)), s.messages)
    <3>1. Len(s.messages) \in 0..Len(s.messages)
      BY <1>3
    <3> QED
      BY <1>3, <3>1, WindowPrefix, Zenon
  <2>3. IsPrefix(s.messages, s.messages)
    BY <1>3, <2>2, WindowAll, Zenon
  <2> QED
    BY <1>5, <2>1, <2>3, Zenon DEF s
<1>6. CASE \E k \in 0..N :
             at[k] <= near /\ first = Between(s, at, k, near) /\ DrainPass(first) = first
  <2>1. PICK k \in 0..N : /\ at[k] <= near /\ first = Between(s, at, k, near)
                          /\ DrainPass(first) = first
    BY <1>6
  <2>2. first.failed = FALSE /\ first.frames = Window(s.messages, 0, k)
        /\ first.buf = Window(s.bytes, at[k], near)
    BY <2>1 DEF Between, Fine
  <2>3. at[k] \in Nat /\ near \in at[k]..Len(s.bytes) /\ k \in 0..Len(s.messages) /\ k \in Nat
    BY <1>3, <1>4, <2>1
  <2>4. k < N => ~(at[k + 1] <= near)
    <3>1. SUFFICES ASSUME k < N, at[k + 1] <= near PROVE FALSE
      OBVIOUS
    <3>2. /\ DrainPass(Between(s, at, k, near)) = Between(s, at, k + 1, near)
          /\ at[k] + 2 <= at[k + 1] /\ at[k + 1] \in Nat
      BY <1>1, <2>3, <3>1, BetweenPass
    <3>3. first.buf = Window(s.bytes, at[k + 1], near)
      <4>1. first = Between(s, at, k + 1, near)
        BY <2>1, <3>2, Zenon
      <4> QED
        BY <4>1 DEF Between, Fine
    <3>4. near \in at[k + 1]..Len(s.bytes)
      BY <1>4, <3>1, <3>2
    <3> DEFINE n == Len(first.buf)
    <3>5. n <= near - at[k] /\ near - at[k] <= n /\ n \in Nat
      <4>1. Shows(first.buf, AnyByte(s), s.bytes, at[k], near - at[k])
        BY <1>3, <2>2, <2>3, WindowShows, Zenon
      <4> QED
        BY <4>1 DEF Shows
    <3>6. n <= near - at[k + 1]
      <4>1. Shows(first.buf, AnyByte(s), s.bytes, at[k + 1], near - at[k + 1])
        BY <1>3, <3>2, <3>3, <3>4, WindowShows, Zenon
      <4> QED
        BY <4>1 DEF Shows
    <3> HIDE DEF n
    <3> QED
      BY <1>4, <2>3, <3>2, <3>5, <3>6
  <2>5. IsPrefix(first.frames, s.messages)
    BY <1>3, <2>2, <2>3, WindowPrefix, Zenon
  <2>6. ASSUME Sent PROVE first.frames = s.messages /\ s.fault = <<>>
    <3>1. near = Len(s.bytes)
      BY <2>6 DEF Sent, s
    <3>2. k = N
      <4>1. SUFFICES ASSUME k < N PROVE FALSE
        BY <1>3
      <4>2. k + 1 \in 0..N /\ N \in 0..N
        BY <1>3, <2>3, <4>1
      <4>3. at[k + 1] <= at[N] /\ at[k + 1] \in Nat /\ at[N] \in Nat
        BY <1>3, <4>2
      <4> QED
        BY <1>3, <2>4, <3>1, <4>1, <4>3
    <3>3. first.frames = s.messages
      BY <1>3, <2>2, <3>2, WindowAll, Zenon
    <3>4. s.fault = <<>>
      <4>1. SUFFICES ASSUME s.fault # <<>> PROVE FALSE
        OBVIOUS
      <4>2. near \in at[N]..Len(s.bytes)
        BY <2>3, <3>2
      <4>3. DrainPass(Between(s, at, N, near)) # Between(s, at, N, near)
        BY <1>1, <3>1, <4>1, <4>2, FaultPass, Zenon
      <4> QED
        BY <2>1, <3>2, <4>3, Zenon
    <3> QED
      BY <3>3, <3>4
  <2>7. ASSUME s.fault = <<>> PROVE CapturedFrames(SubSeq(s.bytes, 1, near)) = first.frames
    <3>1. PICK j \in 0..N : /\ at[j] <= near /\ (j < N => ~(at[j + 1] <= near))
                            /\ CapturedFrames(Window(s.bytes, 0, near)) = Window(s.messages, 0, j)
      BY <1>1, <1>2, <2>7, CaptureFinds
    <3>2. ASSUME NEW c \in 0..N, NEW d \in 0..N, c < d, c < N => ~(at[c + 1] <= near), at[d] <= near
          PROVE  FALSE
      <4>1. c + 1 \in 0..d /\ c < N /\ c + 1 \in 0..N
        BY <1>3, <3>2
      <4>2. at[c + 1] <= at[d] /\ at[c + 1] \in Nat /\ at[d] \in Nat
        BY <1>3, <4>1
      <4> QED
        BY <1>4, <3>2, <4>1, <4>2
    <3>3. ~(j < k) /\ ~(k < j)
      BY <2>1, <2>4, <3>1, <3>2
    <3>4. j = k
      BY <1>3, <3>3
    <3>5. Window(s.bytes, 0, near) = SubSeq(s.bytes, 1, near)
      BY DEF Window
    <3> QED
      BY <2>2, <3>1, <3>4, <3>5, Zenon
  <2> QED
    BY <2>2, <2>5, <2>6, <2>7, Zenon DEF s
<1> QED
  BY <1>2, <1>5, <1>6 DEF Settled

\* Whatever segments bring a frame stream, the decoder hands out the messages that were sent, in
\* their order and whole, fails exactly at a fault, and the parser of captures finds the
\* same messages.
THEOREM FramesAreIntact == Spec => []FramesIntact
BY FramesInvHolds, KindsHold, SettledIntact, PTL

-----------------------------------------------------------------------------
\* The first occurrence of a part

\* The minimum is the least element.
LEMMA Least ==
  ASSUME NEW S \in SUBSET Nat, NEW m \in S, \A i \in S : m <= i
  PROVE  Min(S) = m
<1>1. ASSUME NEW x \in S, \A y \in S : x <= y PROVE x = m
  BY <1>1
<1> QED
  BY <1>1 DEF Min

\* part stands in u at place i.
Occurs(u, part, i) ==
  /\ i \in Nat \ {0} /\ i + Len(part) <= Len(u) + 1
  /\ \A j \in 1..Len(part) : u[(i - 1) + j] = part[j]

\* Find returns the first place where the part occurs, or 0.
LEMMA Found ==
  ASSUME NEW T, NEW u \in Seq(T), NEW part \in Seq(T)
  PROVE  /\ Find(u, part) \in Nat
         /\ Find(u, part) = 0 => \A i \in Nat : ~Occurs(u, part, i)
         /\ Find(u, part) # 0 => /\ Occurs(u, part, Find(u, part))
                                 /\ \A i \in Nat : Occurs(u, part, i) => Find(u, part) <= i
<1> DEFINE l == Len(part)  n == Len(u)
           places == {i \in 1..(n - l + 1) : SubSeq(u, i, i + l - 1) = part}
<1>1. l \in Nat /\ n \in Nat
  OBVIOUS
<1>3. \A i \in 1..n : u[i] \in T
  OBVIOUS
<1>4. ASSUME NEW i \in 1..(n - l + 1) PROVE SubSeq(u, i, i + l - 1) = part <=> Occurs(u, part, i)
  <2> DEFINE w == SubSeq(u, i, i + l - 1)
  <2> HIDE DEF l, n
  <2>1. i \in Nat \ {0} /\ i + l <= n + 1 /\ i + l - 1 \in Int
    BY <1>1
  <2>2. \A j \in i..(i + l - 1) : u[j] \in T
    BY <1>1, <1>3
  <2> DEFINE e == i + l - 1
  <2>8. e \in Int /\ i \in Int /\ \A j \in i..e : u[j] \in T
    BY <2>1, <2>2
  <2>9. w = SubSeq(u, i, e)
    OBVIOUS
  <2> HIDE DEF w, e
  <2>10. /\ w \in Seq(T)
         /\ Len(w) = IF i <= e THEN e - i + 1 ELSE 0
         /\ \A j \in 1..(e - i + 1) : w[j] = u[i + j - 1]
    BY <2>8, <2>9, SubSeqProperties
  <2>3. e - i + 1 = l /\ e \in Int /\ (i <= e <=> l # 0)
    BY <1>1, <2>1 DEF e
  <2>4. Len(w) \in Nat /\ Len(w) <= l /\ l <= Len(w)
    BY <1>1, <2>3, <2>10
  <2>5. \A j \in 1..l : w[j] = u[(i - 1) + j]
    <3>1. ASSUME NEW j \in 1..l PROVE w[j] = u[(i - 1) + j]
      <4>1. j \in 1..(e - i + 1) /\ i + j - 1 = (i - 1) + j
        BY <1>1, <2>3
      <4> QED
        BY <2>10, <4>1
    <3> QED
      BY <3>1
  <2>6. ASSUME w = part PROVE Occurs(u, part, i)
    BY <2>1, <2>5, <2>6 DEF Occurs, l, n
  <2>7. ASSUME Occurs(u, part, i) PROVE w = part
    <3>1. \A j \in 1..l : u[(i - 1) + j] = part[j]
      BY <2>7 DEF Occurs, l
    <3>2. \A j \in 1..l : w[j] = part[j]
      BY <2>5, <3>1
    <3>3. Len(w) = Len(part)
      BY <1>1, <2>4 DEF l
    <3>4. \A j \in 1..Len(w) : w[j] = part[j]
      BY <1>1, <2>4, <3>2
    <3> QED
      BY <2>10, <3>3, <3>4, SeqEqual
  <2> QED
    BY <2>6, <2>7, <2>9, Zenon DEF e
<1>5. ASSUME NEW i \in Nat, Occurs(u, part, i) PROVE i \in places
  <2>1. i # 0 /\ i + l <= n + 1
    BY <1>5 DEF Occurs
  <2> HIDE DEF l, n
  <2>2. i \in 1..(n - l + 1)
    BY <1>1, <2>1
  <2> QED
    BY <1>4, <1>5, <2>2 DEF l, n
<1>6. places \in SUBSET Nat /\ \A i \in places : i # 0 /\ Occurs(u, part, i)
  BY <1>1, <1>4
<1>7. Find(u, part) = IF places = {} THEN 0 ELSE Min(places)
  BY Zenon DEF Find
<1> HIDE DEF places, l, n
<1>8. CASE places = {}
  BY <1>5, <1>7, <1>8
<1>9. CASE places # {}
  <2>1. PICK m \in places : \A i \in places : m <= i
    BY <1>6, <1>9, LeastNat
  <2>2. Find(u, part) = m
    BY <1>6, <1>7, <1>9, <2>1, Least
  <2> QED
    BY <1>5, <1>6, <2>1, <2>2
<1> QED
  BY <1>8, <1>9

\* The least place where the part occurs is the one found.
LEMMA FoundAt ==
  ASSUME NEW T, NEW u \in Seq(T), NEW part \in Seq(T), NEW i \in Nat, Occurs(u, part, i),
         \A j \in Nat : Occurs(u, part, j) => i <= j
  PROVE  Find(u, part) = i
<1> DEFINE f == Find(u, part)
<1>1. f \in Nat /\ f # 0 /\ Occurs(u, part, f) /\ f <= i
  BY Found
<1>2. i <= f
  BY <1>1
<1> HIDE DEF f
<1>3. f = i
  BY <1>1, <1>2
<1> QED
  BY <1>3 DEF f

-----------------------------------------------------------------------------
\* The Host rewrite: what it leaves in front and behind

\* w opens with the first k of u.
Opens(w, u, k) == k <= Len(w) /\ \A i \in 1..k : w[i] = u[i]

\* w closes with what of u lies behind place e, up to place x.
Closes(w, u, e, x) == x - e <= Len(w) /\ \A i \in 1..(x - e) : w[Len(w) - (x - e) + i] = u[e + i]

\* What opens with all of it begins with it.
LEMMA OpensPrefix ==
  ASSUME NEW T, NEW w, NEW u \in Seq(T), NEW k \in 0..Len(u), Opens(w, u, k)
  PROVE  IsPrefix(SubSeq(u, 1, k), w)
<1> DEFINE p == Window(u, 0, k)
<1>1. k \in Nat /\ 0 \in Nat /\ k \in 0..Len(u) /\ k - 0 = k
  OBVIOUS
<1> HIDE DEF p
<1>2. Shows(p, T, u, 0, k)
  BY <1>1, WindowShows DEF p
<1>3. Len(p) \in Nat /\ Len(p) <= k /\ k <= Len(p) /\ \A i \in 1..k : p[i] = u[0 + i]
  BY <1>2 DEF Shows
<1>4. SubSeq(p, 1, Len(p)) = SubSeq(w, 1, Len(p))
  <2>1. \A i \in 1..Len(p) : p[i] = w[i]
    BY <1>1, <1>3 DEF Opens
  <2>2. 1 \in Int /\ Len(p) \in Int
    BY <1>3
  <2> QED
    BY <2>1, <2>2, SameSub, Zenon
<1>5. Len(p) <= Len(w)
  BY <1>1, <1>3 DEF Opens
<1>6. IsPrefix(p, w)
  BY <1>4, <1>5, Zenon DEF IsPrefix
<1>7. p = SubSeq(u, 1, k)
  BY DEF p, Window
<1> QED
  BY <1>6, <1>7, Zenon

\* What ends with a has a as a suffix.
LEMMA ClosesSuffix ==
  ASSUME NEW T, NEW w \in Seq(T), NEW a \in Seq(T), Len(a) <= Len(w),
         \A i \in 1..Len(a) : w[Len(w) - Len(a) + i] = a[i]
  PROVE  IsSuffix(a, w)
<1> DEFINE n == Len(w)  l == Len(a)
           v == [i \in 1..n |-> w[(n - i) + 1]]
           b == [i \in 1..l |-> a[(l - i) + 1]]
<1>1. n \in Nat /\ l \in Nat /\ l <= n
  OBVIOUS
<1>2. Reverse(w) = v /\ Reverse(a) = b
  BY DEF Reverse
<1>3. /\ \A i \in 1..n : v[i] = w[(n - i) + 1]
      /\ \A i \in 1..l : b[i] = a[(l - i) + 1]
  OBVIOUS
<1>4. \A i \in 1..l : w[n - l + i] = a[i]
  OBVIOUS
<1>5. Len(v) \in Nat /\ Len(b) \in Nat /\ Len(v) <= n /\ n <= Len(v) /\ Len(b) <= l /\ l <= Len(b)
  <2>1. ASSUME NEW m \in Nat, NEW f, f = [i \in 1..m |-> f[i]]
        PROVE  Len(f) \in Nat /\ Len(f) <= m /\ m <= Len(f)
    <3>1. f \in [1..m -> {f[i] : i \in 1..m}]
      BY <2>1
    <3> QED
      BY <3>1, FunctionIsSeq
  <2>2. v = [i \in 1..n |-> v[i]] /\ b = [i \in 1..l |-> b[i]]
    OBVIOUS
  <2> HIDE DEF v, b, n, l
  <2> QED
    BY <1>1, <2>1, <2>2
<1> HIDE DEF v, b, n, l
<1>6. \A i \in 1..Len(b) : b[i] = v[i]
  <2>1. ASSUME NEW i \in 1..l PROVE b[i] = v[i]
    <3>1. (l - i) + 1 \in 1..l /\ i \in 1..n /\ n - l + ((l - i) + 1) = (n - i) + 1
      BY <1>1
    <3> QED
      BY <1>3, <1>4, <3>1
  <2> QED
    BY <1>1, <1>5, <2>1
<1>7. SubSeq(b, 1, Len(b)) = SubSeq(v, 1, Len(b))
  <2>1. 1 \in Int /\ Len(b) \in Int
    BY <1>5
  <2> QED
    BY <1>6, <2>1, SameSub, Zenon
<1>8. Len(b) <= Len(v)
  BY <1>1, <1>5
<1>9. IsPrefix(b, v)
  BY <1>7, <1>8, Zenon DEF IsPrefix
<1> QED
  BY <1>2, <1>9, Zenon DEF IsSuffix

\* The tokens of a request, those that the transformer knows among them
Token == STRING \cup {"host:", "localhost"}

\* What a request consists of: before, the name of the header, its value up to place e, and the rest
RequestParts(s, b, e) ==
  /\ b \in Nat /\ e \in Nat /\ b + 1 <= e /\ b + 2 <= e
  /\ s.before \in Seq(Token) /\ Len(s.before) <= b /\ b <= Len(s.before)
  /\ s.after \in Seq(Token) /\ Len(s.after) \in Nat
  /\ s.bytes \in Seq(Token) /\ Len(s.bytes) \in Nat
  /\ Len(s.bytes) <= e + Len(s.after) /\ e + Len(s.after) <= Len(s.bytes)
  /\ \A i \in 1..b : s.bytes[i] = s.before[i] /\ s.bytes[i] # "host:"
  /\ s.bytes[b + 1] = "host:" /\ s.bytes[b + 2] \notin {"cr", "lf"}
  /\ \A i \in 1..Len(s.after) : s.bytes[e + i] = s.after[i]
  /\ e < Len(s.bytes) => s.bytes[e + 1] \in {"cr", "lf"}

\* A request stream is the head before Host, the Host line, and what follows.
LEMMA RequestStreamParts ==
  ASSUME NEW s, RequestStream(s)
  PROVE  RequestParts(s, Len(s.before), Len(s.before) + 1 + Len(s.host))
<1> DEFINE name == <<"host:">>
<1>1. /\ s = Request(s.before, s.host, s.after)
      /\ s.before \in Seq(STRING) /\ s.host \in Seq(STRING) /\ s.after \in Seq(STRING)
      /\ \A i \in DOMAIN s.before : s.before[i] # "host:"
      /\ s.host # <<>> /\ s.host[1] \notin {"cr", "lf"}
      /\ s.after # <<>> => s.after[1] \in {"cr", "lf"}
  BY DEF RequestStream
<1>2. s.bytes = Cat(Cat(Cat(s.before, name), s.host), s.after)
  <2>1. Request(s.before, s.host, s.after).bytes = Cat(Cat(Cat(s.before, name), s.host), s.after)
    BY DEF Request, Cat
  <2> QED
    BY <1>1, <2>1
<1>3. /\ name \in Seq(Token) /\ Len(name) \in Nat /\ Len(name) <= 1 /\ 1 <= Len(name)
      /\ name[1] = "host:"
  <2> DEFINE word == "host:"
  <2>1. word \in Token
    BY DEF Token
  <2>2. name = <<word>> /\ word = "host:"
    OBVIOUS
  <2> HIDE DEF word, name
  <2>3. <<word>> \in Seq(Token) /\ <<word>>[1] = word
    BY <2>1
  <2>4. Len(<<word>>) <= 1 /\ 1 <= Len(<<word>>)
    BY <2>1
  <2>5. Len(<<word>>) \in Nat
    BY <2>3
  <2> QED
    BY <2>2, <2>3, <2>4, <2>5, Zenon
<1>12. s.before \in Seq(Token) /\ s.host \in Seq(Token) /\ s.after \in Seq(Token)
  BY <1>1, SeqMonotonic, Zenon DEF Token
<1> HIDE DEF name
<1>4. Placed(s.bytes, Token, s.before, name, s.host, s.after)
  <2>1. Placed(Cat(Cat(Cat(s.before, name), s.host), s.after),
               Token, s.before, name, s.host, s.after)
    BY <1>3, <1>12, PartPlaces
  <2> QED
    BY <1>2, <2>1
<1> DEFINE bytes == s.bytes  a == Len(s.before)  m == Len(name)  h == Len(s.host)  c == Len(s.after)
           n == Len(s.bytes)
<1>5. /\ bytes \in Seq(Token) /\ n \in Nat /\ a \in Nat /\ m \in Nat /\ h \in Nat /\ c \in Nat
      /\ n <= a + m + h + c /\ a + m + h + c <= n /\ m <= 1 /\ 1 <= m
      /\ \A i \in 1..a : bytes[0 + i] = s.before[i]
      /\ \A i \in 1..m : bytes[a + i] = name[i]
      /\ \A i \in 1..h : bytes[a + m + i] = s.host[i]
      /\ \A i \in 1..c : bytes[a + m + h + i] = s.after[i]
  <2>1. /\ bytes \in Seq(Token) /\ n \in Nat
        /\ n <= a + m + h + c /\ a + m + h + c <= n
        /\ Holds(bytes, 0, s.before) /\ Holds(bytes, a, name)
        /\ Holds(bytes, a + m, s.host) /\ Holds(bytes, a + m + h, s.after)
    BY <1>4 DEF Placed
  <2>2. a \in Nat /\ m \in Nat /\ h \in Nat /\ c \in Nat /\ m <= 1 /\ 1 <= m
    BY <1>1, <1>3
  <2> HIDE DEF bytes, a, m, h, c, n
  <2>3. /\ \A i \in 1..a : bytes[0 + i] = s.before[i]
        /\ \A i \in 1..m : bytes[a + i] = name[i]
        /\ \A i \in 1..h : bytes[a + m + i] = s.host[i]
        /\ \A i \in 1..c : bytes[a + m + h + i] = s.after[i]
    BY <2>1, Zenon DEF Holds, a, m, h, c
  <2> QED
    BY <2>1, <2>2, <2>3, Zenon
<1>6. \A i \in 1..a : bytes[i] = s.before[i] /\ bytes[i] # "host:"
  <2>1. ASSUME NEW i \in 1..a PROVE bytes[i] = s.before[i] /\ bytes[i] # "host:"
    <3>1. i \in DOMAIN s.before /\ 0 + i = i
      BY <1>1
    <3>2. s.before[i] # "host:"
      BY <1>1, <3>1
    <3> QED
      BY <1>5, <3>1, <3>2
  <2> QED
    BY <2>1
<1>7. c # 0 => s.after[1] \in {"cr", "lf"}
  BY <1>1
<1>13. h # 0
  BY <1>1
<1> HIDE DEF bytes, a, m, h, c, n
<1>8. m = 1
  BY <1>5
<1>14. a + 2 <= a + 1 + h /\ bytes[a + 2] \notin {"cr", "lf"}
  <2>1. 1 \in 1..h /\ a + m + 1 = a + 2 /\ a + 2 <= a + 1 + h
    BY <1>5, <1>8, <1>13
  <2>2. bytes[a + m + 1] = s.host[1]
    BY <1>5, <2>1
  <2> QED
    BY <1>1, <2>1, <2>2
<1>9. /\ n <= (a + 1 + h) + c /\ (a + 1 + h) + c <= n /\ a + 1 + h \in Nat /\ a + 1 <= a + 1 + h
      /\ bytes[a + 1] = "host:"
      /\ \A i \in 1..c : bytes[(a + 1 + h) + i] = s.after[i]
  BY <1>3, <1>5, <1>8
<1>10. a + 1 + h < n => bytes[(a + 1 + h) + 1] \in {"cr", "lf"}
  <2>1. SUFFICES ASSUME a + 1 + h < n PROVE bytes[(a + 1 + h) + 1] \in {"cr", "lf"}
    OBVIOUS
  <2>2. c # 0 /\ 1 \in 1..c
    BY <1>5, <1>9, <2>1
  <2> QED
    BY <1>7, <1>9, <2>2
<1>11. a <= a /\ a \in Nat
  BY <1>5
<1> QED
  BY <1>5, <1>6, <1>9, <1>10, <1>11, <1>12, <1>14, Zenon DEF RequestParts, bytes, a, h, c, n

\* Where the transformer finds the header, and where its value ends
LEMMA HostFound ==
  ASSUME NEW s, NEW b, NEW e, RequestParts(s, b, e), NEW x \in 1..Len(s.bytes),
         NEW g, Shows(g, Token, s.bytes, 0, x)
  PROVE  Find(g, <<"host:">>) = IF x <= b THEN 0 ELSE b + 1
<1> DEFINE name == <<"host:">>
<1>1. /\ name \in Seq(Token) /\ Len(name) <= 1 /\ 1 <= Len(name) /\ Len(name) \in Nat
      /\ name[1] = "host:"
  <2> DEFINE word == "host:"
  <2>1. word \in Token
    BY DEF Token
  <2>2. name = <<word>> /\ word = "host:"
    OBVIOUS
  <2> HIDE DEF word, name
  <2>3. <<word>> \in Seq(Token) /\ <<word>>[1] = word
    BY <2>1
  <2>4. Len(<<word>>) <= 1 /\ 1 <= Len(<<word>>)
    BY <2>1
  <2>5. Len(<<word>>) \in Nat
    BY <2>3
  <2> QED
    BY <2>2, <2>3, <2>4, <2>5, Zenon
<1> HIDE DEF name
<1>2. /\ b \in Nat /\ x \in Nat /\ x # 0
      /\ \A i \in 1..b : s.bytes[i] # "host:"
      /\ s.bytes[b + 1] = "host:"
  BY DEF RequestParts
<1>3. /\ g \in Seq(Token) /\ Len(g) \in Nat /\ Len(g) <= x /\ x <= Len(g)
      /\ \A i \in 1..x : g[i] = s.bytes[i]
  <2>1. /\ g \in Seq(Token) /\ Len(g) \in Nat /\ Len(g) <= x /\ x <= Len(g)
        /\ \A i \in 1..x : g[i] = s.bytes[0 + i]
    BY DEF Shows
  <2> QED
    BY <1>2, <2>1
<1>4. ASSUME NEW i \in Nat PROVE Occurs(g, name, i) <=> i \in 1..x /\ g[i] = "host:"
  <2> DEFINE l == Len(name)  n == Len(g)
  <2>1. l \in Nat /\ l <= 1 /\ 1 <= l /\ n \in Nat /\ n <= x /\ x <= n
    BY <1>1, <1>3
  <2>2. Occurs(g, name, i) <=> /\ i # 0 /\ i + l <= n + 1
                               /\ \A j \in 1..l : g[(i - 1) + j] = name[j]
    BY DEF Occurs
  <2> HIDE DEF l, n
  <2>3. i # 0 /\ i + l <= n + 1 <=> i \in 1..x
    BY <1>2, <2>1
  <2>4. (\A j \in 1..l : g[(i - 1) + j] = name[j]) <=> g[i] = name[1]
    <3>1. \A j \in 1..l : j = 1
      BY <2>1
    <3>2. 1 \in 1..l /\ (i - 1) + 1 = i
      BY <2>1
    <3> QED
      BY <3>1, <3>2
  <2> QED
    BY <1>1, <2>2, <2>3, <2>4, Zenon
<1>5. CASE x <= b
  <2>1. \A i \in Nat : ~Occurs(g, name, i)
    BY <1>2, <1>3, <1>4, <1>5
  <2>2. Find(g, name) = 0
    <3>1. Find(g, name) # 0 => Occurs(g, name, Find(g, name))
      BY <1>1, <1>3, Found
    <3>2. Find(g, name) \in Nat
      BY <1>1, <1>3, Found
    <3> QED
      BY <2>1, <3>1, <3>2, Zenon
  <2> QED
    BY <1>5, <2>2 DEF name
<1>6. CASE ~(x <= b)
  <2>1. b + 1 \in Nat /\ b + 1 \in 1..x
    BY <1>2, <1>6
  <2>2. Occurs(g, name, b + 1)
    BY <1>2, <1>3, <1>4, <2>1
  <2>3. ASSUME NEW i \in Nat, Occurs(g, name, i) PROVE b + 1 <= i
    <3>1. i \in 1..x /\ s.bytes[i] = "host:"
      BY <1>3, <1>4, <2>3
    <3> QED
      BY <1>2, <3>1
  <2>4. Find(g, name) = b + 1
    BY <1>1, <1>3, <2>1, <2>2, <2>3, FoundAt
  <2> QED
    BY <1>6, <2>4 DEF name
<1> QED
  BY <1>5, <1>6

\* The rewritten head begins with what stood before Host and ends with what followed.
LEMMA LocalHost ==
  ASSUME NEW s, NEW b, NEW e, RequestParts(s, b, e), NEW x \in 1..Len(s.bytes),
         NEW g, Shows(g, Token, s.bytes, 0, x)
  PROVE  /\ WithLocalHost(g) \in Seq(Token)
         /\ x <= b => WithLocalHost(g) = g
         /\ ~(x <= b) => Opens(WithLocalHost(g), s.bytes, b)
         /\ e <= x => Closes(WithLocalHost(g), s.bytes, e, x)
<1> DEFINE host == Find(g, <<"host:">>)
           visible == {i \in (host + 1)..Len(g) : g[i] \notin {"cr", "lf"}}
           start == Min(visible)
           after == {i \in (start + 1)..Len(g) : g[i] \in {"cr", "lf"}}
           valueEnd == IF after = {} THEN Len(g) ELSE Min(after) - 1
           r == WithLocalHost(g)
<1>1. r = IF host = 0 \/ visible = {} THEN g
          ELSE SubSeq(g, 1, start - 1) \o <<"localhost">> \o Skip(g, valueEnd)
  BY DEF WithLocalHost
<1>2. host = IF x <= b THEN 0 ELSE b + 1
  BY HostFound
<1>3. /\ b \in Nat /\ e \in Nat /\ b + 2 <= e /\ x \in Nat /\ x # 0 /\ x <= Len(s.bytes)
      /\ Len(s.bytes) \in Nat
      /\ s.bytes[b + 2] \notin {"cr", "lf"}
      /\ e < Len(s.bytes) => s.bytes[e + 1] \in {"cr", "lf"}
  BY DEF RequestParts
<1>4. /\ g \in Seq(Token) /\ Len(g) \in Nat /\ Len(g) <= x /\ x <= Len(g)
      /\ \A i \in 1..x : g[i] = s.bytes[i]
  <2>1. /\ g \in Seq(Token) /\ Len(g) \in Nat /\ Len(g) <= x /\ x <= Len(g)
        /\ \A i \in 1..x : g[i] = s.bytes[0 + i]
    BY DEF Shows
  <2> QED
    BY <1>3, <2>1
<1> HIDE DEF r, host, start, valueEnd
<1>10. ASSUME ~(x <= b)
       PROVE  /\ host = b + 1 /\ host # 0
              /\ \A i : i \in visible <=> i \in (b + 2)..x /\ s.bytes[i] \notin {"cr", "lf"}
  <2>1. host = b + 1 /\ host # 0 /\ host + 1 = b + 2
    BY <1>2, <1>3, <1>10
  <2>2. \A i : i \in (b + 2)..Len(g) <=> i \in (b + 2)..x
    BY <1>3, <1>4
  <2>3. \A i : i \in (b + 2)..x => g[i] = s.bytes[i]
    BY <1>3, <1>4
  <2> QED
    BY <2>1, <2>2, <2>3
<1> HIDE DEF visible
<1>5. Opens(g, s.bytes, IF x <= b THEN x ELSE b)
  <2>1. CASE x <= b
    BY <1>4, <2>1 DEF Opens
  <2>2. CASE ~(x <= b)
    BY <1>3, <1>4, <2>2 DEF Opens
  <2> QED
    BY <2>1, <2>2
<1>6. e <= x => Closes(g, s.bytes, e, x)
  <2> DEFINE n == Len(g)
  <2>1. n \in Nat /\ n <= x /\ x <= n /\ \A i \in 1..x : g[i] = s.bytes[i]
    BY <1>4
  <2>2. Closes(g, s.bytes, e, x) <=>
          x - e <= n /\ \A i \in 1..(x - e) : g[n - (x - e) + i] = s.bytes[e + i]
    BY DEF Closes
  <2> HIDE DEF n
  <2>3. ASSUME e <= x, NEW i \in 1..(x - e) PROVE g[n - (x - e) + i] = s.bytes[e + i]
    <3>1. n - (x - e) + i = e + i /\ e + i \in 1..x
      BY <1>3, <2>1, <2>3
    <3> QED
      BY <2>1, <3>1
  <2> QED
    BY <1>3, <2>1, <2>2, <2>3
<1>7. CASE x <= b
  <2>1. r = g /\ ~(e <= x)
    BY <1>1, <1>2, <1>3, <1>7
  <2> QED
    BY <1>4, <1>7, <2>1 DEF r
<1>8. CASE ~(x <= b) /\ x < b + 2
  <2>1. visible = {}
    <3>1. \A i : i \notin (b + 2)..x
      BY <1>3, <1>8
    <3> QED
      BY <1>8, <1>10, <3>1
  <2>2. r = g
    BY <1>1, <2>1
  <2> QED
    BY <1>4, <1>5, <1>6, <1>8, <2>2 DEF r
<1>9. CASE ~(x <= b) /\ b + 2 <= x
  <2>1. /\ host = b + 1 /\ host # 0 /\ host \in 1..x
        /\ visible # {} /\ start = b + 2 /\ start - 1 = host
    <3>1. host = b + 1 /\ host # 0 /\ host \in 1..x
      BY <1>3, <1>9, <1>10
    <3>2. b + 2 \in (b + 2)..x
      BY <1>3, <1>9
    <3>3. b + 2 \in visible
      BY <1>3, <1>9, <1>10, <3>2
    <3>4. visible \in SUBSET Nat /\ \A i \in visible : b + 2 <= i
      BY <1>3, <1>9, <1>10
    <3>5. start = b + 2
      BY <3>3, <3>4, Least DEF start
    <3>6. (b + 2) - 1 = b + 1
      BY <1>3
    <3> QED
      BY <3>1, <3>3, <3>5, <3>6
  <2>2. \A i : i \in after <=> i \in (b + 3)..x /\ s.bytes[i] \in {"cr", "lf"}
    <3>1. (b + 2) + 1 = b + 3
      BY <1>3
    <3>2. \A i : i \in (b + 3)..Len(g) <=> i \in (b + 3)..x
      BY <1>3, <1>4
    <3>3. \A i : i \in (b + 3)..x => g[i] = s.bytes[i]
      BY <1>3, <1>4
    <3> QED
      BY <2>1, <3>1, <3>2, <3>3
  <2> HIDE DEF after
  <2>3. valueEnd \in (b + 1)..x /\ valueEnd <= e
    <3>1. x > e => e + 1 \in after
      BY <1>3, <2>2
    <3>2. CASE after = {}
      <4>1. valueEnd = Len(g)
        BY <3>2 DEF valueEnd
      <4>2. valueEnd = x
        BY <1>3, <1>4, <4>1
      <4> QED
        BY <1>3, <1>9, <3>1, <3>2, <4>2
    <3>3. CASE after # {}
      <4>1. after \in SUBSET Nat
        BY <1>3, <2>2
      <4>2. PICK m \in after : \A i \in after : m <= i
        BY <3>3, <4>1, LeastNat
      <4>3. Min(after) = m
        BY <4>1, <4>2, Least
      <4>4. valueEnd = m - 1
        BY <3>3, <4>3 DEF valueEnd
      <4>5. m \in (b + 3)..x
        BY <2>2
      <4>6. x > e => m <= e + 1
        BY <3>1, <4>2
      <4> QED
        BY <1>3, <4>4, <4>5, <4>6
    <3> QED
      BY <3>2, <3>3
  <2> DEFINE u == Window(g, 0, b + 1)  w == <<"localhost">>  t == Window(g, valueEnd, Len(g))
             v == Cat(u, w)
  <2>4. r = Cat(v, t)
    <3>1. r = SubSeq(g, 1, host) \o <<"localhost">> \o Skip(g, valueEnd)
      BY <1>1, <2>1
    <3>2. u = SubSeq(g, 1, host)
      BY <2>1 DEF Window
    <3>3. t = Skip(g, valueEnd)
      BY Zenon DEF Window, Skip
    <3> HIDE DEF u, t, w
    <3> QED
      BY <3>1, <3>2, <3>3, Zenon DEF Cat, w
  <2>5. Shows(u, Token, g, 0, b + 1)
    <3>1. b + 1 \in 0..Len(g) /\ (b + 1) - 0 = b + 1 /\ 0 \in Nat
      BY <1>3, <1>4, <1>9
    <3>2. Shows(u, Token, g, 0, (b + 1) - 0)
      BY <1>4, <3>1, WindowShows, Zenon
    <3> QED
      BY <3>1, <3>2
  <2>6. Shows(t, Token, g, valueEnd, Len(g) - valueEnd)
    <3>1. valueEnd \in Nat /\ Len(g) \in valueEnd..Len(g)
      BY <1>3, <1>4, <2>3
    <3> QED
      BY <1>4, <3>1, WindowShows, Zenon
  <2>7. w \in Seq(Token)
    <3> DEFINE word == "localhost"
    <3>1. word \in Token /\ w = <<word>>
      BY DEF Token
    <3> HIDE DEF word, w
    <3>2. <<word>> \in Seq(Token)
      BY <3>1
    <3> QED
      BY <3>1, <3>2, Zenon
  <2> HIDE DEF u, t, w, v
  <2>8. Joins(v, Token, u, w)
    <3>1. u \in Seq(Token)
      BY <2>5 DEF Shows
    <3> QED
      BY <2>7, <3>1, Concat DEF v
  <2>9. Joins(r, Token, v, t)
    <3>1. v \in Seq(Token) /\ t \in Seq(Token)
      BY <2>6, <2>8 DEF Shows, Joins
    <3> QED
      BY <2>4, <3>1, Concat
  <2> DEFINE lr == Len(r)  lv == Len(v)  lu == Len(u)  lw == Len(w)  lt == Len(t)  n == Len(g)
  <2>10. /\ r \in Seq(Token) /\ lr \in Nat /\ lr <= lv + lt /\ lv + lt <= lr
         /\ \A i \in 1..lv : r[i] = v[i]
         /\ \A i \in 1..lt : r[lv + i] = t[i]
    BY <2>9 DEF Joins
  <2>11. /\ lv \in Nat /\ lv <= lu + lw /\ lu + lw <= lv
         /\ \A i \in 1..lu : v[i] = u[i]
    BY <2>8 DEF Joins
  <2>12. /\ lu \in Nat /\ lu <= b + 1 /\ b + 1 <= lu
         /\ \A i \in 1..(b + 1) : u[i] = g[0 + i]
    BY <2>5 DEF Shows
  <2>13. /\ lt \in Nat /\ lt <= n - valueEnd /\ n - valueEnd <= lt
         /\ \A i \in 1..(n - valueEnd) : t[i] = g[valueEnd + i]
    BY <2>6 DEF Shows
  <2>14. lw \in Nat /\ n \in Nat /\ n <= x /\ x <= n
    BY <1>4, <2>7
  <2>15. \A i \in 1..x : g[i] = s.bytes[i]
    BY <1>4
  <2>16. /\ Opens(r, s.bytes, b) <=> b <= lr /\ \A i \in 1..b : r[i] = s.bytes[i]
         /\ Closes(r, s.bytes, e, x) <=>
              x - e <= lr /\ \A i \in 1..(x - e) : r[lr - (x - e) + i] = s.bytes[e + i]
    BY DEF Opens, Closes
  <2> HIDE DEF lr, lv, lu, lw, lt, n
  <2>17. Opens(r, s.bytes, b)
    <3>1. b <= lr
      BY <1>3, <2>10, <2>11, <2>12, <2>13, <2>14
    <3>2. ASSUME NEW i \in 1..b PROVE r[i] = s.bytes[i]
      <4>1. i \in 1..lv /\ i \in 1..lu /\ i \in 1..(b + 1) /\ i \in 1..x /\ 0 + i = i
        BY <1>3, <1>9, <2>11, <2>12, <2>14
      <4>2. r[i] = v[i] /\ v[i] = u[i] /\ u[i] = g[0 + i] /\ g[i] = s.bytes[i]
        BY <2>10, <2>11, <2>12, <2>15, <4>1
      <4> QED
        BY <4>1, <4>2
    <3> QED
      BY <2>16, <3>1, <3>2
  <2>18. ASSUME e <= x PROVE Closes(r, s.bytes, e, x)
    <3>0. valueEnd \in Nat /\ valueEnd <= x
      BY <1>3, <2>3
    <3>1. x - e <= lr
      BY <1>3, <2>3, <2>10, <2>11, <2>13, <2>14, <2>18, <3>0
    <3>2. ASSUME NEW i \in 1..(x - e) PROVE r[lr - (x - e) + i] = s.bytes[e + i]
      <4>1. /\ (e - valueEnd) + i \in 1..(n - valueEnd) /\ (e - valueEnd) + i \in 1..lt
            /\ lv + ((e - valueEnd) + i) = lr - (x - e) + i
            /\ valueEnd + ((e - valueEnd) + i) = e + i /\ e + i \in 1..x
        BY <1>3, <2>3, <2>10, <2>11, <2>13, <2>14, <2>18, <3>0
      <4>2. /\ r[lv + ((e - valueEnd) + i)] = t[(e - valueEnd) + i]
            /\ t[(e - valueEnd) + i] = g[valueEnd + ((e - valueEnd) + i)]
            /\ g[e + i] = s.bytes[e + i]
        BY <2>10, <2>13, <2>15, <4>1
      <4> QED
        BY <4>1, <4>2
    <3> QED
      BY <2>16, <3>1, <3>2
  <2> QED
    BY <1>9, <2>10, <2>17, <2>18 DEF r
<1>11. x <= b \/ (~(x <= b) /\ x < b + 2) \/ (~(x <= b) /\ b + 2 <= x)
  BY <1>3
<1> QED
  BY <1>7, <1>8, <1>9, <1>11, Zenon

\* The transformer p with x bytes of the request s read
Carried(s, b, e, x, p) ==
  /\ p.out \in Seq(Token)
  /\ x <= b => p.out = Window(s.bytes, 0, x)
  /\ ~(x <= b) => Opens(p.out, s.bytes, b)
  /\ e <= x => Closes(p.out, s.bytes, e, x)
  /\ x = 0 => p = NewTransformer
  /\ x # 0 => p.replaced = TRUE

\* One more segment keeps what the transform has carried over.
LEMMA CarriedOn ==
  ASSUME NEW s, NEW b, NEW e, RequestParts(s, b, e), NEW x \in Nat, NEW y \in Nat,
         x < y, y <= Len(s.bytes), NEW p, Carried(s, b, e, x, p)
  PROVE  Carried(s, b, e, y, TransformSegment(p, Window(s.bytes, x, y)))
<1> DEFINE g == Window(s.bytes, x, y)
           q == TransformSegment(p, g)
<1>1. /\ b \in Nat /\ e \in Nat /\ b + 1 <= e /\ Len(s.bytes) \in Nat /\ s.bytes \in Seq(Token)
      /\ x \in 0..Len(s.bytes) /\ y \in x..Len(s.bytes) /\ y # 0 /\ 0 \in Nat
  BY DEF RequestParts
<1> HIDE DEF g, q
<1>2. q.replaced = TRUE /\ q.out = p.out \o (IF p.replaced THEN g ELSE WithLocalHost(g))
  BY Zenon DEF q, TransformSegment
<1>3. Shows(g, Token, s.bytes, x, y - x)
  BY <1>1, WindowShows, Zenon DEF g
<1>4. CASE x = 0
  <2>1. p.replaced = FALSE /\ p.out = <<>>
    BY <1>4 DEF Carried, NewTransformer
  <2>2. Shows(g, Token, s.bytes, 0, y) /\ y \in 1..Len(s.bytes)
    <3>1. y - x = y /\ y \in 1..Len(s.bytes)
      BY <1>1, <1>4
    <3> QED
      BY <1>3, <1>4, <3>1
  <2>3. /\ WithLocalHost(g) \in Seq(Token)
        /\ y <= b => WithLocalHost(g) = g
        /\ ~(y <= b) => Opens(WithLocalHost(g), s.bytes, b)
        /\ e <= y => Closes(WithLocalHost(g), s.bytes, e, y)
    BY <2>2, LocalHost, Zenon
  <2> DEFINE w == WithLocalHost(g)
  <2> HIDE DEF w
  <2>4. q.out = w
    <3>1. q.out = <<>> \o w
      BY <1>2, <2>1, Zenon DEF w
    <3>2. w \in Seq(Token)
      BY <2>3 DEF w
    <3>3. <<>> \o w = w
      BY <3>2, ConcatEmptySeq
    <3> QED
      BY <3>1, <3>3, Zenon
  <2> QED
    BY <1>1, <1>2, <1>4, <2>3, <2>4, Zenon DEF Carried, w, g, q
<1>5. CASE x # 0
  <2> DEFINE o == p.out
  <2>1. /\ q.out = Cat(o, g) /\ o \in Seq(Token)
        /\ x <= b => o = Window(s.bytes, 0, x)
        /\ ~(x <= b) => Opens(o, s.bytes, b)
        /\ e <= x => Closes(o, s.bytes, e, x)
    <3>1. p.replaced = TRUE
      BY <1>5 DEF Carried
    <3> QED
      BY <1>2, <3>1, Zenon DEF Carried, Cat
  <2> HIDE DEF o
  <2>2. Joins(q.out, Token, o, g)
    BY <1>3, <2>1, Concat DEF Shows
  <2>3. x <= b => q.out = Window(s.bytes, 0, y)
    <3>1. SUFFICES ASSUME x <= b PROVE q.out = Window(s.bytes, 0, y)
      OBVIOUS
    <3>2. Window(s.bytes, 0, x) \o Window(s.bytes, x, y) = Window(s.bytes, 0, y)
      BY <1>1, WindowsJoin
    <3> QED
      BY <2>1, <3>1, <3>2, Zenon DEF Cat, g
  <2>4. y <= b => q.out = Window(s.bytes, 0, y)
    BY <1>1, <2>3
  <2> DEFINE lq == Len(q.out)  lo == Len(o)  lg == Len(g)  r == q.out
  <2>5. /\ r \in Seq(Token) /\ lq \in Nat /\ lq <= lo + lg /\ lo + lg <= lq
        /\ \A i \in 1..lo : r[i] = o[i]
        /\ \A i \in 1..lg : r[lo + i] = g[i]
    BY <2>2 DEF Joins
  <2>6. /\ lg \in Nat /\ lg <= y - x /\ y - x <= lg
        /\ \A i \in 1..(y - x) : g[i] = s.bytes[x + i]
    BY <1>3 DEF Shows
  <2>7. lo \in Nat
    BY <2>1
  <2>8. x <= b => lo <= x /\ x <= lo /\ \A i \in 1..x : o[i] = s.bytes[i]
    <3>1. SUFFICES ASSUME x <= b
                   PROVE  lo <= x /\ x <= lo /\ \A i \in 1..x : o[i] = s.bytes[i]
      OBVIOUS
    <3>2. Shows(o, Token, s.bytes, 0, x - 0)
      BY <1>1, <2>1, <3>1, WindowShows, Zenon
    <3>3. x - 0 = x
      OBVIOUS
    <3>4. Shows(o, Token, s.bytes, 0, x)
      BY <3>2, <3>3
    <3> QED
      BY <3>4 DEF Shows
  <2>9. /\ Opens(q.out, s.bytes, b) <=> b <= lq /\ \A i \in 1..b : r[i] = s.bytes[i]
        /\ Closes(q.out, s.bytes, e, y) <=>
              y - e <= lq /\ \A i \in 1..(y - e) : r[lq - (y - e) + i] = s.bytes[e + i]
        /\ Opens(o, s.bytes, b) <=> b <= lo /\ \A i \in 1..b : o[i] = s.bytes[i]
        /\ Closes(o, s.bytes, e, x) <=>
              x - e <= lo /\ \A i \in 1..(x - e) : o[lo - (x - e) + i] = s.bytes[e + i]
    BY DEF Opens, Closes
  <2> HIDE DEF lq, lo, lg, r
  <2>10. ASSUME ~(y <= b) PROVE Opens(q.out, s.bytes, b)
    <3>1. CASE ~(x <= b)
      <4>1. b <= lo /\ \A i \in 1..b : o[i] = s.bytes[i]
        BY <2>1, <2>9, <3>1
      <4>2. b <= lq
        BY <1>1, <2>5, <2>6, <2>7, <4>1
      <4>3. ASSUME NEW i \in 1..b PROVE r[i] = s.bytes[i]
        <5>1. i \in 1..lo
          BY <1>1, <2>7, <4>1
        <5> QED
          BY <2>5, <4>1, <5>1
      <4> QED
        BY <2>9, <4>2, <4>3
    <3>2. CASE x <= b
      <4>1. lo <= x /\ x <= lo /\ \A i \in 1..x : o[i] = s.bytes[i]
        BY <2>8, <3>2
      <4>2. b <= lq
        BY <1>1, <2>5, <2>6, <2>7, <2>10, <4>1
      <4>3. ASSUME NEW i \in 1..b PROVE r[i] = s.bytes[i]
        <5>1. CASE i <= x
          <6>1. i \in 1..lo /\ i \in 1..x
            BY <1>1, <2>7, <4>1, <5>1
          <6> QED
            BY <2>5, <4>1, <6>1
        <5>2. CASE ~(i <= x)
          <6>1. i - x \in 1..lg /\ i - x \in 1..(y - x) /\ lo + (i - x) = i /\ x + (i - x) = i
            BY <1>1, <2>6, <2>7, <2>10, <4>1, <5>2
          <6>2. r[lo + (i - x)] = g[i - x] /\ g[i - x] = s.bytes[x + (i - x)]
            BY <2>5, <2>6, <6>1
          <6> QED
            BY <6>1, <6>2
        <5> QED
          BY <5>1, <5>2
      <4> QED
        BY <2>9, <4>2, <4>3
    <3> QED
      BY <3>1, <3>2
  <2>11. ASSUME e <= y PROVE Closes(q.out, s.bytes, e, y)
    <3>1. CASE e <= x
      <4>1. x - e <= lo /\ \A i \in 1..(x - e) : o[lo - (x - e) + i] = s.bytes[e + i]
        BY <2>1, <2>9, <3>1
      <4>2. y - e <= lq
        BY <1>1, <2>5, <2>6, <2>7, <4>1
      <4>3. ASSUME NEW i \in 1..(y - e) PROVE r[lq - (y - e) + i] = s.bytes[e + i]
        <5>1. CASE i <= x - e
          <6>1. /\ i \in 1..(x - e) /\ lo - (x - e) + i \in 1..lo
                /\ lq - (y - e) + i = lo - (x - e) + i
            BY <1>1, <2>5, <2>6, <2>7, <3>1, <4>1, <5>1
          <6>2. r[lo - (x - e) + i] = o[lo - (x - e) + i]
            BY <2>5, <6>1
          <6> QED
            BY <4>1, <6>1, <6>2
        <5>2. CASE ~(i <= x - e)
          <6>1. /\ i - (x - e) \in 1..lg /\ i - (x - e) \in 1..(y - x)
                /\ lo + (i - (x - e)) = lq - (y - e) + i
                /\ x + (i - (x - e)) = e + i
            BY <1>1, <2>5, <2>6, <2>7, <3>1, <4>1, <5>2
          <6>2. /\ r[lo + (i - (x - e))] = g[i - (x - e)]
                /\ g[i - (x - e)] = s.bytes[x + (i - (x - e))]
            BY <2>5, <2>6, <6>1
          <6> QED
            BY <6>1, <6>2
        <5> QED
          BY <5>1, <5>2
      <4> QED
        BY <2>9, <4>2, <4>3
    <3>2. CASE ~(e <= x)
      <4>2. y - e <= lq
        BY <1>1, <2>5, <2>6, <2>7, <2>11, <3>2
      <4>3. ASSUME NEW i \in 1..(y - e) PROVE r[lq - (y - e) + i] = s.bytes[e + i]
        <5>1. /\ (e - x) + i \in 1..lg /\ (e - x) + i \in 1..(y - x)
              /\ lo + ((e - x) + i) = lq - (y - e) + i
              /\ x + ((e - x) + i) = e + i
          BY <1>1, <2>5, <2>6, <2>7, <2>11, <3>2
        <5>2. r[lo + ((e - x) + i)] = g[(e - x) + i] /\ g[(e - x) + i] = s.bytes[x + ((e - x) + i)]
          BY <2>5, <2>6, <5>1
        <5> QED
          BY <5>1, <5>2
      <4> QED
        BY <2>9, <4>2, <4>3
    <3> QED
      BY <3>1, <3>2
  <2>12. q.out \in Seq(Token)
    BY <2>5 DEF r
  <2> QED
    BY <1>1, <1>2, <2>4, <2>10, <2>11, <2>12, Zenon DEF Carried, g, q
<1> QED
  BY <1>4, <1>5

-----------------------------------------------------------------------------
\* RequestIntact

\* The last token of the Host line
HostEnd(s) == Len(s.before) + 1 + Len(s.host)

\* The inductive invariant of RequestIntact: what the transform has passed on is what
\* has arrived, but for the Host line.
RequestInv ==
  stream.kind = "request" =>
    /\ near \in 0..Len(stream.bytes)
    /\ Carried(stream, Len(stream.before), HostEnd(stream), near, first)

\* A request of the model has these parts.
LEMMA RequestKnown ==
  ASSUME Kinds, stream.kind = "request"
  PROVE  RequestParts(stream, Len(stream.before), HostEnd(stream))
BY StreamsAssumption, RequestStreamParts DEF Kinds, HostEnd

\* It is an invariant.
LEMMA RequestInvHolds == Spec => []RequestInv
<1>1. Init /\ Kinds => RequestInv
  <2> SUFFICES ASSUME Init, Kinds, stream.kind = "request"
               PROVE  /\ near \in 0..Len(stream.bytes)
                      /\ Carried(stream, Len(stream.before), HostEnd(stream), near, first)
    BY DEF RequestInv
  <2> DEFINE s == stream  b == Len(s.before)  e == HostEnd(s)
  <2>1. RequestParts(s, b, e)
    BY RequestKnown
  <2>2. near = 0 /\ first = NewTransformer
    BY DEF Init
  <2> HIDE DEF s, b, e
  <2>3. b \in Nat /\ e \in Nat /\ b + 1 <= e /\ s.bytes \in Seq(Token) /\ Len(s.bytes) \in Nat
    BY <2>1 DEF RequestParts
  <2>4. first.out = <<>>
    BY <2>2 DEF NewTransformer
  <2>5. Window(s.bytes, 0, 0) = <<>>
    <3> DEFINE w == Window(s.bytes, 0, 0)
    <3> HIDE DEF w
    <3>1. w \in Seq(Token) /\ Len(w) <= 0 /\ Len(w) \in Nat
      <4>1. 0 \in 0..Len(s.bytes)
        BY <2>3
      <4> QED
        BY <2>3, <4>1, WindowPrefix DEF w
    <3>2. w = <<>>
      BY <3>1
    <3> QED
      BY <3>2 DEF w
  <2>6. 0 <= b /\ ~(e <= 0)
    BY <2>3
  <2>7. <<>> \in Seq(Token)
    BY EmptySeq
  <2>8. Carried(s, b, e, near, first)
    BY <2>2, <2>4, <2>5, <2>6, <2>7, Zenon DEF Carried
  <2>9. near \in 0..Len(s.bytes)
    BY <2>2, <2>3
  <2> QED
    BY <2>8, <2>9 DEF s, b, e
<1>2. RequestInv /\ Kinds /\ [Next]_vars => RequestInv'
  <2> SUFFICES ASSUME RequestInv, Kinds, [Next]_vars PROVE RequestInv'
    OBVIOUS
  <2>1. ASSUME NEW n \in 1..(Len(stream.bytes) - near), RequestArrives(n) PROVE RequestInv'
    <3> DEFINE s == stream  b == Len(s.before)  e == HostEnd(s)  y == near + n
    <3>1. RequestParts(s, b, e)
      BY <2>1, RequestKnown DEF RequestArrives
    <3>2. /\ stream' = s /\ near' = y /\ near \in 0..Len(s.bytes)
          /\ Carried(s, b, e, near, first)
          /\ first' = TransformSegment(first, Window(s.bytes, near, y))
      BY <2>1 DEF RequestArrives, Arrive, Segment, Window, RequestInv
    <3> HIDE DEF s, b, e
    <3>3. Len(s.bytes) \in Nat
      BY <3>1 DEF RequestParts
    <3>4. near \in Nat /\ y \in Nat /\ near < y /\ y <= Len(s.bytes)
      BY <3>2, <3>3, <2>1 DEF s
    <3> HIDE DEF y
    <3>5. Carried(s, b, e, y, first')
      BY <3>1, <3>2, <3>4, CarriedOn, Zenon
    <3>6. y \in 0..Len(s.bytes)
      BY <3>3, <3>4
    <3> QED
      BY <3>2, <3>5, <3>6, Zenon DEF RequestInv, s, b, e
  <2>2. ASSUME NEW n, LocalWrites(n) \/ FramesArrive(n) \/ ServerReads(n) PROVE RequestInv'
    BY <2>2 DEF LocalWrites, FramesArrive, ServerReads, RequestInv
  <2>3. CASE RequestCollected \/ LocalCloses \/ DataEnds
    BY <2>3 DEF RequestCollected, LocalCloses, DataEnds, RequestInv
  <2>4. CASE ServerSeesEnd
    <3>1. stream' = stream /\ near' = near /\ first' = first
      BY <2>4 DEF ServerSeesEnd
    <3> QED
      BY <3>1 DEF RequestInv
  <2>5. CASE UNCHANGED vars
    <3>1. stream' = stream /\ near' = near /\ first' = first
      BY <2>5 DEF vars
    <3> QED
      BY <3>1 DEF RequestInv
  <2> QED
    BY <2>1, <2>2, <2>3, <2>4, <2>5 DEF Next
<1> QED
  BY <1>1, <1>2, KindsHold, PTL DEF Spec

\* It gives the property.
LEMMA CarriedIntact ==
  ASSUME RequestInv, Kinds
  PROVE  RequestIntact
<1> SUFFICES ASSUME stream.kind = "request"
             PROVE  /\ IsPrefix(SubSeq(stream.before, 1, Min({near, Len(stream.before)})),
                                first.out)
                    /\ Sent => IsSuffix(stream.after, first.out)
  BY DEF RequestIntact
<1> DEFINE s == stream  b == Len(s.before)  e == HostEnd(s)  o == first.out  a == s.after
           k == Min({near, b})  w == Window(s.bytes, 0, near)
<1>1. RequestParts(s, b, e)
  BY RequestKnown
<1>2. near \in 0..Len(s.bytes) /\ Carried(s, b, e, near, first)
  BY DEF RequestInv
<1> HIDE DEF s, b, e, o, a
<1>3. /\ b \in Nat /\ e \in Nat /\ b + 1 <= e
      /\ s.before \in Seq(Token) /\ a \in Seq(Token) /\ Len(a) \in Nat
      /\ s.bytes \in Seq(Token) /\ Len(s.bytes) \in Nat
      /\ Len(s.bytes) <= e + Len(a) /\ e + Len(a) <= Len(s.bytes)
      /\ \A i \in 1..b : s.bytes[i] = s.before[i]
      /\ \A i \in 1..Len(a) : s.bytes[e + i] = a[i]
  BY <1>1 DEF RequestParts, a
<1>4. /\ o \in Seq(Token)
      /\ near <= b => o = w
      /\ ~(near <= b) => Opens(o, s.bytes, b)
      /\ e <= near => Closes(o, s.bytes, e, near)
  BY <1>2 DEF Carried, o
<1>5. near \in Nat /\ near <= Len(s.bytes)
  BY <1>2, <1>3
<1>6. k = IF near <= b THEN near ELSE b
  <2>1. {near, b} \in SUBSET Nat
    BY <1>3, <1>5
  <2>2. CASE near <= b
    <3>1. \A i \in {near, b} : near <= i
      BY <1>3, <1>5, <2>2
    <3> QED
      BY <2>1, <2>2, <3>1, Least
  <2>3. CASE ~(near <= b)
    <3>1. \A i \in {near, b} : b <= i
      BY <1>3, <1>5, <2>3
    <3> QED
      BY <2>1, <2>3, <3>1, Least
  <2> QED
    BY <2>2, <2>3
<1> HIDE DEF k, w
<1>7. Opens(o, s.before, k)
  <2>1. CASE near <= b
    <3>1. Shows(w, Token, s.bytes, 0, near - 0)
      <4>1. 0 \in Nat /\ near \in 0..Len(s.bytes)
        BY <1>2
      <4> QED
        BY <1>3, <4>1, WindowShows, Zenon DEF w
    <3>2. near - 0 = near
      BY <1>5
    <3>3. Shows(w, Token, s.bytes, 0, near)
      BY <3>1, <3>2
    <3>4. near <= Len(w) /\ \A i \in 1..near : w[i] = s.bytes[i]
      BY <1>5, <3>3 DEF Shows
    <3> QED
      BY <1>3, <1>4, <1>5, <1>6, <2>1, <3>4 DEF Opens
  <2>2. CASE ~(near <= b)
    BY <1>3, <1>4, <1>6, <2>2 DEF Opens
  <2> QED
    BY <2>1, <2>2
<1>8. IsPrefix(SubSeq(s.before, 1, k), o)
  <2>1. k \in 0..Len(s.before)
    <3>1. k \in 0..b
      BY <1>3, <1>5, <1>6
    <3> QED
      BY <3>1 DEF b
  <2> QED
    BY <1>3, <1>7, <2>1, OpensPrefix, Zenon
<1>9. ASSUME Sent PROVE IsSuffix(a, o)
  <2> DEFINE x == near  c == Len(a)  l == Len(o)
  <2>1. near = Len(s.bytes)
    BY <1>9 DEF Sent, s
  <2>2. e <= near
    BY <1>3, <2>1
  <2>3. x - e <= l /\ \A i \in 1..(x - e) : o[l - (x - e) + i] = s.bytes[e + i]
    BY <1>4, <2>2 DEF Closes
  <2>4. c \in Nat /\ x <= e + c /\ e + c <= x /\ x \in Nat /\ l \in Nat
        /\ \A i \in 1..c : s.bytes[e + i] = a[i]
    BY <1>3, <1>4, <1>5, <2>1
  <2> HIDE DEF x, c, l
  <2>5. x - e = c
    BY <1>3, <2>4
  <2>6. c <= l /\ \A i \in 1..c : o[l - c + i] = a[i]
    BY <2>3, <2>4, <2>5
  <2> QED
    BY <1>3, <1>4, <2>6, ClosesSuffix, Zenon DEF c, l
<1> QED
  BY <1>8, <1>9, Zenon DEF s, b, k, o, a

\* Whatever segments bring a request, the transform of the client tunnel passes on the head
\* before the Host line as it was, and, when all has come, everything behind the Host line.
THEOREM RequestsAreIntact == Spec => []RequestIntact
BY RequestInvHolds, KindsHold, CarriedIntact, PTL

-----------------------------------------------------------------------------
\* The words of an HTTP answer

\* The tokens of an answer and of the line before it
Word == STRING \cup {"HTTP/1.1", "cr", "lf", "0", "TT/1 PAIR", "pair"}

\* The end of a line.
LEMMA EndOfLine ==
  /\ CRLF \in Seq(Word) /\ Len(CRLF) \in Nat /\ Len(CRLF) <= 2 /\ 2 <= Len(CRLF)
  /\ CRLF[1] = "cr" /\ CRLF[2] = "lf"
<1> DEFINE a == "cr"  b == "lf"  w == CRLF
<1>1. a \in Word /\ b \in Word /\ w = <<a, b>>
  BY DEF Word, CRLF
<1> HIDE DEF a, b, w
<1>2. w \in Seq(Word) /\ Len(w) <= 2 /\ 2 <= Len(w) /\ w[1] = a /\ w[2] = b
  BY <1>1
<1>3. Len(w) \in Nat
  BY <1>2
<1> QED
  BY <1>2, <1>3 DEF a, b, w

\* The end of the head.
LEMMA EndOfHead ==
  /\ HeaderEnd \in Seq(Word) /\ Len(HeaderEnd) \in Nat /\ Len(HeaderEnd) <= 4 /\ 4 <= Len(HeaderEnd)
  /\ HeaderEnd[1] = "cr" /\ HeaderEnd[2] = "lf" /\ HeaderEnd[3] = "cr" /\ HeaderEnd[4] = "lf"
<1> DEFINE w == HeaderEnd  c == CRLF
<1>1. w = Cat(c, c)
  BY DEF HeaderEnd, Cat
<1>2. /\ c \in Seq(Word) /\ Len(c) \in Nat /\ Len(c) <= 2 /\ 2 <= Len(c)
      /\ c[1] = "cr" /\ c[2] = "lf"
  BY EndOfLine
<1> HIDE DEF w, c
<1>3. Joins(w, Word, c, c)
  BY <1>1, <1>2, Concat
<1> DEFINE l == Len(c)  m == Len(w)
<1>4. /\ w \in Seq(Word) /\ m \in Nat /\ m <= l + l /\ l + l <= m
      /\ \A i \in 1..l : w[i] = c[i]
      /\ \A i \in 1..l : w[l + i] = c[i]
  BY <1>3 DEF Joins
<1>5. l \in Nat /\ l <= 2 /\ 2 <= l
  BY <1>2
<1> HIDE DEF l, m
<1>6. l = 2 /\ m <= 4 /\ 4 <= m
  BY <1>4, <1>5
<1>7. w[1] = c[1] /\ w[2] = c[2] /\ w[2 + 1] = c[1] /\ w[2 + 2] = c[2]
  BY <1>4, <1>6
<1> QED
  BY <1>2, <1>4, <1>6, <1>7 DEF w, m

\* The words of the head.
LEMMA HeadPlaces ==
  /\ HeadBytes \in Seq(Word) /\ Len(HeadBytes) \in Nat /\ Len(HeadBytes) <= 5 /\ 5 <= Len(HeadBytes)
  /\ HeadBytes[1] = "HTTP/1.1" /\ HeadBytes[2] = "cr" /\ HeadBytes[3] = "lf"
  /\ HeadBytes[4] = "cr" /\ HeadBytes[5] = "lf"
<1> DEFINE w == HeadBytes  c == HeaderEnd  t == "HTTP/1.1"  h == <<t>>
<1>1. w = Cat(h, c) /\ t \in Word /\ t = "HTTP/1.1"
  BY DEF HeadBytes, Cat, Word
<1>2. /\ c \in Seq(Word) /\ Len(c) \in Nat /\ Len(c) <= 4 /\ 4 <= Len(c)
      /\ c[1] = "cr" /\ c[2] = "lf" /\ c[3] = "cr" /\ c[4] = "lf"
  BY EndOfHead
<1> HIDE DEF w, c, t
<1>3. h \in Seq(Word) /\ h[1] = t
  BY <1>1
<1>4. Len(h) <= 1 /\ 1 <= Len(h)
  BY <1>1
<1>5. Len(h) \in Nat
  BY <1>3
<1> HIDE DEF h
<1>6. Joins(w, Word, h, c)
  BY <1>1, <1>2, <1>3, Concat
<1> DEFINE l == Len(c)  m == Len(w)  k == Len(h)
<1>7. /\ w \in Seq(Word) /\ m \in Nat /\ m <= k + l /\ k + l <= m
      /\ \A i \in 1..k : w[i] = h[i]
      /\ \A i \in 1..l : w[k + i] = c[i]
  BY <1>6 DEF Joins
<1>8. l \in Nat /\ l <= 4 /\ 4 <= l /\ k \in Nat /\ k <= 1 /\ 1 <= k
  BY <1>2, <1>4, <1>5
<1> HIDE DEF l, m, k
<1>9. l = 4 /\ k = 1 /\ m <= 5 /\ 5 <= m
  BY <1>7, <1>8
<1>10. w[1] = t /\ w[1 + 1] = c[1] /\ w[1 + 2] = c[2] /\ w[1 + 3] = c[3] /\ w[1 + 4] = c[4]
  BY <1>3, <1>7, <1>9
<1>11. w[1] = t /\ w[2] = "cr" /\ w[3] = "lf" /\ w[4] = "cr" /\ w[5] = "lf"
  BY <1>2, <1>10
<1> QED
  BY <1>1, <1>7, <1>9, <1>11 DEF w, m

\* The chunks of the chunked answers
Chunk == [line : Seq(STRING), data : Seq(STRING)]

\* A chunk is its size line, its data and the ends of both.
LEMMA ChunkParts ==
  ASSUME NEW c \in Chunk
  PROVE  /\ Placed(EncodeChunk(c), Word, c.line, CRLF, c.data, CRLF)
         /\ c.line \in Seq(Word) /\ c.data \in Seq(Word)
<1>1. c.line \in Seq(STRING) /\ c.data \in Seq(STRING) /\ STRING \subseteq Word
  BY DEF Chunk, Word
<1>2. c.line \in Seq(Word) /\ c.data \in Seq(Word)
  BY <1>1, SeqMonotonic, Zenon
<1>3. Placed(Cat(Cat(Cat(c.line, CRLF), c.data), CRLF), Word, c.line, CRLF, c.data, CRLF)
  BY <1>2, EndOfLine, PartPlaces
<1>4. EncodeChunk(c) = Cat(Cat(Cat(c.line, CRLF), c.data), CRLF)
  BY Zenon DEF EncodeChunk, Cat
<1> QED
  BY <1>2, <1>3, <1>4

\* The chunks of an answer as pieces, and their data.
ChunkPieces(chunks) == [n \in 1..Len(chunks) |-> EncodeChunk(chunks[n])]
DataPieces(chunks) == [n \in 1..Len(chunks) |-> chunks[n].data]

\* ChunkBytes joins the encoded chunks.
LEMMA ChunkRecursion ==
  ASSUME NEW chunks \in Seq(Chunk)
  PROVE  /\ Joined(ChunkBytes(chunks), Word, Len(chunks), ChunkPieces(chunks))
         /\ ChunkPieces(chunks) \in [1..Len(chunks) -> Seq(Word)]
<1> DEFINE N == Len(chunks)
           piece == ChunkPieces(chunks)
           encoded[n \in 0..N] == IF n = 0 THEN <<>> ELSE encoded[n - 1] \o EncodeChunk(chunks[n])
<1>1. N \in Nat /\ \A n \in 1..N : chunks[n] \in Chunk /\ piece[n] = EncodeChunk(chunks[n])
  BY DEF ChunkPieces
<1>2. piece \in [1..N -> Seq(Word)]
  <2>1. \A n \in 1..N : piece[n] \in Seq(Word)
    BY <1>1, ChunkParts DEF Placed
  <2>2. piece = [n \in 1..N |-> piece[n]]
    BY DEF ChunkPieces
  <2> QED
    BY <2>1, <2>2
<1> HIDE DEF piece
<1>3. PICK e : Recursion(e, N, piece)
  BY <1>1, <1>2, JoinedExists
<1>4. ASSUME NEW f PROVE [n \in 0..N |-> IF n = 0 THEN <<>> ELSE Cat(f[n - 1], piece[n])]
        = [n \in 0..N |-> IF n = 0 THEN <<>> ELSE f[n - 1] \o EncodeChunk(chunks[n])]
  <2>1. ASSUME NEW n \in 0..N, n # 0
        PROVE  Cat(f[n - 1], piece[n]) = f[n - 1] \o EncodeChunk(chunks[n])
    <3>1. n \in 1..N
      BY <2>1
    <3>2. piece[n] = EncodeChunk(chunks[n])
      BY <1>1, <3>1
    <3> QED
      BY <3>2 DEF Cat
  <2> QED
    BY <2>1, Zenon
<1>5. e = [n \in 0..N |-> IF n = 0 THEN <<>> ELSE e[n - 1] \o EncodeChunk(chunks[n])]
  BY <1>3, <1>4, Zenon DEF Recursion
<1>6. encoded = [n \in 0..N |-> IF n = 0 THEN <<>> ELSE encoded[n - 1] \o EncodeChunk(chunks[n])]
  BY <1>5, Zenon
<1>7. ChunkBytes(chunks) = encoded
  BY Zenon DEF ChunkBytes
<1> HIDE DEF encoded
<1>8. Recursion(encoded, N, piece)
  BY <1>4, <1>6, Zenon DEF Recursion
<1> QED
  BY <1>1, <1>2, <1>7, <1>8, RecursionJoins DEF piece

\* ChunkData joins their data.
LEMMA DataRecursion ==
  ASSUME NEW chunks \in Seq(Chunk)
  PROVE  /\ Joined(ChunkData(chunks), Word, Len(chunks), DataPieces(chunks))
         /\ DataPieces(chunks) \in [1..Len(chunks) -> Seq(Word)]
<1> DEFINE N == Len(chunks)
           piece == DataPieces(chunks)
           data[n \in 0..N] == IF n = 0 THEN <<>> ELSE data[n - 1] \o chunks[n].data
<1>1. N \in Nat /\ \A n \in 1..N : chunks[n] \in Chunk /\ piece[n] = chunks[n].data
  BY DEF DataPieces
<1>2. piece \in [1..N -> Seq(Word)]
  <2>1. \A n \in 1..N : piece[n] \in Seq(Word)
    BY <1>1, ChunkParts
  <2>2. piece = [n \in 1..N |-> piece[n]]
    BY DEF DataPieces
  <2> QED
    BY <2>1, <2>2
<1> HIDE DEF piece
<1>3. PICK e : Recursion(e, N, piece)
  BY <1>1, <1>2, JoinedExists
<1>4. ASSUME NEW f PROVE [n \in 0..N |-> IF n = 0 THEN <<>> ELSE Cat(f[n - 1], piece[n])]
        = [n \in 0..N |-> IF n = 0 THEN <<>> ELSE f[n - 1] \o chunks[n].data]
  <2>1. ASSUME NEW n \in 0..N, n # 0
        PROVE  Cat(f[n - 1], piece[n]) = f[n - 1] \o chunks[n].data
    <3>1. n \in 1..N
      BY <2>1
    <3>2. piece[n] = chunks[n].data
      BY <1>1, <3>1
    <3> QED
      BY <3>2 DEF Cat
  <2> QED
    BY <2>1, Zenon
<1>5. e = [n \in 0..N |-> IF n = 0 THEN <<>> ELSE e[n - 1] \o chunks[n].data]
  BY <1>3, <1>4, Zenon DEF Recursion
<1>6. data = [n \in 0..N |-> IF n = 0 THEN <<>> ELSE data[n - 1] \o chunks[n].data]
  BY <1>5, Zenon
<1>7. ChunkData(chunks) = data
  BY Zenon DEF ChunkData
<1> HIDE DEF data
<1>8. Recursion(data, N, piece)
  BY <1>4, <1>6, Zenon DEF Recursion
<1> QED
  BY <1>1, <1>2, <1>7, <1>8, RecursionJoins DEF piece

\* The encoded body.
Chunked(s) == ChunkBytes(s.chunks)[Len(s.chunks)]

\* What an answer consists of: its head of five tokens, m tokens of chunks, and the rest
AnswerForm(s, m) ==
  /\ m \in Nat /\ s.rest \in Seq(Word) /\ Len(s.rest) \in Nat
  /\ s.bytes \in Seq(Word) /\ Len(s.bytes) \in Nat
  /\ Len(s.bytes) <= 5 + m + Len(s.rest) /\ 5 + m + Len(s.rest) <= Len(s.bytes)
  /\ s.bytes[1] = "HTTP/1.1" /\ s.bytes[2] = "cr" /\ s.bytes[3] = "lf"
  /\ s.bytes[4] = "cr" /\ s.bytes[5] = "lf"
  /\ Holds(s.bytes, 5, Chunked(s)) /\ Holds(s.bytes, 5 + m, s.rest)
  /\ s.chunks = <<>> => m = 0

\* An answer of the model has this form.
LEMMA ResponseStreamForm ==
  ASSUME NEW s, ResponseStream(s)
  PROVE  AnswerForm(s, Len(Chunked(s))) /\ Chunked(s) \in Seq(Word)
<1> DEFINE c == Chunked(s)  h == HeadBytes  r == s.rest  N == Len(s.chunks)
<1>1. s.bytes = Cat(Cat(h, c), r)
  <2>1. s = Response(s.preamble, s.pair, s.head, s.chunks, s.rest)
    BY DEF ResponseStream
  <2>2. Response(s.preamble, s.pair, s.head, s.chunks, s.rest).bytes = Cat(Cat(h, c), r)
    BY DEF Response, Cat, Chunked
  <2> QED
    BY <2>1, <2>2
<1>2. s.chunks \in Seq(Chunk) /\ r \in Seq(Word) /\ Len(r) \in Nat
  <2>1. s.chunks \in Seq([line : Seq(STRING), data : Seq(STRING)]) /\ r \in Seq(STRING)
    BY DEF ResponseStream
  <2>2. r \in Seq(Word)
    <3>1. STRING \subseteq Word
      BY DEF Word
    <3> QED
      BY <2>1, <3>1, SeqMonotonic, Zenon
  <2> HIDE DEF r
  <2> QED
    BY <2>1, <2>2 DEF Chunk
<1>3. c \in Seq(Word) /\ (N = 0 => c = <<>>)
  <2>1. /\ ChunkBytes(s.chunks) \in [0..N -> Seq(Word)] /\ ChunkBytes(s.chunks)[0] = <<>>
        /\ N \in Nat
    BY <1>2, ChunkRecursion DEF Joined
  <2> QED
    BY <2>1 DEF Chunked
<1>4. /\ h \in Seq(Word) /\ Len(h) \in Nat /\ Len(h) <= 5 /\ 5 <= Len(h)
      /\ h[1] = "HTTP/1.1" /\ h[2] = "cr" /\ h[3] = "lf" /\ h[4] = "cr" /\ h[5] = "lf"
  BY HeadPlaces
<1> HIDE DEF c, h, r, N
<1> DEFINE f == s.bytes  a == Cat(h, c)
<1>5. Joins(a, Word, h, c)
  BY <1>3, <1>4, Concat
<1>6. Joins(f, Word, a, r)
  <2>1. a \in Seq(Word)
    BY <1>5 DEF Joins
  <2> HIDE DEF a
  <2>2. Joins(Cat(a, r), Word, a, r)
    BY <1>2, <2>1, Concat
  <2> QED
    BY <1>1, <2>2 DEF a
<1> HIDE DEF f, a
<1> DEFINE la == Len(a)  lf == Len(f)  lh == Len(h)  lc == Len(c)  lr == Len(r)
<1>7. /\ la \in Nat /\ la <= lh + lc /\ lh + lc <= la
      /\ \A i \in 1..lh : a[i] = h[i]
      /\ \A i \in 1..lc : a[lh + i] = c[i]
  BY <1>5 DEF Joins
<1>8. /\ f \in Seq(Word) /\ lf \in Nat /\ lf <= la + lr /\ la + lr <= lf
      /\ \A i \in 1..la : f[i] = a[i]
      /\ \A i \in 1..lr : f[la + i] = r[i]
  BY <1>6 DEF Joins
<1>9. lh \in Nat /\ lh <= 5 /\ 5 <= lh /\ lc \in Nat /\ lr \in Nat
  BY <1>2, <1>3, <1>4
<1>10. N = 0 => lc = 0
  <2>1. ASSUME c = <<>> PROVE lc = 0
    BY <2>1
  <2> QED
    BY <1>3, <2>1
<1> HIDE DEF la, lf, lh, lc, lr
<1>11. lh = 5 /\ la = 5 + lc /\ lf = 5 + lc + lr
  BY <1>7, <1>8, <1>9
<1>12. \A i \in 1..5 : f[i] = h[i]
  BY <1>7, <1>8, <1>9, <1>11
<1>13. \A i \in 1..lc : f[5 + i] = c[i]
  <2>1. ASSUME NEW i \in 1..lc PROVE f[5 + i] = c[i]
    <3>1. 5 + i \in 1..la
      BY <1>9, <1>11
    <3>2. f[5 + i] = a[5 + i] /\ a[lh + i] = c[i]
      BY <1>7, <1>8, <3>1
    <3> QED
      BY <1>11, <3>2
  <2> QED
    BY <2>1
<1>14. \A i \in 1..lr : f[(5 + lc) + i] = r[i]
  BY <1>8, <1>11
<1>15. f[1] = h[1] /\ f[2] = h[2] /\ f[3] = h[3] /\ f[4] = h[4] /\ f[5] = h[5]
  BY <1>12
<1>16. Holds(f, 5, c) /\ Holds(f, 5 + lc, r)
  BY <1>13, <1>14 DEF Holds, lc, lr
<1>17. lf <= 5 + lc + lr /\ 5 + lc + lr <= lf
  BY <1>9, <1>11
<1>18. s.chunks = <<>> => N = 0
  BY DEF N
<1> HIDE DEF ResponseStream
<1>19. AnswerForm(s, lc)
  BY <1>2, <1>4, <1>8, <1>9, <1>10, <1>15, <1>16, <1>17, <1>18, Zenon
     DEF AnswerForm, f, c, r, lf, lr
<1> QED
  BY <1>3, <1>19 DEF c, lc

\* What the form of an answer says about its length
LEMMA Announced ==
  ASSUME NEW s, ResponseStream(s), NEW m, AnswerForm(s, m)
  PROVE  /\ s.head.status \in {"interim", "empty", "final"}
         /\ s.head.chunked \in BOOLEAN /\ s.head.forHead \in BOOLEAN
         /\ s.head.length \in Nat \/ s.head.length = -1
         /\ s.head.status = "empty" \/ s.head.forHead => Len(s.bytes) <= 5
         /\ s.head.status = "final" /\ ~s.head.forHead /\ s.head.chunked => s.head.length = -1
         /\ s.head.status = "final" /\ ~s.head.forHead /\ ~s.head.chunked /\ s.head.length # -1 =>
              Len(s.bytes) <= 5 + s.head.length
         /\ 5 <= Len(s.bytes)
<1>1. s.head \in [status : {"interim", "empty", "final"}, switches : BOOLEAN,
                  length : Nat \cup {-1}, chunked : BOOLEAN, forHead : BOOLEAN]
  BY DEF ResponseStream
<1>2. /\ s.head.status \in {"interim", "empty", "final"}
      /\ s.head.chunked \in BOOLEAN /\ s.head.forHead \in BOOLEAN
      /\ s.head.length \in Nat \/ s.head.length = -1
  BY <1>1
<1> DEFINE n == Len(s.bytes)  r == Len(s.rest)
<1>3. n \in Nat /\ r \in Nat /\ m \in Nat /\ n <= 5 + m + r /\ 5 + m + r <= n
      /\ (s.chunks = <<>> => m = 0)
  BY DEF AnswerForm
<1>4. ASSUME s.rest = <<>> PROVE r = 0
  BY <1>4
<1>5. /\ ~s.head.chunked => s.chunks = <<>>
      /\ s.head.status = "empty" \/ s.head.forHead => s.chunks = <<>> /\ s.rest = <<>>
      /\ s.head.status = "final" /\ ~s.head.forHead /\ s.head.chunked => s.head.length = -1
  BY DEF ResponseStream
<1>6. s.head.status = "final" /\ ~s.head.forHead /\ ~s.head.chunked /\ s.head.length # -1 =>
        r <= s.head.length
  <2>1. SUFFICES ASSUME s.head.status = "final", ~s.head.forHead, ~s.head.chunked,
                        s.head.length # -1
                 PROVE  r <= s.head.length
    OBVIOUS
  <2>2. Len(s.rest) = s.head.length
    BY <2>1, Zenon DEF ResponseStream
  <2> QED
    BY <1>2, <2>1, <2>2
<1> HIDE DEF n, r
<1>7. s.head.status = "empty" \/ s.head.forHead => n <= 5
  BY <1>3, <1>4, <1>5
<1>8. s.head.status = "final" /\ ~s.head.forHead /\ ~s.head.chunked /\ s.head.length # -1 =>
        n <= 5 + s.head.length
  <2>1. SUFFICES ASSUME s.head.status = "final", ~s.head.forHead, ~s.head.chunked,
                        s.head.length # -1
                 PROVE  n <= 5 + s.head.length
    OBVIOUS
  <2>2. m = 0 /\ r <= s.head.length /\ s.head.length \in Nat
    BY <1>2, <1>3, <1>5, <1>6, <2>1
  <2> QED
    BY <1>3, <2>2
<1>9. 5 <= n
  BY <1>3
<1> QED
  BY <1>2, <1>5, <1>7, <1>8, <1>9 DEF n

-----------------------------------------------------------------------------
\* The completion detector of the public socket

\* A part occurs in a window where it occurs in the sequence and ends inside.
LEMMA OccursInWindow ==
  ASSUME NEW T, NEW f \in Seq(T), NEW part \in Seq(T), NEW a \in Nat, NEW x \in a..Len(f),
         NEW i \in Nat
  PROVE  Occurs(Window(f, a, x), part, i)
           <=> i # 0 /\ a + i + Len(part) <= x + 1 /\ Occurs(f, part, a + i)
<1> DEFINE w == Window(f, a, x)  l == Len(part)
<1>1. Len(f) \in Nat /\ l \in Nat /\ x \in Nat
  OBVIOUS
<1> HIDE DEF w
<1>2. Shows(w, T, f, a, x - a)
  BY WindowShows DEF w
<1>3. /\ Len(w) \in Nat /\ Len(w) <= x - a /\ x - a <= Len(w)
      /\ \A j \in 1..(x - a) : w[j] = f[a + j]
  BY <1>2 DEF Shows
<1> HIDE DEF l
<1>4. ASSUME i # 0, a + i + l <= x + 1, NEW j \in 1..l
      PROVE  w[(i - 1) + j] = f[((a + i) - 1) + j]
  <2>1. (i - 1) + j \in 1..(x - a) /\ a + ((i - 1) + j) = ((a + i) - 1) + j
    BY <1>1, <1>4
  <2> QED
    BY <1>3, <2>1
<1>5. ASSUME Occurs(w, part, i) PROVE i # 0 /\ a + i + l <= x + 1 /\ Occurs(f, part, a + i)
  <2>1. i # 0 /\ i + l <= Len(w) + 1 /\ \A j \in 1..l : w[(i - 1) + j] = part[j]
    BY <1>5 DEF Occurs, l
  <2>2. a + i + l <= x + 1 /\ a + i \in Nat \ {0} /\ (a + i) + l <= Len(f) + 1
    BY <1>1, <1>3, <2>1
  <2>3. \A j \in 1..l : f[((a + i) - 1) + j] = part[j]
    BY <1>4, <2>1, <2>2
  <2> QED
    BY <2>1, <2>2, <2>3 DEF Occurs, l
<1>6. ASSUME i # 0, a + i + l <= x + 1, Occurs(f, part, a + i) PROVE Occurs(w, part, i)
  <2>1. \A j \in 1..l : f[((a + i) - 1) + j] = part[j]
    BY <1>6 DEF Occurs, l
  <2>2. \A j \in 1..l : w[(i - 1) + j] = part[j]
    BY <1>4, <1>6, <2>1
  <2>3. i + l <= Len(w) + 1
    BY <1>1, <1>3, <1>6
  <2> QED
    BY <1>6, <2>2, <2>3 DEF Occurs, l
<1> QED
  BY <1>5, <1>6 DEF w, l

\* What was found stays found when more arrives.
LEMMA FoundLonger ==
  ASSUME NEW T, NEW f \in Seq(T), NEW part \in Seq(T), NEW c \in Nat, NEW d \in c..Len(f),
         Find(Window(f, 0, c), part) # 0
  PROVE  Find(Window(f, 0, d), part) # 0
<1> DEFINE i == Find(Window(f, 0, c), part)
<1>1. 0 \in Nat /\ c \in 0..Len(f) /\ d \in 0..Len(f) /\ Len(part) \in Nat /\ d \in Nat
  OBVIOUS
<1>2. Window(f, 0, c) \in Seq(T) /\ Window(f, 0, d) \in Seq(T)
  BY <1>1, WindowShows DEF Shows
<1>3. i \in Nat /\ Occurs(Window(f, 0, c), part, i)
  BY <1>2, Found
<1> HIDE DEF i
<1>4. i # 0 /\ 0 + i + Len(part) <= c + 1 /\ Occurs(f, part, 0 + i)
  BY <1>1, <1>3, OccursInWindow
<1>5. 0 + i + Len(part) <= d + 1
  BY <1>1, <1>3, <1>4
<1>6. Occurs(Window(f, 0, d), part, i)
  BY <1>1, <1>3, <1>4, <1>5, OccursInWindow
<1> QED
  BY <1>2, <1>3, <1>6, Found

\* f opens with a head.
Headed(f) ==
  /\ f \in Seq(Word) /\ Len(f) \in Nat /\ 5 <= Len(f)
  /\ f[1] = "HTTP/1.1" /\ f[2] = "cr" /\ f[3] = "lf" /\ f[4] = "cr" /\ f[5] = "lf"

\* The head's end is found as soon as the head has arrived, and not before.
LEMMA HeadFound ==
  ASSUME NEW f, Headed(f), NEW c \in 0..Len(f)
  PROVE  Find(Window(f, 0, c), HeaderEnd) = IF 5 <= c THEN 2 ELSE 0
<1> DEFINE p == HeaderEnd  w == Window(f, 0, c)
<1>1. f \in Seq(Word) /\ 0 \in Nat /\ c \in 0..Len(f) /\ c \in Nat
  BY DEF Headed
<1>2. /\ p \in Seq(Word) /\ Len(p) \in Nat /\ Len(p) <= 4 /\ 4 <= Len(p)
      /\ p[1] = "cr" /\ p[2] = "lf" /\ p[3] = "cr" /\ p[4] = "lf"
  BY EndOfHead
<1>3. f[1] = "HTTP/1.1" /\ f[2] = "cr" /\ f[3] = "lf" /\ f[4] = "cr" /\ f[5] = "lf" /\ 5 <= Len(f)
      /\ Len(f) \in Nat
  BY DEF Headed
<1> HIDE DEF p, w
<1>4. \A i \in Nat : Occurs(w, p, i) <=> i # 0 /\ 0 + i + Len(p) <= c + 1 /\ Occurs(f, p, 0 + i)
  BY <1>1, <1>2, OccursInWindow DEF w
<1>5. \A i \in Nat : Occurs(f, p, i) => 2 <= i
  <2>1. ASSUME NEW i \in Nat, Occurs(f, p, i), i = 1 PROVE FALSE
    <3>1. f[(1 - 1) + 1] = p[1]
      BY <1>2, <2>1 DEF Occurs
    <3>2. f[1] = p[1]
      BY <3>1
    <3> QED
      BY <1>2, <1>3, <3>2
  <2> QED
    BY <2>1 DEF Occurs
<1>6. Occurs(f, p, 2)
  <2> DEFINE l == Len(p)
  <2>5. l \in Nat /\ l <= 4 /\ 4 <= l
    BY <1>2
  <2> HIDE DEF l
  <2>1. l = 4
    BY <2>5
  <2>2. 2 + l <= Len(f) + 1
    BY <1>3, <2>1
  <2>3. ASSUME NEW j \in 1..4 PROVE f[(2 - 1) + j] = p[j]
    <3>1. f[1 + 1] = p[1] /\ f[1 + 2] = p[2] /\ f[1 + 3] = p[3] /\ f[1 + 4] = p[4]
      BY <1>2, <1>3
    <3>2. j = 1 \/ j = 2 \/ j = 3 \/ j = 4
      OBVIOUS
    <3> QED
      BY <3>1, <3>2
  <2>4. \A j \in 1..l : f[(2 - 1) + j] = p[j]
    BY <2>1, <2>3
  <2> QED
    BY <2>2, <2>4 DEF Occurs, l
<1>7. w \in Seq(Word)
  BY <1>1, WindowShows DEF Shows, w
<1>8. CASE 5 <= c
  <2>1. Occurs(w, p, 2)
    BY <1>1, <1>2, <1>4, <1>6, <1>8
  <2>2. \A i \in Nat : Occurs(w, p, i) => 2 <= i
    <3>1. ASSUME NEW i \in Nat, Occurs(w, p, i) PROVE 2 <= i
      BY <1>4, <1>5, <3>1
    <3> QED
      BY <3>1
  <2>3. Find(w, p) = 2
    BY <1>2, <1>7, <2>1, <2>2, FoundAt
  <2> QED
    BY <1>8, <2>3 DEF w, p
<1>9. CASE ~(5 <= c)
  <2>1. ASSUME NEW i \in Nat, Occurs(w, p, i) PROVE FALSE
    <3>1. 0 + i + Len(p) <= c + 1 /\ 2 <= i
      BY <1>4, <1>5, <2>1
    <3> QED
      BY <1>1, <1>2, <1>9, <3>1
  <2>2. Find(w, p) = 0
    BY <1>2, <1>7, <2>1, Found
  <2> QED
    BY <1>9, <2>2 DEF w, p
<1> QED
  BY <1>8, <1>9

\* The state of the detector.
Detector(u, n, e) == [collected |-> u, total |-> n, headerEnd |-> e]

\* What one segment does to the detector.
LEMMA Detects ==
  ASSUME NEW u, NEW n, NEW e, NEW segment, NEW v, NEW y, y = n + Len(segment),
         v = IF Len(u) < MaxCollect THEN Cat(u, segment) ELSE u
  PROVE  DetectSegment(Detector(u, n, e), segment)
           = Detector(v, y, IF e # 0 THEN e ELSE Find(v, HeaderEnd))
<1> DEFINE d == Detector(u, n, e)
           g == IF e # 0 THEN e ELSE Find(v, HeaderEnd)
           next == [d EXCEPT !.collected = v, !.total = @ + Len(segment),
                      !.headerEnd = IF @ # 0 THEN @ ELSE Find(v, HeaderEnd)]
<1>1. d.collected = u /\ d.total = n /\ d.headerEnd = e
  BY DEF Detector
<1>2. next = Detector(v, y, g)
  <2>1. next = [d EXCEPT !.collected = v, !.total = y, !.headerEnd = g]
    BY <1>1
  <2> HIDE DEF g, next
  <2> QED
    BY <2>1 DEF Detector
<1>3. DetectSegment(d, segment) = next
  BY <1>1 DEF DetectSegment, Cat
<1> QED
  BY <1>2, <1>3

\* The client's detector when n tokens of s have come
Detecting(s, d, n) ==
  /\ n \in 0..Len(s.bytes)
  /\ \E c \in 0..n, e \in {0, 2} :
       /\ d = Detector(Window(s.bytes, 0, c), n, e)
       /\ c = n \/ MaxCollect <= c
       /\ e # 0 => 5 <= n

\* An answer starts with its head.
LEMMA AnswerHeaded ==
  ASSUME NEW s, NEW m, AnswerForm(s, m)
  PROVE  Headed(s.bytes)
<1> DEFINE n == Len(s.bytes)  r == Len(s.rest)
<1>1. n \in Nat /\ r \in Nat /\ m \in Nat /\ n <= 5 + m + r /\ 5 + m + r <= n
  BY DEF AnswerForm
<1> HIDE DEF n, r
<1>2. 5 <= n
  BY <1>1
<1> QED
  BY <1>1, <1>2 DEF AnswerForm, Headed, n

\* The terminator the detector looks for.
LEMMA EndTerms == Terminator \in Seq(Word) /\ Len(Terminator) \in Nat /\ 7 <= Len(Terminator)
<1> DEFINE c == CRLF  h == HeaderEnd  o == "0"  w == <<o>>  v == Cat(c, w)  t == Cat(v, h)
<1>1. c \in Seq(Word) /\ Len(c) \in Nat /\ 2 <= Len(c)
  BY EndOfLine
<1>2. h \in Seq(Word) /\ Len(h) \in Nat /\ 4 <= Len(h)
  BY EndOfHead
<1>3. o \in Word /\ Terminator = t
  BY DEF Word, Terminator, Cat
<1> HIDE DEF c, h, o
<1>4. w \in Seq(Word)
  BY <1>3
<1>5. 1 <= Len(w)
  OBVIOUS
<1>6. Len(w) \in Nat
  BY <1>4
<1> HIDE DEF w
<1>7. Joins(v, Word, c, w)
  BY <1>1, <1>4, Concat
<1>8. v \in Seq(Word) /\ Len(v) \in Nat /\ 3 <= Len(v)
  BY <1>1, <1>5, <1>6, <1>7 DEF Joins
<1> HIDE DEF v
<1>9. Joins(t, Word, v, h)
  BY <1>2, <1>8, Concat
<1>10. t \in Seq(Word) /\ Len(t) \in Nat /\ 7 <= Len(t)
  BY <1>2, <1>8, <1>9 DEF Joins
<1> QED
  BY <1>3, <1>10

\* What looks complete has come, unless the data look like the end of a chunked body.
LEMMA LooksRight ==
  ASSUME NEW s, ResponseStream(s), s.head.status # "interim",
         NEW n \in 0..Len(s.bytes), NEW c \in 0..n, NEW g \in {0, 2},
         g # 0 => 5 <= n,
         LooksComplete(Detector(Window(s.bytes, 0, c), n, g), s.head),
         Find(Window(s.bytes, 0, Len(s.bytes) - 1), Terminator) = 0
  PROVE  n = Len(s.bytes)
<1> DEFINE f == s.bytes  h == s.head  k == Len(f)  u == Window(f, 0, c)
           d == Detector(u, n, g)  j == Len(Chunked(s))
<1>1. AnswerForm(s, j)
  BY ResponseStreamForm
<1>2. f \in Seq(Word) /\ k \in Nat
  BY <1>1 DEF AnswerForm
<1> HIDE DEF j, u
<1>3. /\ h.status \in {"interim", "empty", "final"}
      /\ h.chunked \in BOOLEAN /\ h.forHead \in BOOLEAN
      /\ h.length \in Nat \/ h.length = -1
      /\ h.status = "empty" \/ h.forHead => k <= 5
      /\ h.status = "final" /\ ~h.forHead /\ h.chunked => h.length = -1
      /\ h.status = "final" /\ ~h.forHead /\ ~h.chunked /\ h.length # -1 => k <= 5 + h.length
  BY <1>1, Announced, Zenon
<1>4. d.headerEnd = g /\ d.total = n /\ d.collected = u
  BY DEF Detector
<1>5. n \in Nat /\ n <= k /\ c \in Nat /\ c <= n
  BY <1>2
<1>6. /\ d.headerEnd # 0
      /\ \/ HasNoBody(h)
         \/ ~HasNoBody(h) /\ h.length >= 0 /\ d.total - (d.headerEnd + 3) >= h.length
         \/ ~HasNoBody(h) /\ h.length < 0 /\ h.chunked /\ Find(d.collected, Terminator) # 0
  <2>1. LooksComplete(d, h)
    BY DEF u
  <2> HIDE DEF d, h
  <2> QED
    BY <2>1 DEF LooksComplete, Terminator
<1> HIDE DEF f, h, d
<1>7. g = 2 /\ 5 <= n
  BY <1>4, <1>6
<1>11. h.status # "interim"
  BY DEF h
<1>12. SUFFICES n = k
  BY DEF k, f
<1> HIDE DEF k
<1>8. CASE h.status = "empty" \/ h.forHead
  BY <1>2, <1>3, <1>5, <1>7, <1>8
<1>9. CASE h.status = "final" /\ ~h.forHead
  <2>1. ~HasNoBody(h)
    BY <1>9 DEF HasNoBody
  <2>2. CASE h.length >= 0
    <3>1. n - (2 + 3) >= h.length
      BY <1>3, <1>4, <1>5, <1>6, <1>7, <2>1, <2>2
    <3>2. h.length # -1 /\ h.length \in Nat
      BY <1>3, <2>2
    <3>3. ~h.chunked
      BY <1>3, <1>9, <3>2
    <3>4. k <= 5 + h.length
      BY <1>3, <1>9, <3>2, <3>3
    <3> QED
      BY <1>2, <1>5, <3>1, <3>2, <3>4
  <2>3. CASE ~(h.length >= 0)
    <3>1. Find(u, Terminator) # 0
      BY <1>3, <1>4, <1>6, <2>1, <2>3
    <3>2. SUFFICES ASSUME n < k PROVE FALSE
      BY <1>2, <1>5 DEF k
    <3>3. c \in Nat /\ k - 1 \in c..Len(f)
      BY <1>2, <1>5, <3>2 DEF k
    <3>4. Find(Window(f, 0, k - 1), Terminator) # 0
      BY <1>2, <3>1, <3>3, EndTerms, FoundLonger DEF u
    <3> QED
      BY <3>4 DEF f, k
  <2> QED
    BY <2>2, <2>3
<1> QED
  BY <1>3, <1>8, <1>9, <1>11

-----------------------------------------------------------------------------
\* LoggedOnce

\* What the client knows of a request
Requests ==
  [head : {"awaited", "collected", "cleared"}, late : BOOLEAN, dataEnded : BOOLEAN,
   requestEmitted : BOOLEAN, emitted : 0..2]

\* What it has logged of the request that s answers, with the local socket in state l: nothing
\* before it has the head, and while the head is kept once, which the guard remembers unless the
\* local socket's close logged a WebSocket.
Counted(s, l, q) ==
  /\ q \in Requests /\ l \in {"open", "closed", "seen"}
  /\ q.head = "awaited" => q.emitted = 0 /\ ~q.requestEmitted
  /\ q.head = "collected" => q.emitted <= 1
  /\ q.head = "collected" /\ (l = "open" \/ ~s.pair.upgrade) => (q.emitted = 1 <=> q.requestEmitted)
  /\ q.head = "cleared" => s.pair.upgrade /\ q.emitted >= 1
  /\ l # "open" /\ q.head = "collected" /\ ~q.late => q.emitted >= 1
  /\ s.head.switches /\ l = "open" =>
       (q.head = "collected" => q.emitted = 0) /\ (q.head = "cleared" => q.emitted <= 1)

\* A plain request is not logged before its answer is over or looks over.
NotEarly(s, n, l, q) ==
  /\ q.emitted >= 1 /\ l = "open" /\ ~s.pair.upgrade /\ s.head.status # "interim"
  /\ Find(Window(s.bytes, 0, Len(s.bytes) - 1), Terminator) = 0
  => n = Len(s.bytes)

\* The inductive invariant of LoggedOnce.
LoggedInv ==
  stream.kind = "response" =>
    /\ Detecting(stream, first, near)
    /\ Counted(stream, local, request)
    /\ NotEarly(stream, near, local, request)

\* What a request becomes when it is logged
Logged(q, v, m) == [q EXCEPT !.requestEmitted = v, !.emitted = m]

LEMMA LoggedFields ==
  ASSUME NEW q \in Requests, NEW v \in BOOLEAN, NEW m \in 0..2
  PROVE  LET p == Logged(q, v, m)
         IN  p \in Requests /\ p.emitted = m /\ p.head = q.head /\ p.requestEmitted = v
<1> DEFINE p == Logged(q, v, m)
<1>1. p \in Requests /\ p.emitted = m /\ p.head = q.head
  BY DEF Requests, Logged
<1>2. p.requestEmitted = v
  BY DEF Requests, Logged
<1> QED
  BY <1>1, <1>2, Zenon

\* A WebSocket is logged.
LEMMA Emitted ==
  ASSUME NEW q \in Requests, q.emitted <= 1, NEW inspected \in BOOLEAN
  PROVE  LET p == EmitWebSocket(q, inspected)
         IN  p \in Requests /\ p.emitted = q.emitted + 1 /\ p.head = q.head
<1> DEFINE v == q.requestEmitted \/ inspected  m == q.emitted + 1
           p == EmitWebSocket(q, inspected)
<1>1. p = Logged(q, v, m)
  BY Zenon DEF EmitWebSocket, Logged
<1>2. v \in BOOLEAN /\ m \in 0..2
  BY DEF Requests
<1> HIDE DEF v, m, p
<1>3. p \in Requests /\ p.emitted = m /\ p.head = q.head
  BY <1>1, <1>2, LoggedFields
<1> QED
  BY <1>3, Zenon DEF p, m

\* The request is logged otherwise.
LEMMA EmittedOnce ==
  ASSUME NEW q \in Requests, q.emitted = 0, q.head = "collected", ~q.requestEmitted
  PROVE  LET p == EmitRequest(q)
         IN  p \in Requests /\ p.emitted = 1 /\ p.requestEmitted /\ p.head = "collected"
<1> DEFINE v == TRUE  m == q.emitted + 1
<1>1. EmitRequest(q) = Logged(q, v, m)
  BY Zenon DEF EmitRequest, Logged
<1>2. v \in BOOLEAN /\ m \in 0..2 /\ m = 1
  OBVIOUS
<1> HIDE DEF v, m
<1>3. LET p == EmitRequest(q)
      IN  p \in Requests /\ p.emitted = 1 /\ p.requestEmitted = v /\ p.head = "collected"
  BY <1>1, <1>2, LoggedFields
<1> QED
  BY <1>3, Zenon DEF v

\* The response looks complete.
LEMMA CountedComplete ==
  ASSUME NEW s, s.pair.upgrade \in BOOLEAN, ~s.head.switches, NEW q, Counted(s, "open", q)
  PROVE  Counted(s, "open", EmitRequest(q))
<1>1. q \in Requests
  BY DEF Counted
<1>2. CASE q.requestEmitted \/ q.head # "collected"
  BY <1>2, Zenon DEF EmitRequest
<1>3. CASE ~q.requestEmitted /\ q.head = "collected"
  <2>1. q.emitted = 0
    BY <1>1, <1>3 DEF Counted, Requests
  <2> DEFINE p == EmitRequest(q)
  <2>2. p \in Requests /\ p.emitted = 1 /\ p.requestEmitted /\ p.head = "collected"
    BY <1>1, <1>3, <2>1, EmittedOnce
  <2> HIDE DEF p
  <2>3. Counted(s, "open", p)
    BY <2>2 DEF Counted
  <2> QED
    BY <2>3 DEF p
<1> QED
  BY <1>2, <1>3

\* The head of the request is known.
Collected(q, l) == [q EXCEPT !.head = "collected", !.late = l # "open"]

LEMMA CountedHead ==
  ASSUME NEW s, s.pair.upgrade \in BOOLEAN, NEW l, NEW q, Counted(s, l, q), q.head = "awaited"
  PROVE  Counted(s, l, Collected(q, l)) /\ Collected(q, l).emitted = 0
<1> DEFINE v == l # "open"  p == Collected(q, l)
<1>1. q \in Requests /\ q.emitted = 0 /\ ~q.requestEmitted /\ l \in {"open", "closed", "seen"}
  BY DEF Counted
<1>2. v \in BOOLEAN /\ (l # "open" => v)
  OBVIOUS
<1>3. p = [q EXCEPT !.head = "collected", !.late = v]
  BY Zenon DEF Collected
<1> HIDE DEF v, p
<1>4. /\ p \in Requests /\ p.emitted = 0 /\ p.head = "collected" /\ p.late = v
      /\ p.requestEmitted = q.requestEmitted
  BY <1>1, <1>2, <1>3 DEF Requests
<1>5. l # "open" => p.late
  BY <1>2, <1>4
<1>6. ~p.requestEmitted
  BY <1>1, <1>4
<1>7. p.emitted = 0 /\ p.emitted <= 1 /\ p.emitted # 1
  BY <1>4
<1>8. Counted(s, l, p)
  BY <1>1, <1>4, <1>5, <1>6, <1>7, Zenon DEF Counted
<1> QED
  BY <1>7, <1>8 DEF p

\* The local socket is closed.
LEMMA CountedClosed ==
  ASSUME NEW s, s.pair \in [upgrade : BOOLEAN, inspected : BOOLEAN, early : BOOLEAN],
         NEW q, Counted(s, "open", q)
  PROVE  Counted(s, "closed", LocalClosed(q, s.pair))
<1>1. q \in Requests /\ s.pair.upgrade \in BOOLEAN /\ s.pair.inspected \in BOOLEAN
  BY DEF Counted
<1>2. CASE q.head # "collected" \/ q.requestEmitted
  <2>1. LocalClosed(q, s.pair) = q
    BY <1>2, Zenon DEF LocalClosed
  <2>2. Counted(s, "closed", q)
    BY <1>1, <1>2 DEF Counted, Requests
  <2> QED
    BY <2>1, <2>2
<1>3. CASE q.head = "collected" /\ ~q.requestEmitted
  <2>1. q.emitted = 0
    BY <1>1, <1>3 DEF Counted, Requests
  <2>2. CASE s.pair.upgrade
    <3> DEFINE p == EmitWebSocket(q, s.pair.inspected)
    <3>1. LocalClosed(q, s.pair) = p
      BY <1>3, <2>2, Zenon DEF LocalClosed
    <3>2. p \in Requests /\ p.emitted = 1 /\ p.head = "collected"
      BY <1>1, <1>3, <2>1, Emitted
    <3> HIDE DEF p
    <3>3. Counted(s, "closed", p)
      BY <2>2, <3>2 DEF Counted
    <3> QED
      BY <3>1, <3>3
  <2>3. CASE ~s.pair.upgrade
    <3> DEFINE p == EmitRequest(q)
    <3>1. LocalClosed(q, s.pair) = p
      BY <1>3, <2>3, Zenon DEF LocalClosed
    <3>2. p \in Requests /\ p.emitted = 1 /\ p.requestEmitted /\ p.head = "collected"
      BY <1>1, <1>3, <2>1, EmittedOnce
    <3> HIDE DEF p
    <3>3. Counted(s, "closed", p)
      BY <3>2 DEF Counted
    <3> QED
      BY <3>1, <3>3
  <2> QED
    BY <2>2, <2>3
<1> QED
  BY <1>2, <1>3

\* The data socket has ended.
LEMMA CountedEnded ==
  ASSUME NEW s, s.pair \in [upgrade : BOOLEAN, inspected : BOOLEAN, early : BOOLEAN],
         NEW l, NEW q, Counted(s, l, q)
  PROVE  /\ Counted(s, l, DataEnded(q, s.pair))
         /\ ~s.pair.upgrade => DataEnded(q, s.pair).emitted = q.emitted
<1> DEFINE ended == [q EXCEPT !.dataEnded = TRUE]
<1>1. /\ q \in Requests /\ s.pair.upgrade \in BOOLEAN /\ s.pair.inspected \in BOOLEAN
      /\ l \in {"open", "closed", "seen"}
  BY DEF Counted
<1>2. /\ ended \in Requests /\ ended.head = q.head /\ ended.late = q.late
      /\ ended.requestEmitted = q.requestEmitted /\ ended.emitted = q.emitted
  BY <1>1 DEF Requests
<1> HIDE DEF ended
<1>3. CASE ~(q.head = "collected" /\ s.pair.upgrade)
  <2>1. DataEnded(q, s.pair) = ended
    BY <1>3, Zenon DEF DataEnded, ended
  <2>2. Counted(s, l, ended)
    BY <1>1, <1>2, Zenon DEF Counted
  <2> QED
    BY <1>2, <2>1, <2>2
<1>4. CASE q.head = "collected" /\ s.pair.upgrade
  <2>1. q.emitted <= 1 /\ q.emitted \in 0..2
    BY <1>1, <1>4 DEF Counted, Requests
  <2> DEFINE w == EmitWebSocket(ended, s.pair.inspected)
             p == [w EXCEPT !.head = "cleared"]
  <2>2. DataEnded(q, s.pair) = p
    BY <1>4, Zenon DEF DataEnded, ended
  <2>3. w \in Requests /\ w.emitted = q.emitted + 1
    BY <1>1, <1>2, <2>1, Emitted
  <2> HIDE DEF w
  <2>4. p \in Requests /\ p.emitted = q.emitted + 1 /\ p.head = "cleared"
    BY <2>3 DEF Requests
  <2>5. s.head.switches /\ l = "open" => q.emitted = 0
    BY <1>4 DEF Counted
  <2> HIDE DEF p
  <2>6. Counted(s, l, p)
    BY <1>1, <1>4, <2>1, <2>4, <2>5 DEF Counted
  <2> QED
    BY <1>4, <2>2, <2>6
<1> QED
  BY <1>3, <1>4

\* One more segment for the detector.
LEMMA DetectingOn ==
  ASSUME NEW s, ResponseStream(s), NEW d, NEW n, Detecting(s, d, n),
         NEW y \in Nat, n < y, y <= Len(s.bytes)
  PROVE  Detecting(s, DetectSegment(d, Window(s.bytes, n, y)), y)
<1> DEFINE f == s.bytes  k == Len(f)  w == Window(f, n, y)
<1>1. AnswerForm(s, Len(Chunked(s)))
  BY ResponseStreamForm
<1>2. f \in Seq(Word) /\ k \in Nat
  BY <1>1 DEF AnswerForm
<1>3. PICK c \in 0..n, e \in {0, 2} :
       /\ d = Detector(Window(f, 0, c), n, e)
       /\ c = n \/ MaxCollect <= c
       /\ e # 0 => 5 <= n
  BY DEF Detecting
<1>4. Headed(f)
  BY <1>1, AnswerHeaded
<1>5. n \in 0..k
  BY DEF Detecting
<1> HIDE DEF f, w, k
<1>6. n \in Nat /\ n < y /\ y <= k /\ k \in Nat /\ 0 \in Nat /\ c \in Nat /\ c <= n
  BY <1>2, <1>5 DEF f, k
<1> DEFINE u == Window(f, 0, c)
           v == IF Len(u) < MaxCollect THEN Cat(u, w) ELSE u
           b == IF Len(u) < MaxCollect THEN y ELSE c
<1>7. Shows(u, Word, f, 0, c - 0) /\ Shows(w, Word, f, n, y - n)
  <2>1. n \in Nat /\ y \in n..Len(f) /\ c \in 0..Len(f)
    BY <1>6 DEF k
  <2> QED
    BY <1>2, <2>1, WindowShows DEF w
<1> HIDE DEF u, v, b
<1>8. Len(w) = y - n /\ Len(u) = c
  <2> DEFINE lu == Len(u)  lw == Len(w)
  <2>1. lw \in Nat /\ lw <= y - n /\ y - n <= lw /\ lu \in Nat /\ lu <= c - 0 /\ c - 0 <= lu
    BY <1>7 DEF Shows
  <2> HIDE DEF lu, lw
  <2>2. lw = y - n /\ lu = c
    BY <1>6, <2>1
  <2> QED
    BY <2>2 DEF lu, lw
<1>9. v = Window(f, 0, b) /\ b \in 0..y /\ (b = y \/ MaxCollect <= b)
  <2>1. CASE Len(u) < MaxCollect
    <3>1. c = n
      BY <1>3, <1>6, <1>8, <2>1, HttpAssumption
    <3>2. n \in 0..Len(f) /\ y \in n..Len(f)
      BY <1>6 DEF k
    <3>3. Window(f, 0, n) \o w = Window(f, 0, y)
      BY <1>2, <1>6, <3>2, WindowsJoin, Zenon DEF w
    <3>4. v = Window(f, 0, y) /\ b = y
      BY <2>1, <3>1, <3>3 DEF v, b, u, Cat
    <3> QED
      BY <3>4
  <2>2. CASE ~(Len(u) < MaxCollect)
    <3>1. b = c /\ v = u
      BY <2>2 DEF v, b
    <3>2. MaxCollect <= c
      BY <1>6, <1>8, <2>2, HttpAssumption
    <3>3. c \in 0..y
      BY <1>6
    <3> QED
      BY <3>1, <3>2, <3>3 DEF u
  <2> QED
    BY <2>1, <2>2
<1>11. n + Len(w) = y
  BY <1>6, <1>8
<1> DEFINE g == IF e # 0 THEN e ELSE Find(v, HeaderEnd)
<1>10. DetectSegment(d, w) = Detector(v, y, g)
  <2>1. v = IF Len(u) < MaxCollect THEN Cat(u, w) ELSE u
    BY DEF v
  <2>2. d = Detector(u, n, e)
    BY <1>3 DEF u
  <2>3. y = n + Len(w)
    BY <1>11
  <2> HIDE DEF u
  <2>4. DetectSegment(Detector(u, n, e), w) = Detector(v, y, g)
    BY <2>1, <2>3, Detects
  <2> QED
    BY <2>2, <2>4
<1> HIDE DEF g
<1>12. g \in {0, 2} /\ (g # 0 => 5 <= y)
  <2>1. CASE e # 0
    <3>1. g = e /\ 5 <= n
      BY <1>3, <2>1 DEF g
    <3> QED
      BY <1>6, <3>1
  <2>2. CASE e = 0
    <3>1. b \in 0..Len(f)
      BY <1>6, <1>9 DEF k
    <3>2. g = IF 5 <= b THEN 2 ELSE 0
      BY <1>4, <1>9, <2>2, <3>1, HeadFound DEF g
    <3> QED
      BY <1>6, <1>9, <3>2
  <2> QED
    BY <2>1, <2>2
<1>14. y \in 0..k
  BY <1>6
<1>15. DetectSegment(d, w) = Detector(Window(f, 0, b), y, g)
  BY <1>9, <1>10
<1>16. Detecting(s, DetectSegment(d, w), y)
  BY <1>9, <1>12, <1>14, <1>15, Zenon DEF Detecting, f, k
<1> QED
  BY <1>16 DEF f, w

\* A response of the model is a response stream.
LEMMA ResponseKnown ==
  ASSUME Kinds, stream.kind = "response"
  PROVE  ResponseStream(stream)
BY StreamsAssumption DEF Kinds

\* It is an invariant.
LEMMA LoggedInvHolds == Spec => []LoggedInv
<1>1. Init /\ Kinds => LoggedInv
  <2> SUFFICES ASSUME Init, Kinds, stream.kind = "response"
               PROVE  /\ Detecting(stream, first, near)
                      /\ Counted(stream, local, request)
                      /\ NotEarly(stream, near, local, request)
    BY DEF LoggedInv
  <2> DEFINE s == stream  f == s.bytes
  <2>1. AnswerForm(s, Len(Chunked(s)))
    BY ResponseKnown, ResponseStreamForm
  <2>2. near = 0 /\ first = NewDetector /\ local = "open"
    BY DEF Init
  <2> HIDE DEF s
  <2>3. f \in Seq(Word) /\ Len(f) \in Nat /\ 5 <= Len(f)
    BY <2>1, AnswerHeaded DEF Headed
  <2> HIDE DEF f
  <2>4. Window(f, 0, 0) = <<>>
    <3> DEFINE w == Window(f, 0, 0)
    <3> HIDE DEF w
    <3>1. w \in Seq(Word) /\ Len(w) <= 0 /\ Len(w) \in Nat
      <4>1. 0 \in 0..Len(f)
        BY <2>3
      <4> QED
        BY <2>3, <4>1, WindowPrefix DEF w
    <3>2. w = <<>>
      BY <3>1
    <3> QED
      BY <3>2 DEF w
  <2>5. first = Detector(Window(f, 0, 0), 0, 0)
    BY <2>2, <2>4 DEF NewDetector, Detector
  <2>6. 0 \in 0..Len(f) /\ 0 \in 0..0 /\ 0 \in {0, 2}
    BY <2>3
  <2>7. Detecting(s, first, 0)
    BY <2>5, <2>6, Zenon DEF Detecting, f
  <2>8. request = NewRequest
    BY DEF Init
  <2>9. /\ request \in Requests /\ request.head = "awaited" /\ request.emitted = 0
        /\ request.requestEmitted = FALSE
    BY <2>8 DEF NewRequest, Requests
  <2>10. Counted(s, "open", request) /\ NotEarly(s, 0, "open", request)
    BY <2>9 DEF Counted, NotEarly
  <2> QED
    BY <2>2, <2>7, <2>10 DEF s
<1>2. LoggedInv /\ Kinds /\ [Next]_vars => LoggedInv'
  <2> SUFFICES ASSUME LoggedInv, Kinds, [Next]_vars PROVE LoggedInv'
    OBVIOUS
  <2>1. ASSUME NEW n \in 1..(Len(stream.bytes) - near), LocalWrites(n) PROVE LoggedInv'
    <3> DEFINE s == stream  y == near + n
    <3>1. ResponseStream(s) /\ Len(s.bytes) \in Nat /\ s.pair.upgrade \in BOOLEAN
      <4>1. ResponseStream(s)
        BY <2>1, ResponseKnown DEF LocalWrites
      <4>2. s.pair \in [upgrade : BOOLEAN, inspected : BOOLEAN, early : BOOLEAN]
        BY <4>1 DEF ResponseStream
      <4> QED
        BY <4>1, <4>2, ResponseStreamForm DEF AnswerForm
    <3>2. /\ stream' = s /\ near' = y /\ local = "open" /\ local' = "open"
          /\ Detecting(s, first, near) /\ Counted(s, "open", request)
          /\ NotEarly(s, near, "open", request)
          /\ first' = DetectSegment(first, Window(s.bytes, near, y))
          /\ request' = IF LooksComplete(first', s.head) THEN EmitRequest(request) ELSE request
      BY <2>1 DEF LocalWrites, Arrive, Segment, Window, LoggedInv
    <3>3. near \in 0..Len(s.bytes)
      BY <3>2 DEF Detecting
    <3> HIDE DEF s
    <3>4. near \in Nat /\ y \in Nat /\ near < y /\ y <= Len(s.bytes)
      BY <3>1, <3>3, <2>1 DEF s
    <3> HIDE DEF y
    <3>5. Detecting(s, first', y)
      BY <3>1, <3>2, <3>4, DetectingOn, Zenon
    <3>6. CASE LooksComplete(first', s.head)
      <4>1. ~s.head.switches
        BY <3>6 DEF LooksComplete
      <4>2. Counted(s, "open", request')
        BY <3>1, <3>2, <3>6, <4>1, CountedComplete
      <4>3. ASSUME s.head.status # "interim",
                   Find(Window(s.bytes, 0, Len(s.bytes) - 1), Terminator) = 0
            PROVE  y = Len(s.bytes)
        <5>1. PICK c \in 0..y, e \in {0, 2} :
                /\ first' = Detector(Window(s.bytes, 0, c), y, e)
                /\ e # 0 => 5 <= y
          BY <3>5 DEF Detecting
        <5>2. y \in 0..Len(s.bytes)
          BY <3>5 DEF Detecting
        <5>3. LooksComplete(Detector(Window(s.bytes, 0, c), y, e), s.head)
          BY <3>6, <5>1
        <5> QED
          BY <3>1, <4>3, <5>1, <5>2, <5>3, LooksRight
      <4>4. NotEarly(s, y, "open", request')
        BY <4>3, Zenon DEF NotEarly
      <4> QED
        BY <3>2, <3>5, <4>2, <4>4, Zenon DEF LoggedInv, s
    <3>7. CASE ~LooksComplete(first', s.head)
      <4>1. request' = request
        BY <3>2, <3>7
      <4>2. ASSUME near = Len(s.bytes) PROVE FALSE
        BY <3>1, <3>4, <4>2
      <4>3. NotEarly(s, y, "open", request)
        BY <3>2, <4>2, Zenon DEF NotEarly
      <4> QED
        BY <3>2, <3>5, <4>1, <4>3, Zenon DEF LoggedInv, s
    <3> QED
      BY <3>6, <3>7
  <2>2. ASSUME NEW n, FramesArrive(n) \/ RequestArrives(n) PROVE LoggedInv'
    BY <2>2 DEF FramesArrive, RequestArrives, LoggedInv
  <2>3. ASSUME NEW n, ServerReads(n) PROVE LoggedInv'
    <3>1. stream' = stream /\ near' = near /\ first' = first /\ request' = request /\ local' = local
      BY <2>3 DEF ServerReads
    <3> QED
      BY <3>1 DEF LoggedInv
  <2>4. ASSUME RequestCollected \/ LocalCloses \/ DataEnds PROVE LoggedInv'
    <3>1. /\ stream' = stream /\ near' = near /\ first' = first /\ stream.kind = "response"
          /\ Detecting(stream, first, near) /\ Counted(stream, local, request)
          /\ NotEarly(stream, near, local, request)
      BY <2>4 DEF RequestCollected, LocalCloses, DataEnds, LoggedInv
    <3>2. /\ stream.pair \in [upgrade : BOOLEAN, inspected : BOOLEAN, early : BOOLEAN]
          /\ stream.pair.upgrade \in BOOLEAN
      BY <3>1, ResponseKnown DEF ResponseStream
    <3>3. CASE RequestCollected
      <4>1. request.head = "awaited" /\ local' = local /\ request' = Collected(request, local)
        BY <3>3, Zenon DEF RequestCollected, Collected
      <4>2. stream.pair.upgrade \in BOOLEAN /\ Counted(stream, local, request)
        BY <3>1, <3>2
      <4>3. Counted(stream, local, request') /\ request'.emitted = 0
        BY <4>1, <4>2, CountedHead
      <4>4. NotEarly(stream, near, local, request')
        BY <4>3 DEF NotEarly
      <4> QED
        BY <3>1, <4>1, <4>3, <4>4, Zenon DEF LoggedInv
    <3>4. CASE LocalCloses
      <4>1. local = "open" /\ local' = "closed" /\ request' = LocalClosed(request, stream.pair)
        BY <3>4 DEF LocalCloses
      <4>2. Counted(stream, "closed", request')
        BY <3>1, <3>2, <4>1, CountedClosed
      <4>3. NotEarly(stream, near, "closed", request')
        BY DEF NotEarly
      <4> QED
        BY <3>1, <4>1, <4>2, <4>3, Zenon DEF LoggedInv
    <3>5. CASE DataEnds
      <4>1. local' = local /\ request' = DataEnded(request, stream.pair)
        BY <3>5 DEF DataEnds
      <4>2. /\ Counted(stream, local, request')
            /\ ~stream.pair.upgrade => request'.emitted = request.emitted
        BY <3>1, <3>2, <4>1, CountedEnded
      <4>3. NotEarly(stream, near, local, request')
        BY <3>1, <4>2 DEF NotEarly
      <4> QED
        BY <3>1, <4>1, <4>2, <4>3, Zenon DEF LoggedInv
    <3> QED
      BY <2>4, <3>3, <3>4, <3>5
  <2>5. CASE ServerSeesEnd
    <3>1. /\ stream' = stream /\ near' = near /\ first' = first /\ request' = request
          /\ local = "closed" /\ local' = "seen"
      BY <2>5 DEF ServerSeesEnd
    <3>2. SUFFICES ASSUME Counted(stream, "closed", request)
                   PROVE  /\ Counted(stream, "seen", request)
                          /\ NotEarly(stream, near, "seen", request)
      BY <3>1 DEF LoggedInv
    <3> QED
      BY <3>2 DEF Counted, NotEarly
  <2>6. CASE UNCHANGED vars
    <3>1. stream' = stream /\ near' = near /\ first' = first /\ request' = request /\ local' = local
      BY <2>6 DEF vars
    <3> QED
      BY <3>1 DEF LoggedInv
  <2> QED
    BY <2>1, <2>2, <2>3, <2>4, <2>5, <2>6 DEF Next
<1> QED
  BY <1>1, <1>2, KindsHold, PTL DEF Spec

\* It gives the property.
LEMMA LoggedInvOnce ==
  ASSUME LoggedInv, Kinds
  PROVE  LoggedOnce
<1> DEFINE bound == IF stream.pair.upgrade /\ (local # "open" \/ ~stream.head.switches)
                      THEN 2 ELSE 1
<1> SUFFICES ASSUME stream.kind = "response"
             PROVE  /\ request.emitted <= bound
                    /\ local # "open" /\ request.head # "awaited" /\ ~request.late
                         => request.emitted >= 1
                    /\ (/\ request.emitted = 1 /\ local = "open" /\ ~stream.pair.upgrade
                        /\ stream.head.status # "interim" /\ ~LooksEnded
                        => Sent)
  BY DEF LoggedOnce
<1>1. Counted(stream, local, request) /\ NotEarly(stream, near, local, request)
  BY DEF LoggedInv
<1>2. /\ stream.pair \in [upgrade : BOOLEAN, inspected : BOOLEAN, early : BOOLEAN]
      /\ stream.head.switches \in BOOLEAN
  BY ResponseKnown DEF ResponseStream
<1>3. /\ request.head \in {"awaited", "collected", "cleared"} /\ request.emitted \in 0..2
      /\ request.late \in BOOLEAN
  BY <1>1 DEF Counted, Requests
<1>4. request.emitted <= bound
  BY <1>1, <1>2, <1>3 DEF Counted
<1>5. local # "open" /\ request.head # "awaited" /\ ~request.late => request.emitted >= 1
  BY <1>1, <1>3 DEF Counted
<1>6. SubSeq(stream.bytes, 1, Len(stream.bytes) - 1)
        = Window(stream.bytes, 0, Len(stream.bytes) - 1)
  BY DEF Window
<1>7. ~LooksEnded => Find(Window(stream.bytes, 0, Len(stream.bytes) - 1), Terminator) = 0
  BY <1>6, Zenon DEF LooksEnded
<1>8. request.emitted = 1 => request.emitted >= 1
  BY <1>3
<1> QED
  BY <1>1, <1>4, <1>5, <1>7, <1>8, Zenon DEF NotEarly, Sent

\* Whatever segments bring an answer, and whichever of its sockets ends first, the client logs a
\* request that names no websocket at most once, one that does at most twice, and a plain one not
\* before its answer is over unless the answer itself looks over.
THEOREM RequestsAreLoggedOnce == Spec => []LoggedOnce
BY LoggedInvHolds, LoggedInvOnce, KindsHold, PTL

-----------------------------------------------------------------------------
\* The size lines and the data of a chunked body

\* Behind place a of f there is a size line, as far as it has come.
LEMMA SizeLine ==
  ASSUME NEW f \in Seq(Word), NEW line \in Seq(Word), NEW a \in Nat, NEW x \in a..Len(f),
         Holds(f, a, line), Holds(f, a + Len(line), CRLF), a + Len(line) + 2 <= Len(f),
         Find(Cat(line, CRLF), CRLF) = Len(line) + 1
  PROVE  /\ Find(Window(f, a, x), CRLF) = IF a + Len(line) + 2 <= x THEN Len(line) + 1 ELSE 0
         /\ a + Len(line) + 2 <= x => SubSeq(Window(f, a, x), 1, Len(line)) = line
<1> DEFINE p == CRLF  u == Cat(line, p)  w == Window(f, a, x)  l == Len(line)
<1>1. p \in Seq(Word) /\ Len(p) \in Nat /\ Len(p) <= 2 /\ 2 <= Len(p)
  BY EndOfLine
<1>2. l \in Nat /\ Len(f) \in Nat /\ x \in Nat /\ a <= x /\ x <= Len(f)
  OBVIOUS
<1> HIDE DEF p, u
<1>3. Joins(u, Word, line, p)
  BY <1>1, Concat DEF u
<1>4. /\ u \in Seq(Word) /\ Len(u) \in Nat /\ Len(u) <= l + 2 /\ l + 2 <= Len(u)
      /\ \A i \in 1..l : u[i] = line[i]
      /\ \A i \in 1..Len(p) : u[l + i] = p[i]
  BY <1>1, <1>2, <1>3 DEF Joins
<1>5. /\ \A i \in 1..l : f[a + i] = line[i]
      /\ \A i \in 1..Len(p) : f[(a + l) + i] = p[i]
  BY DEF Holds, p
<1> DEFINE c == Len(p)
<1>6. c \in Nat /\ c = 2
  <2>1. c \in Nat /\ c <= 2 /\ 2 <= c
    BY <1>1
  <2> HIDE DEF c
  <2> QED
    BY <2>1
<1>7. \A i \in Nat : Occurs(u, p, i) => l + 1 <= i
  <2>1. Find(u, p) = l + 1
    BY DEF u, p
  <2>2. Find(u, p) # 0
    BY <1>2, <2>1
  <2> HIDE DEF l
  <2>3. \A i \in Nat : Occurs(u, p, i) => Find(u, p) <= i
    BY <1>1, <1>4, <2>2, Found
  <2> QED
    BY <2>1, <2>3
<1> HIDE DEF w, l, c
<1>8. \A i \in 1..(l + 2) : f[a + i] = u[i]
  <2>1. ASSUME NEW i \in 1..(l + 2) PROVE f[a + i] = u[i]
    <3>1. CASE i <= l
      <4>1. i \in 1..l
        BY <1>2, <3>1
      <4> QED
        BY <1>4, <1>5, <4>1
    <3>2. CASE ~(i <= l)
      <4>1. i - l \in 1..Len(p) /\ (a + l) + (i - l) = a + i /\ l + (i - l) = i
        BY <1>2, <1>6, <3>2 DEF c
      <4>2. f[(a + l) + (i - l)] = p[i - l] /\ u[l + (i - l)] = p[i - l]
        BY <1>4, <1>5, <4>1
      <4> QED
        BY <4>1, <4>2
    <3> QED
      BY <3>1, <3>2
  <2> QED
    BY <2>1
<1>9. ASSUME NEW i \in Nat, Occurs(f, p, a + i), i # 0 PROVE l + 1 <= i
  <2>1. SUFFICES ASSUME i <= l PROVE FALSE
    BY <1>2
  <2>2. \A j \in 1..c : f[((a + i) - 1) + j] = p[j]
    BY <1>9 DEF Occurs, c
  <2>3. ASSUME NEW j \in 1..c PROVE u[(i - 1) + j] = p[j]
    <3>1. (i - 1) + j \in 1..(l + 2) /\ a + ((i - 1) + j) = ((a + i) - 1) + j
      BY <1>2, <1>6, <1>9, <2>1
    <3> QED
      BY <1>8, <2>2, <3>1
  <2>4. i + Len(p) <= Len(u) + 1
    BY <1>2, <1>4, <1>6, <2>1 DEF c
  <2>5. Occurs(u, p, i)
    BY <1>9, <2>3, <2>4 DEF Occurs, c
  <2> QED
    BY <1>2, <1>7, <2>1, <2>5
<1>10. Occurs(f, p, a + (l + 1))
  <2>1. \A j \in 1..c : f[((a + (l + 1)) - 1) + j] = p[j]
    <3>1. ASSUME NEW j \in 1..c PROVE f[((a + (l + 1)) - 1) + j] = p[j]
      <4>1. ((a + (l + 1)) - 1) + j = (a + l) + j /\ j \in 1..Len(p)
        BY <1>2, <1>6 DEF c
      <4> QED
        BY <1>5, <4>1
    <3> QED
      BY <3>1
  <2>2. a + (l + 1) \in Nat \ {0} /\ (a + (l + 1)) + Len(p) <= Len(f) + 1
    <3>1. a + l + 2 <= Len(f)
      BY DEF l
    <3> QED
      BY <1>2, <1>6, <3>1 DEF c
  <2> QED
    BY <2>1, <2>2 DEF Occurs, c
<1>11. \A i \in Nat : Occurs(w, p, i) <=> i # 0 /\ a + i + Len(p) <= x + 1 /\ Occurs(f, p, a + i)
  BY <1>1, OccursInWindow DEF w
<1>12. w \in Seq(Word) /\ Shows(w, Word, f, a, x - a)
  BY WindowShows DEF Shows, w
<1>13. CASE a + l + 2 <= x
  <2>1. Occurs(w, p, l + 1)
    <3>1. l + 1 \in Nat /\ l + 1 # 0 /\ a + (l + 1) + Len(p) <= x + 1
      BY <1>2, <1>6, <1>13 DEF c
    <3> QED
      BY <1>10, <1>11, <3>1
  <2>2. \A i \in Nat : Occurs(w, p, i) => l + 1 <= i
    BY <1>9, <1>11
  <2>3. l + 1 \in Nat
    BY <1>2
  <2>4. Find(w, p) = l + 1
    BY <1>1, <1>12, <2>1, <2>2, <2>3, FoundAt
  <2>5. SubSeq(w, 1, l) = line
    <3>1. \A i \in 1..l : w[0 + i] = line[i]
      <4>1. ASSUME NEW i \in 1..l PROVE w[0 + i] = line[i]
        <5>1. i \in 1..(x - a) /\ 0 + i = i
          BY <1>2, <1>13
        <5>2. w[i] = f[a + i]
          BY <1>12, <5>1 DEF Shows
        <5> QED
          BY <1>5, <5>1, <5>2
      <4> QED
        BY <4>1
    <3>2. Holds(w, 0, line)
      BY <3>1 DEF Holds, l
    <3>3. SubSeq(w, 0 + 1, 0 + Len(line)) = line
      BY <3>2, Piece
    <3>4. 0 + 1 = 1 /\ 0 + Len(line) = l
      BY <1>2 DEF l
    <3> QED
      BY <3>3, <3>4
  <2> QED
    BY <1>13, <2>4, <2>5 DEF w, p, l
<1>14. CASE ~(a + l + 2 <= x)
  <2>1. ASSUME NEW i \in Nat, Occurs(w, p, i) PROVE FALSE
    <3>1. i # 0 /\ a + i + Len(p) <= x + 1 /\ l + 1 <= i
      BY <1>9, <1>11, <2>1
    <3> QED
      BY <1>2, <1>6, <1>14, <3>1 DEF c
  <2>2. Find(w, p) = 0
    BY <1>1, <1>12, <2>1, Found
  <2> QED
    BY <1>14, <2>2 DEF w, p, l
<1> QED
  BY <1>13, <1>14

\* What stands behind place a of f, with its first end of a line: as soon as that end has come,
\* the line before it is there.
LEMMA LastLine ==
  ASSUME NEW f \in Seq(Word), NEW rest \in Seq(Word), NEW a \in Nat, NEW x \in a..Len(f),
         Holds(f, a, rest), Len(f) <= a + Len(rest), a + Len(rest) <= Len(f),
         Find(Window(f, a, x), CRLF) # 0
  PROVE  /\ Find(Window(f, a, x), CRLF) = Find(rest, CRLF)
         /\ SubSeq(Window(f, a, x), 1, Find(rest, CRLF) - 1)
              = SubSeq(rest, 1, Find(rest, CRLF) - 1)
<1> DEFINE p == CRLF  w == Window(f, a, x)  v == Window(f, a, Len(f))  i == Find(w, p)  c == Len(p)
           r == Len(rest)  k == Len(f)
<1>1. p \in Seq(Word) /\ Len(p) \in Nat
  BY EndOfLine
<1>2. r \in Nat /\ k \in Nat /\ k <= a + r /\ a + r <= k /\ x \in Nat /\ a <= x /\ x <= k
      /\ k \in a..Len(f) /\ k - a = r
  <2>1. r \in Nat /\ k \in Nat /\ k <= a + r /\ a + r <= k
    OBVIOUS
  <2> HIDE DEF r
  <2> QED
    BY <2>1
<1> HIDE DEF p, c
<1>3. Shows(w, Word, f, a, x - a) /\ Shows(v, Word, f, a, k - a)
  BY <1>2, WindowShows
<1> HIDE DEF v, w
<1>4. v = rest
  <2>1. \A j \in 1..r : rest[j] = f[a + j]
    BY DEF Holds
  <2>2. Shows(rest, Word, f, a, r)
    BY <1>2, <2>1 DEF Shows
  <2>3. Shows(v, Word, f, a, r)
    BY <1>2, <1>3
  <2> QED
    BY <1>2, <2>2, <2>3, ShowsSame, Zenon
<1>5. w \in Seq(Word) /\ v \in Seq(Word)
  BY <1>3 DEF Shows
<1>6. i \in Nat /\ i # 0 /\ Occurs(w, p, i) /\ \A j \in Nat : Occurs(w, p, j) => i <= j
  BY <1>1, <1>5, Found DEF w, p
<1> HIDE DEF i, r, k
<1>7. /\ \A j \in Nat : Occurs(w, p, j) <=> j # 0 /\ a + j + c <= x + 1 /\ Occurs(f, p, a + j)
      /\ \A j \in Nat : Occurs(v, p, j) <=> j # 0 /\ a + j + c <= k + 1 /\ Occurs(f, p, a + j)
  BY <1>1, <1>2, OccursInWindow DEF w, v, c, k
<1>8. c \in Nat
  BY <1>1 DEF c
<1>9. Occurs(v, p, i)
  BY <1>2, <1>6, <1>7, <1>8
<1>10. ASSUME NEW j \in Nat, Occurs(v, p, j) PROVE i <= j
  <2>1. SUFFICES ASSUME j < i PROVE FALSE
    BY <1>6
  <2>2. j # 0 /\ Occurs(f, p, a + j) /\ a + i + c <= x + 1
    BY <1>6, <1>7, <1>10
  <2>3. a + j + c <= x + 1
    BY <1>2, <1>6, <1>8, <2>1, <2>2
  <2>4. i <= j
    BY <1>6, <1>7, <2>2, <2>3
  <2> QED
    BY <1>6, <2>1, <2>4
<1>11. Find(rest, p) = i
  BY <1>1, <1>4, <1>5, <1>6, <1>9, <1>10, FoundAt
<1>12. SubSeq(w, 1, i - 1) = SubSeq(rest, 1, i - 1)
  <2>1. 1 \in Int /\ i - 1 \in Int
    BY <1>6
  <2>2. \A j \in 1..(i - 1) : w[j] = rest[j]
    <3>1. ASSUME NEW j \in 1..(i - 1) PROVE w[j] = rest[j]
      <4>1. a + i + c <= x + 1
        BY <1>6, <1>7
      <4>2. j \in 1..(x - a) /\ j \in 1..(k - a)
        BY <1>2, <1>6, <1>8, <4>1
      <4> QED
        BY <1>3, <1>4, <4>2 DEF Shows
    <3> QED
      BY <3>1
  <2> QED
    BY <2>1, <2>2, SameSub, Zenon
<1> QED
  BY <1>11, <1>12 DEF i, p, w

\* What stands between places a and x of f tells that a chunk of n bytes begins at place g, once
\* x has passed that place.
SizeTold(f, a, g, x, n) ==
  /\ Find(Window(f, a, x), CRLF) = IF g <= x THEN g - a - 1 ELSE 0
  /\ g <= x => ParseSize(SubSeq(Window(f, a, x), 1, g - a - 2)) = n

\* What stands between places a and x of f tells that the body ends, once its line has come.
EndTold(f, a, x) ==
  LET eol == Find(Window(f, a, x), CRLF) IN
  eol # 0 => ParseSize(SubSeq(Window(f, a, x), 1, eol - 1)) = 0

\* Chunk k of s stands between places at[k - 1] and at[k], with its data from behind place go[k];
\* they are those of the body between places to[k - 1] and to[k].
Laid(s, at, to, go, N) ==
  /\ N \in Nat
  /\ s.bytes \in Seq(Word) /\ Len(s.bytes) \in Nat
  /\ s.body \in Seq(Word) /\ Len(s.body) \in Nat
  /\ at \in [0..N -> Nat] /\ to \in [0..N -> Nat] /\ go \in [1..N -> Nat]
  /\ at[0] = 5 /\ to[0] = 0
  /\ to[N] <= Len(s.body) /\ Len(s.body) <= to[N] /\ at[N] <= Len(s.bytes)
  /\ \A k \in 1..N : /\ at[k - 1] + 2 <= go[k]
                     /\ to[k - 1] < to[k] /\ to[k] <= to[N]
                     /\ at[k] = go[k] + (to[k] - to[k - 1]) + 2 /\ at[k] <= at[N]
  /\ \A k \in 1..N : \A j \in 1..(to[k] - to[k - 1]) : s.bytes[go[k] + j] = s.body[to[k - 1] + j]
  /\ \A k \in 1..N : \A x \in at[k - 1]..Len(s.bytes) :
       SizeTold(s.bytes, at[k - 1], go[k], x, to[k] - to[k - 1])
  /\ \A x \in at[N]..Len(s.bytes) : EndTold(s.bytes, at[N], x)
  /\ Find(Window(s.bytes, at[N], Len(s.bytes)), CRLF) # 0

\* An answer with a body in chunks
InChunks(s) == s.head.status = "final" /\ ~s.head.forHead /\ s.head.chunked

\* Where the size line of the chunk after n chunks starts, where the data of n chunks
\* ends in the body, and where the data of chunk n starts in the stream.
ChunkStarts(s) == [n \in 0..Len(s.chunks) |-> 5 + Len(ChunkBytes(s.chunks)[n])]
DataStops(s) == Offsets(ChunkData(s.chunks), Len(s.chunks))
DataStarts(s) == [n \in 1..Len(s.chunks) |-> ChunkStarts(s)[n - 1] + Len(s.chunks[n].line) + 2]

\* Chunk c, whose bytes are w, behind place a of f
LEMMA ChunkStands ==
  ASSUME NEW f \in Seq(Word), NEW c \in Chunk, NEW a \in Nat, Holds(f, a, EncodeChunk(c))
  PROVE  /\ Len(c.line) \in Nat /\ Len(c.data) \in Nat
         /\ Len(EncodeChunk(c)) = Len(c.line) + 2 + Len(c.data) + 2
         /\ Holds(f, a, c.line) /\ Holds(f, a + Len(c.line), CRLF)
         /\ Holds(f, a + Len(c.line) + 2, c.data)
<1> DEFINE w == EncodeChunk(c)  h == c.line  l == CRLF  k == c.data
           m == Len(w)  x == Len(h)  y == Len(l)  z == Len(k)
<1>1. Placed(w, Word, h, l, k, l) /\ h \in Seq(Word) /\ k \in Seq(Word)
  BY ChunkParts
<1>2. l \in Seq(Word) /\ y \in Nat /\ y <= 2 /\ 2 <= y
  BY EndOfLine
<1> HIDE DEF w, h, l, k
<1>3. x \in Nat /\ z \in Nat
  BY <1>1
<1>4. /\ m \in Nat /\ m <= x + y + z + y /\ x + y + z + y <= m
      /\ \A i \in 1..x : w[0 + i] = h[i]
      /\ \A i \in 1..y : w[x + i] = l[i]
      /\ \A i \in 1..z : w[(x + y) + i] = k[i]
  BY <1>1 DEF Placed, Holds
<1>5. \A i \in 1..m : f[a + i] = w[i]
  BY DEF Holds, w
<1> HIDE DEF m, x, y, z
<1>6. y = 2 /\ m = x + 2 + z + 2
  BY <1>2, <1>3, <1>4
<1>7. ASSUME NEW i \in 1..x PROVE f[a + i] = h[i]
  <2>1. i \in 1..m /\ 0 + i = i
    BY <1>3, <1>6
  <2>2. f[a + i] = w[i] /\ w[0 + i] = h[i]
    BY <1>4, <1>5, <2>1
  <2> QED
    BY <2>1, <2>2
<1>8. ASSUME NEW i \in 1..y PROVE f[(a + x) + i] = l[i]
  <2>1. x + i \in 1..m /\ a + (x + i) = (a + x) + i
    BY <1>3, <1>6
  <2>2. f[a + (x + i)] = w[x + i] /\ w[x + i] = l[i]
    BY <1>4, <1>5, <2>1
  <2> QED
    BY <2>1, <2>2
<1>9. ASSUME NEW i \in 1..z PROVE f[(a + x + 2) + i] = k[i]
  <2>1. (x + y) + i \in 1..m /\ a + ((x + y) + i) = (a + x + 2) + i
    BY <1>3, <1>6
  <2>2. f[a + ((x + y) + i)] = w[(x + y) + i] /\ w[(x + y) + i] = k[i]
    BY <1>4, <1>5, <2>1
  <2> QED
    BY <2>1, <2>2
<1> QED
  BY <1>3, <1>6, <1>7, <1>8, <1>9 DEF Holds, w, h, l, k, m, x, y, z

\* The chunked answers of the model are laid out that way.
LEMMA BodyLaid ==
  ASSUME NEW s, ResponseStream(s), InChunks(s)
  PROVE  Laid(s, ChunkStarts(s), DataStops(s), DataStarts(s), Len(s.chunks))
<1> DEFINE N == Len(s.chunks)  f == s.bytes  b == s.body  e == ChunkBytes(s.chunks)
           u == ChunkData(s.chunks)  piece == ChunkPieces(s.chunks)  part == DataPieces(s.chunks)
           off == Offsets(e, N)
           at == ChunkStarts(s)  to == DataStops(s)  go == DataStarts(s)
           line(k) == s.chunks[k].line  data(k) == s.chunks[k].data
           K == Len(f)  M == Len(Chunked(s))  r == s.rest
<1>1. s.chunks \in Seq(Chunk) /\ N \in Nat /\ \A k \in 1..N : s.chunks[k] \in Chunk
  <2>1. s.chunks \in Seq([line : Seq(STRING), data : Seq(STRING)])
    BY DEF ResponseStream
  <2>2. s.chunks \in Seq(Chunk)
    BY <2>1 DEF Chunk
  <2> HIDE DEF Chunk
  <2> QED
    BY <2>2
<1>2. /\ \A k \in 1..N : /\ ParseSize(line(k)) = Len(data(k)) /\ data(k) # <<>>
                         /\ Find(Cat(line(k), CRLF), CRLF) = Len(line(k)) + 1
      /\ Find(r, CRLF) # 0
      /\ ParseSize(SubSeq(r, 1, Find(r, CRLF) - 1)) = 0
  <2>1. /\ \A i \in DOMAIN s.chunks : LET chunk == s.chunks[i] IN
            /\ ParseSize(chunk.line) = Len(chunk.data) /\ chunk.data # <<>>
            /\ Find(chunk.line \o CRLF, CRLF) = Len(chunk.line) + 1
        /\ Find(r, CRLF) # 0
        /\ ParseSize(SubSeq(r, 1, Find(r, CRLF) - 1)) = 0
    BY DEF ResponseStream, InChunks
  <2>2. DOMAIN s.chunks = 1..N
    BY <1>1
  <2> HIDE DEF r
  <2> QED
    BY <2>1, <2>2 DEF Cat
<1>3. b = u[N]
  <2>1. s = Response(s.preamble, s.pair, s.head, s.chunks, s.rest)
    BY DEF ResponseStream
  <2>2. Response(s.preamble, s.pair, s.head, s.chunks, s.rest).body
          = IF s.head.chunked THEN ChunkData(s.chunks)[Len(s.chunks)] ELSE s.rest
    BY DEF Response
  <2>3. s.head.chunked
    BY DEF InChunks
  <2>4. s.body = ChunkData(s.chunks)[Len(s.chunks)]
    BY <2>1, <2>2, <2>3
  <2> QED
    BY <2>4
<1>4. AnswerForm(s, M) /\ Chunked(s) = e[N]
  BY ResponseStreamForm DEF Chunked
<1> HIDE DEF f, b, e, u, piece, part, at, to, go, line, data, r, M
<1>5. /\ f \in Seq(Word) /\ K \in Nat /\ r \in Seq(Word) /\ Len(r) \in Nat /\ M \in Nat
      /\ K <= 5 + M + Len(r) /\ 5 + M + Len(r) <= K
      /\ Holds(f, 5, e[N]) /\ Holds(f, 5 + M, r)
  BY <1>4 DEF AnswerForm, f, r
<1>6. Joined(e, Word, N, piece) /\ piece \in [1..N -> Seq(Word)]
  BY <1>1, ChunkRecursion DEF e, piece
<1>7. Joined(u, Word, N, part) /\ part \in [1..N -> Seq(Word)]
  BY <1>1, DataRecursion DEF u, part
<1> HIDE DEF N
<1>8. Places(off, e, N, piece) /\ Places(to, u, N, part)
  <2>1. to = Offsets(u, N)
    BY DEF to, u, N, DataStops
  <2> QED
    BY <1>1, <1>6, <1>7, <2>1, JoinedPlaces
<1>9. at = [n \in 0..N |-> 5 + off[n]]
  BY DEF at, off, e, N, ChunkStarts, Offsets
<1> HIDE DEF off
<1>10. /\ off \in [0..N -> Nat] /\ off[0] = 0 /\ N \in 0..N
       /\ Len(e[N]) <= off[N] /\ off[N] <= Len(e[N])
       /\ \A k \in 1..N : /\ off[k] = off[k - 1] + Len(piece[k]) /\ off[k] <= off[N]
                          /\ Holds(e[N], off[k - 1], piece[k])
  BY <1>1, <1>8 DEF Places
<1>11. /\ to \in [0..N -> Nat] /\ to[0] = 0
       /\ Len(u[N]) <= to[N] /\ to[N] <= Len(u[N])
       /\ \A k \in 1..N : /\ to[k] = to[k - 1] + Len(part[k]) /\ to[k] <= to[N]
                          /\ Holds(u[N], to[k - 1], part[k])
  BY <1>1, <1>8, <1>10 DEF Places
<1>12. e[N] \in Seq(Word) /\ u[N] \in Seq(Word) /\ Len(e[N]) \in Nat /\ Len(u[N]) \in Nat
  BY <1>6, <1>7, <1>10 DEF Joined
<1> DEFINE E == Len(e[N])
<1>13. M = E
  BY <1>4 DEF M
<1> HIDE DEF K, E
<1>14. /\ at \in [0..N -> Nat] /\ at[0] = 5 /\ \A k \in 0..N : at[k] = 5 + off[k]
       /\ off[N] = E /\ at[N] = 5 + E /\ 5 + E <= K /\ E \in Nat /\ off[N] \in Nat
  <2>1. \A k \in 0..N : off[k] \in Nat /\ 5 + off[k] \in Nat
    BY <1>10
  <2>2. at \in [0..N -> Nat] /\ \A k \in 0..N : at[k] = 5 + off[k]
    BY <1>9, <2>1
  <2>3. E \in Nat /\ E <= off[N] /\ off[N] <= E
    BY <1>10, <1>12 DEF E
  <2>4. off[N] = E
    BY <2>1, <2>3, <1>10
  <2>5. 0 \in 0..N
    BY <1>1
  <2> QED
    BY <1>5, <1>10, <1>13, <2>2, <2>3, <2>4, <2>5
<1>15. ASSUME NEW k \in 1..N
       PROVE  /\ k - 1 \in 0..N /\ k \in 0..N
              /\ at[k - 1] \in Nat /\ at[k] \in Nat /\ off[k - 1] \in Nat /\ off[k] \in Nat
              /\ at[k - 1] = 5 + off[k - 1] /\ at[k] = 5 + off[k]
              /\ to[k - 1] \in Nat /\ to[k] \in Nat
              /\ piece[k] = EncodeChunk(s.chunks[k]) /\ part[k] = data(k)
              /\ go[k] = at[k - 1] + Len(line(k)) + 2
  <2>1. k - 1 \in 0..N /\ k \in 0..N
    BY <1>1
  <2>2. piece[k] = EncodeChunk(s.chunks[k]) /\ part[k] = data(k)
    BY DEF piece, part, data, ChunkPieces, DataPieces, N
  <2>3. go[k] = at[k - 1] + Len(line(k)) + 2
    BY DEF go, at, line, DataStarts, N
  <2> QED
    BY <1>10, <1>11, <1>14, <2>1, <2>2, <2>3
<1>16. ASSUME NEW k \in 1..N
       PROVE  Holds(f, at[k - 1], piece[k]) /\ off[k] = off[k - 1] + Len(piece[k])
              /\ Len(piece[k]) \in Nat
  <2> DEFINE w == piece[k]  x == off[k - 1]  l == Len(piece[k])
  <2>1. w \in Seq(Word) /\ l \in Nat
    BY <1>6
  <2>2. off[k] = x + l /\ off[k] <= E /\ x \in Nat /\ at[k - 1] = 5 + x
    BY <1>10, <1>14, <1>15
  <2>3. \A i \in 1..l : e[N][x + i] = w[i]
    BY <1>10 DEF Holds
  <2>4. \A i \in 1..E : f[5 + i] = e[N][i]
    BY <1>5 DEF Holds, E
  <2> HIDE DEF w, x, l
  <2>5. ASSUME NEW i \in 1..l PROVE f[at[k - 1] + i] = w[i]
    <3>1. x + i \in 1..E /\ 5 + (x + i) = at[k - 1] + i
      BY <1>14, <2>1, <2>2
    <3>2. f[5 + (x + i)] = e[N][x + i] /\ e[N][x + i] = w[i]
      BY <2>3, <2>4, <3>1
    <3> QED
      BY <3>1, <3>2
  <2> QED
    BY <2>1, <2>2, <2>5 DEF Holds, w, l, x
<1>17. ASSUME NEW k \in 1..N
       PROVE  /\ Len(line(k)) \in Nat /\ Len(data(k)) \in Nat
              /\ Len(piece[k]) = Len(line(k)) + 2 + Len(data(k)) + 2
              /\ Holds(f, at[k - 1], line(k)) /\ Holds(f, at[k - 1] + Len(line(k)), CRLF)
              /\ Holds(f, at[k - 1] + Len(line(k)) + 2, data(k))
              /\ line(k) \in Seq(Word) /\ data(k) \in Seq(Word)
  <2>1. s.chunks[k] \in Chunk /\ at[k - 1] \in Nat /\ Holds(f, at[k - 1], EncodeChunk(s.chunks[k]))
    BY <1>1, <1>15, <1>16
  <2>2. line(k) \in Seq(Word) /\ data(k) \in Seq(Word)
    BY <2>1, ChunkParts DEF line, data
  <2> QED
    BY <1>5, <1>15, <2>1, <2>2, ChunkStands, Zenon DEF line, data
<1>18. ASSUME NEW k \in 1..N
       PROVE  /\ go[k] \in Nat /\ at[k - 1] + 2 <= go[k] /\ at[k] <= at[N]
              /\ to[k - 1] < to[k] /\ to[k] <= to[N] /\ to[k] - to[k - 1] = Len(data(k))
              /\ at[k] = go[k] + (to[k] - to[k - 1]) + 2
  <2> DEFINE l == Len(line(k))  d == Len(data(k))
  <2>1. d # 0
    <3>1. data(k) # <<>> /\ data(k) \in Seq(Word)
      BY <1>2, <1>17
    <3> QED
      BY <3>1
  <2>2. to[k] = to[k - 1] + d
    BY <1>11, <1>15
  <2>3. l \in Nat /\ d \in Nat /\ off[k] = off[k - 1] + (l + 2 + d + 2)
    BY <1>16, <1>17
  <2> HIDE DEF l, d
  <2>4. go[k] = at[k - 1] + l + 2
    BY <1>15 DEF l
  <2>9. /\ at[k - 1] \in Nat /\ off[k - 1] \in Nat /\ at[k - 1] = 5 + off[k - 1]
        /\ at[k] = 5 + off[k]
    BY <1>15
  <2>5. to[k] - to[k - 1] = d /\ to[k - 1] < to[k]
    <3> DEFINE y == to[k]  z == to[k - 1]
    <3>1. y \in Nat /\ z \in Nat /\ d \in Nat /\ d # 0 /\ y = z + d
      BY <1>15, <2>1, <2>2, <2>3
    <3> HIDE DEF y, z
    <3>2. y - z = d /\ z < y
      BY <3>1
    <3> QED
      BY <3>2 DEF y, z
  <2>6. at[k] = go[k] + d + 2
    BY <2>3, <2>4, <2>9
  <2>7. go[k] \in Nat /\ at[k - 1] + 2 <= go[k]
    BY <2>3, <2>4, <2>9
  <2>8. at[k] <= at[N]
    BY <1>10, <1>14, <1>15
  <2> QED
    BY <1>11, <2>5, <2>6, <2>7, <2>8 DEF d
<1>19. go \in [1..N -> Nat]
  <2>1. go = [k \in 1..N |-> go[k]]
    BY DEF go, DataStarts, N
  <2> QED
    BY <1>18, <2>1
<1>20. ASSUME NEW k \in 1..N, NEW j \in 1..(to[k] - to[k - 1])
       PROVE  f[go[k] + j] = b[to[k - 1] + j]
  <2>1. j \in 1..Len(data(k))
    BY <1>18
  <2>2. go[k] = at[k - 1] + Len(line(k)) + 2 /\ part[k] = data(k)
    BY <1>15
  <2>3. f[go[k] + j] = data(k)[j]
    BY <1>17, <2>1, <2>2 DEF Holds
  <2>4. b[to[k - 1] + j] = data(k)[j]
    <3>1. Holds(u[N], to[k - 1], part[k])
      BY <1>11
    <3> QED
      BY <1>3, <2>1, <2>2, <3>1 DEF Holds
  <2> QED
    BY <2>3, <2>4
<1>21. ASSUME NEW k \in 1..N, NEW x \in at[k - 1]..Len(f)
       PROVE  SizeTold(f, at[k - 1], go[k], x, to[k] - to[k - 1])
  <2> DEFINE l == Len(line(k))  a == at[k - 1]  w == Window(f, a, x)
  <2>1. /\ line(k) \in Seq(Word) /\ a \in Nat /\ Holds(f, a, line(k)) /\ Holds(f, a + l, CRLF)
        /\ Find(Cat(line(k), CRLF), CRLF) = l + 1
    BY <1>2, <1>15, <1>17
  <2>2. l \in Nat /\ go[k] = a + l + 2 /\ go[k] \in Nat
    BY <1>15, <1>17, <1>18
  <2>3. go[k] <= at[k]
    <3> DEFINE p == at[k]  g == go[k]  y == to[k]  z == to[k - 1]
    <3>1. p \in Nat /\ g \in Nat /\ y \in Nat /\ z \in Nat /\ z < y /\ p = g + (y - z) + 2
      BY <1>15, <1>18
    <3> HIDE DEF p, g, y, z
    <3>2. g <= p
      BY <3>1
    <3> QED
      BY <3>2 DEF p, g
  <2>4. ParseSize(line(k)) = to[k] - to[k - 1]
    BY <1>2, <1>18
  <2> HIDE DEF l, a, w
  <2>5. a + l + 2 <= Len(f)
    <3> DEFINE p == at[k]  m == Len(f)  g == go[k]
    <3>1. m \in Nat /\ p \in Nat /\ g \in Nat /\ p <= m /\ g <= p /\ g = a + l + 2
      <4>1. p \in Nat /\ p <= at[N]
        BY <1>15, <1>18
      <4>2. m \in Nat /\ at[N] \in Nat /\ at[N] <= m
        BY <1>5, <1>14 DEF K
      <4>3. p <= m
        BY <4>1, <4>2
      <4> QED
        BY <2>2, <2>3, <4>1, <4>2, <4>3
    <3> HIDE DEF p, m, g
    <3>2. a + l + 2 <= m
      BY <3>1
    <3> QED
      BY <3>2 DEF m
  <2>6. /\ Find(w, CRLF) = IF a + l + 2 <= x THEN l + 1 ELSE 0
        /\ a + l + 2 <= x => SubSeq(w, 1, l) = line(k)
    BY <1>5, <2>1, <2>5, SizeLine DEF l, a, w
  <2>7. go[k] - a - 1 = l + 1 /\ go[k] - a - 2 = l
    <3>1. a \in Nat
      BY <2>1
    <3> QED
      BY <2>2, <3>1
  <2> QED
    BY <2>2, <2>4, <2>6, <2>7 DEF SizeTold, a, w
<1>22. ASSUME NEW x \in at[N]..Len(f) PROVE EndTold(f, at[N], x)
  <2> DEFINE w == Window(f, at[N], x)
  <2>1. SUFFICES ASSUME Find(w, CRLF) # 0
                 PROVE  ParseSize(SubSeq(w, 1, Find(w, CRLF) - 1)) = 0
    BY Zenon DEF EndTold
  <2>2. at[N] = 5 + M /\ Holds(f, at[N], r) /\ at[N] \in Nat
    BY <1>5, <1>13, <1>14
  <2>3. Len(f) <= at[N] + Len(r) /\ at[N] + Len(r) <= Len(f)
    BY <1>5, <2>2 DEF K
  <2> HIDE DEF w
  <2>4. /\ Find(w, CRLF) = Find(r, CRLF)
        /\ SubSeq(w, 1, Find(r, CRLF) - 1) = SubSeq(r, 1, Find(r, CRLF) - 1)
    BY <1>5, <2>1, <2>2, <2>3, LastLine DEF w
  <2> QED
    BY <1>2, <2>4
<1>23. Find(Window(f, at[N], K), CRLF) # 0
  <2> DEFINE w == Window(f, at[N], K)
  <2>2. at[N] = 5 + M /\ Holds(f, at[N], r) /\ at[N] \in Nat
    BY <1>5, <1>13, <1>14
  <2>3. K \in at[N]..Len(f) /\ K - at[N] = Len(r)
    BY <1>5, <1>14, <2>2 DEF K
  <2> HIDE DEF w
  <2>4. Shows(w, Word, f, at[N], Len(r))
    BY <1>5, <2>2, <2>3, WindowShows DEF w
  <2>5. Shows(r, Word, f, at[N], Len(r))
    <3>1. \A j \in 1..Len(r) : r[j] = f[at[N] + j]
      BY <2>2 DEF Holds
    <3> QED
      BY <1>5, <3>1 DEF Shows
  <2>6. w = r
    BY <1>5, <2>4, <2>5, ShowsSame, Zenon
  <2> QED
    BY <1>2, <2>6 DEF w
<1>24. /\ b \in Seq(Word) /\ Len(b) \in Nat /\ to[N] <= Len(b) /\ Len(b) <= to[N]
  BY <1>3, <1>11, <1>12
<1>25. at[N] <= Len(f)
  BY <1>14 DEF K
<1>26. Laid(s, at, to, go, N)
  BY <1>1, <1>5, <1>11, <1>14, <1>18, <1>19, <1>20, <1>21, <1>22, <1>23, <1>24, <1>25
     DEF Laid, f, b, K
<1> QED
  BY <1>26 DEF at, to, go, N

-----------------------------------------------------------------------------
\* The chunk decoder: one pass, then the loop

\* The state in which push starts its loop
DecodeStart(d, segment) ==
  [decoder |-> [d EXCEPT !.buf = @ \o segment], decoded |-> <<>>, done |-> FALSE]

\* The loop of the chunk decoder stops where a pass changes nothing.
LEMMA DecodeLoop ==
  ASSUME NEW S, NEW d, NEW segment, NEW a \in S, a = DecodeStart(d, segment),
         Len(a.decoder.buf) \in Nat,
         NEW size \in [S -> Nat], size[a] = Len(a.decoder.buf),
         \A p \in S : DecodePass(p) \in S /\ (DecodePass(p) = p \/ size[DecodePass(p)] < size[p])
  PROVE  /\ DecodeChunked(d, segment) \in S
         /\ DecodePass(DecodeChunked(d, segment)) = DecodeChunked(d, segment)
<1> DEFINE g == [p \in S |-> DecodePass(p)]
           pass[n \in Nat] == IF n = 0 THEN a ELSE DecodePass(pass[n - 1])
<1>1. g \in [S -> S] /\ \A p \in S : g[p] = DecodePass(p)
  OBVIOUS
<1>2. PICK h : Iterates(h, S, g, a)
  BY <1>1, Iteration
<1>3. h \in [Nat -> S] /\ h[0] = a /\ \A n \in Nat : h[n + 1] = DecodePass(h[n])
  BY <1>1, <1>2 DEF Iterates
<1>4. h = [n \in Nat |-> IF n = 0 THEN a ELSE DecodePass(h[n - 1])]
  <2>1. ASSUME NEW n \in Nat PROVE h[n] = IF n = 0 THEN a ELSE DecodePass(h[n - 1])
    <3>1. CASE n = 0
      BY <1>3, <3>1
    <3>2. CASE n # 0
      <4>1. n - 1 \in Nat /\ (n - 1) + 1 = n
        BY <3>2
      <4>2. h[(n - 1) + 1] = DecodePass(h[n - 1])
        BY <1>3, <4>1
      <4> QED
        BY <3>2, <4>1, <4>2
    <3> QED
      BY <3>1, <3>2
  <2> QED
    BY <1>3, <2>1
<1>5. pass = [n \in Nat |-> IF n = 0 THEN a ELSE DecodePass(pass[n - 1])]
  BY <1>4
<1>6. DecodeChunked(d, segment) = pass[Len(a.decoder.buf)]
  BY Zenon DEF DecodeChunked, DecodeStart
<1> HIDE DEF pass, g
<1>7. Follows(pass, S, g, a)
  <2>1. ASSUME NEW n \in Nat PROVE pass[n + 1] = DecodePass(pass[n])
    <3>1. n + 1 \in Nat /\ n + 1 # 0 /\ (n + 1) - 1 = n
      OBVIOUS
    <3>2. pass[n + 1] = IF n + 1 = 0 THEN a ELSE DecodePass(pass[(n + 1) - 1])
      BY <1>5, <3>1
    <3> QED
      BY <3>1, <3>2
  <2>2. pass[0] = a
    BY <1>5
  <2> QED
    BY <1>1, <2>1, <2>2 DEF Follows
<1>8. Shrinks(S, g, size)
  BY <1>1 DEF Shrinks
<1>9. pass[size[a]] \in S /\ g[pass[size[a]]] = pass[size[a]]
  BY <1>1, <1>7, <1>8, Loop
<1> QED
  BY <1>1, <1>6, <1>9

\* The states of the decoder: at a size line, and with r words of data to come; what a
\* pass reads there.
SizeDecoder(w) == [buf |-> w, expectSizeLine |-> TRUE, remaining |-> 0]
DataDecoder(w, r) == [buf |-> w, expectSizeLine |-> FALSE, remaining |-> r]

\* The decoder's loop at a size line, and in the data of a chunk
SizeState(w, out, done) == [decoder |-> SizeDecoder(w), decoded |-> out, done |-> done]
DataState(w, r, out) == [decoder |-> DataDecoder(w, r), decoded |-> out, done |-> FALSE]

\* The size that w tells, and how much of a chunk is taken from it when r tokens are missing
SizeIn(w) == ParseSize(SubSeq(w, 1, Find(w, CRLF) - 1))
Taken(w, r) == Min({r, Len(w)})

\* A pass at a size line.
LEMMA SizePass ==
  ASSUME NEW w, NEW out, NEW done \in BOOLEAN
  PROVE  /\ done \/ w = <<>> \/ Find(w, CRLF) = 0 =>
              DecodePass(SizeState(w, out, done)) = SizeState(w, out, done)
         /\ ~done /\ w # <<>> /\ Find(w, CRLF) # 0 /\ SizeIn(w) \in {NaN, 0} =>
              DecodePass(SizeState(w, out, done)) = SizeState(w, out, TRUE)
         /\ ~done /\ w # <<>> /\ Find(w, CRLF) # 0 /\ SizeIn(w) \notin {NaN, 0} =>
              DecodePass(SizeState(w, out, done))
                = DataState(Skip(w, Find(w, CRLF) + 1), SizeIn(w), out)
<1> DEFINE p == SizeState(w, out, done)  eol == Find(w, CRLF)  n == SizeIn(w)
<1>0. eol = Find(w, CRLF) /\ n = ParseSize(SubSeq(w, 1, eol - 1))
  BY DEF SizeIn
<1> HIDE DEF eol, n
<1>1. /\ p.decoder.buf = w /\ p.decoder.expectSizeLine = TRUE /\ p.done = done
      /\ p.decoder = SizeDecoder(w)
  BY DEF SizeState, SizeDecoder
<1>2. [p EXCEPT !.done = TRUE] = SizeState(w, out, TRUE)
  <2> DEFINE q == [p EXCEPT !.done = TRUE]
  <2>1. \A c : [p EXCEPT !.done = c] = [decoder |-> SizeDecoder(w), decoded |-> out, done |-> c]
    BY DEF SizeState
  <2> HIDE DEF p
  <2>2. [p EXCEPT !.done = TRUE] = [decoder |-> SizeDecoder(w), decoded |-> out, done |-> TRUE]
    BY <2>1, Zenon
  <2> QED
    BY <2>2, Zenon DEF SizeState
<1>3. ASSUME ~done
      PROVE  [p EXCEPT !.decoder = [buf |-> Skip(w, eol + 1), expectSizeLine |-> FALSE,
                                    remaining |-> n]]
               = DataState(Skip(w, eol + 1), n, out)
  <2> DEFINE q == DataDecoder(Skip(w, eol + 1), n)
  <2>1. q = [buf |-> Skip(w, eol + 1), expectSizeLine |-> FALSE, remaining |-> n]
    BY DEF DataDecoder
  <2> HIDE DEF q
  <2>2. PICK c : c = FALSE /\ p = [decoder |-> SizeDecoder(w), decoded |-> out, done |-> c]
    <3>1. done = FALSE
      BY <1>3
    <3> QED
      BY <3>1, Zenon DEF SizeState
  <2> HIDE DEF p
  <2> DEFINE z == [p EXCEPT !.decoder = q]
  <2>3. z = [p EXCEPT !.decoder = q]
    OBVIOUS
  <2> HIDE DEF z
  <2>4. z = [decoder |-> q, decoded |-> out, done |-> c]
    BY <2>2, <2>3
  <2>5. z = DataState(Skip(w, eol + 1), n, out)
    BY <2>2, <2>4, Zenon DEF DataState, q
  <2> QED
    BY <2>1, <2>5 DEF z
<1>4. DecodePass(p) = IF done \/ w = <<>> THEN p ELSE DecodeSize(p)
  <2> HIDE DEF p
  <2> QED
    BY <1>1, Zenon DEF DecodePass
<1>5. DecodeSize(p)
        = IF eol = 0 THEN p
          ELSE IF n \in {NaN, 0} THEN [p EXCEPT !.done = TRUE]
          ELSE [p EXCEPT !.decoder = [buf |-> Skip(w, eol + 1), expectSizeLine |-> FALSE,
                                      remaining |-> n]]
  <2> HIDE DEF p
  <2> QED
    BY <1>0, <1>1, Zenon DEF DecodeSize
<1> HIDE DEF p
<1>6. done \/ w = <<>> \/ eol = 0 => DecodePass(p) = p
  BY <1>4, <1>5, Zenon
<1>7. ~done /\ w # <<>> /\ eol # 0 /\ n \in {NaN, 0} => DecodePass(p) = SizeState(w, out, TRUE)
  BY <1>2, <1>4, <1>5, Zenon
<1>8. ~done /\ w # <<>> /\ eol # 0 /\ n \notin {NaN, 0} =>
        DecodePass(p) = DataState(Skip(w, eol + 1), n, out)
  BY <1>3, <1>4, <1>5, Zenon
<1> QED
  BY <1>6, <1>7, <1>8, Zenon DEF p, eol, n

\* A pass inside the data.
LEMMA DataPass ==
  ASSUME NEW w, NEW r, NEW out
  PROVE  /\ w = <<>> => DecodePass(DataState(w, r, out)) = DataState(w, r, out)
         /\ w # <<>> /\ (r - Taken(w, r) > 0 \/ Len(Skip(w, Taken(w, r))) < 2) =>
              DecodePass(DataState(w, r, out))
                = DataState(Skip(w, Taken(w, r)), r - Taken(w, r),
                            Cat(out, SubSeq(w, 1, Taken(w, r))))
         /\ w # <<>> /\ ~(r - Taken(w, r) > 0 \/ Len(Skip(w, Taken(w, r))) < 2)
              /\ r - Taken(w, r) = 0 =>
              DecodePass(DataState(w, r, out))
                = SizeState(Skip(Skip(w, Taken(w, r)), 2),
                            Cat(out, SubSeq(w, 1, Taken(w, r))), FALSE)
<1> DEFINE t == Taken(w, r)  v == Skip(w, t)
           p == DataState(w, r, out)
           u == SubSeq(w, 1, t)  m == r - t
           next == [p.decoder EXCEPT !.buf = v, !.remaining = m]
<1>1. /\ p.decoder.buf = w /\ p.decoder.expectSizeLine = FALSE /\ p.done = FALSE
      /\ p.decoder.remaining = r /\ p.decoded = out
  BY DEF DataState, DataDecoder
<1>0. t = Min({r, Len(w)}) /\ v = Skip(w, t)
  BY DEF Taken
<1> HIDE DEF t, v
<1>2. DecodeData(p.decoder) = [data |-> u, rest |-> v, remaining |-> m]
  <2> HIDE DEF p
  <2> QED
    BY <1>0, <1>1, Zenon DEF DecodeData
<1> HIDE DEF u, m
<1>3. next = DataDecoder(v, m)
  <2> DEFINE d == p.decoder
  <2>1. PICK c : c = FALSE /\ d = [buf |-> w, expectSizeLine |-> c, remaining |-> r]
    BY DEF DataState, DataDecoder
  <2>2. next = [d EXCEPT !.buf = v, !.remaining = m]
    OBVIOUS
  <2> HIDE DEF p, next, d
  <2>3. next = [buf |-> v, expectSizeLine |-> c, remaining |-> m]
    BY <2>1, <2>2
  <2> QED
    BY <2>1, <2>3, Zenon DEF DataDecoder
<1>4. [next EXCEPT !.buf = Skip(@, 2), !.expectSizeLine = TRUE]
        = [buf |-> Skip(v, 2), expectSizeLine |-> TRUE, remaining |-> m]
  <2>1. PICK c : c = FALSE /\ next = [buf |-> v, expectSizeLine |-> c, remaining |-> m]
    BY <1>3, Zenon DEF DataDecoder
  <2> HIDE DEF next
  <2>2. next.buf = v
    BY <2>1
  <2> DEFINE s2 == Skip(v, 2)
  <2> HIDE DEF s2
  <2>3. ASSUME NEW y, NEW z, z = [next EXCEPT !.buf = s2, !.expectSizeLine = y]
        PROVE  z = [buf |-> s2, expectSizeLine |-> y, remaining |-> m]
    BY <2>1, <2>3
  <2>4. \A y : [next EXCEPT !.buf = s2, !.expectSizeLine = y]
                 = [buf |-> s2, expectSizeLine |-> y, remaining |-> m]
    BY <2>3
  <2>5. [next EXCEPT !.buf = s2, !.expectSizeLine = TRUE]
          = [buf |-> s2, expectSizeLine |-> TRUE, remaining |-> m]
    BY <2>4
  <2> QED
    BY <2>2, <2>5, Zenon DEF s2
<1>5. next.remaining = m /\ next.buf = v
  BY DEF DataState, DataDecoder
<1> DEFINE q == IF m > 0 \/ Len(v) < 2 THEN next
                ELSE [next EXCEPT !.buf = Skip(@, 2), !.expectSizeLine = TRUE]
<1>6. DecodePass(p) = IF w = <<>> THEN p ELSE DecodeRest(p)
  <2> HIDE DEF p
  <2> QED
    BY <1>1, Zenon DEF DecodePass
<1>7. DecodeRest(p) = [p EXCEPT !.decoded = @ \o u, !.decoder = q]
  <2>1. /\ DecodeData(p.decoder).data = u /\ DecodeData(p.decoder).rest = v
        /\ DecodeData(p.decoder).remaining = m
    BY <1>2
  <2>2. [p.decoder EXCEPT !.buf = DecodeData(p.decoder).rest,
                          !.remaining = DecodeData(p.decoder).remaining] = next
    BY <2>1, Zenon
  <2> HIDE DEF p, next
  <2> QED
    BY <1>5, <2>1, <2>2, Zenon DEF DecodeRest
<1>8. [p EXCEPT !.decoded = @ \o u, !.decoder = q]
        = [decoder |-> q, decoded |-> Cat(out, u), done |-> FALSE]
  <2> DEFINE y == Cat(out, u)
  <2>1. p.decoded \o u = y
    BY <1>1 DEF Cat
  <2> HIDE DEF q, y
  <2>2. PICK c : c = FALSE /\ p = [decoder |-> DataDecoder(w, r), decoded |-> out, done |-> c]
    BY Zenon DEF DataState
  <2> DEFINE z == [p EXCEPT !.decoded = y, !.decoder = q]
  <2>3. z = [p EXCEPT !.decoded = y, !.decoder = q]
    OBVIOUS
  <2> HIDE DEF p, z
  <2>4. z = [decoder |-> q, decoded |-> y, done |-> c]
    BY <2>2, <2>3
  <2>5. z = [decoder |-> q, decoded |-> y, done |-> FALSE]
    BY <2>2, <2>4, Zenon
  <2>6. [p EXCEPT !.decoded = @ \o u, !.decoder = q] = z
    BY <2>1, <2>3, Zenon
  <2> QED
    BY <2>5, <2>6, Zenon DEF y
<1> HIDE DEF p, next
<1>9. w = <<>> => DecodePass(p) = p
  BY <1>6, Zenon
<1>10. ASSUME w # <<>>, m > 0 \/ Len(v) < 2 PROVE DecodePass(p) = DataState(v, m, Cat(out, u))
  <2>1. q = DataDecoder(v, m)
    BY <1>3, <1>10, Zenon
  <2> HIDE DEF q
  <2> QED
    BY <1>6, <1>7, <1>8, <1>10, <2>1, Zenon DEF DataState
<1>11. ASSUME w # <<>>, ~(m > 0 \/ Len(v) < 2), m = 0
       PROVE  DecodePass(p) = SizeState(Skip(v, 2), Cat(out, u), FALSE)
  <2>1. q = SizeDecoder(Skip(v, 2))
    BY <1>4, <1>11, Zenon DEF SizeDecoder
  <2> HIDE DEF q
  <2> QED
    BY <1>6, <1>7, <1>8, <1>11, <2>1, Zenon DEF SizeState
<1> QED
  BY <1>9, <1>10, <1>11, Zenon DEF p, u, m, t, v

-----------------------------------------------------------------------------
\* What a pass does at a size line and inside the data

\* The decoder's loop when x tokens of s have come and o tokens of the body have been passed on:
\* at the size line behind chunk j, and in chunk k with i tokens of its data decoded
AtSize(s, at, to, o, j, x) ==
  SizeState(Window(s.bytes, at[j], x), Window(s.body, o, to[j]), FALSE)
AtEnd(s, at, to, o, j, x) ==
  SizeState(Window(s.bytes, at[j], x), Window(s.body, o, to[j]), TRUE)
InData(s, go, to, o, k, i, x) ==
  DataState(Window(s.bytes, go[k] + i, x), (to[k] - to[k - 1]) - i,
            Window(s.body, o, to[k - 1] + i))

\* The length of a window
LEMMA WindowLength ==
  ASSUME NEW f \in Seq(Word), NEW a \in Nat, NEW x \in a..Len(f)
  PROVE  Len(Window(f, a, x)) = x - a
<1>1. Len(f) \in Nat /\ x - a \in Nat
  OBVIOUS
<1>2. Shows(Window(f, a, x), Word, f, a, x - a)
  BY <1>1, WindowShows
<1> QED
  BY <1>1, <1>2 DEF Shows

\* Consuming the front of a window is a window.
LEMMA SkipWindow ==
  ASSUME NEW f \in Seq(Word), NEW a \in Nat, NEW x \in a..Len(f), NEW n \in 0..(x - a)
  PROVE  /\ Skip(Window(f, a, x), n) = Window(f, a + n, x)
         /\ SubSeq(Window(f, a, x), 1, n) = Window(f, a, a + n)
         /\ Len(Window(f, a, x)) = x - a
         /\ Window(f, a, x) = <<>> <=> x = a
<1> DEFINE w == Window(f, a, x)  l == Len(w)
<1>1. Len(f) \in Nat /\ x \in Nat /\ n \in Nat /\ a <= x /\ n <= x - a
  OBVIOUS
<1> HIDE DEF w
<1>2. Shows(w, Word, f, a, x - a)
  BY WindowShows DEF w
<1>3. l \in Nat /\ l <= x - a /\ x - a <= l
  BY <1>2 DEF Shows
<1>4. w = <<>> <=> l = 0
  BY <1>2 DEF Shows
<1> HIDE DEF l
<1>5. l = x - a
  BY <1>1, <1>3
<1>6. Window(w, n, x - a) = Window(f, a + n, a + (x - a))
  <2>1. n \in 0..(x - a) /\ x - a \in n..(x - a)
    BY <1>1
  <2> QED
    BY <2>1, WindowOfWindow DEF w
<1>7. Window(w, 0, n) = Window(f, a + 0, a + n)
  <2>1. 0 \in 0..(x - a) /\ n \in 0..(x - a)
    BY <1>1
  <2> QED
    BY <2>1, WindowOfWindow DEF w
<1>8. Skip(w, n) = Window(f, a + n, x)
  <2>1. a + (x - a) = x
    BY <1>1
  <2>2. Skip(w, n) = Window(w, n, x - a)
    BY <1>5 DEF Skip, Window, l
  <2> QED
    BY <1>6, <2>1, <2>2
<1>9. SubSeq(w, 1, n) = Window(f, a, a + n)
  <2>1. a + 0 = a
    OBVIOUS
  <2>2. SubSeq(w, 1, n) = Window(w, 0, n)
    BY DEF Window
  <2> QED
    BY <1>7, <2>1, <2>2
<1> QED
  BY <1>1, <1>4, <1>5, <1>8, <1>9 DEF w, l

\* One pass at the size line behind chunk j
SizeMoves(s, at, to, go, N, o, j, x) ==
  /\ j < N /\ go[j + 1] <= x =>
       DecodePass(AtSize(s, at, to, o, j, x)) = InData(s, go, to, o, j + 1, 0, x)
  /\ j < N /\ ~(go[j + 1] <= x) =>
       DecodePass(AtSize(s, at, to, o, j, x)) = AtSize(s, at, to, o, j, x)
  /\ j = N /\ Find(Window(s.bytes, at[N], x), CRLF) = 0 =>
       DecodePass(AtSize(s, at, to, o, j, x)) = AtSize(s, at, to, o, j, x)
  /\ j = N /\ Find(Window(s.bytes, at[N], x), CRLF) # 0 =>
       /\ DecodePass(AtSize(s, at, to, o, j, x)) = AtEnd(s, at, to, o, j, x)
       /\ 0 < x - at[N]

\* A pass at a size line of an answer goes on to its data, stops at the end, or waits.
LEMMA AtSizePass ==
  ASSUME NEW s, NEW at, NEW to, NEW go, NEW N, Laid(s, at, to, go, N),
         NEW j \in 0..N, NEW x \in at[j]..Len(s.bytes), NEW o
  PROVE  SizeMoves(s, at, to, go, N, o, j, x)
<1> DEFINE f == s.bytes  a == at[j]  w == Window(f, a, x)  out == Window(s.body, o, to[j])
           eol == Find(w, CRLF)  n == ParseSize(SubSeq(w, 1, eol - 1))
           p == AtSize(s, at, to, o, j, x)
<1>1. /\ N \in Nat /\ f \in Seq(Word) /\ Len(f) \in Nat /\ a \in Nat /\ to[j] \in Nat
      /\ x \in Nat /\ a <= x /\ x <= Len(f)
  BY DEF Laid
<1>2. p = SizeState(w, out, FALSE)
  BY DEF AtSize
<1> HIDE DEF f, a, w, out, eol, n, p
<1>3. /\ w = <<>> \/ eol = 0 => DecodePass(p) = p
      /\ w # <<>> /\ eol # 0 /\ n \in {NaN, 0} => DecodePass(p) = SizeState(w, out, TRUE)
      /\ w # <<>> /\ eol # 0 /\ n \notin {NaN, 0} =>
           DecodePass(p) = DataState(Skip(w, eol + 1), n, out)
  <2>1. eol = Find(w, CRLF) /\ n = SizeIn(w)
    BY Zenon DEF eol, n, SizeIn
  <2>4. PICK c \in BOOLEAN : c = FALSE
    OBVIOUS
  <2> DEFINE q == SizeState(w, out, c)
  <2>5. /\ c \/ w = <<>> \/ Find(w, CRLF) = 0 => DecodePass(q) = q
        /\ ~c /\ w # <<>> /\ Find(w, CRLF) # 0 /\ SizeIn(w) \in {NaN, 0} =>
             DecodePass(q) = SizeState(w, out, TRUE)
        /\ ~c /\ w # <<>> /\ Find(w, CRLF) # 0 /\ SizeIn(w) \notin {NaN, 0} =>
             DecodePass(q) = DataState(Skip(w, Find(w, CRLF) + 1), SizeIn(w), out)
    BY SizePass, Zenon
  <2>2. /\ w = <<>> \/ eol = 0 => DecodePass(q) = q
        /\ w # <<>> /\ eol # 0 /\ n \in {NaN, 0} => DecodePass(q) = SizeState(w, out, TRUE)
        /\ w # <<>> /\ eol # 0 /\ n \notin {NaN, 0} =>
             DecodePass(q) = DataState(Skip(w, eol + 1), n, out)
    BY <2>1, <2>4, <2>5, Zenon
  <2> HIDE DEF q
  <2>3. p = q
    BY <1>2, <2>4 DEF q
  <2> QED
    BY <2>2, <2>3
<1>4. w = <<>> <=> x = a
  <2>1. a \in Nat /\ x \in a..Len(f) /\ 0 \in 0..(x - a)
    BY <1>1
  <2> QED
    BY <1>1, <2>1, SkipWindow DEF w
<1>5. ASSUME j < N PROVE eol = (IF go[j + 1] <= x THEN go[j + 1] - a - 1 ELSE 0)
                         /\ a + 2 <= go[j + 1] /\ go[j + 1] \in Nat
                         /\ to[j + 1] \in Nat /\ to[j] < to[j + 1]
                         /\ (go[j + 1] <= x =>
                              ParseSize(SubSeq(w, 1, go[j + 1] - a - 2)) = to[j + 1] - to[j])
  <2>1. j + 1 \in 1..N /\ (j + 1) - 1 = j /\ j + 1 \in 0..N
    BY <1>1, <1>5
  <2>2. /\ SizeTold(f, at[j], go[j + 1], x, to[j + 1] - to[j])
        /\ at[j] + 2 <= go[j + 1] /\ go[j + 1] \in Nat /\ to[j + 1] \in Nat /\ to[j] < to[j + 1]
    BY <2>1 DEF Laid, f
  <2> QED
    BY <2>2 DEF SizeTold, eol, w, a
<1>6. ASSUME j < N, go[j + 1] <= x
      PROVE  DecodePass(p) = InData(s, go, to, o, j + 1, 0, x)
  <2> DEFINE g == go[j + 1]
  <2>1. /\ g \in Nat /\ a + 2 <= g /\ g <= x /\ eol = g - a - 1
        /\ to[j] < to[j + 1] /\ to[j + 1] \in Nat
        /\ ParseSize(SubSeq(w, 1, g - a - 2)) = to[j + 1] - to[j]
    BY <1>5, <1>6
  <2> HIDE DEF g
  <2>2. eol # 0 /\ eol - 1 = g - a - 2 /\ eol + 1 = g - a /\ x # a
    BY <1>1, <2>1
  <2>3. n = to[j + 1] - to[j]
    BY <2>1, <2>2 DEF n
  <2>4. n \notin {NaN, 0}
    BY <1>1, <2>1, <2>3 DEF NaN
  <2>5. DecodePass(p) = DataState(Skip(w, g - a), to[j + 1] - to[j], out)
    BY <1>3, <1>4, <2>2, <2>3, <2>4
  <2>6. Skip(w, g - a) = Window(f, g, x)
    <3>1. a \in Nat /\ x \in a..Len(f) /\ g - a \in 0..(x - a) /\ a + (g - a) = g
      BY <1>1, <2>1
    <3>2. Skip(w, g - a) = Window(f, a + (g - a), x)
      BY <1>1, <3>1, SkipWindow DEF w
    <3> QED
      BY <3>1, <3>2
  <2>7. /\ g + 0 = g /\ (j + 1) - 1 = j
        /\ (to[j + 1] - to[j]) - 0 = to[j + 1] - to[j] /\ to[j] + 0 = to[j]
    BY <1>1, <2>1
  <2>8. InData(s, go, to, o, j + 1, 0, x) = DataState(Window(f, g, x), to[j + 1] - to[j], out)
    BY <2>7 DEF InData, g, f, out
  <2> QED
    BY <2>5, <2>6, <2>8
<1>7. ASSUME j < N, ~(go[j + 1] <= x) PROVE DecodePass(p) = p
  BY <1>3, <1>5, <1>7
<1>8. ASSUME j = N, Find(Window(f, at[N], x), CRLF) = 0 PROVE DecodePass(p) = p
  <2>1. eol = 0
    BY <1>8 DEF eol, w, a
  <2> QED
    BY <1>3, <2>1
<1>9. ASSUME j = N, Find(Window(f, at[N], x), CRLF) # 0
      PROVE  DecodePass(p) = AtEnd(s, at, to, o, j, x) /\ 0 < x - at[N]
  <2>1. eol # 0 /\ w = Window(f, at[N], x) /\ a = at[N]
    BY <1>9 DEF eol, w, a
  <2>2. x \in at[N]..Len(f)
    BY <1>9 DEF f
  <2>3. EndTold(f, at[N], x)
    BY <2>2 DEF Laid, f
  <2>4. n = 0
    BY <2>1, <2>3 DEF EndTold, n, eol
  <2>5. w # <<>>
    <3>1. SUFFICES ASSUME w = <<>> PROVE FALSE
      OBVIOUS
    <3>2. Len(w) <= 0 /\ w \in Seq(Word)
      BY <3>1
    <3> DEFINE z == eol
    <3>3. z \in Nat /\ Occurs(w, CRLF, z)
      BY <2>1, <3>2, EndOfLine, Found DEF eol
    <3> HIDE DEF z
    <3>4. z # 0 /\ z + Len(CRLF) <= Len(w) + 1 /\ Len(CRLF) \in Nat /\ 2 <= Len(CRLF)
          /\ Len(w) \in Nat
      BY <3>2, <3>3, EndOfLine DEF Occurs
    <3> QED
      BY <3>2, <3>3, <3>4
  <2>6. DecodePass(p) = SizeState(w, out, TRUE)
    BY <1>3, <2>1, <2>4, <2>5
  <2>7. 0 < x - at[N]
    BY <1>1, <1>4, <2>1, <2>5
  <2> QED
    BY <2>6, <2>7 DEF AtEnd, w, out, f, a
<1> QED
  BY <1>6, <1>7, <1>8, <1>9 DEF SizeMoves, p, f

\* One pass in the data of chunk k
DataMoves(s, at, to, go, o, k, i, x) ==
  LET p == InData(s, go, to, o, k, i, x) IN
  \/ /\ DecodePass(p) = p
     /\ x = go[k] + i \/ (i = to[k] - to[k - 1] /\ x < go[k] + i + 2)
  \/ \E j \in 0..(to[k] - to[k - 1]) :
       i < j /\ go[k] + j <= x /\ DecodePass(p) = InData(s, go, to, o, k, j, x)
  \/ at[k] <= x /\ DecodePass(p) = AtSize(s, at, to, o, k, x)

\* A pass inside the data of a chunk takes what is there of it.
LEMMA InDataPass ==
  ASSUME NEW s, NEW at, NEW to, NEW go, NEW N, Laid(s, at, to, go, N),
         NEW k \in 1..N, NEW i \in 0..(to[k] - to[k - 1]), NEW x \in (go[k] + i)..Len(s.bytes),
         NEW o \in 0..(to[k - 1] + i)
  PROVE  DataMoves(s, at, to, go, o, k, i, x)
<1> DEFINE f == s.bytes  b == s.body  l == to[k] - to[k - 1]  g == go[k] + i
           w == Window(f, g, x)  r == l - i  out == Window(b, o, to[k - 1] + i)
           t == Taken(w, r)
           p == InData(s, go, to, o, k, i, x)
<1>1. /\ N \in Nat /\ f \in Seq(Word) /\ Len(f) \in Nat /\ b \in Seq(Word) /\ Len(b) \in Nat
      /\ go[k] \in Nat /\ to[k] \in Nat /\ to[k - 1] \in Nat /\ at[k] \in Nat
      /\ to[k - 1] < to[k] /\ to[k] <= Len(b) /\ at[k] = go[k] + (to[k] - to[k - 1]) + 2
      /\ \A j \in 1..(to[k] - to[k - 1]) : f[go[k] + j] = b[to[k - 1] + j]
  <2>1. k \in 0..N /\ k - 1 \in 0..N /\ N \in Nat /\ N \in 0..N
    BY DEF Laid
  <2>2. to[k] <= to[N] /\ to[N] <= Len(b) /\ to[N] \in Nat /\ to[k] \in Nat /\ Len(b) \in Nat
    BY <2>1 DEF Laid, b
  <2>3. to[k] <= Len(b)
    BY <2>2
  <2> QED
    BY <2>1, <2>3 DEF Laid, f, b
<1> DEFINE G == go[k]  T == to[k]  U == to[k - 1]  A == at[k]  K == Len(f)  B == Len(b)
<1>16. /\ G \in Nat /\ T \in Nat /\ U \in Nat /\ A \in Nat /\ K \in Nat /\ B \in Nat
       /\ U < T /\ T <= B /\ A = G + (T - U) + 2
       /\ i \in 0..(T - U) /\ x \in (G + i)..K /\ o \in 0..(U + i)
       /\ l = T - U /\ g = G + i /\ r = l - i
  BY <1>1
<1>17. g = go[k] + i /\ p = DataState(w, r, out)
  BY DEF InData
<1> HIDE DEF f, b, l, g, w, r, out, t, p, G, T, U, A, K, B
<1>2. l \in Nat /\ i \in Nat /\ i <= l /\ g \in Nat /\ x \in Nat /\ g <= x /\ x <= K /\ r \in Nat
      /\ o \in Nat /\ o <= U + i /\ A = G + l + 2 /\ T = U + l /\ g = G + i /\ r = l - i
      /\ G \in Nat /\ T \in Nat /\ U \in Nat /\ A \in Nat /\ K \in Nat /\ B \in Nat /\ T <= B
  BY <1>16
<1>3. p = DataState(w, r, out)
  BY <1>17
<1>4. Len(w) = x - g /\ (w = <<>> <=> x = g)
  <2>1. x \in g..Len(f) /\ 0 \in 0..(x - g)
    BY <1>2 DEF K
  <2> QED
    <3>1. f \in Seq(Word) /\ g \in Nat
      BY <1>1, <1>2
    <3> QED
      BY <2>1, <3>1, SkipWindow, ZenonT(30) DEF w
<1>5. t = IF r <= x - g THEN r ELSE x - g
  <2>1. t = Min({r, x - g})
    BY <1>4 DEF t, Taken
  <2>2. {r, x - g} \in SUBSET Nat
    BY <1>2
  <2>3. CASE r <= x - g
    <3>1. \A m \in {r, x - g} : r <= m
      BY <1>2, <2>3
    <3> QED
      BY <2>1, <2>2, <2>3, <3>1, Least
  <2>4. CASE ~(r <= x - g)
    <3>1. \A m \in {r, x - g} : x - g <= m
      BY <1>2, <2>4
    <3> QED
      BY <2>1, <2>2, <2>4, <3>1, Least
  <2> QED
    BY <2>3, <2>4
<1>6. t \in Nat /\ t <= r /\ t <= x - g /\ (t = r \/ t = x - g)
  BY <1>2, <1>5
<1> DEFINE v == Skip(w, t)  next == Cat(out, SubSeq(w, 1, t))
<1> HIDE DEF t, v, next
<1>7. v = Window(f, g + t, x) /\ SubSeq(w, 1, t) = Window(f, g, g + t) /\ Len(v) = x - (g + t)
  <2>1. x \in g..Len(f) /\ t \in 0..(x - g) /\ g + t \in Nat /\ x \in (g + t)..Len(f)
        /\ 0 \in 0..(x - (g + t))
    BY <1>2, <1>6 DEF K
  <2>2. v = Window(f, g + t, x) /\ SubSeq(w, 1, t) = Window(f, g, g + t)
    <3>1. f \in Seq(Word) /\ g \in Nat
      BY <1>1, <1>2
    <3>2. Skip(w, t) = Window(f, g + t, x) /\ SubSeq(w, 1, t) = Window(f, g, g + t)
      BY <2>1, <3>1, SkipWindow, ZenonT(30) DEF w
    <3> QED
      BY <3>2 DEF v
  <2>3. Len(Window(f, g + t, x)) = x - (g + t)
    BY <1>1, <2>1, WindowLength
  <2> QED
    BY <2>2, <2>3
<1> DEFINE c == to[k - 1] + i
<1>18. c = U + i
  BY DEF U
<1> HIDE DEF c
<1>8. c \in Nat /\ o \in 0..c /\ c + t \in c..B /\ c \in o..B /\ i + t <= l
  BY <1>2, <1>6, <1>18
<1>9. Window(f, g, g + t) = Window(b, c, c + t)
  <2>1. g + t \in g..Len(f) /\ (g + t) - g = t /\ (c + t) - c = t /\ c + t \in c..Len(b)
    BY <1>2, <1>6, <1>8 DEF K, B
  <2>2. Shows(Window(f, g, g + t), Word, f, g, t) /\ Shows(Window(b, c, c + t), Word, b, c, t)
    <3>1. Shows(Window(f, g, g + t), Word, f, g, (g + t) - g)
      BY <1>1, <1>2, <2>1, WindowShows
    <3>2. Shows(Window(b, c, c + t), Word, b, c, (c + t) - c)
      BY <1>1, <1>8, <2>1, WindowShows
    <3> QED
      BY <2>1, <3>1, <3>2
  <2>3. ASSUME NEW m \in 1..t PROVE f[g + m] = b[c + m]
    <3>1. i + m \in 1..l /\ G + (i + m) = g + m /\ U + (i + m) = c + m
      BY <1>2, <1>6, <1>8, <1>18
    <3>2. f[G + (i + m)] = b[U + (i + m)]
      BY <1>1, <3>1 DEF l, G, U
    <3> QED
      BY <3>1, <3>2
  <2>4. Shows(Window(f, g, g + t), Word, b, c, t)
    BY <2>2, <2>3 DEF Shows
  <2> QED
    BY <1>6, <2>2, <2>4, ShowsSame, Zenon
<1>10. next = Window(b, o, c + t)
  <2>1. Window(b, o, c) \o Window(b, c, c + t) = Window(b, o, c + t)
    <3>1. o \in Nat /\ c \in o..Len(b) /\ c + t \in c..Len(b)
      BY <1>2, <1>8 DEF B
    <3> QED
      BY <1>1, <3>1, WindowsJoin
  <2> QED
    BY <1>7, <1>9, <2>1 DEF next, Cat, out, c
<1>11. /\ w = <<>> => DecodePass(p) = p
       /\ w # <<>> /\ (r - t > 0 \/ Len(v) < 2) => DecodePass(p) = DataState(v, r - t, next)
       /\ w # <<>> /\ ~(r - t > 0 \/ Len(v) < 2) /\ r - t = 0 =>
            DecodePass(p) = SizeState(Skip(v, 2), next, FALSE)
  <2> DEFINE q == DataState(w, r, out)
  <2>1. /\ w = <<>> => DecodePass(q) = q
        /\ w # <<>> /\ (r - t > 0 \/ Len(v) < 2) => DecodePass(q) = DataState(v, r - t, next)
        /\ w # <<>> /\ ~(r - t > 0 \/ Len(v) < 2) /\ r - t = 0 =>
             DecodePass(q) = SizeState(Skip(v, 2), next, FALSE)
    BY DataPass, Zenon DEF t, v, next
  <2> HIDE DEF q
  <2>2. p = q
    BY <1>3 DEF q
  <2> QED
    BY <2>1, <2>2
<1>12. ASSUME t = r \/ t < r
       PROVE  DataState(v, r - t, next) = InData(s, go, to, o, k, i + t, x)
  <2>1. G + (i + t) = g + t /\ U + (i + t) = c + t /\ (T - U) - (i + t) = r - t
    BY <1>2, <1>6, <1>18
  <2> QED
    BY <1>7, <1>10, <2>1 DEF InData, f, b, G, U, T
<1>13. CASE w = <<>>
  <2>1. x = go[k] + i /\ DecodePass(p) = p
    BY <1>4, <1>11, <1>13, <1>17
  <2> QED
    BY <2>1 DEF p, DataMoves
<1>14. CASE w # <<>> /\ (r - t > 0 \/ Len(v) < 2)
  <2>1. DecodePass(p) = InData(s, go, to, o, k, i + t, x)
    BY <1>2, <1>6, <1>11, <1>12, <1>14
  <2>2. CASE t = 0
    <3>1. x # g
      BY <1>4, <1>14
    <3>2. r = 0 /\ x - g < 2
      BY <1>2, <1>6, <1>7, <1>14, <2>2, <3>1
    <3>3. i + t = i /\ i = l /\ x < G + i + 2
      BY <1>2, <2>2, <3>2
    <3>4. DecodePass(p) = p
      BY <2>1, <3>3 DEF p
    <3> QED
      BY <3>3, <3>4 DEF p, l, G, DataMoves
  <2>3. CASE t # 0
    <3>1. i + t \in 0..l /\ i < i + t /\ G + (i + t) <= x
      BY <1>2, <1>6, <1>8, <2>3
    <3> QED
      BY <2>1, <3>1 DEF p, l, G, DataMoves
  <2> QED
    BY <2>2, <2>3
<1>15. CASE w # <<>> /\ ~(r - t > 0 \/ Len(v) < 2)
  <2>1. r - t = 0 /\ 2 <= x - (g + t)
    BY <1>2, <1>6, <1>7, <1>15
  <2>2. DecodePass(p) = SizeState(Skip(v, 2), next, FALSE)
    BY <1>11, <1>15, <2>1
  <2>3. g + t + 2 = A /\ c + t = T /\ A <= x
    BY <1>2, <1>6, <1>18, <2>1
  <2>4. Skip(v, 2) = Window(f, A, x)
    <3>1. g + t \in Nat /\ x \in (g + t)..Len(f) /\ 2 \in 0..(x - (g + t))
      BY <1>2, <1>6, <2>1 DEF K
    <3>2. Skip(v, 2) = Window(f, g + t + 2, x)
      BY <1>1, <1>7, <3>1, SkipWindow
    <3> QED
      BY <2>3, <3>2
  <2>5. DecodePass(p) = AtSize(s, at, to, o, k, x)
    BY <1>10, <2>2, <2>3, <2>4 DEF AtSize, f, b, A, T
  <2> QED
    BY <2>3, <2>5 DEF p, A, DataMoves
<1> QED
  BY <1>13, <1>14, <1>15

-----------------------------------------------------------------------------
\* The chunk decoder settles, and waits for what is not there yet

\* The decoder d waits when x tokens of s have come and o tokens of the body have been decoded.
Waits(s, at, to, go, N, d, o, x) ==
  \/ \E k \in 0..N :
       /\ d = SizeDecoder(Window(s.bytes, at[k], x)) /\ o = to[k] /\ at[k] <= x
       /\ k < N => ~(go[k + 1] <= x)
       /\ k = N => Find(Window(s.bytes, at[N], x), CRLF) = 0
  \/ \E k \in 1..N : \E i \in 0..(to[k] - to[k - 1]) :
       /\ d = DataDecoder(Window(s.bytes, go[k] + i, x), (to[k] - to[k - 1]) - i)
       /\ o = to[k - 1] + i /\ go[k] + i <= x
       /\ x = go[k] + i \/ (i = to[k] - to[k - 1] /\ x < go[k] + i + 2)

\* The loop ends in state p: it waits for more, or all of the body has been decoded.
Decoded(s, at, to, go, N, o, x, p) ==
  \E y \in o..Len(s.body) : \E d :
    \/ /\ p = [decoder |-> d, decoded |-> Window(s.body, o, y), done |-> FALSE]
       /\ Waits(s, at, to, go, N, d, y, x)
    \/ p = [decoder |-> d, decoded |-> Window(s.body, o, y), done |-> TRUE] /\ y = Len(s.body)

\* The loop starts in state a, at a size line or in the data of a chunk.
Starts(s, at, to, go, N, o, x, a) ==
  \/ \E j \in 0..N : at[j] <= x /\ o <= to[j] /\ a = AtSize(s, at, to, o, j, x)
  \/ \E k \in 1..N : \E i \in 0..(to[k] - to[k - 1]) :
       go[k] + i <= x /\ o <= to[k - 1] + i /\ a = InData(s, go, to, o, k, i, x)

\* The decoder settles: it has passed on all the data that has arrived.
LEMMA DecodeSettles ==
  ASSUME NEW s, NEW at, NEW to, NEW go, NEW N, Laid(s, at, to, go, N),
         NEW o \in Nat, NEW x \in Nat, x <= Len(s.bytes), NEW d, NEW segment, NEW a,
         a = DecodeStart(d, segment), Starts(s, at, to, go, N, o, x, a)
  PROVE  Decoded(s, at, to, go, N, o, x, DecodeChunked(d, segment))
<1> DEFINE J == {j \in 0..N : at[j] <= x /\ o <= to[j]}
           Q == {q \in (1..N) \X Nat : /\ q[2] <= to[q[1]] - to[q[1] - 1]
                                       /\ go[q[1]] + q[2] <= x /\ o <= to[q[1] - 1] + q[2]}
           Size(j) == AtSize(s, at, to, o, j, x)
           Data(q) == InData(s, go, to, o, q[1], q[2], x)
           A == {Size(j) : j \in J}
           D == {Data(q) : q \in Q}
           last == AtEnd(s, at, to, o, N, x)
           E == IF N \in J /\ Find(Window(s.bytes, at[N], x), CRLF) # 0 THEN {last} ELSE {}
           S == (A \cup D) \cup E
           size == [p \in S |-> IF p.done THEN 0 ELSE Len(p.decoder.buf)]
           Settles(p) == Decoded(s, at, to, go, N, o, x, p)
<1>1. /\ N \in Nat /\ N \in 0..N /\ at \in [0..N -> Nat] /\ to \in [0..N -> Nat]
      /\ go \in [1..N -> Nat] /\ s.bytes \in Seq(Word) /\ Len(s.bytes) \in Nat
      /\ to[N] = Len(s.body) /\ to[N] \in Nat /\ Len(s.body) \in Nat
  <2> DEFINE T == to[N]  B == Len(s.body)
  <2>0. N \in Nat /\ N \in 0..N
    BY DEF Laid
  <2>1. T \in Nat /\ B \in Nat /\ T <= B /\ B <= T
    BY <2>0 DEF Laid
  <2> HIDE DEF T, B
  <2>2. T = B
    BY <2>1
  <2> QED
    <3>1. to[N] = Len(s.body) /\ to[N] \in Nat /\ Len(s.body) \in Nat
      BY <2>1, <2>2 DEF T, B
    <3>2. /\ at \in [0..N -> Nat] /\ to \in [0..N -> Nat] /\ go \in [1..N -> Nat]
          /\ s.bytes \in Seq(Word) /\ Len(s.bytes) \in Nat
      BY DEF Laid
    <3> QED
      BY <2>0, <3>1, <3>2
<1>2. \A j \in J : /\ j \in 0..N /\ at[j] \in Nat /\ to[j] \in Nat /\ o <= to[j]
                   /\ x \in at[j]..Len(s.bytes) /\ at[j] <= x
  BY <1>1
<1>3. ASSUME NEW q \in Q
      PROVE  /\ q[1] \in 1..N /\ q[2] \in Nat /\ q[2] \in 0..(to[q[1]] - to[q[1] - 1])
             /\ go[q[1]] \in Nat /\ go[q[1]] + q[2] <= x /\ x \in (go[q[1]] + q[2])..Len(s.bytes)
             /\ at[q[1]] \in Nat /\ to[q[1]] \in Nat /\ to[q[1] - 1] \in Nat
             /\ at[q[1]] = go[q[1]] + (to[q[1]] - to[q[1] - 1]) + 2
             /\ to[q[1] - 1] < to[q[1]] /\ to[q[1]] <= to[N]
             /\ o \in 0..(to[q[1] - 1] + q[2])
  <2> DEFINE k == q[1]  i == q[2]
  <2>1. k \in 1..N /\ i \in Nat /\ i <= to[k] - to[k - 1] /\ go[k] + i <= x /\ o <= to[k - 1] + i
    BY <1>3
  <2> HIDE DEF k, i
  <2>2. k \in 0..N /\ k - 1 \in 0..N
    BY <1>1, <2>1
  <2>3. go[k] \in Nat /\ at[k] \in Nat /\ to[k] \in Nat /\ to[k - 1] \in Nat
    BY <1>1, <2>1, <2>2
  <2>4. at[k] = go[k] + (to[k] - to[k - 1]) + 2 /\ to[k - 1] < to[k] /\ to[k] <= to[N]
    BY <2>1 DEF Laid
  <2>5. i \in 0..(to[k] - to[k - 1]) /\ x \in (go[k] + i)..Len(s.bytes) /\ o \in 0..(to[k - 1] + i)
    BY <1>1, <2>1, <2>3
  <2> QED
    BY <2>1, <2>3, <2>4, <2>5 DEF k, i
<1> HIDE DEF J, Q
<1>4. ASSUME NEW j \in J
      PROVE  Size(j) \in S /\ size[Size(j)] \in Nat /\ size[Size(j)] = x - at[j]
  <2> DEFINE p == Size(j)  n == Len(Window(s.bytes, at[j], x))
  <2>1. p \in S
    OBVIOUS
  <2>2. size[p] = n
    <3>1. p.done = FALSE /\ p.decoder.buf = Window(s.bytes, at[j], x)
      BY DEF AtSize, SizeState, SizeDecoder
    <3>2. size[p] = IF p.done THEN 0 ELSE Len(p.decoder.buf)
      BY <2>1
    <3> HIDE DEF p, size
    <3> QED
      BY <3>1, <3>2, Zenon
  <2>3. at[j] \in Nat /\ x \in at[j]..Len(s.bytes) /\ 0 \in 0..(x - at[j])
    <3>1. at[j] \in Nat /\ x \in at[j]..Len(s.bytes) /\ at[j] <= x
      BY <1>2
    <3> QED
      BY <3>1
  <2> HIDE DEF p, size, S
  <2>6. s.bytes \in Seq(Word)
    BY <1>1
  <2>7. at[j] \in Nat /\ x \in at[j]..Len(s.bytes)
    BY <2>3
  <2>4. n = x - at[j]
    BY <2>6, <2>7, WindowLength
  <2>5. x - at[j] \in Nat
    BY <2>3
  <2> HIDE DEF n
  <2> QED
    BY <2>1, <2>2, <2>4, <2>5, Zenon DEF p
<1>5. ASSUME NEW q \in Q
      PROVE  Data(q) \in S /\ size[Data(q)] \in Nat /\ size[Data(q)] = x - (go[q[1]] + q[2])
  <2> DEFINE p == Data(q)  g == go[q[1]] + q[2]  n == Len(Window(s.bytes, g, x))
  <2>1. p \in S
    OBVIOUS
  <2>2. size[p] = n
    <3>1. p.done = FALSE /\ p.decoder.buf = Window(s.bytes, g, x)
      BY DEF InData, DataState, DataDecoder
    <3>2. size[p] = IF p.done THEN 0 ELSE Len(p.decoder.buf)
      BY <2>1
    <3> HIDE DEF p, size
    <3> QED
      BY <3>1, <3>2, Zenon
  <2>3. g \in Nat /\ x \in g..Len(s.bytes) /\ 0 \in 0..(x - g)
    <3>1. g \in Nat /\ x \in g..Len(s.bytes)
      BY <1>3
    <3> HIDE DEF g
    <3> QED
      BY <3>1
  <2> HIDE DEF p, size, S, g
  <2>6. s.bytes \in Seq(Word)
    BY <1>1
  <2>7. g \in Nat /\ x \in g..Len(s.bytes)
    BY <2>3
  <2>4. n = x - g
    BY <2>6, <2>7, WindowLength
  <2>5. x - g \in Nat
    BY <2>3
  <2> HIDE DEF n
  <2> QED
    BY <2>1, <2>2, <2>4, <2>5, Zenon DEF p, g
<1>6. ASSUME NEW p \in E
      PROVE  p \in S /\ size[p] = 0 /\ DecodePass(p) = p /\ p = last /\ N \in J
  <2>1. p = last /\ p \in S /\ N \in J
    OBVIOUS
  <2>2. p.done = TRUE /\ p = SizeState(Window(s.bytes, at[N], x), Window(s.body, o, to[N]), TRUE)
    BY <2>1 DEF AtEnd, SizeState
  <2>3. DecodePass(p) = p
    <3> DEFINE w == Window(s.bytes, at[N], x)  u == Window(s.body, o, to[N])
    <3> HIDE DEF w, u
    <3>1. PICK c \in BOOLEAN : c = TRUE
      OBVIOUS
    <3>2. c \/ w = <<>> \/ Find(w, CRLF) = 0 => DecodePass(SizeState(w, u, c)) = SizeState(w, u, c)
      BY SizePass, Zenon
    <3>3. p = SizeState(w, u, c)
      BY <2>2, <3>1 DEF w, u
    <3> QED
      BY <3>1, <3>2, <3>3
  <2>4. size[p] = IF p.done THEN 0 ELSE Len(p.decoder.buf)
    BY <2>1
  <2> HIDE DEF size, S, E
  <2> QED
    BY <2>1, <2>2, <2>3, <2>4, Zenon
<1>7. size \in [S -> Nat]
  <2>1. ASSUME NEW p \in S PROVE size[p] \in Nat
    <3>1. CASE p \in E
      <4> HIDE DEF size, E, S
      <4>1. size[p] = 0 /\ 0 \in Nat
        BY <1>6, <3>1, Zenon
      <4> QED
        BY <4>1
    <3>2. CASE p \in A
      <4>1. PICK j \in J : p = Size(j)
        BY <3>2
      <4> HIDE DEF size, S, A, Size
      <4> QED
        BY <1>4, <4>1, Zenon
    <3>3. CASE p \in D
      <4>1. PICK q \in Q : p = Data(q)
        BY <3>3
      <4> HIDE DEF size, S, D, Data
      <4> QED
        BY <1>5, <4>1, Zenon
    <3> QED
      BY <3>1, <3>2, <3>3
  <2>2. size = [p \in S |-> size[p]]
    OBVIOUS
  <2> HIDE DEF size, S
  <2> QED
    BY <2>1, <2>2
<1>8. ASSUME NEW j \in J
      PROVE  /\ DecodePass(Size(j)) \in S
             /\ \/ DecodePass(Size(j)) = Size(j) /\ Settles(Size(j))
                \/ size[DecodePass(Size(j))] < size[Size(j)]
  <2> DEFINE p == Size(j)
  <2>1. /\ j \in 0..N /\ at[j] \in Nat /\ to[j] \in Nat /\ o <= to[j] /\ x \in at[j]..Len(s.bytes)
        /\ at[j] <= x
    BY <1>2
  <2>8. SizeMoves(s, at, to, go, N, o, j, x)
    BY <2>1, AtSizePass, Zenon
  <2>2. p \in S /\ size[p] = x - at[j]
    BY <1>4
  <2> HIDE DEF S, size
  <2>3. CASE j < N /\ go[j + 1] <= x
    <3> DEFINE q == <<j + 1, 0>>
    <3>1. DecodePass(p) = InData(s, go, to, o, j + 1, 0, x)
      BY <2>1, <2>8, <2>3, Zenon DEF SizeMoves
    <3>2. /\ j + 1 \in 1..N /\ (j + 1) - 1 = j /\ go[j + 1] \in Nat /\ at[j] + 2 <= go[j + 1]
          /\ to[j + 1] \in Nat /\ to[j] < to[j + 1]
      <4>1. j + 1 \in 1..N /\ (j + 1) - 1 = j /\ j + 1 \in 0..N
        BY <1>1, <2>1, <2>3
      <4>2. at[j] + 2 <= go[j + 1] /\ to[j] < to[j + 1]
        BY <4>1 DEF Laid
      <4> QED
        BY <1>1, <4>1, <4>2
    <3>3. 0 <= to[j + 1] - to[j] /\ go[j + 1] + 0 <= x /\ o <= to[j] + 0
      BY <2>1, <2>3, <3>2
    <3>4. q \in Q
      BY <3>2, <3>3 DEF Q
    <3>5. Data(q) = InData(s, go, to, o, j + 1, 0, x)
      OBVIOUS
    <3>6. Data(q) \in S /\ size[Data(q)] = x - (go[j + 1] + 0)
      BY <1>5, <3>4
    <3>7. x - (go[j + 1] + 0) < x - at[j]
      BY <2>1, <3>2
    <3> HIDE DEF Data, Size, q
    <3> QED
      BY <2>2, <3>1, <3>5, <3>6, <3>7 DEF p
  <2>4. CASE j < N /\ ~(go[j + 1] <= x)
    <3>1. DecodePass(p) = p
      BY <2>1, <2>8, <2>4, Zenon DEF SizeMoves
    <3> DEFINE d2 == SizeDecoder(Window(s.bytes, at[j], x))
    <3>2. p = [decoder |-> d2, decoded |-> Window(s.body, o, to[j]), done |-> FALSE]
      BY DEF AtSize, SizeState
    <3>3. j # N
      BY <1>1, <2>1, <2>4
    <3> HIDE DEF d2, p
    <3>4. Waits(s, at, to, go, N, d2, to[j], x)
      BY <2>1, <2>4, <3>3, Zenon DEF Waits, d2
    <3>5. to[j] \in o..Len(s.body)
      <4>1. j \in 1..N \/ j = 0
        BY <2>1, <1>1
      <4>3. (\A k \in 1..N : to[k] <= to[N]) /\ to[0] = 0
        BY DEF Laid
      <4>4. to[N] \in Nat
        BY <1>1
      <4>2. to[j] <= to[N]
        BY <4>1, <4>3, <4>4
      <4> QED
        BY <1>1, <2>1, <4>2
    <3>6. Decoded(s, at, to, go, N, o, x, p)
      BY <3>2, <3>4, <3>5, Zenon DEF Decoded
    <3> QED
      BY <2>2, <3>1, <3>6 DEF p
  <2>5. CASE j = N /\ Find(Window(s.bytes, at[N], x), CRLF) = 0
    <3>1. DecodePass(p) = p
      BY <2>1, <2>8, <2>5, Zenon DEF SizeMoves
    <3> DEFINE d2 == SizeDecoder(Window(s.bytes, at[j], x))
    <3>2. p = [decoder |-> d2, decoded |-> Window(s.body, o, to[j]), done |-> FALSE]
      BY DEF AtSize, SizeState
    <3>3. ~(j < N)
      BY <1>1, <2>1, <2>5
    <3> HIDE DEF d2, p
    <3>4. Waits(s, at, to, go, N, d2, to[j], x)
      BY <2>1, <2>5, <3>3, Zenon DEF Waits, d2
    <3>5. to[j] \in o..Len(s.body)
      BY <1>1, <2>1, <2>5
    <3>6. Decoded(s, at, to, go, N, o, x, p)
      BY <3>2, <3>4, <3>5, Zenon DEF Decoded
    <3> QED
      BY <2>2, <3>1, <3>6 DEF p
  <2>6. CASE j = N /\ Find(Window(s.bytes, at[N], x), CRLF) # 0
    <3>1. DecodePass(p) = last /\ 0 < x - at[N]
      BY <2>1, <2>8, <2>6, Zenon DEF SizeMoves
    <3>2. last \in E
      BY <2>6
    <3>3. last \in S /\ size[last] = 0
      BY <1>6, <3>2
    <3> HIDE DEF last, p
    <3> QED
      BY <2>2, <2>6, <3>1, <3>3 DEF p
  <2>7. j < N \/ j = N
    BY <1>1, <2>1
  <2> QED
    BY <2>3, <2>4, <2>5, <2>6, <2>7
<1>9. ASSUME NEW q \in Q
      PROVE  /\ DecodePass(Data(q)) \in S
             /\ \/ DecodePass(Data(q)) = Data(q) /\ Settles(Data(q))
                \/ size[DecodePass(Data(q))] < size[Data(q)]
  <2> DEFINE p == Data(q)  k == q[1]  i == q[2]
  <2>1. /\ k \in 1..N /\ i \in Nat /\ i \in 0..(to[k] - to[k - 1])
        /\ go[k] \in Nat /\ go[k] + i <= x /\ x \in (go[k] + i)..Len(s.bytes)
        /\ at[k] \in Nat /\ to[k] \in Nat /\ to[k - 1] \in Nat
        /\ at[k] = go[k] + (to[k] - to[k - 1]) + 2
        /\ to[k - 1] < to[k] /\ to[k] <= to[N]
        /\ o \in 0..(to[k - 1] + i)
    BY <1>3
  <2>2. p \in S /\ size[p] = x - (go[k] + i)
    BY <1>5
  <2>3. p = InData(s, go, to, o, k, i, x)
    OBVIOUS
  <2> HIDE DEF S, size, k, i, p
  <2>4. \/ /\ DecodePass(p) = p
           /\ x = go[k] + i \/ (i = to[k] - to[k - 1] /\ x < go[k] + i + 2)
        \/ \E j \in 0..(to[k] - to[k - 1]) :
             i < j /\ go[k] + j <= x /\ DecodePass(p) = InData(s, go, to, o, k, j, x)
        \/ at[k] <= x /\ DecodePass(p) = AtSize(s, at, to, o, k, x)
    <3>1. DataMoves(s, at, to, go, o, k, i, x)
      BY <2>1, InDataPass, Zenon
    <3> QED
      BY <2>3, <3>1, Zenon DEF DataMoves
  <2>5. CASE /\ DecodePass(p) = p
             /\ x = go[k] + i \/ (i = to[k] - to[k - 1] /\ x < go[k] + i + 2)
    <3> DEFINE d2 == DataDecoder(Window(s.bytes, go[k] + i, x), (to[k] - to[k - 1]) - i)
               y == to[k - 1] + i
    <3>1. p = [decoder |-> d2, decoded |-> Window(s.body, o, y), done |-> FALSE]
      BY <2>3 DEF InData, DataState
    <3>2. y \in o..Len(s.body)
      <4> DEFINE T == to[k]  U == to[k - 1]  L == to[N]  B == Len(s.body)
      <4>1. /\ T \in Nat /\ U \in Nat /\ L \in Nat /\ B \in Nat /\ i \in Nat /\ i \in 0..(T - U)
            /\ T <= L /\ L = B /\ o \in 0..(U + i) /\ y = U + i
        BY <1>1, <2>1
      <4> HIDE DEF T, U, L, B, y
      <4>2. y \in o..B
        BY <4>1
      <4> QED
        BY <4>2 DEF B
    <3> HIDE DEF d2
    <3>3. Waits(s, at, to, go, N, d2, y, x)
      BY <2>1, <2>5, Zenon DEF Waits, d2
    <3> HIDE DEF y
    <3>4. Decoded(s, at, to, go, N, o, x, p)
      BY <3>1, <3>2, <3>3, Zenon DEF Decoded
    <3> QED
      BY <2>2, <2>5, <3>4 DEF p
  <2>6. CASE \E j \in 0..(to[k] - to[k - 1]) :
               i < j /\ go[k] + j <= x /\ DecodePass(p) = InData(s, go, to, o, k, j, x)
    <3>1. PICK j \in 0..(to[k] - to[k - 1]) :
               i < j /\ go[k] + j <= x /\ DecodePass(p) = InData(s, go, to, o, k, j, x)
      BY <2>6
    <3> DEFINE r == <<k, j>>
    <3>2. j \in Nat /\ j <= to[k] - to[k - 1] /\ o <= to[k - 1] + j
      BY <2>1, <3>1
    <3>3. r \in Q
      BY <2>1, <3>1, <3>2 DEF Q
    <3>4. Data(r) = InData(s, go, to, o, k, j, x)
      OBVIOUS
    <3>5. Data(r) \in S /\ size[Data(r)] = x - (go[k] + j)
      BY <1>5, <3>3
    <3>6. x - (go[k] + j) < x - (go[k] + i)
      BY <2>1, <3>1, <3>2
    <3> HIDE DEF Data, r
    <3> QED
      BY <2>2, <3>1, <3>4, <3>5, <3>6 DEF p
  <2>7. CASE at[k] <= x /\ DecodePass(p) = AtSize(s, at, to, o, k, x)
    <3>1. k \in 0..N /\ o <= to[k]
      BY <1>1, <2>1, SMTT(30)
    <3>2. k \in J
      BY <2>7, <3>1 DEF J
    <3>3. Size(k) \in S /\ size[Size(k)] = x - at[k]
      BY <1>4, <3>2
    <3>4. x - at[k] < x - (go[k] + i)
      <4> DEFINE T == to[k]  U == to[k - 1]  G == go[k]  Z == at[k]
      <4>1. /\ T \in Nat /\ U \in Nat /\ G \in Nat /\ Z \in Nat /\ i \in Nat /\ i \in 0..(T - U)
            /\ Z = G + (T - U) + 2 /\ U < T
        BY <2>1
      <4> HIDE DEF T, U, G, Z
      <4>2. x - Z < x - (G + i)
        BY <4>1
      <4> QED
        BY <4>2 DEF Z, G
    <3> QED
      BY <2>2, <2>7, <3>3, <3>4 DEF p
  <2> QED
    BY <2>4, <2>5, <2>6, <2>7 DEF p
<1>10. ASSUME NEW p \in S
       PROVE  /\ DecodePass(p) \in S
              /\ \/ DecodePass(p) = p /\ Settles(p)
                 \/ size[DecodePass(p)] < size[p]
  <2>1. CASE p \in A
    <3>1. PICK j \in J : p = Size(j)
      BY <2>1
    <3> HIDE DEF size, S, A, Size, Settles
    <3> QED
      BY <1>8, <3>1, Zenon
  <2>2. CASE p \in D
    <3>1. PICK q \in Q : p = Data(q)
      BY <2>2
    <3> HIDE DEF size, S, D, Data, Settles
    <3> QED
      BY <1>9, <3>1, Zenon
  <2>3. CASE p \in E
    <3>1. p \in S /\ DecodePass(p) = p /\ p = last /\ N \in J
      <4> HIDE DEF size, S, E
      <4> QED
        BY <1>6, <2>3
    <3>2. Len(s.body) \in o..Len(s.body)
      <4>1. o <= to[N] /\ to[N] \in Nat
        BY <1>1, <1>2, <3>1
      <4> QED
        BY <1>1, <4>1
    <3> DEFINE d2 == SizeDecoder(Window(s.bytes, at[N], x))
    <3>3. p = [decoder |-> d2, decoded |-> Window(s.body, o, Len(s.body)), done |-> TRUE]
      BY <1>1, <3>1 DEF AtEnd, SizeState
    <3> HIDE DEF S, size, E, last, d2
    <3>4. Decoded(s, at, to, go, N, o, x, p)
      BY <3>2, <3>3, Zenon DEF Decoded
    <3> QED
      BY <3>1, <3>4
  <2> QED
    BY <2>1, <2>2, <2>3
<1>11. a \in S /\ Len(a.decoder.buf) \in Nat /\ size[a] = Len(a.decoder.buf)
  <2>1. a \in S /\ a.done = FALSE
    <3>1. CASE \E j \in 0..N : at[j] <= x /\ o <= to[j] /\ a = AtSize(s, at, to, o, j, x)
      <4>1. PICK j \in 0..N : at[j] <= x /\ o <= to[j] /\ a = Size(j)
        BY <3>1
      <4>2. j \in J
        BY <4>1 DEF J
      <4>3. Size(j) \in S
        BY <1>4, <4>2
      <4>4. Size(j).done = FALSE
        BY DEF AtSize, SizeState
      <4> HIDE DEF S, Size
      <4> QED
        BY <4>1, <4>3, <4>4, Zenon
    <3>2. CASE \E k \in 1..N : \E i \in 0..(to[k] - to[k - 1]) :
              go[k] + i <= x /\ o <= to[k - 1] + i /\ a = InData(s, go, to, o, k, i, x)
      <4>8. PICK k \in 1..N : \E i \in 0..(to[k] - to[k - 1]) :
              go[k] + i <= x /\ o <= to[k - 1] + i /\ a = InData(s, go, to, o, k, i, x)
        BY <3>2
      <4>1. PICK i \in 0..(to[k] - to[k - 1]) :
              go[k] + i <= x /\ o <= to[k - 1] + i /\ a = InData(s, go, to, o, k, i, x)
        BY <4>8
      <4> DEFINE q == <<k, i>>
      <4>5. k - 1 \in 0..N /\ k \in 0..N
        BY <1>1
      <4>6. to[k] \in Nat /\ to[k - 1] \in Nat
        BY <1>1, <4>5
      <4>7. i \in Nat /\ i <= to[k] - to[k - 1]
        BY <4>6
      <4>2. q \in Q
        BY <4>1, <4>7 DEF Q
      <4>3. Data(q) \in S
        BY <1>5, <4>2
      <4>4. Data(q) = InData(s, go, to, o, k, i, x) /\ Data(q).done = FALSE
        BY DEF InData, DataState
      <4> HIDE DEF S, Data, q
      <4> QED
        BY <4>1, <4>3, <4>4, Zenon
    <3> QED
      BY <3>1, <3>2, Zenon DEF Starts
  <2>2. size[a] = IF a.done THEN 0 ELSE Len(a.decoder.buf)
    BY <2>1
  <2>3. size[a] \in Nat
    <3> HIDE DEF size, S
    <3> QED
      BY <1>7, <2>1
  <2> HIDE DEF size, S
  <2>4. size[a] = Len(a.decoder.buf)
    BY <2>1, <2>2, Zenon
  <2> QED
    BY <2>1, <2>3, <2>4, Zenon
<1> DEFINE p == DecodeChunked(d, segment)
<1> HIDE DEF S, size, Settles, p
<1>12. p \in S /\ DecodePass(p) = p
  BY <1>7, <1>10, <1>11, DecodeLoop DEF p
<1>13. Settles(p)
  <2>1. size[p] \in Nat
    BY <1>7, <1>12
  <2>2. ~(size[DecodePass(p)] < size[p])
    BY <1>12, <2>1
  <2> QED
    BY <1>10, <1>12, <2>2, Zenon
<1> QED
  BY <1>13 DEF Settles, p

\* push puts the segment behind what it has kept.
LEMMA DecoderStarts ==
  ASSUME NEW w, NEW u, NEW r
  PROVE  /\ DecodeStart(SizeDecoder(w), u) = SizeState(Cat(w, u), <<>>, FALSE)
         /\ DecodeStart(DataDecoder(w, r), u) = DataState(Cat(w, u), r, <<>>)
<1> DEFINE c == SizeDecoder(w)  d == DataDecoder(w, r)  v == Cat(w, u)
<1>1. c.buf \o u = v /\ d.buf \o u = v
  BY DEF Cat, SizeDecoder, DataDecoder
<1>2. /\ [c EXCEPT !.buf = @ \o u] = [c EXCEPT !.buf = v]
      /\ [d EXCEPT !.buf = @ \o u] = [d EXCEPT !.buf = v]
  <2> HIDE DEF c, d, v
  <2> QED
    BY <1>1
<1> HIDE DEF v
<1>9. ASSUME NEW t \in BOOLEAN, NEW m, NEW p, p = [buf |-> w, expectSizeLine |-> t, remaining |-> m]
      PROVE  [p EXCEPT !.buf = v] = [buf |-> v, expectSizeLine |-> t, remaining |-> m]
  BY <1>9
<1>3. [c EXCEPT !.buf = v] = SizeDecoder(v)
  <2>1. PICK t \in BOOLEAN : t = TRUE
    OBVIOUS
  <2>2. c = [buf |-> w, expectSizeLine |-> t, remaining |-> 0]
    BY <2>1 DEF SizeDecoder
  <2> HIDE DEF c
  <2>3. [c EXCEPT !.buf = v] = [buf |-> v, expectSizeLine |-> t, remaining |-> 0]
    BY <1>9, <2>2
  <2> QED
    BY <2>1, <2>3 DEF SizeDecoder
<1>4. [d EXCEPT !.buf = v] = DataDecoder(v, r)
  <2>1. PICK t \in BOOLEAN : t = FALSE
    OBVIOUS
  <2>2. d = [buf |-> w, expectSizeLine |-> t, remaining |-> r]
    BY <2>1 DEF DataDecoder
  <2> HIDE DEF d
  <2>3. [d EXCEPT !.buf = v] = [buf |-> v, expectSizeLine |-> t, remaining |-> r]
    BY <1>9, <2>2
  <2> QED
    BY <2>1, <2>3 DEF DataDecoder
<1> HIDE DEF c, d
<1>5. DecodeStart(c, u) = SizeState(v, <<>>, FALSE)
  BY <1>2, <1>3, Zenon DEF DecodeStart, SizeState
<1>6. DecodeStart(d, u) = DataState(v, r, <<>>)
  BY <1>2, <1>4, Zenon DEF DecodeStart, DataState
<1> QED
  BY <1>5, <1>6 DEF c, d, v

\* The segment with the tokens of s behind place x
LEMMA ChunksArrive ==
  ASSUME NEW s, NEW at, NEW to, NEW go, NEW N, Laid(s, at, to, go, N),
         NEW d, NEW o \in 0..Len(s.body), NEW x \in Nat, NEW y \in x..Len(s.bytes),
         Waits(s, at, to, go, N, d, o, x)
  PROVE  Decoded(s, at, to, go, N, o, y, DecodeChunked(d, Window(s.bytes, x, y)))
<1> DEFINE f == s.bytes  b == s.body  u == Window(f, x, y)  a == DecodeStart(d, u)
<1>1. /\ f \in Seq(Word) /\ Len(f) \in Nat /\ b \in Seq(Word) /\ Len(b) \in Nat /\ N \in Nat
      /\ at \in [0..N -> Nat] /\ to \in [0..N -> Nat] /\ go \in [1..N -> Nat]
  BY DEF Laid
<1>2. o \in Nat /\ y \in Nat /\ x <= y /\ y <= Len(f) /\ o <= Len(b)
  BY <1>1
<1>3. Window(b, o, o) = <<>>
  <2>1. o \in o..Len(b) /\ 0 \in 0..(o - o) /\ o \in Nat
    BY <1>1, <1>2
  <2> HIDE DEF b
  <2> QED
    BY <1>1, <2>1, SkipWindow
<1>4. ASSUME NEW g \in Nat, g <= x PROVE Cat(Window(f, g, x), u) = Window(f, g, y)
  <2>1. x \in g..Len(f) /\ y \in x..Len(f)
    BY <1>1, <1>2, <1>4
  <2>2. f \in Seq(Word)
    BY <1>1
  <2> HIDE DEF f
  <2> QED
    BY <2>1, <2>2, WindowsJoin DEF Cat
<1>5. Starts(s, at, to, go, N, o, y, a)
  <2>1. ASSUME NEW k \in 0..N, d = SizeDecoder(Window(f, at[k], x)), o = to[k], at[k] <= x
        PROVE  Starts(s, at, to, go, N, o, y, a)
    <3>1. at[k] \in Nat
      BY <1>1
    <3>2. Cat(Window(f, at[k], x), u) = Window(f, at[k], y)
      BY <1>4, <2>1, <3>1
    <3>3. a = SizeState(Window(f, at[k], y), <<>>, FALSE)
      <4> DEFINE w == Window(f, at[k], x)
      <4>1. DecodeStart(SizeDecoder(w), u) = SizeState(Cat(w, u), <<>>, FALSE)
        <5> HIDE DEF w, u
        <5> QED
          BY DecoderStarts
      <4> QED
        BY <2>1, <3>2, <4>1
    <3>4. a = AtSize(s, at, to, o, k, y)
      BY <1>3, <2>1, <3>3 DEF AtSize
    <3>5. at[k] <= y /\ o <= to[k]
      BY <1>2, <2>1, <3>1
    <3> HIDE DEF a
    <3> QED
      BY <3>4, <3>5, Zenon DEF Starts
  <2>2. ASSUME NEW k \in 1..N, NEW i \in 0..(to[k] - to[k - 1]),
               d = DataDecoder(Window(f, go[k] + i, x), (to[k] - to[k - 1]) - i),
               o = to[k - 1] + i, go[k] + i <= x
        PROVE  Starts(s, at, to, go, N, o, y, a)
    <3> DEFINE g == go[k] + i  w == Window(f, g, x)  r == (to[k] - to[k - 1]) - i
    <3>1. go[k] \in Nat /\ to[k] \in Nat /\ to[k - 1] \in Nat
      BY <1>1
    <3>6. i \in Nat
      <4> DEFINE z == to[k] - to[k - 1]
      <4>1. z \in Int
        BY <3>1
      <4> HIDE DEF z
      <4> QED
        BY <4>1 DEF z
    <3>7. g \in Nat /\ g <= x /\ g <= y
      <4> DEFINE p == go[k]
      <4>1. p \in Nat /\ p + i <= x
        BY <2>2, <3>1
      <4> HIDE DEF p
      <4>2. p + i \in Nat /\ p + i <= x /\ p + i <= y
        BY <1>2, <3>6, <4>1
      <4> QED
        BY <4>2 DEF p
    <3>2. Cat(w, u) = Window(f, g, y)
      <4> HIDE DEF g, u, f
      <4> QED
        BY <1>4, <3>7
    <3>3. a = DataState(Window(f, g, y), r, <<>>)
      <4>1. DecodeStart(DataDecoder(w, r), u) = DataState(Cat(w, u), r, <<>>)
        <5> HIDE DEF w, u, r
        <5> QED
          BY DecoderStarts
      <4>2. d = DataDecoder(w, r)
        BY <2>2
      <4> HIDE DEF w, u, r, g
      <4> QED
        BY <3>2, <4>1, <4>2
    <3>4. a = InData(s, go, to, o, k, i, y)
      <4> HIDE DEF a
      <4> QED
        BY <1>3, <2>2, <3>3 DEF InData
    <3>5. go[k] + i <= y /\ o <= to[k - 1] + i
      BY <1>2, <2>2, <3>7
    <3> HIDE DEF a
    <3> QED
      BY <3>4, <3>5, Zenon DEF Starts
  <2> HIDE DEF a
  <2> QED
    BY <2>1, <2>2, Zenon DEF Waits, f
<1> HIDE DEF u, a
<1>6. a = DecodeStart(d, u)
  BY DEF a
<1> QED
  BY <1>2, <1>5, <1>6, DecodeSettles DEF u, f

\* Nothing is found in nothing.
LEMMA NothingFound == Find(<<>>, CRLF) = 0
<1>1. /\ <<>> \in Seq(Word) /\ Len(<<>>) = 0
      /\ CRLF \in Seq(Word) /\ 2 <= Len(CRLF) /\ Len(CRLF) \in Nat
  BY EndOfLine
<1> DEFINE n == Find(<<>>, CRLF)
<1>2. n \in Nat /\ (n # 0 => Occurs(<<>>, CRLF, n))
  BY <1>1, Found
<1>3. Occurs(<<>>, CRLF, n) => FALSE
  BY <1>1 DEF Occurs
<1> QED
  BY <1>2, <1>3

\* The window of no elements.
LEMMA EmptyWindow ==
  ASSUME NEW f \in Seq(Word), NEW a \in 0..Len(f)
  PROVE  Window(f, a, a) = <<>>
<1>1. a \in Nat /\ a \in a..Len(f) /\ 0 \in 0..(a - a)
  OBVIOUS
<1> QED
  BY <1>1, SkipWindow

\* Before the first chunk the new decoder waits, and with all of the body there it cannot.
LEMMA WaitsFirst ==
  ASSUME NEW s, NEW at, NEW to, NEW go, NEW N, Laid(s, at, to, go, N)
  PROVE  Waits(s, at, to, go, N, NewDecoder, 0, 5)
<1>1. N \in Nat /\ at[0] = 5 /\ to[0] = 0 /\ 0 \in 0..N /\ s.bytes \in Seq(Word)
      /\ Len(s.bytes) \in Nat /\ at[N] <= Len(s.bytes)
      /\ at \in [0..N -> Nat] /\ go \in [1..N -> Nat]
  <2>1. /\ N \in Nat /\ at[0] = 5 /\ to[0] = 0 /\ s.bytes \in Seq(Word) /\ Len(s.bytes) \in Nat
        /\ at[N] <= Len(s.bytes) /\ at \in [0..N -> Nat] /\ go \in [1..N -> Nat]
    BY Zenon DEF Laid
  <2>2. 0 \in 0..N
    BY <2>1
  <2> QED
    BY <2>1, <2>2, Zenon
<1>2. 5 <= Len(s.bytes)
  <2>1. CASE N = 0
    BY <1>1, <2>1
  <2>2. CASE N # 0
    <3>1. N \in 1..N /\ N \in 0..N /\ 1 \in 1..N /\ 1 - 1 = 0
      BY <1>1, <2>2
    <3>2. at[0] + 2 <= go[1] /\ go[1] \in Nat /\ at[1] \in Nat /\ at[N] \in Nat /\ at[1] <= at[N]
      BY <1>1, <3>1 DEF Laid
    <3>3. at[1] = go[1] + (to[1] - to[0]) + 2 /\ to[0] < to[1] /\ to[1] \in Nat
      BY <1>1, <3>1 DEF Laid
    <3> DEFINE A == at[1]  G == go[1]  L == at[N]  K == Len(s.bytes)  T == to[1]
    <3>4. A = G + (T - 0) + 2 /\ 0 < T /\ 5 + 2 <= G /\ A <= L /\ L <= K
          /\ A \in Nat /\ G \in Nat /\ L \in Nat /\ K \in Nat /\ T \in Nat
      BY <1>1, <3>2, <3>3
    <3> HIDE DEF A, G, L, K, T
    <3>5. 5 <= K
      BY <3>4
    <3> QED
      BY <3>5 DEF K
  <2> QED
    BY <2>1, <2>2
<1>3. Window(s.bytes, 5, 5) = <<>>
  <2>1. 5 \in 0..Len(s.bytes)
    BY <1>1, <1>2
  <2> QED
    BY <1>1, <2>1, EmptyWindow
<1>4. NewDecoder = SizeDecoder(Window(s.bytes, 5, 5))
  BY <1>3 DEF NewDecoder, SizeDecoder
<1>5. 0 < N => ~(go[0 + 1] <= 5)
  <2>1. ASSUME 0 < N PROVE ~(go[1] <= 5)
    <3>1. 1 \in 1..N /\ 1 - 1 = 0
      BY <1>1, <2>1
    <3>2. at[1 - 1] + 2 <= go[1] /\ go[1] \in Nat
      BY <3>1 DEF Laid
    <3> QED
      BY <1>1, <3>1, <3>2
  <2> QED
    BY <2>1
<1>6. 0 = N => Find(Window(s.bytes, at[N], 5), CRLF) = 0
  BY <1>1, <1>3, NothingFound
<1>7. at[0] <= 5
  BY <1>1
<1> DEFINE d == NewDecoder
<1>8. d = SizeDecoder(Window(s.bytes, at[0], 5)) /\ 0 = to[0]
  BY <1>1, <1>4
<1> HIDE DEF d
<1>9. Waits(s, at, to, go, N, d, 0, 5)
  BY <1>1, <1>5, <1>6, <1>7, <1>8, Zenon DEF Waits
<1> QED
  BY <1>9 DEF d

\* Once the whole answer has arrived the decoder does not wait.
LEMMA WaitsNoMore ==
  ASSUME NEW s, NEW at, NEW to, NEW go, NEW N, Laid(s, at, to, go, N), NEW d, NEW o
  PROVE  ~Waits(s, at, to, go, N, d, o, Len(s.bytes))
<1> DEFINE K == Len(s.bytes)
<1>1. N \in Nat /\ K \in Nat /\ at[N] <= K /\ at \in [0..N -> Nat] /\ go \in [1..N -> Nat]
      /\ to \in [0..N -> Nat] /\ N \in 0..N /\ at[N] \in Nat
      /\ Find(Window(s.bytes, at[N], K), CRLF) # 0
  <2>1. /\ N \in Nat /\ K \in Nat /\ at[N] <= K /\ at \in [0..N -> Nat] /\ go \in [1..N -> Nat]
        /\ to \in [0..N -> Nat] /\ Find(Window(s.bytes, at[N], K), CRLF) # 0
    BY Zenon DEF Laid
  <2> HIDE DEF K
  <2>2. N \in 0..N /\ at[N] \in Nat
    BY <2>1
  <2> QED
    BY <2>1, <2>2, Zenon
<1>2. ASSUME NEW k \in 1..N
      PROVE  /\ go[k] \in Nat /\ to[k] \in Nat /\ to[k - 1] \in Nat /\ to[k - 1] < to[k]
             /\ go[k] + (to[k] - to[k - 1]) + 2 <= K
  <2> DEFINE G == go[k]  T == to[k]  U == to[k - 1]  A == at[k]  L == at[N]
  <2>1. k \in 0..N /\ k - 1 \in 0..N
    BY <1>1
  <2>2. G \in Nat /\ T \in Nat /\ U \in Nat /\ A \in Nat /\ L \in Nat
    BY <1>1, <2>1
  <2>3. A = G + (T - U) + 2 /\ U < T /\ A <= L /\ L <= K
    BY <1>1 DEF Laid
  <2> HIDE DEF G, T, U, A, L, K
  <2>4. G + (T - U) + 2 <= K
    BY <1>1, <2>2, <2>3
  <2> QED
    BY <2>2, <2>3, <2>4 DEF G, T, U
<1>3. ASSUME NEW k \in 0..N, k < N => ~(go[k + 1] <= K),
             k = N => Find(Window(s.bytes, at[N], K), CRLF) = 0
      PROVE  FALSE
  <2>1. CASE k < N
    <3>1. k + 1 \in 1..N /\ (k + 1) - 1 = k
      BY <1>1, <2>1
    <3> DEFINE G == go[k + 1]  T == to[k + 1]  U == to[k]
    <3>2. G \in Nat /\ T \in Nat /\ U \in Nat /\ U < T /\ G + (T - U) + 2 <= K
      BY <1>2, <3>1
    <3>3. ~(G <= K)
      BY <1>3, <2>1
    <3> HIDE DEF G, T, U, K
    <3> QED
      BY <1>1, <3>2, <3>3
  <2>2. CASE k = N
    BY <1>1, <1>3, <2>2
  <2> QED
    BY <1>1, <2>1, <2>2
<1>4. ASSUME NEW k \in 1..N, NEW i \in 0..(to[k] - to[k - 1]),
             K = go[k] + i \/ (i = to[k] - to[k - 1] /\ K < go[k] + i + 2)
      PROVE  FALSE
  <2> DEFINE G == go[k]  T == to[k]  U == to[k - 1]
  <2>1. G \in Nat /\ T \in Nat /\ U \in Nat /\ U < T /\ G + (T - U) + 2 <= K
    BY <1>2
  <2>2. i \in 0..(T - U) /\ (K = G + i \/ (i = T - U /\ K < G + i + 2))
    BY <1>4
  <2> HIDE DEF G, T, U, K
  <2> QED
    BY <1>1, <2>1, <2>2
<1> HIDE DEF K
<1>5. ~Waits(s, at, to, go, N, d, o, K)
  BY <1>3, <1>4, Zenon DEF Waits
<1> QED
  BY <1>5 DEF K

-----------------------------------------------------------------------------
\* The server's relay of an answer: one segment of the body

\* The relay of an answer that has not failed
Relay(phase, buf, n, d, out) ==
  [phase |-> phase, buf |-> buf, received |-> n, decoder |-> d, out |-> out, badGateway |-> FALSE]

\* What the relay changes at once
Buffers(r, buf) == [r EXCEPT !.buf = buf]
Enters(r, phase, buf) == [r EXCEPT !.phase = phase, !.buf = buf]
Decodes(r, d, out) == [r EXCEPT !.decoder = d, !.out = out]
Receives(r, n, out) == [r EXCEPT !.received = n, !.out = out]

\* The relay's updates, one field or two at a time.
LEMMA RelayBuffers ==
  ASSUME NEW phase, NEW buf, NEW n, NEW d, NEW out, NEW buf2
  PROVE  Buffers(Relay(phase, buf, n, d, out), buf2) = Relay(phase, buf2, n, d, out)
<1> DEFINE r == Relay(phase, buf, n, d, out)  q == [r EXCEPT !.buf = buf2]
<1>1. PICK t \in BOOLEAN : t = FALSE
  OBVIOUS
<1>2. r = [phase |-> phase, buf |-> buf, received |-> n, decoder |-> d, out |-> out,
            badGateway |-> t]
  BY <1>1 DEF Relay
<1> HIDE DEF r
<1>3. q = [phase |-> phase, buf |-> buf2, received |-> n, decoder |-> d, out |-> out,
            badGateway |-> t]
  BY <1>2
<1>4. Buffers(r, buf2) = q
  BY DEF Buffers
<1> HIDE DEF q
<1>5. q = [phase |-> phase, buf |-> buf2, received |-> n, decoder |-> d, out |-> out,
            badGateway |-> t]
  BY <1>3
<1>6. Buffers(r, buf2) = Relay(phase, buf2, n, d, out)
  BY <1>1, <1>4, <1>5 DEF Relay
<1> QED
  BY <1>6 DEF r

\* A new phase.
LEMMA RelayEnters ==
  ASSUME NEW phase, NEW buf, NEW n, NEW d, NEW out, NEW phase2, NEW buf2
  PROVE  Enters(Relay(phase, buf, n, d, out), phase2, buf2) = Relay(phase2, buf2, n, d, out)
<1> DEFINE r == Relay(phase, buf, n, d, out)  q == [r EXCEPT !.phase = phase2]
<1>1. PICK t \in BOOLEAN : t = FALSE
  OBVIOUS
<1>2. r = [phase |-> phase, buf |-> buf, received |-> n, decoder |-> d, out |-> out,
            badGateway |-> t]
  BY <1>1 DEF Relay
<1> HIDE DEF r
<1>3. q = [phase |-> phase2, buf |-> buf, received |-> n, decoder |-> d, out |-> out,
            badGateway |-> t]
  BY <1>2
<1>4. Enters(r, phase2, buf2) = [q EXCEPT !.buf = buf2]
  BY DEF Enters
<1> HIDE DEF q
<1>5. [q EXCEPT !.buf = buf2]
        = [phase |-> phase2, buf |-> buf2, received |-> n, decoder |-> d, out |-> out,
            badGateway |-> t]
  BY <1>3
<1>6. Enters(r, phase2, buf2) = Relay(phase2, buf2, n, d, out)
  BY <1>1, <1>4, <1>5 DEF Relay
<1> QED
  BY <1>6 DEF r

\* A new state of the chunk decoder.
LEMMA RelayDecodes ==
  ASSUME NEW phase, NEW buf, NEW n, NEW d, NEW out, NEW d2, NEW out2
  PROVE  Decodes(Relay(phase, buf, n, d, out), d2, out2) = Relay(phase, buf, n, d2, out2)
<1> DEFINE r == Relay(phase, buf, n, d, out)  q == [r EXCEPT !.decoder = d2]
<1>1. PICK t \in BOOLEAN : t = FALSE
  OBVIOUS
<1>2. r = [phase |-> phase, buf |-> buf, received |-> n, decoder |-> d, out |-> out,
            badGateway |-> t]
  BY <1>1 DEF Relay
<1> HIDE DEF r
<1>3. q = [phase |-> phase, buf |-> buf, received |-> n, decoder |-> d2, out |-> out,
            badGateway |-> t]
  BY <1>2
<1>4. Decodes(r, d2, out2) = [q EXCEPT !.out = out2]
  BY DEF Decodes
<1> HIDE DEF q
<1>5. [q EXCEPT !.out = out2]
        = [phase |-> phase, buf |-> buf, received |-> n, decoder |-> d2, out |-> out2,
            badGateway |-> t]
  BY <1>3
<1>6. Decodes(r, d2, out2) = Relay(phase, buf, n, d2, out2)
  BY <1>1, <1>4, <1>5 DEF Relay
<1> QED
  BY <1>6 DEF r

\* A new count of received bytes.
LEMMA RelayReceives ==
  ASSUME NEW phase, NEW buf, NEW n, NEW d, NEW out, NEW n2, NEW out2
  PROVE  Receives(Relay(phase, buf, n, d, out), n2, out2) = Relay(phase, buf, n2, d, out2)
<1> DEFINE r == Relay(phase, buf, n, d, out)  q == [r EXCEPT !.received = n2]
<1>1. PICK t \in BOOLEAN : t = FALSE
  OBVIOUS
<1>2. r = [phase |-> phase, buf |-> buf, received |-> n, decoder |-> d, out |-> out,
            badGateway |-> t]
  BY <1>1 DEF Relay
<1> HIDE DEF r
<1>3. q = [phase |-> phase, buf |-> buf, received |-> n2, decoder |-> d, out |-> out,
            badGateway |-> t]
  BY <1>2
<1>4. Receives(r, n2, out2) = [q EXCEPT !.out = out2]
  BY DEF Receives
<1> HIDE DEF q
<1>5. [q EXCEPT !.out = out2]
        = [phase |-> phase, buf |-> buf, received |-> n2, decoder |-> d, out |-> out2,
            badGateway |-> t]
  BY <1>3
<1>6. Receives(r, n2, out2) = Relay(phase, buf, n2, d, out2)
  BY <1>1, <1>4, <1>5 DEF Relay
<1> QED
  BY <1>6 DEF r

\* The end of the answer.
LEMMA RelayEnds ==
  ASSUME NEW buf, NEW n, NEW d, NEW out
  PROVE  End(Relay("body", buf, n, d, out)) = Relay("ended", buf, n, d, out)
<1> DEFINE r == Relay("body", buf, n, d, out)
<1>1. PICK t \in BOOLEAN : t = FALSE
  OBVIOUS
<1>2. PICK p : p = "ended"
  OBVIOUS
<1>3. r.phase \in {"head", "body"} /\ (r.phase = "head") = t
  BY <1>1 DEF Relay
<1>4. r = [phase |-> "body", buf |-> buf, received |-> n, decoder |-> d, out |-> out,
           badGateway |-> t]
  BY <1>1 DEF Relay
<1> HIDE DEF r
<1>5. End(r) = [r EXCEPT !.phase = p, !.badGateway = t]
  BY <1>2, <1>3 DEF End
<1> DEFINE q == [r EXCEPT !.phase = p]
<1>6. q = [phase |-> p, buf |-> buf, received |-> n, decoder |-> d, out |-> out, badGateway |-> t]
  BY <1>4
<1>7. End(r) = [q EXCEPT !.badGateway = t]
  BY <1>5
<1> HIDE DEF q
<1>8. [q EXCEPT !.badGateway = t]
        = [phase |-> p, buf |-> buf, received |-> n, decoder |-> d, out |-> out, badGateway |-> t]
  BY <1>6
<1>9. End(r) = Relay("ended", buf, n, d, out)
  BY <1>1, <1>2, <1>7, <1>8 DEF Relay
<1> QED
  BY <1>9 DEF r

\* The decoder of s waits behind x tokens of s and o of its body.
Reading(s, d, o, x) == Waits(s, ChunkStarts(s), DataStops(s), DataStarts(s), Len(s.chunks), d, o, x)

\* What the relay of an answer with a body knows in between: n tokens have been counted, or the
\* decoder waits, and o tokens of the body were passed on when x tokens of s had come.
Consuming(s, n, d, o, x) ==
  \/ s.head.chunked /\ Reading(s, d, o, x)
  \/ /\ ~s.head.chunked /\ n = x - 5 /\ o = x - 5
     /\ s.head.length > 0 => n < s.head.length

\* The relay r behind y tokens, with all of the body passed on if it has ended
Consumed(s, r, o, y) ==
  \E z \in o..Len(s.body) : \E m, e :
    \/ r = Relay("body", <<>>, m, e, Window(s.body, 0, z)) /\ Consuming(s, m, e, z, y)
    \/ r = Relay("ended", <<>>, m, e, Window(s.body, 0, z)) /\ z = Len(s.body)

\* What was passed on and what comes next join.
LEMMA BodyWindows ==
  ASSUME NEW b \in Seq(Word), NEW o \in 0..Len(b), NEW z \in o..Len(b)
  PROVE  Window(b, 0, o) \o Window(b, o, z) = Window(b, 0, z)
<1>1. 0 \in Nat /\ o \in 0..Len(b) /\ z \in o..Len(b)
  OBVIOUS
<1> QED
  BY <1>1, WindowsJoin

\* consumeBody of a chunked answer
LEMMA ChunksConsumed ==
  ASSUME NEW s, ResponseStream(s), InChunks(s),
         NEW n, NEW d, NEW o \in 0..Len(s.body), NEW x \in Nat, NEW y \in x..Len(s.bytes),
         Reading(s, d, o, x), Window(s.bytes, x, y) # <<>>
  PROVE  Consumed(s, ConsumeBody(Relay("body", <<>>, n, d, Window(s.body, 0, o)), s.head,
                                 Window(s.bytes, x, y)), o, y)
<1> DEFINE at == ChunkStarts(s)  to == DataStops(s)  go == DataStarts(s)  N == Len(s.chunks)
           b == s.body  u == Window(s.bytes, x, y)  p == DecodeChunked(d, u)
           r == Relay("body", <<>>, n, d, Window(b, 0, o))
           h == s.head
<1>1. Laid(s, at, to, go, N)
  BY BodyLaid
<1>2. b \in Seq(Word) /\ Len(b) \in Nat
  <2> HIDE DEF at, to, go, N
  <2> QED
    BY <1>1 DEF Laid
<1>3. Waits(s, at, to, go, N, d, o, x)
  BY DEF Reading
<1>4. Decoded(s, at, to, go, N, o, y, p)
  <2> HIDE DEF at, to, go, N
  <2> QED
    BY <1>1, <1>3, ChunksArrive, Zenon
<1>5. h.chunked /\ u # <<>>
  BY DEF InChunks
<1>6. PICK z \in o..Len(b) : \E e :
        \/ /\ p = [decoder |-> e, decoded |-> Window(b, o, z), done |-> FALSE]
           /\ Reading(s, e, z, y)
        \/ p = [decoder |-> e, decoded |-> Window(b, o, z), done |-> TRUE] /\ z = Len(b)
  <2> HIDE DEF at, to, go, N, p
  <2> QED
    BY <1>4, Zenon DEF Decoded, Reading, at, to, go, N
<1>7. PICK e :
        \/ /\ p = [decoder |-> e, decoded |-> Window(b, o, z), done |-> FALSE]
           /\ Reading(s, e, z, y)
        \/ p = [decoder |-> e, decoded |-> Window(b, o, z), done |-> TRUE] /\ z = Len(b)
  BY <1>6
<1> DEFINE w == Window(b, o, z)  v == Window(b, 0, z)  next == Decodes(r, e, v)
<1>8. r = Relay("body", <<>>, n, d, Window(b, 0, o)) /\ p = DecodeChunked(d, u)
  OBVIOUS
<1>9. Window(b, 0, o) \o w = v
  <2>1. b \in Seq(Word) /\ o \in 0..Len(b) /\ z \in o..Len(b)
    BY <1>2
  <2> HIDE DEF b
  <2> QED
    BY <2>1, BodyWindows
<1> HIDE DEF b, u, p, h, at, to, go, N, w
<1>10. r.out = Window(b, 0, o) /\ r.decoder = d
  BY DEF Relay
<1>11. r.out \o w = v
  BY <1>9, <1>10
<1> HIDE DEF v
<1>12. next = Relay("body", <<>>, n, e, v)
  BY RelayDecodes
<1> HIDE DEF r
<1>13. p.decoder = e /\ p.decoded = w
  <2>1. CASE p = [decoder |-> e, decoded |-> w, done |-> FALSE]
    BY <2>1
  <2>2. CASE p = [decoder |-> e, decoded |-> w, done |-> TRUE]
    BY <2>2
  <2> QED
    BY <1>7, <2>1, <2>2 DEF w
<1>14. [r EXCEPT !.decoder = p.decoder, !.out = @ \o p.decoded] = next
  BY <1>11, <1>13 DEF Decodes
<1>15. ConsumeBody(r, h, u) = IF p.done THEN End(next) ELSE next
  <2>1. r.decoder = d
    BY <1>10
  <2>2. DecodeChunked(r.decoder, u) = p
    BY <1>8, <2>1
  <2>3. ConsumeBody(r, h, u)
          = IF DecodeChunked(r.decoder, u).done
              THEN End([r EXCEPT !.decoder = DecodeChunked(r.decoder, u).decoder,
                                 !.out = @ \o DecodeChunked(r.decoder, u).decoded])
              ELSE [r EXCEPT !.decoder = DecodeChunked(r.decoder, u).decoder,
                             !.out = @ \o DecodeChunked(r.decoder, u).decoded]
    BY <1>5, Zenon DEF ConsumeBody
  <2> HIDE DEF next
  <2> QED
    BY <1>14, <2>2, <2>3
<1> HIDE DEF next
<1>16. CASE p = [decoder |-> e, decoded |-> w, done |-> FALSE] /\ Reading(s, e, z, y)
  <2>1. ConsumeBody(r, h, u) = Relay("body", <<>>, n, e, v)
    BY <1>12, <1>15, <1>16
  <2>2. Consuming(s, n, e, z, y)
    BY <1>5, <1>16 DEF Consuming, h
  <2>5. z \in o..Len(s.body) /\ v = Window(s.body, 0, z)
    BY DEF b, v
  <2>6. ConsumeBody(r, h, u) = Relay("body", <<>>, n, e, Window(s.body, 0, z))
    BY <2>1, <2>5
  <2>4. Consumed(s, ConsumeBody(r, h, u), o, y)
    BY <2>2, <2>5, <2>6, Zenon DEF Consumed
  <2> QED
    BY <2>4 DEF r, h, u, b
<1>17. CASE p = [decoder |-> e, decoded |-> w, done |-> TRUE] /\ z = Len(b)
  <2>1. ConsumeBody(r, h, u) = End(next)
    BY <1>15, <1>17
  <2>5. End(next) = Relay("ended", <<>>, n, e, v)
    BY <1>12, RelayEnds, Zenon
  <2>6. z \in o..Len(s.body) /\ v = Window(s.body, 0, z) /\ z = Len(s.body)
    BY <1>17 DEF b, v
  <2>7. ConsumeBody(r, h, u) = Relay("ended", <<>>, n, e, v)
    BY <2>1, <2>5
  <2>8. ConsumeBody(r, h, u) = Relay("ended", <<>>, n, e, Window(s.body, 0, z))
    BY <2>6, <2>7
  <2>4. Consumed(s, ConsumeBody(r, h, u), o, y)
    BY <2>8, <2>6, Zenon DEF Consumed
  <2> QED
    BY <2>4 DEF r, h, u, b
<1> QED
  BY <1>7, <1>16, <1>17 DEF w

\* A plain body is what stands behind the head.
LEMMA PlainBody ==
  ASSUME NEW s, ResponseStream(s), ~s.head.chunked
  PROVE  /\ s.body \in Seq(Word) /\ s.bytes \in Seq(Word) /\ Len(s.bytes) \in Nat
         /\ 5 <= Len(s.bytes) /\ Len(s.body) = Len(s.bytes) - 5
         /\ s.body = Window(s.bytes, 5, Len(s.bytes))
         /\ s.head.status = "final" /\ ~s.head.forHead /\ s.head.length # -1 =>
              Len(s.body) = s.head.length
<1> DEFINE f == s.bytes  b == s.rest  m == Len(Chunked(s))  K == Len(f)  L == Len(b)
<1>1. s.body = b
  <2>1. s = Response(s.preamble, s.pair, s.head, s.chunks, s.rest)
    BY DEF ResponseStream
  <2>2. Response(s.preamble, s.pair, s.head, s.chunks, s.rest).body = s.rest
    BY DEF Response
  <2> QED
    BY <2>1, <2>2
<1>2. AnswerForm(s, m) /\ s.chunks = <<>>
  BY ResponseStreamForm DEF ResponseStream
<1> HIDE DEF m
<1>3. m = 0
  BY <1>2 DEF AnswerForm
<1>4. /\ f \in Seq(Word) /\ K \in Nat /\ b \in Seq(Word) /\ L \in Nat
      /\ K <= 5 + m + L /\ 5 + m + L <= K /\ Holds(f, 5 + m, b)
  BY <1>2 DEF AnswerForm
<1> HIDE DEF f, b
<1>5. \A i \in 1..L : f[(5 + m) + i] = b[i]
  BY <1>4 DEF Holds
<1> HIDE DEF K, L
<1>6. L = K - 5 /\ 5 <= K /\ K - 5 \in Nat /\ 5 + m = 5
  BY <1>3, <1>4
<1>7. \A i \in 1..(K - 5) : b[i] = f[5 + i]
  BY <1>5, <1>6
<1>8. Shows(b, Word, f, 5, K - 5)
  <2>1. L <= K - 5 /\ K - 5 <= L /\ L \in Nat
    BY <1>4, <1>6
  <2> QED
    BY <1>4, <1>7, <2>1 DEF Shows, L
<1>9. Shows(Window(f, 5, K), Word, f, 5, K - 5)
  <2>1. 5 \in Nat /\ K \in 5..Len(f)
    BY <1>4, <1>6 DEF K
  <2> QED
    BY <1>4, <2>1, WindowShows
<1>10. b = Window(f, 5, K)
  BY <1>6, <1>8, <1>9, ShowsSame, Zenon
<1>11. s.head.status = "final" /\ ~s.head.forHead /\ s.head.length # -1 => L = s.head.length
  BY DEF ResponseStream, L, b
<1> QED
  BY <1>1, <1>4, <1>6, <1>10, <1>11 DEF f, K, L

\* A segment of a body that is not chunked.
LEMMA PlainConsumed ==
  ASSUME NEW s, ResponseStream(s), s.head.status = "final", ~s.head.forHead, ~s.head.chunked,
         NEW n, NEW d, NEW o, NEW x \in Nat, 5 <= x, NEW y \in x..Len(s.bytes),
         Consuming(s, n, d, o, x), Window(s.bytes, x, y) # <<>>
  PROVE  Consumed(s, ConsumeBody(Relay("body", <<>>, n, d, Window(s.body, 0, o)), s.head,
                                 Window(s.bytes, x, y)), o, y)
<1> DEFINE f == s.bytes  b == s.body  K == Len(f)  u == Window(f, x, y)  h == s.head
           l == h.length  w == Window(b, 0, o)  v == Window(b, 0, y - 5)
           r == Relay("body", <<>>, n, d, w)  next == Receives(r, y - 5, v)
<1>1. /\ b \in Seq(Word) /\ f \in Seq(Word) /\ K \in Nat /\ 5 <= K /\ Len(b) = K - 5
      /\ b = Window(f, 5, K) /\ (l # -1 => Len(b) = l)
  BY PlainBody
<1>2. n = x - 5 /\ o = x - 5 /\ (l > 0 => n < l) /\ ~h.chunked
  BY DEF Consuming
<1>3. u # <<>> /\ y \in x..K
  OBVIOUS
<1>4. l \in Nat \/ l = -1
  BY ResponseStreamForm, Announced
<1>5. r.received = n /\ r.out = w
  BY DEF Relay
<1>6. r = Relay("body", <<>>, n, d, w) /\ v = Window(b, 0, y - 5) /\ w = Window(b, 0, o)
      /\ u = Window(f, x, y) /\ next = Receives(r, y - 5, v)
  OBVIOUS
<1> HIDE DEF f, b, K, u, h, l, w, v, r, next
<1>7. y \in Nat /\ x <= y /\ y <= K /\ x - 5 \in 0..(K - 5) /\ y - 5 \in (x - 5)..(K - 5)
      /\ y - 5 \in Nat /\ x - 5 \in Nat
  BY <1>1, <1>3
<1>8. Len(u) = y - x
  <2>1. x \in Nat /\ y \in x..Len(f) /\ 0 \in 0..(y - x)
    BY <1>1, <1>7 DEF K
  <2> QED
    <3>1. f \in Seq(Word) /\ x \in Nat /\ y \in x..Len(f)
      BY <1>1, <2>1
    <3>2. 0 \in 0..(y - x)
      BY <2>1
    <3>3. Len(Window(f, x, y)) = y - x
      BY <3>1, <3>2, SkipWindow, ZenonT(30)
    <3> QED
      BY <1>6, <3>3
<1>9. w \o u = v
  <2>1. x - 5 \in 0..Len(b) /\ y - 5 \in (x - 5)..Len(b)
    BY <1>1, <1>7
  <2>2. Window(b, x - 5, y - 5) = u
    <3>1. 5 \in Nat /\ K \in 5..Len(f) /\ 5 + (x - 5) = x /\ 5 + (y - 5) = y
      BY <1>1, <1>7 DEF K
    <3>2. Window(Window(f, 5, K), x - 5, y - 5) = Window(f, 5 + (x - 5), 5 + (y - 5))
      BY <1>1, <1>7, <3>1, WindowOfWindow
    <3> QED
      BY <1>1, <1>6, <3>1, <3>2
  <2>3. Window(b, 0, x - 5) \o Window(b, x - 5, y - 5) = Window(b, 0, y - 5)
    BY <1>1, <2>1, BodyWindows
  <2> QED
    BY <1>2, <1>6, <2>2, <2>3
<1>10. n + Len(u) = y - 5
  BY <1>2, <1>7, <1>8
<1>11. next = Relay("body", <<>>, y - 5, d, v)
  BY <1>6, RelayReceives
<1>12. next.received = y - 5
  BY <1>11 DEF Relay
<1>13. [r EXCEPT !.received = @ + Len(u), !.out = @ \o u] = next
  BY <1>5, <1>6, <1>9, <1>10 DEF Receives
<1>14. ConsumeBody(r, h, u) = IF l >= 0 /\ next.received >= l THEN End(next) ELSE next
  <2>1. ConsumeBody(r, h, u)
          = LET z == [r EXCEPT !.received = @ + Len(u), !.out = @ \o u]
            IN  IF h.length >= 0 /\ z.received >= h.length THEN End(z) ELSE z
    BY <1>2, <1>3, Zenon DEF ConsumeBody
  <2> QED
    BY <1>13, <2>1 DEF l
<1>15. y - 5 \in o..Len(b)
  BY <1>1, <1>2, <1>7
<1>16. CASE l >= 0 /\ y - 5 >= l
  <2>1. y - 5 = Len(b)
    BY <1>1, <1>4, <1>7, <1>16
  <2>2. ConsumeBody(r, h, u) = Relay("ended", <<>>, y - 5, d, v)
    BY <1>11, <1>12, <1>14, <1>16, RelayEnds
  <2>3. Consumed(s, ConsumeBody(r, h, u), o, y)
    BY <1>6, <1>15, <2>1, <2>2, Zenon DEF Consumed, b
  <2> QED
    BY <2>3 DEF r, h, u, w, f, b
<1>17. CASE ~(l >= 0 /\ y - 5 >= l)
  <2>1. l > 0 => y - 5 < l
    BY <1>4, <1>7, <1>17
  <2>2. ConsumeBody(r, h, u) = Relay("body", <<>>, y - 5, d, v)
    BY <1>11, <1>12, <1>14, <1>17
  <2>4. Consuming(s, y - 5, d, y - 5, y)
    BY <1>2, <2>1 DEF Consuming, h, l
  <2>3. Consumed(s, ConsumeBody(r, h, u), o, y)
    BY <1>6, <1>15, <2>2, <2>4, Zenon DEF Consumed, b
  <2> QED
    BY <2>3 DEF r, h, u, w, f, b
<1> QED
  BY <1>16, <1>17

\* consumeBody, however much of the answer comes next
LEMMA MoreConsumed ==
  ASSUME NEW s, ResponseStream(s), s.head.status = "final", ~s.head.forHead,
         NEW n, NEW d, NEW o \in 0..Len(s.body), NEW x \in Nat, 5 <= x, NEW y \in x..Len(s.bytes),
         Consuming(s, n, d, o, x)
  PROVE  Consumed(s, ConsumeBody(Relay("body", <<>>, n, d, Window(s.body, 0, o)), s.head,
                                 Window(s.bytes, x, y)), o, y)
<1> DEFINE u == Window(s.bytes, x, y)  r == Relay("body", <<>>, n, d, Window(s.body, 0, o))
<1>1. s.bytes \in Seq(Word) /\ Len(s.bytes) \in Nat /\ Len(s.body) \in Nat
  <2>1. s.bytes \in Seq(Word) /\ Len(s.bytes) \in Nat
    BY ResponseStreamForm DEF AnswerForm
  <2>2. CASE s.head.chunked
    BY <2>2, BodyLaid DEF InChunks, Laid
  <2>3. CASE ~s.head.chunked
    BY <2>3, PlainBody
  <2> QED
    BY <2>1, <2>2, <2>3
<1>2. CASE u = <<>>
  <2>1. y = x
    <3>1. x \in Nat /\ y \in x..Len(s.bytes) /\ 0 \in 0..(y - x)
      BY <1>1
    <3> QED
      BY <1>1, <1>2, <3>1, SkipWindow
  <2>2. ConsumeBody(r, s.head, u) = r
    BY <1>2 DEF ConsumeBody
  <2>3. o \in o..Len(s.body)
    BY <1>1
  <2>4. Consuming(s, n, d, o, y)
    BY <2>1
  <2>5. ConsumeBody(r, s.head, u) = Relay("body", <<>>, n, d, Window(s.body, 0, o))
    BY <2>2
  <2> HIDE DEF r, u
  <2>6. Consumed(s, ConsumeBody(r, s.head, u), o, y)
    BY <2>3, <2>4, <2>5, Zenon DEF Consumed
  <2> QED
    BY <2>6 DEF r, u
<1>3. CASE u # <<>> /\ s.head.chunked
  <2>1. InChunks(s) /\ Reading(s, d, o, x)
    BY <1>3 DEF InChunks, Consuming
  <2> QED
    BY <1>3, <2>1, ChunksConsumed, Zenon
<1>4. CASE u # <<>> /\ ~s.head.chunked
  BY <1>4, PlainConsumed, Zenon
<1> QED
  BY <1>2, <1>3, <1>4

-----------------------------------------------------------------------------
\* The head of the answer, and the relay behind it

\* The answer has a body that is passed on.
HasBody(s) == s.head.status = "final" /\ ~s.head.forHead

\* The relay of an answer when x of its tokens have come: it keeps what there is of the head, it
\* passes on the body, or it has passed on all of it.
Behind(s, r, x) ==
  \/ x < 5 /\ r = Relay("head", Window(s.bytes, 0, x), 0, NewDecoder, <<>>)
  \/ /\ 5 <= x
     /\ \E o \in 0..Len(s.body) : \E n, d :
          \/ /\ r = Relay("body", <<>>, n, d, Window(s.body, 0, o))
             /\ HasBody(s) /\ Consuming(s, n, d, o, x)
          \/ r = Relay("ended", <<>>, n, d, Window(s.body, 0, o)) /\ o = Len(s.body)

\* The parts of an answer that the relay's lemmas use.
LEMMA BodyKnown ==
  ASSUME NEW s, ResponseStream(s)
  PROVE  /\ s.bytes \in Seq(Word) /\ Len(s.bytes) \in Nat /\ 5 <= Len(s.bytes) /\ Headed(s.bytes)
         /\ HasBody(s) => s.body \in Seq(Word) /\ Len(s.body) \in Nat
         /\ s.head.status = "empty" \/ s.head.forHead => s.body = <<>>
<1>1. AnswerForm(s, Len(Chunked(s)))
  BY ResponseStreamForm
<1>2. Headed(s.bytes)
  BY <1>1, AnswerHeaded
<1>3. HasBody(s) => s.body \in Seq(Word) /\ Len(s.body) \in Nat
  <2>1. CASE s.head.chunked
    <3>1. HasBody(s) => InChunks(s)
      BY <2>1 DEF HasBody, InChunks
    <3>2. InChunks(s) =>
            Laid(s, ChunkStarts(s), DataStops(s), DataStarts(s), Len(s.chunks))
      BY BodyLaid
    <3> QED
      BY <3>1, <3>2, Zenon DEF Laid
  <2>2. CASE ~s.head.chunked
    BY <2>2, PlainBody
  <2> QED
    BY <2>1, <2>2
<1>4. ASSUME s.head.status = "empty" \/ s.head.forHead PROVE s.body = <<>>
  <2>1. s.chunks = <<>> /\ s.rest = <<>>
    BY <1>4 DEF ResponseStream
  <2>2. s = Response(s.preamble, s.pair, s.head, s.chunks, s.rest)
    BY DEF ResponseStream
  <2>3. s.body = IF s.head.chunked THEN ChunkData(s.chunks)[Len(s.chunks)] ELSE s.rest
    <3>1. Response(s.preamble, s.pair, s.head, s.chunks, s.rest).body
            = IF s.head.chunked THEN ChunkData(s.chunks)[Len(s.chunks)] ELSE s.rest
      BY DEF Response
    <3> QED
      BY <2>2, <3>1
  <2>4. ChunkData(s.chunks)[Len(s.chunks)] = <<>>
    <3> DEFINE e == <<>>
    <3>1. e \in Seq(Chunk) /\ Len(e) = 0
      OBVIOUS
    <3> HIDE DEF e
    <3>2. Joined(ChunkData(e), Word, Len(e), DataPieces(e))
      BY <3>1, DataRecursion
    <3>3. ChunkData(e)[0] = <<>>
      BY <3>2 DEF Joined
    <3>4. s.chunks = e
      BY <2>1 DEF e
    <3> QED
      BY <3>1, <3>3, <3>4
  <2> QED
    BY <2>1, <2>3, <2>4
<1> QED
  BY <1>2, <1>3, <1>4 DEF Headed

\* Where the body begins
LEMMA ConsumingFirst ==
  ASSUME NEW s, ResponseStream(s), HasBody(s)
  PROVE  Consuming(s, 0, NewDecoder, 0, 5)
<1>1. CASE s.head.chunked
  <2>1. Laid(s, ChunkStarts(s), DataStops(s), DataStarts(s), Len(s.chunks))
    BY <1>1, BodyLaid DEF HasBody, InChunks
  <2>2. Reading(s, NewDecoder, 0, 5)
    BY <2>1, WaitsFirst, Zenon DEF Reading
  <2> QED
    BY <1>1, <2>2, Zenon DEF Consuming
<1>2. CASE ~s.head.chunked
  BY <1>2 DEF Consuming
<1> QED
  BY <1>1, <1>2

\* Behind all of an answer
LEMMA ConsumingLast ==
  ASSUME NEW s, ResponseStream(s), HasBody(s), NEW n, NEW d, NEW o,
         Consuming(s, n, d, o, Len(s.bytes))
  PROVE  o = Len(s.body) /\ ~s.head.chunked /\ ~(s.head.length > 0)
<1>1. ~s.head.chunked
  <2>1. SUFFICES ASSUME s.head.chunked PROVE FALSE
    OBVIOUS
  <2>2. Laid(s, ChunkStarts(s), DataStops(s), DataStarts(s), Len(s.chunks))
    BY <2>1, BodyLaid DEF HasBody, InChunks
  <2>3. Reading(s, d, o, Len(s.bytes))
    BY <2>1 DEF Consuming
  <2> QED
    BY <2>2, <2>3, WaitsNoMore, Zenon DEF Reading
<1> DEFINE K == Len(s.bytes)  B == Len(s.body)  l == s.head.length
<1>2. /\ n = K - 5 /\ o = K - 5 /\ (l > 0 => n < l)
      /\ B = K - 5 /\ K \in Nat /\ (l # -1 => B = l)
  BY <1>1, PlainBody DEF Consuming, HasBody
<1>3. l \in Nat \/ l = -1
  BY ResponseStreamForm, Announced
<1> HIDE DEF K, B, l
<1>4. o = B /\ ~(l > 0)
  BY <1>2, <1>3
<1> QED
  BY <1>1, <1>4 DEF B, l

\* The listener of the head
LEMMA HeadRead ==
  ASSUME NEW s, ResponseStream(s), s.head.status # "interim", NEW x \in 0..Len(s.bytes)
  PROVE  Behind(s, ReadHead(Relay("head", Window(s.bytes, 0, x), 0, NewDecoder, <<>>), s.head), x)
<1> DEFINE f == s.bytes  h == s.head  w == Window(f, 0, x)  b == s.body
           r == Relay("head", w, 0, NewDecoder, <<>>)
           parsed == Enters(r, "body", <<>>)
<1>1. f \in Seq(Word) /\ Len(f) \in Nat /\ 5 <= Len(f) /\ Headed(f)
  BY BodyKnown
<1>2. x \in Nat /\ x <= Len(f)
  BY <1>1
<1>3. h.status \in {"empty", "final"}
  BY ResponseStreamForm, Announced
<1>4. r.buf = w
  BY DEF Relay
<1> HIDE DEF f, h, w, b
<1>5. Find(w, HeaderEnd) = IF 5 <= x THEN 2 ELSE 0
  BY HeadFound, <1>1 DEF w, f
<1>6. parsed = Relay("body", <<>>, 0, NewDecoder, <<>>)
  BY RelayEnters
<1> HIDE DEF parsed, r
<1>7. CASE x < 5
  <2>1. Find(w, HeaderEnd) = 0
    BY <1>2, <1>5, <1>7
  <2>2. ReadHead(r, h) = r
    BY <1>4, <2>1 DEF ReadHead
  <2>3. Behind(s, ReadHead(r, h), x)
    BY <1>7, <2>2 DEF Behind, r, w, f
  <2> QED
    BY <2>3 DEF r, w, f, h
<1>8. CASE 5 <= x
  <2>1. Find(w, HeaderEnd) = 2
    BY <1>5, <1>8
  <2>2. ReadHead(r, h) = IF HasNoBody(h) \/ h.forHead THEN End(parsed)
                         ELSE ConsumeBody(parsed, h, Skip(w, 2 + 3))
    <3>1. ReadHead(r, h) = IF HasNoBody(h) \/ h.forHead
                             THEN End([r EXCEPT !.phase = "body", !.buf = <<>>])
                           ELSE ConsumeBody([r EXCEPT !.phase = "body", !.buf = <<>>], h,
                                            Skip(w, 2 + 3))
      BY <1>4, <2>1 DEF ReadHead
    <3> QED
      BY <3>1 DEF parsed, Enters
  <2>3. CASE HasNoBody(h) \/ h.forHead
    <3>1. b = <<>>
      BY <1>3, <2>3, BodyKnown DEF HasNoBody, h, b
    <3>2. Len(b) = 0 /\ Window(b, 0, 0) = <<>> /\ 0 \in 0..Len(b)
      BY <3>1 DEF Window
    <3>3. ReadHead(r, h) = Relay("ended", <<>>, 0, NewDecoder, Window(b, 0, 0))
      BY <1>6, <2>2, <2>3, <3>2, RelayEnds
    <3>4. Behind(s, ReadHead(r, h), x)
      BY <1>8, <3>2, <3>3, Zenon DEF Behind, b
    <3> QED
      BY <3>4 DEF r, w, f, h
  <2>4. CASE ~(HasNoBody(h) \/ h.forHead)
    <3>1. HasBody(s)
      BY <1>3, <2>4 DEF HasNoBody, HasBody, h
    <3>2. b \in Seq(Word) /\ Len(b) \in Nat
      BY <3>1, BodyKnown DEF b
    <3>3. 0 \in 0..Len(b) /\ Window(b, 0, 0) = <<>>
      BY <3>2, EmptyWindow
    <3>4. Skip(w, 2 + 3) = Window(f, 5, x)
      <4>1. 0 \in Nat /\ x \in 0..Len(f) /\ 5 \in 0..(x - 0) /\ 0 + 5 = 5 /\ 2 + 3 = 5
        BY <1>2, <1>8
      <4>2. Skip(Window(f, 0, x), 5) = Window(f, 0 + 5, x)
        BY <1>1, <4>1, SkipWindow
      <4> QED
        BY <4>1, <4>2 DEF w
    <3>5. parsed = Relay("body", <<>>, 0, NewDecoder, Window(b, 0, 0))
      BY <1>6, <3>3
    <3>6. Consuming(s, 0, NewDecoder, 0, 5)
      BY <3>1, ConsumingFirst
    <3>7. x \in 5..Len(f) /\ 5 \in Nat /\ 5 <= 5
      BY <1>1, <1>2, <1>8
    <3>8. s.head.status = "final" /\ ~s.head.forHead
      BY <3>1 DEF HasBody
    <3>9. Consumed(s, ConsumeBody(Relay("body", <<>>, 0, NewDecoder, Window(b, 0, 0)), h,
                                  Window(f, 5, x)), 0, x)
      BY <3>3, <3>6, <3>7, <3>8, MoreConsumed, Zenon DEF b, h, f
    <3>10. Consumed(s, ReadHead(r, h), 0, x)
      BY <2>2, <2>4, <3>4, <3>5, <3>9
    <3>11. Behind(s, ReadHead(r, h), x)
      BY <1>8, <3>1, <3>10, Zenon DEF Consumed, Behind
    <3> QED
      BY <3>11 DEF r, w, f, h
  <2> QED
    BY <2>3, <2>4
<1> QED
  BY <1>2, <1>7, <1>8

-----------------------------------------------------------------------------
\* The wire: the preamble of the pair in front of the answer

\* The next tokens of the answer
LEMMA BehindOn ==
  ASSUME NEW s, ResponseStream(s), s.head.status # "interim", NEW x \in 0..Len(s.bytes),
         NEW y \in x..Len(s.bytes), NEW r, Behind(s, r, x)
  PROVE  Behind(s, RelaySegment(r, s.head, PairId, Window(s.bytes, x, y)), y)
<1> DEFINE f == s.bytes  h == s.head  u == Window(f, x, y)  b == s.body
<1>1. f \in Seq(Word) /\ Len(f) \in Nat /\ x \in Nat /\ y \in Nat /\ x <= y /\ y <= Len(f)
  BY BodyKnown
<1> HIDE DEF f, h, u, b
<1>2. CASE x < 5 /\ r = Relay("head", Window(f, 0, x), 0, NewDecoder, <<>>)
  <2> DEFINE w == Window(f, 0, x)  v == Window(f, 0, y)  next == Buffers(r, v)
             q == Relay("head", w, 0, NewDecoder, <<>>)
  <2>1. w \o u = v
    <3>1. 0 \in Nat /\ x \in 0..Len(f) /\ y \in x..Len(f)
      BY <1>1
    <3> QED
      BY <1>1, <3>1, WindowsJoin DEF u
  <2>2. q.phase = "head" /\ q.buf = w
    BY DEF Relay
  <2>3. r.phase = "head" /\ r.buf = w
    BY <1>2, <2>2
  <2>4. Buffers(q, v) = Relay("head", v, 0, NewDecoder, <<>>)
    BY RelayBuffers
  <2>5. next = Relay("head", v, 0, NewDecoder, <<>>)
    BY <1>2, <2>4
  <2> HIDE DEF w, v, next, q
  <2>6. RelaySegment(r, h, PairId, u) = ReadHead([r EXCEPT !.buf = @ \o u], h)
    BY <2>3 DEF RelaySegment
  <2>7. [r EXCEPT !.buf = @ \o u] = next
    BY <2>1, <2>3 DEF next, Buffers
  <2>8. RelaySegment(r, h, PairId, u) = ReadHead(Relay("head", v, 0, NewDecoder, <<>>), h)
    BY <2>5, <2>6, <2>7
  <2>9. y \in 0..Len(f)
    BY <1>1
  <2>10. Behind(s, ReadHead(Relay("head", Window(f, 0, y), 0, NewDecoder, <<>>), h), y)
    BY <2>9, HeadRead DEF h, f
  <2> QED
    BY <2>8, <2>10 DEF v, h, u, f
<1>3. CASE 5 <= x
  <2>1. PICK o \in 0..Len(b) : \E n, d :
          \/ /\ r = Relay("body", <<>>, n, d, Window(b, 0, o))
             /\ HasBody(s) /\ Consuming(s, n, d, o, x)
          \/ r = Relay("ended", <<>>, n, d, Window(b, 0, o)) /\ o = Len(b)
    BY <1>1, <1>3 DEF Behind, b
  <2>2. PICK n, d :
          \/ /\ r = Relay("body", <<>>, n, d, Window(b, 0, o))
             /\ HasBody(s) /\ Consuming(s, n, d, o, x)
          \/ r = Relay("ended", <<>>, n, d, Window(b, 0, o)) /\ o = Len(b)
    BY <2>1
  <2>3. 5 <= y
    BY <1>1, <1>3
  <2>4. CASE /\ r = Relay("body", <<>>, n, d, Window(b, 0, o))
             /\ HasBody(s) /\ Consuming(s, n, d, o, x)
    <3>1. r.phase = "body"
      <4>1. Relay("body", <<>>, n, d, Window(b, 0, o)).phase = "body"
        BY DEF Relay
      <4> QED
        BY <2>4, <4>1
    <3>2. RelaySegment(r, h, PairId, u) = ConsumeBody(r, h, u)
      BY <3>1 DEF RelaySegment
    <3>3. s.head.status = "final" /\ ~s.head.forHead /\ Consuming(s, n, d, o, x)
      BY <2>4 DEF HasBody
    <3>4. o \in 0..Len(s.body) /\ x \in Nat /\ 5 <= x /\ y \in x..Len(s.bytes)
      BY <1>1, <1>3 DEF b
    <3>5. Consumed(s, ConsumeBody(Relay("body", <<>>, n, d, Window(b, 0, o)), h, u), o, y)
      BY <3>3, <3>4, MoreConsumed, Zenon DEF b, h, u, f
    <3>6. Consumed(s, RelaySegment(r, h, PairId, u), o, y)
      BY <2>4, <3>2, <3>5
    <3>7. b \in Seq(Word) /\ Len(b) \in Nat
      BY <2>4, BodyKnown DEF b
    <3>8. \A z \in o..Len(b) : z \in 0..Len(b)
      BY <3>7
    <3>9. Behind(s, RelaySegment(r, h, PairId, u), y)
      BY <2>3, <2>4, <3>6, <3>8, Zenon DEF Consumed, Behind, b
    <3> QED
      BY <3>9 DEF h, u, f
  <2>5. CASE r = Relay("ended", <<>>, n, d, Window(b, 0, o)) /\ o = Len(b)
    <3>1. r.phase = "ended"
      <4>1. Relay("ended", <<>>, n, d, Window(b, 0, o)).phase = "ended"
        BY DEF Relay
      <4> QED
        BY <2>5, <4>1
    <3>2. RelaySegment(r, h, PairId, u) = r
      BY <3>1 DEF RelaySegment
    <3>3. Behind(s, RelaySegment(r, h, PairId, u), y)
      BY <2>3, <2>5, <3>2, Zenon DEF Behind, b
    <3> QED
      BY <3>3 DEF h, u, f
  <2> QED
    BY <2>2, <2>4, <2>5
<1> QED
  BY <1>1, <1>2, <1>3 DEF Behind, f

\* All that is sent on the data socket
Wire(s) == Cat(s.preamble, s.bytes)

\* The bytes of the pair are the preamble and the answer.
LEMMA WireForm ==
  ASSUME NEW s, ResponseStream(s)
  PROVE  /\ Wire(s) \in Seq(Word) /\ Len(Wire(s)) \in Nat
         /\ Len(s.preamble) \in Nat /\ s.preamble \in Seq(Word)
         /\ Len(Wire(s)) = Len(s.preamble) + Len(s.bytes)
         /\ \A i \in 1..Len(s.preamble) : Wire(s)[i] = s.preamble[i]
         /\ \A i \in 1..Len(s.bytes) : Wire(s)[Len(s.preamble) + i] = s.bytes[i]
<1> DEFINE u == s.preamble  f == s.bytes  w == Wire(s)  K == Len(f)  L == Len(u)  M == Len(w)
<1>1. f \in Seq(Word) /\ K \in Nat
  BY BodyKnown
<1>2. u \in Seq(Word) /\ L \in Nat
  <2>1. u \in Seq(STRING) /\ STRING \subseteq Word
    BY DEF ResponseStream, Word
  <2>2. u \in Seq(Word)
    BY <2>1, SeqMonotonic, Zenon
  <2> QED
    BY <2>2
<1>3. w = Cat(u, f)
  BY DEF Wire
<1> HIDE DEF u, f, w
<1>4. Joins(w, Word, u, f)
  BY <1>1, <1>2, <1>3, Concat
<1>5. /\ w \in Seq(Word) /\ M \in Nat /\ M <= L + K /\ L + K <= M
      /\ \A i \in 1..L : w[i] = u[i]
      /\ \A i \in 1..K : w[L + i] = f[i]
  BY <1>4 DEF Joins
<1> HIDE DEF K, L, M
<1>6. M = L + K
  BY <1>1, <1>2, <1>5
<1> QED
  BY <1>1, <1>2, <1>5, <1>6 DEF u, f, w, K, L, M

\* What has been sent when n tokens of the answer have come
LEMMA WireSent ==
  ASSUME NEW s, ResponseStream(s), NEW n \in 0..Len(s.bytes)
  PROVE  /\ s.preamble \o SubSeq(s.bytes, 1, n) = Window(Wire(s), 0, Len(s.preamble) + n)
         /\ Len(s.preamble \o SubSeq(s.bytes, 1, n)) = Len(s.preamble) + n
<1> DEFINE u == s.preamble  f == s.bytes  w == Wire(s)  v == Window(f, 0, n)
           K == Len(f)  L == Len(u)  M == Len(w)  V == Len(v)
           c == Cat(u, v)  C == Len(c)
<1>1. /\ w \in Seq(Word) /\ M \in Nat /\ L \in Nat /\ u \in Seq(Word) /\ M = L + K
      /\ \A i \in 1..L : w[i] = u[i]
      /\ \A i \in 1..K : w[L + i] = f[i]
      /\ f \in Seq(Word) /\ K \in Nat
  BY WireForm, BodyKnown
<1>2. n \in Nat /\ n <= K
  BY <1>1
<1>3. s.preamble \o SubSeq(s.bytes, 1, n) = c
  BY DEF Cat, Window
<1> HIDE DEF u, f, w, v, c
<1>4. Shows(v, Word, f, 0, n)
  <2>1. 0 \in Nat /\ n \in 0..Len(f) /\ n - 0 = n
    BY <1>1, <1>2 DEF K
  <2>2. Shows(v, Word, f, 0, n - 0)
    BY <1>1, <2>1, WindowShows DEF v
  <2> QED
    BY <2>1, <2>2
<1>5. v \in Seq(Word) /\ V \in Nat /\ V <= n /\ n <= V /\ \A i \in 1..n : v[i] = f[0 + i]
  BY <1>4 DEF Shows
<1>6. Joins(c, Word, u, v)
  BY <1>1, <1>5, Concat DEF c
<1>7. /\ c \in Seq(Word) /\ C \in Nat /\ C <= L + V /\ L + V <= C
      /\ \A i \in 1..L : c[i] = u[i]
      /\ \A i \in 1..V : c[L + i] = v[i]
  BY <1>6 DEF Joins
<1> HIDE DEF K, L, M, V, C
<1>8. V = n /\ C = L + n /\ L + n \in Nat /\ L + n <= M
  BY <1>1, <1>2, <1>5, <1>7
<1>9. ASSUME NEW i \in 1..(L + n) PROVE c[i] = w[i]
  <2>1. CASE i <= L
    <3>1. i \in 1..L
      BY <1>1, <1>8, <2>1
    <3> QED
      BY <1>1, <1>7, <3>1
  <2>2. CASE ~(i <= L)
    <3> DEFINE j == i - L
    <3>1. j \in 1..n /\ j \in 1..V /\ j \in 1..K /\ L + j = i /\ 0 + j = j
      BY <1>1, <1>2, <1>8, <2>2
    <3> HIDE DEF j
    <3>2. c[L + j] = v[j] /\ v[j] = f[0 + j] /\ w[L + j] = f[j]
      BY <1>1, <1>5, <1>7, <3>1
    <3> QED
      BY <3>1, <3>2
  <2> QED
    BY <2>1, <2>2
<1>10. Shows(c, Word, w, 0, L + n)
  <2>1. \A i \in 1..(L + n) : c[i] = w[0 + i]
    BY <1>8, <1>9
  <2>2. C \in Nat /\ C <= L + n /\ L + n <= C
    BY <1>7, <1>8
  <2> QED
    BY <1>7, <2>1, <2>2 DEF Shows, C
<1>11. Shows(Window(w, 0, L + n), Word, w, 0, L + n)
  <2>1. 0 \in Nat /\ L + n \in 0..Len(w) /\ (L + n) - 0 = L + n
    BY <1>1, <1>8 DEF M
  <2>2. Shows(Window(w, 0, L + n), Word, w, 0, (L + n) - 0)
    BY <1>1, <2>1, WindowShows
  <2> QED
    BY <2>1, <2>2
<1>12. c = Window(w, 0, L + n)
  BY <1>8, <1>10, <1>11, ShowsSame, Zenon
<1> QED
  BY <1>3, <1>8, <1>12 DEF w, u, L, C

\* The first line feed among c tokens
LEMMA LineFeed ==
  ASSUME NEW f \in Seq(Word), NEW c \in 0..Len(f), NEW n, n = Find(Window(f, 0, c), <<"lf">>)
  PROVE  /\ n \in Nat
         /\ n = 0 => \A i \in 1..c : f[i] # "lf"
         /\ n # 0 => n \in 1..c /\ f[n] = "lf" /\ \A i \in 1..c : f[i] = "lf" => n <= i
<1> DEFINE t == "lf"  p == <<t>>  w == Window(f, 0, c)
<1>1. p \in Seq(Word) /\ Len(p) = 1 /\ p[1] = t
  <2>1. t \in Word
    BY DEF Word
  <2> HIDE DEF t
  <2> QED
    BY <2>1
<1>2. n = Find(w, p) /\ t = "lf"
  OBVIOUS
<1>3. 0 \in Nat /\ c \in 0..Len(f) /\ c \in Nat /\ Len(f) \in Nat
  OBVIOUS
<1> HIDE DEF t, p, w
<1>4. w \in Seq(Word)
  BY <1>3, WindowShows DEF Shows, w
<1>5. \A i \in Nat : Occurs(w, p, i) <=> i # 0 /\ 0 + i + Len(p) <= c + 1 /\ Occurs(f, p, 0 + i)
  BY <1>1, <1>3, OccursInWindow DEF w
<1>6. ASSUME NEW i \in Nat PROVE Occurs(w, p, i) <=> i \in 1..c /\ f[i] = t
  <2>1. Occurs(w, p, i) <=> i # 0 /\ i <= c /\ Occurs(f, p, i)
    BY <1>1, <1>3, <1>5
  <2>2. ASSUME i \in 1..c PROVE Occurs(f, p, i) <=> f[i] = t
    <3>1. (i - 1) + 1 = i /\ i + 1 <= Len(f) + 1 /\ i \in Nat \ {0}
      BY <1>3, <2>2
    <3>2. (\A j \in 1..1 : f[(i - 1) + j] = p[j]) <=> f[(i - 1) + 1] = p[1]
      OBVIOUS
    <3>3. (\A j \in 1..1 : f[(i - 1) + j] = p[j]) <=> f[i] = t
      BY <1>1, <3>1, <3>2
    <3> QED
      BY <1>1, <3>1, <3>3 DEF Occurs
  <2>3. i \in 1..c <=> i # 0 /\ i <= c
    BY <1>3
  <2> QED
    BY <2>1, <2>2, <2>3
<1>7. /\ n \in Nat
      /\ n = 0 => \A i \in Nat : ~Occurs(w, p, i)
      /\ n # 0 => Occurs(w, p, n) /\ \A i \in Nat : Occurs(w, p, i) => n <= i
  BY <1>1, <1>2, <1>4, Found
<1>8. \A i \in 1..c : i \in Nat
  BY <1>3
<1> QED
  BY <1>2, <1>6, <1>7, <1>8

\* The tokens of an answer on the wire
LEMMA WireTail ==
  ASSUME NEW s, ResponseStream(s), NEW x \in 0..Len(s.bytes), NEW y \in x..Len(s.bytes)
  PROVE  Window(Wire(s), Len(s.preamble) + x, Len(s.preamble) + y) = Window(s.bytes, x, y)
<1> DEFINE w == Wire(s)  f == s.bytes  L == Len(s.preamble)  K == Len(f)  M == Len(w)
<1>1. /\ w \in Seq(Word) /\ M \in Nat /\ L \in Nat /\ M = L + K
      /\ \A i \in 1..K : w[L + i] = f[i]
      /\ f \in Seq(Word) /\ K \in Nat
  BY WireForm, BodyKnown
<1>2. x \in Nat /\ y \in Nat /\ x <= y /\ y <= K
  BY <1>1
<1> HIDE DEF w, f, L
<1>3. Shows(Window(f, x, y), Word, f, x, y - x)
  <2>1. x \in Nat /\ y \in x..Len(f)
    BY <1>1, <1>2
  <2> QED
    BY <1>1, <2>1, WindowShows
<1>4. Shows(Window(w, L + x, L + y), Word, w, L + x, y - x)
  <2>1. L + x \in Nat /\ L + y \in (L + x)..Len(w) /\ (L + y) - (L + x) = y - x
    BY <1>1, <1>2
  <2>2. Shows(Window(w, L + x, L + y), Word, w, L + x, (L + y) - (L + x))
    BY <1>1, <2>1, WindowShows
  <2> QED
    BY <2>1, <2>2
<1> HIDE DEF K, M
<1>5. ASSUME NEW i \in 1..(y - x) PROVE w[(L + x) + i] = f[x + i]
  <2>1. x + i \in 1..K /\ (L + x) + i = L + (x + i)
    BY <1>1, <1>2
  <2> QED
    BY <1>1, <2>1
<1>6. Shows(Window(w, L + x, L + y), Word, f, x, y - x)
  BY <1>4, <1>5 DEF Shows
<1>7. y - x \in Nat
  BY <1>2
<1> QED
  BY <1>3, <1>6, <1>7, ShowsSame, Zenon DEF w, f, L

\* The preamble of a pair.
LEMMA PreambleForm ==
  /\ Preamble(PairId, "") \in Seq(Word) /\ Len(Preamble(PairId, "")) = 4
  /\ Preamble(PairId, "")[1] = "TT/1 PAIR" /\ Preamble(PairId, "")[2] = "pair"
  /\ Preamble(PairId, "")[3] = "cr" /\ Preamble(PairId, "")[4] = "lf"
<1> DEFINE a == "TT/1 PAIR"  b == "pair"  u == <<a, b>>  e == <<>>  v == CRLF
           h == Cat(u, e)  w == Cat(h, v)
<1>1. Preamble(PairId, "") = w
  BY DEF Preamble, PairId, Cat
<1>2. a \in Word /\ b \in Word
  BY DEF Word
<1>3. v \in Seq(Word) /\ Len(v) \in Nat /\ Len(v) <= 2 /\ 2 <= Len(v) /\ v[1] = "cr" /\ v[2] = "lf"
  BY EndOfLine
<1> HIDE DEF a, b, v
<1>4. u \in Seq(Word) /\ Len(u) = 2 /\ u[1] = a /\ u[2] = b
  BY <1>2
<1>5. e \in Seq(Word) /\ Len(e) = 0
  OBVIOUS
<1> HIDE DEF u, e
<1>6. Joins(h, Word, u, e)
  BY <1>4, <1>5, Concat
<1> HIDE DEF h
<1>7. h \in Seq(Word) /\ Len(h) \in Nat /\ Len(h) <= 2 /\ 2 <= Len(h) /\ h[1] = a /\ h[2] = b
  BY <1>4, <1>5, <1>6 DEF Joins
<1>8. Joins(w, Word, h, v)
  BY <1>3, <1>7, Concat
<1> HIDE DEF w
<1> DEFINE l == Len(h)  k == Len(v)  m == Len(w)
<1>9. /\ m \in Nat /\ m <= l + k /\ l + k <= m
      /\ \A i \in 1..l : w[i] = h[i]
      /\ \A i \in 1..k : w[l + i] = v[i]
      /\ l \in Nat /\ k \in Nat /\ l <= 2 /\ 2 <= l /\ k <= 2 /\ 2 <= k
  BY <1>3, <1>7, <1>8 DEF Joins
<1> HIDE DEF l, k, m
<1>10. l = 2 /\ k = 2 /\ m = 4
  BY <1>9
<1>11. w[1] = h[1] /\ w[2] = h[2] /\ w[2 + 1] = v[1] /\ w[2 + 2] = v[2]
  BY <1>9, <1>10
<1>12. w[3] = v[1] /\ w[4] = v[2]
  BY <1>11
<1>13. w[1] = a /\ w[2] = b /\ w[3] = "cr" /\ w[4] = "lf"
  <2>1. h[1] = a /\ h[2] = b
    BY <1>7
  <2>2. v[1] = "cr" /\ v[2] = "lf"
    BY <1>3
  <2> QED
    BY <1>11, <1>12, <2>1, <2>2, Zenon
<1>14. w \in Seq(Word) /\ Len(w) = 4
  BY <1>8, <1>10 DEF m, Joins
<1> QED
  BY <1>1, <1>13, <1>14, Zenon DEF a, b

\* The words of the line and the line itself
PairWord == "TT/1 PAIR"
PairLine == Preamble(PairId, "")
OpensPair(s) == s.preamble = PairLine

\* The words of the pair's line are plain words, and known to the pool.
LEMMA PairWords ==
  /\ PairWord \in Word /\ PairId \in Word
  /\ PairWord # "lf" /\ PairId # "lf"
  /\ \A w : w = <<PairWord, PairId>> => KnownPair(w, PairId)
  /\ PairLine[1] = PairWord /\ PairLine[2] = PairId
  /\ PairLine[3] = "cr" /\ PairLine[4] = "lf" /\ Len(PairLine) = 4
  /\ PairLine \in Seq(Word)
<1>1. PairWord \in Word
  BY Zenon DEF PairWord, Word
<1>2. PairId \in Word
  BY Zenon DEF PairId, Word
<1>3. PairWord # "lf"
  BY Zenon DEF PairWord
<1>4. PairId # "lf"
  BY Zenon DEF PairId
<1>5. ASSUME NEW w, w = <<PairWord, PairId>> PROVE KnownPair(w, PairId)
  BY <1>5, Zenon DEF PairWord, KnownPair
<1>6. /\ PairLine[1] = PairWord /\ PairLine[2] = PairId
      /\ PairLine[3] = "cr" /\ PairLine[4] = "lf" /\ Len(PairLine) = 4
      /\ PairLine \in Seq(Word)
  <2> DEFINE p == Preamble(PairId, "")
  <2>1. p[1] = "TT/1 PAIR" /\ p[2] = "pair" /\ p[3] = "cr" /\ p[4] = "lf" /\ Len(p) = 4
      /\ p \in Seq(Word)
    BY PreambleForm, Zenon
  <2>2. PairLine = p
    BY Zenon DEF PairLine
  <2> HIDE DEF p
  <2>3. PairWord = "TT/1 PAIR" /\ PairId = "pair"
    BY Zenon DEF PairWord, PairId
  <2> QED
    BY <2>1, <2>2, <2>3, Zenon
<1> QED
  BY <1>1, <1>2, <1>3, <1>4, <1>5, <1>6, Zenon

\* A relay that has read no line in the first q tokens on the wire
Held(s, q) == Relay("preamble", Window(Wire(s), 0, q), 0, NewDecoder, <<>>)

\* The tokens of the wire, for an answer of the pair
LEMMA WireOpens ==
  ASSUME NEW s, ResponseStream(s), OpensPair(s)
  PROVE  /\ Wire(s)[1] = PairWord /\ Wire(s)[2] = PairId /\ Wire(s)[3] = "cr"
         /\ Wire(s)[4] = "lf"
         /\ Len(s.preamble) = 4 /\ Len(Wire(s)) = 4 + Len(s.bytes)
<1>1. /\ Len(s.preamble) = 4
      /\ s.preamble[1] = PairWord /\ s.preamble[2] = PairId
      /\ s.preamble[3] = "cr" /\ s.preamble[4] = "lf"
  BY PairWords DEF OpensPair
<1> DEFINE u == s.preamble  w == Wire(s)
<1>2. (\A i \in 1..Len(u) : w[i] = u[i]) /\ Len(w) = Len(u) + Len(s.bytes)
  BY WireForm
<1> HIDE DEF u, w
<1>3. Len(u) = 4
  BY <1>1 DEF u
<1>4. \A i \in 1..4 : w[i] = u[i]
  BY <1>2, <1>3
<1>5. 1 \in 1..4 /\ 2 \in 1..4 /\ 3 \in 1..4 /\ 4 \in 1..4
  OBVIOUS
<1>6. w[1] = u[1] /\ w[2] = u[2] /\ w[3] = u[3] /\ w[4] = u[4]
  BY <1>4, <1>5
<1>7. w[1] = PairWord /\ w[2] = PairId /\ w[3] = "cr" /\ w[4] = "lf"
  BY <1>1, <1>6, Zenon DEF u
<1> QED
  BY <1>2, <1>3, <1>7, Zenon DEF u, w

\* The two words of the line
LEMMA LineWindow ==
  ASSUME NEW f \in Seq(Word), 2 <= Len(f), f[1] = PairWord, f[2] = PairId
  PROVE  Window(f, 0, 2) = <<PairWord, PairId>>
<1> DEFINE a == PairWord  b == PairId  v == <<a, b>>
<1>1. a \in Word /\ b \in Word /\ f[1] = a /\ f[2] = b
  BY PairWords
<1>2. v = <<PairWord, PairId>>
  OBVIOUS
<1> HIDE DEF a, b
<1>3. v \in Seq(Word) /\ Len(v) = 2 /\ v[1] = a /\ v[2] = b
  BY <1>1
<1> HIDE DEF v
<1>4. \A i \in 1..2 : v[i] = f[0 + i]
  <2>1. \A i \in 1..2 : i = 1 \/ i = 2
    OBVIOUS
  <2>2. 0 + 1 = 1 /\ 0 + 2 = 2
    OBVIOUS
  <2> QED
    BY <1>1, <1>3, <2>1, <2>2, Zenon
<1>5. Shows(v, Word, f, 0, 2)
  BY <1>3, <1>4 DEF Shows
<1>6. Shows(Window(f, 0, 2), Word, f, 0, 2)
  <2>1. 0 \in Nat /\ 2 \in 0..Len(f) /\ 2 - 0 = 2
    OBVIOUS
  <2>2. Shows(Window(f, 0, 2), Word, f, 0, 2 - 0)
    BY <2>1, WindowShows
  <2> QED
    BY <2>1, <2>2
<1>7. 2 \in Nat
  OBVIOUS
<1> QED
  BY <1>2, <1>5, <1>6, <1>7, ShowsSame, Zenon

\* The opening line of an answer of the pair
LEMMA PreambleRead ==
  ASSUME NEW s, ResponseStream(s), OpensPair(s),
         NEW q \in 0..Len(Wire(s))
  PROVE  /\ q < 4 => ReadPreamble(Held(s, q), PairId) = Held(s, q)
         /\ 4 <= q => Behind(s, ReadPreamble(Held(s, q), PairId), 0)
<1> DEFINE f == Wire(s)  w == Window(f, 0, q)  r == Held(s, q)
           n == Find(w, <<"lf">>)  K == Len(s.bytes)
<1>1. f \in Seq(Word) /\ Len(f) = 4 + K /\ K \in Nat /\ Len(s.preamble) = 4
  BY WireForm, WireOpens, BodyKnown
<1>2. f[1] = PairWord /\ f[2] = PairId /\ f[3] = "cr" /\ f[4] = "lf"
  BY WireOpens
<1>3. q \in Nat /\ q <= 4 + K
  BY <1>1
<1>4. r.phase = "preamble" /\ r.buf = w
  BY DEF Held, Relay
<1>5. r = Relay("preamble", w, 0, NewDecoder, <<>>)
  BY DEF Held
<1> HIDE DEF f, r
<1>6. /\ n \in Nat
      /\ n = 0 => \A i \in 1..q : f[i] # "lf"
      /\ n # 0 => n \in 1..q /\ f[n] = "lf" /\ \A i \in 1..q : f[i] = "lf" => n <= i
  <2>1. q \in 0..Len(f) /\ n = Find(Window(f, 0, q), <<"lf">>)
    BY <1>1, <1>3
  <2> HIDE DEF w, n
  <2> QED
    BY <1>1, <2>1, LineFeed
<1> HIDE DEF w, n, K
<1>7. ASSUME q < 4 PROVE ReadPreamble(r, PairId) = r
  <2>1. n = 0
    <3>1. SUFFICES ASSUME n # 0 PROVE FALSE
      OBVIOUS
    <3>2. n \in 1..q /\ f[n] = "lf"
      BY <1>6, <3>1
    <3>3. n = 1 \/ n = 2 \/ n = 3
      BY <1>3, <1>7, <3>2
    <3>4. f[1] # "lf" /\ f[2] # "lf" /\ f[3] # "lf"
      BY <1>2, PairWords
    <3> QED
      BY <3>2, <3>3, <3>4
  <2>2. ~(Len(w) > DATA_PREAMBLE_MAX_BYTES)
    <3>1. Len(w) \in Nat /\ Len(w) <= q
      <4>1. 0 \in Nat /\ q \in 0..Len(f) /\ q - 0 = q
        BY <1>1, <1>3
      <4>2. Shows(w, Word, f, 0, q - 0)
        BY <1>1, <4>1, WindowShows DEF w
      <4> QED
        BY <4>1, <4>2 DEF Shows
    <3>2. DATA_PREAMBLE_MAX_BYTES \in Nat /\ DATA_PREAMBLE_MAX_BYTES >= 4
      BY StreamsAssumption, HttpAssumption, PairWords DEF PairLine
    <3> DEFINE W == Len(w)
    <3> HIDE DEF W
    <3>3. W \in Nat /\ W <= q
      BY <3>1 DEF W
    <3>4. ~(W > DATA_PREAMBLE_MAX_BYTES)
      BY <1>3, <1>7, <3>2, <3>3
    <3> QED
      BY <3>4 DEF W
  <2> QED
    BY <1>4, <2>1, <2>2, Zenon DEF ReadPreamble, n
<1>8. ASSUME 4 <= q PROVE Behind(s, ReadPreamble(r, PairId), 0)
  <2>1. n = 4
    <3>1. 4 \in 1..q
      BY <1>3, <1>8
    <3>2. n # 0 /\ n \in 1..q /\ f[n] = "lf" /\ n <= 4
      BY <1>2, <1>6, <3>1
    <3>3. n = 1 \/ n = 2 \/ n = 3 \/ n = 4
      BY <1>3, <3>2
    <3>4. f[1] # "lf" /\ f[2] # "lf" /\ f[3] # "lf"
      BY <1>2, PairWords
    <3> QED
      BY <3>2, <3>3, <3>4
  <2>2. Shows(w, Word, f, 0, q)
    <3>1. 0 \in Nat /\ q \in 0..Len(f) /\ q - 0 = q
      BY <1>1, <1>3
    <3>2. Shows(w, Word, f, 0, q - 0)
      BY <1>1, <3>1, WindowShows DEF w
    <3> QED
      BY <3>1, <3>2
  <2>3. w[3] = "cr"
    <3>1. 3 \in 1..q /\ 0 + 3 = 3
      BY <1>3, <1>8
    <3>2. w[3] = f[0 + 3]
      BY <2>2, <3>1 DEF Shows
    <3> QED
      BY <1>2, <3>1, <3>2
  <2>4. SubSeq(w, 1, 2) = <<PairWord, PairId>>
    <3>1. 0 \in Nat /\ q \in 0..Len(f) /\ 2 \in 0..(q - 0) /\ 0 + 2 = 2
      BY <1>1, <1>3, <1>8
    <3>2. SubSeq(w, 1, 2) = Window(f, 0, 0 + 2)
      <4>1. /\ Skip(w, 2) = Window(f, 0 + 2, q)
            /\ SubSeq(w, 1, 2) = Window(f, 0, 0 + 2)
            /\ Len(w) = q - 0
            /\ w = <<>> <=> q = 0
        BY <1>1, <3>1, SkipWindow, ZenonT(30) DEF w
      <4> QED
        BY <4>1, Zenon
    <3>3. 2 <= Len(f)
      BY <1>1
    <3>4. Window(f, 0, 2) = <<PairWord, PairId>>
      BY <1>1, <1>2, <3>3, LineWindow
    <3> QED
      BY <3>1, <3>2, <3>4
  <2> DEFINE v == <<>>  next == Enters(r, "head", v)
  <2>5. ReadPreamble(r, PairId) = next
    <3> DEFINE e == IF n > 1 /\ r.buf[n - 1] = "cr" THEN n - 2 ELSE n - 1
    <3>1. r.buf[4 - 1] = "cr"
      <4>1. 4 - 1 = 3
        OBVIOUS
      <4> QED
        BY <1>4, <2>3, <4>1
    <3>2. e = 2
      <4>1. n > 1 /\ n - 2 = 2 /\ r.buf[n - 1] = "cr"
        BY <2>1, <3>1
      <4> QED
        BY <4>1
    <3>3. KnownPair(SubSeq(r.buf, 1, e), PairId)
      BY <1>4, <2>4, <3>2, PairWords
    <3>4. n # 0 /\ n = Find(r.buf, <<"lf">>)
      BY <1>4, <2>1 DEF n
    <3>5. ReadPreamble(r, PairId) = [r EXCEPT !.phase = "head", !.buf = <<>>]
      BY <3>3, <3>4, Zenon DEF ReadPreamble
    <3> QED
      BY <3>5 DEF Enters
  <2>6. next = Relay("head", v, 0, NewDecoder, <<>>)
    BY <1>5, RelayEnters
  <2>7. Window(s.bytes, 0, 0) = v
    BY BodyKnown, EmptyWindow
  <2> HIDE DEF v, next
  <2>8. Behind(s, next, 0)
    BY <2>6, <2>7, 0 < 5 DEF Behind
  <2> QED
    BY <2>5, <2>8
<1> QED
  BY <1>7, <1>8 DEF r

-----------------------------------------------------------------------------
\* A pair that opens with a foreign line is refused

\* A relay that has passed nothing on: it waits for the end of a line, or it has seen a wrong one
Refused(s, r, q) == r = Held(s, q) \/ (r.phase = "destroyed" /\ r.out = <<>>)

\* What stands in a sequence of one, two, three or four words
LEMMA FirstWords ==
  ASSUME NEW u \in Seq(Word), NEW v \in Seq(Word), NEW n \in 0..Len(u), Len(v) = n,
         \A i \in 1..n : u[i] = v[i]
  PROVE  SubSeq(u, 1, n) = v
<1>1. Len(u) \in Nat /\ n \in Nat
  OBVIOUS
<1>2. Shows(v, Word, u, 0, n)
  <2>1. \A i \in 1..n : v[i] = u[0 + i]
    <3>1. \A i \in 1..n : 0 + i = i
      BY <1>1
    <3> QED
      BY <3>1
  <2>2. Len(v) \in Nat /\ Len(v) <= n /\ n <= Len(v)
    BY <1>1
  <2> QED
    BY <2>1, <2>2 DEF Shows
<1>3. Shows(Window(u, 0, n), Word, u, 0, n)
  <2>1. 0 \in Nat /\ n \in 0..Len(u) /\ n - 0 = n
    BY <1>1
  <2>2. Shows(Window(u, 0, n), Word, u, 0, n - 0)
    BY <2>1, WindowShows
  <2> QED
    BY <2>1, <2>2
<1>4. Window(u, 0, n) = v
  BY <1>1, <1>2, <1>3, ShowsSame, Zenon
<1>5. Window(u, 0, n) = SubSeq(u, 1, n)
  BY DEF Window
<1> QED
  BY <1>4, <1>5

\* The words that open an answer of the pair do not stand on another wire.
LEMMA ForeignWords ==
  ASSUME NEW s, ResponseStream(s), ~OpensPair(s), NEW n \in {3, 4}, n <= Len(Wire(s)),
         Wire(s)[1] = PairWord, Wire(s)[2] = PairId, Wire(s)[n] = "lf",
         n = 4 => Wire(s)[3] = "cr"
  PROVE  FALSE
<1> DEFINE f == Wire(s)  u == s.preamble  L == Len(u)  K == Len(s.bytes)
           v == <<PairWord, PairId, "lf">>
<1>1. /\ L \in Nat /\ u \in Seq(Word) /\ K \in Nat /\ 5 <= K
      /\ \A i \in 1..L : f[i] = u[i]
      /\ \A i \in 1..K : f[L + i] = s.bytes[i]
      /\ s.bytes[1] = "HTTP/1.1"
  BY WireForm, BodyKnown DEF Headed
<1>2. \A m \in 0..L : SubSeq(u, 1, m) # PairLine /\ SubSeq(u, 1, m) # v
  <2>1. \A m \in 0..Len(s.preamble) :
          SubSeq(s.preamble, 1, m) \notin {Preamble(PairId, ""), <<"TT/1 PAIR", PairId, "lf">>}
    BY Zenon DEF ResponseStream, OpensPair, PairLine
  <2>2. v = <<"TT/1 PAIR", PairId, "lf">> /\ PairLine = Preamble(PairId, "")
    BY Zenon DEF PairWord, PairLine
  <2> HIDE DEF v
  <2> QED
    BY <2>1, <2>2, Zenon
<1>3. f[1] = PairWord /\ f[2] = PairId /\ f[n] = "lf" /\ (n = 4 => f[3] = "cr")
  OBVIOUS
<1>4. n \in Nat /\ (n = 3 \/ n = 4)
  OBVIOUS
<1>5. /\ v \in Seq(Word) /\ Len(v) = 3 /\ v[1] = PairWord /\ v[2] = PairId /\ v[3] = "lf"
  <2> DEFINE t == "lf"
  <2>1. PairWord \in Word /\ PairId \in Word /\ t \in Word
    BY PairWords, Zenon DEF Word
  <2> HIDE DEF t
  <2>2. v = <<PairWord, PairId, t>>
    BY DEF t
  <2> HIDE DEF v
  <2>3. v \in Seq(Word) /\ Len(v) = 3 /\ v[1] = PairWord /\ v[2] = PairId /\ v[3] = t
    BY <2>1, <2>2
  <2> QED
    BY <2>3 DEF t
<1> HIDE DEF f, u, v, L, K
<1>6. CASE n <= L
  <2>1. n \in 0..L /\ 1 \in 1..L /\ 2 \in 1..L /\ 3 \in 1..L /\ n \in 1..L
    BY <1>1, <1>4, <1>6
  <2>2. u[1] = PairWord /\ u[2] = PairId /\ u[n] = "lf" /\ (n = 4 => u[3] = "cr")
    BY <1>1, <1>3, <2>1
  <2>3. CASE n = 3
    <3>1. \A i \in 1..3 : i = 1 \/ i = 2 \/ i = 3
      OBVIOUS
    <3>2. u[3] = "lf"
      BY <2>2, <2>3
    <3>3. \A i \in 1..3 : u[i] = v[i]
      BY <1>5, <2>2, <3>1, <3>2, Zenon
    <3>4. 3 \in 0..Len(u)
      BY <2>1, <2>3 DEF L
    <3>5. SubSeq(u, 1, 3) = v
      BY <1>1, <1>5, <3>3, <3>4, FirstWords
    <3> QED
      BY <1>2, <2>1, <2>3, <3>5
  <2>4. CASE n = 4
    <3>1. \A i \in 1..4 : i = 1 \/ i = 2 \/ i = 3 \/ i = 4
      OBVIOUS
    <3>2. u[3] = "cr" /\ u[4] = "lf"
      BY <2>2, <2>4
    <3>3. \A i \in 1..4 : u[i] = PairLine[i]
      BY <2>2, <3>1, <3>2, PairWords, Zenon
    <3>4. 4 \in 0..Len(u)
      BY <2>1, <2>4 DEF L
    <3>5. PairLine \in Seq(Word) /\ Len(PairLine) = 4
      BY PairWords
    <3>6. SubSeq(u, 1, 4) = PairLine
      BY <1>1, <3>3, <3>4, <3>5, FirstWords
    <3> QED
      BY <1>2, <2>1, <2>4, <3>6
  <2> QED
    BY <1>4, <2>3, <2>4
<1>7. CASE ~(n <= L)
  <2>1. f[L + 1] = "HTTP/1.1"
    <3>1. 1 \in 1..K
      BY <1>1
    <3> QED
      BY <1>1, <3>1
  <2>2. L = 0 \/ L = 1 \/ L = 2 \/ (L = 3 /\ n = 4)
    BY <1>1, <1>4, <1>7
  <2>3. f[1] # "HTTP/1.1" /\ f[2] # "HTTP/1.1"
    <3>1. PairWord # "HTTP/1.1"
      BY Zenon DEF PairWord
    <3>2. PairId # "HTTP/1.1"
      BY Zenon DEF PairId
    <3> QED
      BY <1>3, <3>1, <3>2
  <2>4. f[3] = "cr" \/ f[3] = "lf"
    BY <1>3, <1>4
  <2>5. n = 4 => f[4] = "lf"
    BY <1>3
  <2>6. "cr" # "HTTP/1.1" /\ "lf" # "HTTP/1.1"
    OBVIOUS
  <2>7. L = 0 => f[1] = "HTTP/1.1"
    BY <2>1
  <2>8. L = 1 => f[2] = "HTTP/1.1"
    BY <2>1
  <2>9. L = 2 => f[3] = "HTTP/1.1"
    BY <2>1
  <2>10. L = 3 => f[4] = "HTTP/1.1"
    BY <2>1
  <2> QED
    BY <2>2, <2>3, <2>4, <2>5, <2>6, <2>7, <2>8, <2>9, <2>10, Zenon
<1> QED
  BY <1>6, <1>7

\* The opening line of another socket
LEMMA ForeignRead ==
  ASSUME NEW s, ResponseStream(s), ~OpensPair(s), NEW q \in 0..Len(Wire(s))
  PROVE  Refused(s, ReadPreamble(Held(s, q), PairId), q)
<1> DEFINE f == Wire(s)  w == Window(f, 0, q)  h == s.head  r == Held(s, q)
           n == Find(w, <<"lf">>)  M == Len(f)
           destroyed == [r EXCEPT !.phase = "destroyed"]
           e == IF n > 1 /\ r.buf[n - 1] = "cr" THEN n - 2 ELSE n - 1
<1>1. f \in Seq(Word) /\ M \in Nat /\ q \in Nat /\ q <= M
  <2>1. f \in Seq(Word) /\ M \in Nat
    BY WireForm
  <2>2. q \in 0..M
    OBVIOUS
  <2> HIDE DEF f, w, h, r, n, M, destroyed, e
  <2> QED
    BY <2>1, <2>2
<1>2. r.phase = "preamble" /\ r.buf = w /\ r.out = <<>>
  BY DEF Held, Relay
<1>3. destroyed.phase = "destroyed" /\ destroyed.out = <<>>
  <2>1. r = Relay("preamble", w, 0, NewDecoder, <<>>)
    BY DEF Held
  <2> HIDE DEF w, r
  <2> QED
    BY <2>1 DEF Relay
<1>4. Refused(s, r, q) /\ Refused(s, destroyed, q)
  <2> HIDE DEF destroyed
  <2> QED
    BY <1>3, Zenon DEF Refused
<1> HIDE DEF f, w, r
<1>5. /\ n \in Nat
      /\ n # 0 => n \in 1..q /\ f[n] = "lf"
  <2>1. q \in 0..Len(f) /\ n = Find(Window(f, 0, q), <<"lf">>)
    BY <1>1 DEF w
  <2> HIDE DEF n
  <2> QED
    BY <1>1, <2>1, LineFeed
<1> HIDE DEF n, destroyed, M
<1>6. CASE n = 0
  <2>1. ReadPreamble(r, PairId) \in {r, destroyed}
    BY <1>2, <1>6 DEF ReadPreamble, n, destroyed
  <2> QED
    BY <1>4, <2>1 DEF r
<1>7. CASE n # 0
  <2>1. n \in Nat /\ 1 <= n /\ n <= q /\ f[n] = "lf"
    BY <1>1, <1>5, <1>7
  <2>2. Shows(w, Word, f, 0, q)
    <3>1. 0 \in Nat /\ q \in 0..Len(f) /\ q - 0 = q
      BY <1>1 DEF M
    <3>2. Shows(w, Word, f, 0, q - 0)
      BY <1>1, <3>1, WindowShows DEF w
    <3> QED
      BY <3>1, <3>2
  <2>3. \A i \in 1..q : w[i] = f[i]
    <3>1. \A i \in 1..q : w[i] = f[0 + i] /\ 0 + i = i
      BY <1>1, <2>2 DEF Shows
    <3> QED
      BY <3>1
  <2>4. ~KnownPair(SubSeq(r.buf, 1, e), PairId)
    <3>1. SUFFICES ASSUME SubSeq(w, 1, e) = <<PairWord, PairId>> PROVE FALSE
      BY <1>2, Zenon DEF KnownPair, PairWord
    <3>2. e \in Nat /\ e <= q /\ (e = n - 1 \/ (e = n - 2 /\ w[n - 1] = "cr" /\ 2 <= n))
      <4>1. CASE n > 1 /\ r.buf[n - 1] = "cr"
        BY <1>1, <1>2, <2>1, <4>1
      <4>2. CASE ~(n > 1 /\ r.buf[n - 1] = "cr")
        BY <1>1, <1>2, <2>1, <4>2
      <4> QED
        BY <4>1, <4>2
    <3> HIDE DEF e
    <3> DEFINE v == Window(w, 0, e)  W == Len(w)
    <3>3. v = <<PairWord, PairId>>
      BY <3>1 DEF Window
    <3>4. w \in Seq(Word) /\ W \in Nat /\ W <= q /\ q <= W
      BY <2>2 DEF Shows
    <3>5. Shows(v, Word, w, 0, e)
      <4>1. e <= W
        <5> HIDE DEF W
        <5> QED
          BY <1>1, <3>2, <3>4
      <4>2. 0 \in Nat /\ e \in 0..Len(w) /\ e - 0 = e
        BY <3>2, <3>4, <4>1
      <4>3. Shows(v, Word, w, 0, e - 0)
        BY <3>4, <4>2, WindowShows
      <4> QED
        BY <4>2, <4>3
    <3>6. e = 2
      <4>1. Len(v) = 2
        BY <3>3
      <4>2. Len(v) <= e /\ e <= Len(v)
        BY <3>5 DEF Shows
      <4> HIDE DEF v
      <4> QED
        BY <3>2, <4>1, <4>2
    <3>7. w[1] = PairWord /\ w[2] = PairId
      <4>1. \A i \in 1..2 : v[i] = w[0 + i]
        BY <3>5, <3>6 DEF Shows
      <4>2. 1 \in 1..2 /\ 2 \in 1..2 /\ 0 + 1 = 1 /\ 0 + 2 = 2
        OBVIOUS
      <4>3. v[1] = w[1] /\ v[2] = w[2]
        BY <4>1, <4>2
      <4>4. v[1] = PairWord /\ v[2] = PairId
        BY <3>3
      <4> QED
        BY <4>3, <4>4
    <3>8. n = 3 \/ (n = 4 /\ w[3] = "cr")
      <4>1. CASE e = n - 1
        BY <2>1, <3>6, <4>1
      <4>2. CASE e = n - 2 /\ w[n - 1] = "cr" /\ 2 <= n
        <5>1. n = 4
          BY <2>1, <3>6, <4>2
        <5>2. n - 1 = 3
          BY <5>1
        <5> QED
          BY <4>2, <5>1, <5>2
      <4> QED
        BY <3>2, <4>1, <4>2
    <3>9. 1 \in 1..q /\ 2 \in 1..q /\ 3 \in 1..q /\ n \in {3, 4} /\ n <= M
      BY <1>1, <2>1, <3>8
    <3>10. f[1] = PairWord /\ f[2] = PairId /\ f[n] = "lf" /\ (n = 4 => f[3] = "cr")
      BY <2>1, <2>3, <3>7, <3>8, <3>9
    <3> QED
      BY <3>9, <3>10, ForeignWords, Zenon DEF f, M
  <2>5. ReadPreamble(r, PairId) = destroyed
    <3>1. Find(r.buf, <<"lf">>) = n
      BY <1>2 DEF n
    <3> HIDE DEF e
    <3>2. ReadPreamble(r, PairId)
            = IF KnownPair(SubSeq(r.buf, 1, e), PairId)
                THEN [r EXCEPT !.phase = "head", !.buf = <<>>]
                ELSE destroyed
      BY <1>7, <3>1, Zenon DEF ReadPreamble, destroyed, e
    <3> QED
      BY <2>4, <3>2
  <2> QED
    BY <1>4, <2>5 DEF r
<1> QED
  BY <1>6, <1>7

-----------------------------------------------------------------------------
\* A pair that opens with its own line is read

\* The relay behind q tokens on the wire of an answer of the pair
Relayed(s, r, q) ==
  \/ q < 4 /\ r = Held(s, q)
  \/ 4 <= q /\ Behind(s, r, q - 4)

\* The relay behind the end of the socket, when n tokens of the answer had come
Finished(s, r, n) ==
  /\ r.phase = "ended"
  /\ \/ n < 5 /\ r.out = <<>>
     \/ /\ 5 <= n /\ r.badGateway = FALSE
        /\ \E o \in 0..Len(s.body) :
             r.out = Window(s.body, 0, o) /\ (n = Len(s.bytes) => o = Len(s.body))

\* What the relay shows of itself.
Says(r, phase, buf, out) ==
  r.phase = phase /\ r.buf = buf /\ r.out = out /\ r.badGateway = FALSE

\* The relay's record shows it.
LEMMA RelaySays ==
  ASSUME NEW phase, NEW buf, NEW n, NEW d, NEW out
  PROVE  Says(Relay(phase, buf, n, d, out), phase, buf, out)
BY DEF Relay, Says

\* The body of an answer that is not an interim one
LEMMA BodyWords ==
  ASSUME NEW s, ResponseStream(s), s.head.status # "interim"
  PROVE  s.body \in Seq(Word) /\ Len(s.body) \in Nat
<1>1. s.head.status \in {"empty", "final"}
  BY DEF ResponseStream
<1>2. CASE HasBody(s)
  BY <1>2, BodyKnown
<1>3. CASE ~HasBody(s)
  <2>1. s.body = <<>>
    BY <1>1, <1>3, BodyKnown DEF HasBody
  <2> QED
    BY <2>1
<1> QED
  BY <1>2, <1>3

\* What was passed on is a prefix of the body, and all of it at its end.
LEMMA BodyParts ==
  ASSUME NEW s, ResponseStream(s), s.head.status # "interim", NEW o \in 0..Len(s.body)
  PROVE  /\ IsPrefix(Window(s.body, 0, o), s.body)
         /\ o = Len(s.body) => Window(s.body, 0, o) = s.body
<1> DEFINE b == s.body
<1>1. b \in Seq(Word) /\ Len(b) \in Nat /\ o \in 0..Len(b)
  BY BodyWords
<1> HIDE DEF b
<1>2. IsPrefix(Window(b, 0, o), b)
  BY <1>1, WindowPrefix
<1>3. Window(b, 0, Len(b)) = b
  BY <1>1, WindowAll
<1> QED
  BY <1>2, <1>3 DEF b

\* What an external request has got
Gets(s, r) == \E o \in 0..Len(s.body) :
  r.out = Window(s.body, 0, o) /\ (r.phase = "ended" => o = Len(s.body))

\* A relay that passed nothing on and has not ended is right.
LEMMA NothingPassed ==
  ASSUME NEW s, ResponseStream(s), s.head.status # "interim", NEW r, r.out = <<>>,
         r.phase # "ended"
  PROVE  Gets(s, r)
<1> DEFINE b == s.body
<1>1. b \in Seq(Word) /\ Len(b) \in Nat
  BY BodyWords
<1> HIDE DEF b
<1>2. 0 \in 0..Len(b) /\ Window(b, 0, 0) = <<>>
  BY <1>1, EmptyWindow
<1> QED
  BY <1>2, Zenon DEF Gets, b

\* A relay that is right has the body's prefix, and all of it when it ends.
LEMMA GetsBody ==
  ASSUME NEW s, ResponseStream(s), s.head.status # "interim", NEW r, Gets(s, r)
  PROVE  IsPrefix(r.out, s.body) /\ (r.phase = "ended" => r.out = s.body)
<1>1. PICK o \in 0..Len(s.body) :
        r.out = Window(s.body, 0, o) /\ (r.phase = "ended" => o = Len(s.body))
  BY Zenon DEF Gets
<1>2. /\ IsPrefix(Window(s.body, 0, o), s.body)
      /\ o = Len(s.body) => Window(s.body, 0, o) = s.body
  BY BodyParts
<1> QED
  BY <1>1, <1>2, Zenon

\* What the relay of an answer shows
LEMMA BehindShows ==
  ASSUME NEW s, ResponseStream(s), s.head.status # "interim", NEW x \in 0..Len(s.bytes),
         NEW r, Behind(s, r, x)
  PROVE  /\ Gets(s, r) /\ r.phase \in {"head", "body", "ended"} /\ r.badGateway = FALSE
         /\ x = Len(s.bytes) /\ Noticeable(s.head) => r.phase = "ended"
<1>0. Len(s.bytes) \in Nat /\ 5 <= Len(s.bytes)
  BY BodyKnown
<1> DEFINE K == Len(s.bytes)
<1> HIDE DEF K
<1>1. CASE x < 5 /\ r = Relay("head", Window(s.bytes, 0, x), 0, NewDecoder, <<>>)
  <2>1. r.phase = "head" /\ r.out = <<>> /\ r.badGateway = FALSE
    <3>1. Says(Relay("head", Window(s.bytes, 0, x), 0, NewDecoder, <<>>),
              "head", Window(s.bytes, 0, x), <<>>)
      BY RelaySays
    <3> QED
      BY <1>1, <3>1, Zenon DEF Says
  <2>2. Gets(s, r)
    <3>1. r.phase # "ended"
      BY <2>1
    <3> QED
      BY <2>1, <3>1, NothingPassed
  <2>3. x # K
    BY <1>0, <1>1 DEF K
  <2> QED
    BY <2>1, <2>2, <2>3, Zenon DEF K
<1>2. CASE 5 <= x /\ ~(x < 5)
  <2>1. PICK o \in 0..Len(s.body) : \E n, d :
          \/ /\ r = Relay("body", <<>>, n, d, Window(s.body, 0, o))
             /\ HasBody(s) /\ Consuming(s, n, d, o, x)
          \/ r = Relay("ended", <<>>, n, d, Window(s.body, 0, o)) /\ o = Len(s.body)
    BY <1>2, Zenon DEF Behind
  <2>2. PICK n, d :
          \/ /\ r = Relay("body", <<>>, n, d, Window(s.body, 0, o))
             /\ HasBody(s) /\ Consuming(s, n, d, o, x)
          \/ r = Relay("ended", <<>>, n, d, Window(s.body, 0, o)) /\ o = Len(s.body)
    BY <2>1
  <2>3. CASE /\ r = Relay("body", <<>>, n, d, Window(s.body, 0, o))
             /\ HasBody(s) /\ Consuming(s, n, d, o, x)
    <3>1. r.phase = "body" /\ r.out = Window(s.body, 0, o) /\ r.badGateway = FALSE
      <4>1. Says(Relay("body", <<>>, n, d, Window(s.body, 0, o)),
                "body", <<>>, Window(s.body, 0, o))
        BY RelaySays
      <4> QED
        BY <2>3, <4>1, Zenon DEF Says
    <3>2. Gets(s, r)
      <4>1. r.phase # "ended"
        BY <3>1
      <4> QED
        BY <3>1, <4>1, Zenon DEF Gets
    <3>3. x = Len(s.bytes) => ~Noticeable(s.head)
      <4>1. x = Len(s.bytes) => ~s.head.chunked /\ ~(s.head.length > 0)
        BY <2>3, ConsumingLast, Zenon
      <4> QED
        BY <2>3, <4>1, Zenon DEF Noticeable, HasBody
    <3> QED
      BY <3>1, <3>2, <3>3, Zenon
  <2>4. CASE r = Relay("ended", <<>>, n, d, Window(s.body, 0, o)) /\ o = Len(s.body)
    <3>1. r.phase = "ended" /\ r.out = Window(s.body, 0, o) /\ r.badGateway = FALSE
      <4>1. Says(Relay("ended", <<>>, n, d, Window(s.body, 0, o)),
                "ended", <<>>, Window(s.body, 0, o))
        BY RelaySays
      <4> QED
        BY <2>4, <4>1, Zenon DEF Says
    <3>2. Gets(s, r)
      BY <2>4, <3>1, Zenon DEF Gets
    <3> QED
      BY <3>1, <3>2, Zenon
  <2> QED
    BY <2>2, <2>3, <2>4
<1>3. x \in Nat
  BY <1>0
<1>4. (x < 5 /\ r = Relay("head", Window(s.bytes, 0, x), 0, NewDecoder, <<>>)) \/ 5 <= x
  BY Zenon DEF Behind
<1>5. 5 <= x => ~(x < 5)
  BY <1>3
<1> QED
  BY <1>1, <1>2, <1>4, <1>5, Zenon

\* The end of the socket
LEMMA BehindEnds ==
  ASSUME NEW s, ResponseStream(s), s.head.status # "interim", NEW x \in 0..Len(s.bytes),
         NEW r, Behind(s, r, x)
  PROVE  Finished(s, End(r), x)
<1>0. Len(s.bytes) \in Nat /\ 5 <= Len(s.bytes)
  BY BodyKnown
<1>1. CASE x < 5 /\ r = Relay("head", Window(s.bytes, 0, x), 0, NewDecoder, <<>>)
  <2>1. r.phase = "head" /\ r.out = <<>>
    <3>1. Says(Relay("head", Window(s.bytes, 0, x), 0, NewDecoder, <<>>),
              "head", Window(s.bytes, 0, x), <<>>)
      BY RelaySays
    <3> QED
      BY <1>1, <3>1, Zenon DEF Says
  <2>2. End(r).phase = "ended" /\ End(r).out = <<>>
    <3> DEFINE w == Window(s.bytes, 0, x)
    <3>1. r = Relay("head", w, 0, NewDecoder, <<>>)
      BY <1>1
    <3> HIDE DEF w
    <3>2. End(r) = [r EXCEPT !.phase = "ended", !.badGateway = r.phase = "head"]
      BY <2>1 DEF End
    <3> QED
      BY <3>1, <3>2 DEF Relay
  <2> QED
    BY <1>1, <2>2, Zenon DEF Finished
<1>2. CASE 5 <= x /\ ~(x < 5)
  <2>1. PICK o \in 0..Len(s.body) : \E n, d :
          \/ /\ r = Relay("body", <<>>, n, d, Window(s.body, 0, o))
             /\ HasBody(s) /\ Consuming(s, n, d, o, x)
          \/ r = Relay("ended", <<>>, n, d, Window(s.body, 0, o)) /\ o = Len(s.body)
    BY <1>2, Zenon DEF Behind
  <2>2. PICK n, d :
          \/ /\ r = Relay("body", <<>>, n, d, Window(s.body, 0, o))
             /\ HasBody(s) /\ Consuming(s, n, d, o, x)
          \/ r = Relay("ended", <<>>, n, d, Window(s.body, 0, o)) /\ o = Len(s.body)
    BY <2>1
  <2>3. CASE /\ r = Relay("body", <<>>, n, d, Window(s.body, 0, o))
             /\ HasBody(s) /\ Consuming(s, n, d, o, x)
    <3>1. End(r) = Relay("ended", <<>>, n, d, Window(s.body, 0, o))
      BY <2>3, RelayEnds, Zenon
    <3>2. /\ End(r).phase = "ended" /\ End(r).out = Window(s.body, 0, o)
          /\ End(r).badGateway = FALSE
      <4>1. Says(Relay("ended", <<>>, n, d, Window(s.body, 0, o)),
                "ended", <<>>, Window(s.body, 0, o))
        BY RelaySays
      <4> QED
        BY <3>1, <4>1, Zenon DEF Says
    <3>3. x = Len(s.bytes) => o = Len(s.body)
      BY <2>3, ConsumingLast, Zenon
    <3> QED
      BY <1>2, <3>2, <3>3, Zenon DEF Finished
  <2>4. CASE r = Relay("ended", <<>>, n, d, Window(s.body, 0, o)) /\ o = Len(s.body)
    <3>1. r.phase = "ended" /\ r.out = Window(s.body, 0, o) /\ r.badGateway = FALSE
      <4>1. Says(Relay("ended", <<>>, n, d, Window(s.body, 0, o)),
                "ended", <<>>, Window(s.body, 0, o))
        BY RelaySays
      <4> QED
        BY <2>4, <4>1, Zenon DEF Says
    <3>2. End(r) = r
      BY <3>1 DEF End
    <3> QED
      BY <1>2, <2>4, <3>1, <3>2, Zenon DEF Finished
  <2> QED
    BY <2>2, <2>3, <2>4
<1>3. x \in Nat
  BY <1>0
<1>4. (x < 5 /\ r = Relay("head", Window(s.bytes, 0, x), 0, NewDecoder, <<>>)) \/ 5 <= x
  BY Zenon DEF Behind
<1>5. 5 <= x => ~(x < 5)
  BY <1>3
<1> QED
  BY <1>1, <1>2, <1>4, <1>5, Zenon

\* The windows of the wire join.
LEMMA WireJoin ==
  ASSUME NEW s, ResponseStream(s), NEW q \in 0..Len(Wire(s)), NEW y \in q..Len(Wire(s))
  PROVE  Window(Wire(s), 0, q) \o Window(Wire(s), q, y) = Window(Wire(s), 0, y)
<1> DEFINE f == Wire(s)
<1>1. f \in Seq(Word) /\ Len(f) \in Nat /\ q \in 0..Len(f) /\ y \in q..Len(f) /\ 0 \in Nat
  BY WireForm
<1> HIDE DEF f
<1>2. Window(f, 0, q) \o Window(f, q, y) = Window(f, 0, y)
  BY <1>1, WindowsJoin
<1> QED
  BY <1>2 DEF f

\* More tokens before the line has been read
LEMMA HeldOn ==
  ASSUME NEW s, ResponseStream(s), NEW q \in 0..Len(Wire(s)), NEW y \in q..Len(Wire(s))
  PROVE  RelaySegment(Held(s, q), s.head, PairId, Window(Wire(s), q, y))
           = ReadPreamble(Held(s, y), PairId)
<1> DEFINE w == Window(Wire(s), 0, q)  u == Window(Wire(s), q, y)  v == Window(Wire(s), 0, y)
           r == Held(s, q)  h == s.head  next == Buffers(r, v)
<1>1. w \o u = v
  BY WireJoin
<1>2. r = Relay("preamble", w, 0, NewDecoder, <<>>)
  BY DEF Held
<1>3. Held(s, y) = Relay("preamble", v, 0, NewDecoder, <<>>)
  BY DEF Held
<1> HIDE DEF w, u, v, r, h
<1>4. r.phase = "preamble" /\ r.buf = w
  <2>1. Says(Relay("preamble", w, 0, NewDecoder, <<>>), "preamble", w, <<>>)
    BY RelaySays
  <2> QED
    BY <1>2, <2>1, Zenon DEF Says
<1>5. next = Held(s, y)
  BY <1>2, <1>3, RelayBuffers
<1>6. [r EXCEPT !.buf = @ \o u] = next
  BY <1>1, <1>4 DEF Buffers
<1>7. RelaySegment(r, h, PairId, u) = ReadPreamble([r EXCEPT !.buf = @ \o u], PairId)
  BY <1>4 DEF RelaySegment
<1>8. RelaySegment(r, h, PairId, u) = ReadPreamble(Held(s, y), PairId)
  BY <1>5, <1>6, <1>7
<1> QED
  BY <1>8 DEF r, h, u

\* More tokens of an answer of the pair
LEMMA RelayedOn ==
  ASSUME NEW s, ResponseStream(s), s.head.status # "interim", OpensPair(s),
         NEW q \in 0..Len(Wire(s)), NEW y \in q..Len(Wire(s)), NEW r, Relayed(s, r, q),
         q < 4 => y <= 4
  PROVE  Relayed(s, RelaySegment(r, s.head, PairId, Window(Wire(s), q, y)), y)
<1> DEFINE M == Len(Wire(s))  K == Len(s.bytes)
           next == RelaySegment(r, s.head, PairId, Window(Wire(s), q, y))
<1>1. M \in Nat /\ K \in Nat /\ M = 4 + K /\ Len(s.preamble) = 4
  BY WireForm, WireOpens, BodyKnown
<1>2. q \in 0..M /\ y \in q..M
  OBVIOUS
<1> HIDE DEF M, K
<1>3. q \in Nat /\ y \in Nat /\ q <= y /\ y <= M /\ y \in 0..M
  BY <1>1, <1>2
<1>4. CASE q < 4 /\ r = Held(s, q)
  <2>1. next = ReadPreamble(Held(s, y), PairId)
    BY <1>4, HeldOn, Zenon
  <2>2. /\ y < 4 => ReadPreamble(Held(s, y), PairId) = Held(s, y)
        /\ 4 <= y => Behind(s, ReadPreamble(Held(s, y), PairId), 0)
    BY <1>3, PreambleRead, Zenon DEF M
  <2>3. y < 4 \/ (4 <= y /\ y - 4 = 0)
    BY <1>3, <1>4
  <2> HIDE DEF next
  <2>4. Relayed(s, next, y)
    BY <2>1, <2>2, <2>3, Zenon DEF Relayed
  <2> QED
    BY <2>4 DEF next
<1>5. CASE 4 <= q /\ Behind(s, r, q - 4)
  <2> DEFINE x == q - 4  z == y - 4
  <2>1. x \in 0..K /\ z \in x..K /\ 4 + x = q /\ 4 + z = y /\ 4 <= y
    BY <1>1, <1>3, <1>5
  <2>2. Behind(s, r, x)
    BY <1>5
  <2> HIDE DEF x, z
  <2>3. Window(Wire(s), Len(s.preamble) + x, Len(s.preamble) + z) = Window(s.bytes, x, z)
    BY <2>1, WireTail DEF K
  <2>4. Len(s.preamble) + x = q /\ Len(s.preamble) + z = y
    BY <1>1, <2>1
  <2>5. Window(Wire(s), q, y) = Window(s.bytes, x, z)
    BY <2>3, <2>4
  <2>6. Behind(s, RelaySegment(r, s.head, PairId, Window(s.bytes, x, z)), z)
    BY <2>1, <2>2, BehindOn DEF K
  <2>7. Behind(s, next, z)
    BY <2>5, <2>6
  <2> HIDE DEF next
  <2>8. Relayed(s, next, y)
    BY <2>1, <2>7, Zenon DEF Relayed, z
  <2> QED
    BY <2>8 DEF next
<1> QED
  BY <1>4, <1>5, Zenon DEF Relayed

\* More tokens on another socket
LEMMA RefusedOn ==
  ASSUME NEW s, ResponseStream(s), ~OpensPair(s),
         NEW q \in 0..Len(Wire(s)), NEW y \in q..Len(Wire(s)), NEW r, Refused(s, r, q)
  PROVE  Refused(s, RelaySegment(r, s.head, PairId, Window(Wire(s), q, y)), y)
<1> DEFINE next == RelaySegment(r, s.head, PairId, Window(Wire(s), q, y))
<1>1. CASE r = Held(s, q)
  <2>1. next = ReadPreamble(Held(s, y), PairId)
    BY <1>1, HeldOn, Zenon
  <2>2. y \in 0..Len(Wire(s))
    <3> DEFINE M == Len(Wire(s))
    <3>1. M \in Nat /\ q \in 0..M /\ y \in q..M
      BY WireForm
    <3> HIDE DEF M
    <3>2. y \in 0..M
      BY <3>1
    <3> QED
      BY <3>2 DEF M
  <2>3. Refused(s, ReadPreamble(Held(s, y), PairId), y)
    BY <2>2, ForeignRead
  <2> HIDE DEF next
  <2>4. Refused(s, next, y)
    BY <2>1, <2>3
  <2> QED
    BY <2>4 DEF next
<1>2. CASE r.phase = "destroyed" /\ r.out = <<>>
  <2>1. next = r
    BY <1>2 DEF RelaySegment
  <2> HIDE DEF next
  <2>2. Refused(s, next, y)
    BY <1>2, <2>1, Zenon DEF Refused
  <2> QED
    BY <2>2 DEF next
<1> QED
  BY <1>1, <1>2, Zenon DEF Refused

-----------------------------------------------------------------------------
\* AnswerRelayed

\* The server's relay r behind q tokens on the wire of s, of whose answer n tokens have come,
\* with the local socket l
Answered(s, n, q, r, l) ==
  /\ n \in 0..Len(s.bytes) /\ q \in 0..(Len(s.preamble) + n)
  /\ OpensPair(s) /\ s.head.status # "interim" /\ ~s.pair.early =>
       \/ l # "seen" /\ Relayed(s, r, q) /\ (q < 4 => n = 0)
       \/ l = "seen" /\ q = Len(s.preamble) + n /\ Finished(s, r, n)
  /\ ~OpensPair(s) => Refused(s, r, q)

\* The inductive invariant of AnswerRelayed.
RelayInv == stream.kind = "response" => Answered(stream, near, far, second, local)

\* It holds of the first state.
LEMMA AnsweredFirst ==
  ASSUME NEW s, ResponseStream(s)
  PROVE  Answered(s, 0, 0, NewRelay, "open")
<1>1. Len(s.bytes) \in Nat /\ Len(s.preamble) \in Nat /\ Wire(s) \in Seq(Word)
  BY BodyKnown, WireForm
<1>2. 0 \in 0..Len(s.bytes) /\ 0 \in 0..(Len(s.preamble) + 0) /\ 0 < 4
  BY <1>1
<1>3. NewRelay = Held(s, 0)
  <2>1. Window(Wire(s), 0, 0) = <<>>
    BY <1>1, EmptyWindow
  <2>2. NewRelay = Relay("preamble", <<>>, 0, NewDecoder, <<>>)
    BY DEF NewRelay, Relay
  <2> QED
    BY <2>1, <2>2 DEF Held
<1>4. Relayed(s, NewRelay, 0) /\ Refused(s, NewRelay, 0)
  BY <1>2, <1>3, Zenon DEF Relayed, Refused
<1>5. "open" # "seen"
  OBVIOUS
<1> QED
  BY <1>2, <1>4, <1>5, Zenon DEF Answered

\* The local service writes: it is early, or the line has been read.
LEMMA AnsweredMore ==
  ASSUME NEW s, ResponseStream(s), NEW n, NEW q, NEW r, Answered(s, n, q, r, "open"),
         NEW m \in n..Len(s.bytes), s.pair.early \/ r.phase # "preamble"
  PROVE  Answered(s, m, q, r, "open")
<1> DEFINE K == Len(s.bytes)  L == Len(s.preamble)
<1>1. K \in Nat /\ L \in Nat
  BY BodyKnown, WireForm
<1>2. n \in 0..K /\ q \in 0..(L + n) /\ m \in n..K
  BY Zenon DEF Answered
<1> HIDE DEF K, L
<1>3. m \in 0..K /\ q \in 0..(L + m)
  BY <1>1, <1>2
<1>4. "open" # "seen"
  OBVIOUS
<1>5. q < 4 /\ Relayed(s, r, q) => r.phase = "preamble"
  <2>1. SUFFICES ASSUME q < 4, Relayed(s, r, q) PROVE r.phase = "preamble"
    OBVIOUS
  <2>2. ~(4 <= q)
    BY <1>1, <1>2, <2>1
  <2>3. r = Held(s, q)
    BY <2>1, <2>2, Zenon DEF Relayed
  <2>4. Says(Held(s, q), "preamble", Window(Wire(s), 0, q), <<>>)
    BY RelaySays, Zenon DEF Held
  <2> QED
    BY <2>3, <2>4, Zenon DEF Says
<1> QED
  BY <1>3, <1>4, <1>5, Zenon DEF Answered, K, L

\* It holds when the local service closes.
LEMMA AnsweredCloses ==
  ASSUME NEW s, NEW n, NEW q, NEW r, Answered(s, n, q, r, "open")
  PROVE  Answered(s, n, q, r, "closed")
<1>1. "open" # "seen" /\ "closed" # "seen"
  OBVIOUS
<1> QED
  BY <1>1, Zenon DEF Answered

\* The server reads.
LEMMA AnsweredOn ==
  ASSUME NEW s, ResponseStream(s), NEW n, NEW q, NEW r, NEW l, Answered(s, n, q, r, l),
         NEW y \in q..(Len(s.preamble) + n), q < y
  PROVE  Answered(s, n, y, RelaySegment(r, s.head, PairId, Window(Wire(s), q, y)), l)
<1> DEFINE K == Len(s.bytes)  L == Len(s.preamble)  M == Len(Wire(s))
           next == RelaySegment(r, s.head, PairId, Window(Wire(s), q, y))
<1>1. K \in Nat /\ L \in Nat /\ M = L + K
  BY BodyKnown, WireForm
<1>2. n \in 0..K /\ q \in 0..(L + n) /\ y \in q..(L + n) /\ q < y
  BY Zenon DEF Answered
<1> HIDE DEF K, L, M
<1>3. q \in 0..M /\ y \in q..M /\ y \in 0..(L + n) /\ q # L + n
  BY <1>1, <1>2
<1>4. ASSUME OpensPair(s), s.head.status # "interim", ~s.pair.early
      PROVE  l # "seen" /\ Relayed(s, next, y) /\ (y < 4 => n = 0)
  <2>1. l # "seen" /\ Relayed(s, r, q) /\ (q < 4 => n = 0)
    BY <1>3, <1>4, Zenon DEF Answered, L
  <2>2. L = 4
    BY <1>4, WireOpens DEF L
  <2>3. (q < 4 => y <= 4) /\ (y < 4 => q < 4)
    BY <1>1, <1>2, <2>1, <2>2
  <2>4. Relayed(s, next, y)
    BY <1>3, <1>4, <2>1, <2>3, RelayedOn, Zenon DEF M
  <2> QED
    BY <2>1, <2>3, <2>4
<1>5. ASSUME ~OpensPair(s) PROVE Refused(s, next, y)
  <2>1. Refused(s, r, q)
    BY <1>5, Zenon DEF Answered
  <2> QED
    BY <1>3, <1>5, <2>1, RefusedOn, Zenon DEF M
<1> HIDE DEF next
<1>6. Answered(s, n, y, next, l)
  BY <1>2, <1>3, <1>4, <1>5, Zenon DEF Answered, K, L
<1> QED
  BY <1>6 DEF next

\* The server sees the end.
LEMMA AnsweredEnds ==
  ASSUME NEW s, ResponseStream(s), NEW n, NEW r, NEW q,
         Answered(s, n, q, r, "closed"), q = Len(s.preamble) + n
  PROVE  Answered(s, n, q, End(r), "seen")
<1> DEFINE K == Len(s.bytes)  L == Len(s.preamble)
<1>1. K \in Nat /\ L \in Nat
  BY BodyKnown, WireForm
<1>2. n \in 0..K /\ q \in 0..(L + n) /\ q = L + n
  BY Zenon DEF Answered
<1>3. "closed" # "seen"
  OBVIOUS
<1> HIDE DEF K, L
<1>4. ASSUME OpensPair(s), s.head.status # "interim", ~s.pair.early
      PROVE  Finished(s, End(r), n)
  <2>1. Relayed(s, r, q)
    BY <1>3, <1>4, Zenon DEF Answered
  <2>2. L = 4
    BY <1>4, WireOpens DEF L
  <2>3. ~(q < 4) /\ q - 4 = n
    BY <1>1, <1>2, <2>2
  <2>4. Behind(s, r, n)
    BY <2>1, <2>3, Zenon DEF Relayed
  <2> QED
    BY <1>2, <1>4, <2>4, BehindEnds, Zenon DEF K
<1>5. ASSUME ~OpensPair(s) PROVE Refused(s, End(r), q)
  <2>1. Refused(s, r, q)
    BY <1>5, Zenon DEF Answered
  <2>2. r.phase \notin {"head", "body"}
    <3>1. Says(Held(s, q), "preamble", Window(Wire(s), 0, q), <<>>)
      BY RelaySays, Zenon DEF Held
    <3>2. r.phase = "preamble" \/ r.phase = "destroyed"
      BY <2>1, <3>1, Zenon DEF Refused, Says
    <3> QED
      BY <3>2
  <2>3. End(r) = r
    BY <2>2, Zenon DEF End
  <2> QED
    BY <2>1, <2>3
<1> QED
  BY <1>2, <1>3, <1>4, <1>5, Zenon DEF Answered, K, L

\* It is an invariant.
LEMMA RelayInvHolds == Spec => []RelayInv
<1>1. Init /\ Kinds => RelayInv
  <2> SUFFICES ASSUME Init, Kinds, stream.kind = "response"
               PROVE  Answered(stream, near, far, second, local)
    BY DEF RelayInv
  <2>1. Answered(stream, 0, 0, NewRelay, "open")
    BY ResponseKnown, AnsweredFirst
  <2>2. near = 0 /\ far = 0 /\ second = NewRelay /\ local = "open"
    BY DEF Init
  <2> QED
    BY <2>1, <2>2
<1>2. RelayInv /\ Kinds /\ [Next]_vars => RelayInv'
  <2> SUFFICES ASSUME RelayInv, Kinds, [Next]_vars PROVE RelayInv'
    OBVIOUS
  <2>1. ASSUME NEW n \in 1..(Len(stream.bytes) - near), LocalWrites(n) PROVE RelayInv'
    <3> DEFINE s == stream  y == near + n  K == Len(s.bytes)
    <3>1. ResponseStream(s)
      BY <2>1, ResponseKnown DEF LocalWrites
    <3>2. K \in Nat
      BY <3>1, BodyKnown
    <3>3. /\ stream' = s /\ near' = y /\ far' = far /\ second' = second
          /\ local = "open" /\ local' = "open"
          /\ s.pair.early \/ second.phase # "preamble"
          /\ Answered(s, near, far, second, "open")
      BY <2>1 DEF LocalWrites, RequestSent, Arrive, RelayInv
    <3>4. near \in 0..K
      BY <3>3, Zenon DEF Answered
    <3>5. y \in near..K
      <4>1. n \in 1..(K - near)
        BY <2>1
      <4> HIDE DEF K
      <4> QED
        BY <3>2, <3>4, <4>1
    <3> HIDE DEF y
    <3>6. Answered(s, y, far, second, "open")
      BY <3>1, <3>3, <3>5, AnsweredMore, Zenon
    <3> QED
      BY <3>3, <3>6, Zenon DEF RelayInv
  <2>2. ASSUME NEW n, FramesArrive(n) \/ RequestArrives(n) PROVE RelayInv'
    <3>1. stream' = stream /\ stream.kind # "response"
      BY <2>2 DEF FramesArrive, RequestArrives
    <3> QED
      BY <3>1 DEF RelayInv
  <2>3. CASE LocalCloses
    <3>1. /\ stream' = stream /\ near' = near /\ far' = far /\ second' = second
          /\ local' = "closed" /\ Answered(stream, near, far, second, "open")
      BY <2>3 DEF LocalCloses, RelayInv
    <3>2. Answered(stream, near, far, second, "closed")
      BY <3>1, AnsweredCloses
    <3> QED
      BY <3>1, <3>2, Zenon DEF RelayInv
  <2>4. ASSUME stream.kind = "response", NEW n \in 1..(Len(OnDataSocket) - far),
               ServerReads(n)
        PROVE  RelayInv'
    <3> DEFINE s == stream  y == far + n  K == Len(s.bytes)  L == Len(s.preamble)
               w == OnDataSocket  W == Len(w)  M == Len(Wire(s))
    <3>1. ResponseStream(s)
      BY <2>4, ResponseKnown
    <3>2. K \in Nat /\ L \in Nat /\ Wire(s) \in Seq(Word) /\ M \in Nat /\ M = L + K
      BY <3>1, BodyKnown, WireForm
    <3>3. /\ stream' = s /\ near' = near /\ far' = y /\ local' = local
          /\ second' = RelaySegment(second, s.head, PairId, Window(w, far, y))
          /\ Answered(s, near, far, second, local)
      BY <2>4 DEF ServerReads, Segment, Window, RelayInv
    <3>4. near \in 0..K /\ far \in 0..(L + near)
      BY <3>3, Zenon DEF Answered
    <3>5. w = Window(Wire(s), 0, L + near) /\ W = L + near
      BY <3>1, <3>4, WireSent DEF OnDataSocket
    <3>6. n \in 1..(W - far)
      BY <2>4
    <3> HIDE DEF K, L, M, W, w
    <3>7. /\ y \in far..(L + near) /\ far < y /\ L + near \in 0..M
          /\ (L + near) - 0 = L + near /\ far \in 0..((L + near) - 0)
          /\ y \in far..((L + near) - 0) /\ 0 + far = far /\ 0 + y = y /\ 0 \in Nat
      BY <3>2, <3>4, <3>5, <3>6
    <3> HIDE DEF y
    <3>8. Window(w, far, y) = Window(Wire(s), far, y)
      <4>1. Window(Window(Wire(s), 0, L + near), far, y) = Window(Wire(s), 0 + far, 0 + y)
        <5> DEFINE f == Wire(s)  e == L + near
        <5>1. /\ f \in Seq(Word) /\ e \in 0..Len(f) /\ far \in 0..(e - 0)
              /\ y \in far..(e - 0) /\ 0 \in Nat
          BY <3>2, <3>7 DEF M
        <5> HIDE DEF f, e
        <5>2. Window(Window(f, 0, e), far, y) = Window(f, 0 + far, 0 + y)
          BY <5>1, WindowOfWindow
        <5> QED
          BY <5>2 DEF f, e
      <4> QED
        BY <3>5, <3>7, <4>1
    <3>9. Answered(s, near, y, RelaySegment(second, s.head, PairId, Window(Wire(s), far, y)),
                   local)
      BY <3>1, <3>3, <3>7, AnsweredOn, Zenon DEF L
    <3> QED
      BY <3>3, <3>8, <3>9, Zenon DEF RelayInv
  <2>7. CASE RequestCollected \/ DataEnds
    <3>1. /\ stream' = stream /\ near' = near /\ far' = far /\ second' = second
          /\ local' = local
      BY <2>7 DEF RequestCollected, DataEnds
    <3> QED
      BY <3>1 DEF RelayInv
  <2>5. CASE ServerSeesEnd
    <3>1. /\ stream' = stream /\ near' = near /\ far' = far /\ second' = End(second)
          /\ local = "closed" /\ local' = "seen" /\ far = Len(OnDataSocket)
      BY <2>5 DEF ServerSeesEnd
    <3>2. SUFFICES ASSUME stream.kind = "response"
                   PROVE  Answered(stream, near, far, End(second), "seen")
      BY <3>1, Zenon DEF RelayInv
    <3>3. ResponseStream(stream) /\ Answered(stream, near, far, second, "closed")
      BY <3>1, <3>2, ResponseKnown DEF RelayInv
    <3>4. near \in 0..Len(stream.bytes)
      BY <3>3, Zenon DEF Answered
    <3>5. far = Len(stream.preamble) + near
      BY <3>1, <3>3, <3>4, WireSent DEF OnDataSocket
    <3> QED
      BY <3>3, <3>5, AnsweredEnds
  <2>6. CASE UNCHANGED vars
    <3>1. /\ stream' = stream /\ near' = near /\ far' = far /\ second' = second
          /\ local' = local
      BY <2>6 DEF vars
    <3> QED
      BY <3>1 DEF RelayInv
  <2> QED
    BY <2>1, <2>2, <2>3, <2>4, <2>5, <2>6, <2>7 DEF Next
<1> QED
  BY <1>1, <1>2, KindsHold, PTL DEF Spec

\* What the invariant says of an answer of the pair
LEMMA FinishedShows ==
  ASSUME NEW s, ResponseStream(s), s.head.status # "interim", NEW n \in 0..Len(s.bytes),
         NEW r, Finished(s, r, n)
  PROVE  /\ IsPrefix(r.out, s.body) /\ r.phase = "ended"
         /\ n = Len(s.bytes) => r.out = s.body
         /\ r.badGateway => n < 5
<1>1. Len(s.bytes) \in Nat /\ 5 <= Len(s.bytes) /\ s.body \in Seq(Word) /\ Len(s.body) \in Nat
  BY BodyKnown, BodyWords
<1> DEFINE K == Len(s.bytes)
<1>2. K \in Nat /\ 5 <= K /\ n \in 0..K
  BY <1>1
<1> HIDE DEF K
<1>3. n < 5 => n # K
  BY <1>2
<1>4. CASE n < 5 /\ r.out = <<>>
  <2>1. IsPrefix(Window(s.body, 0, 0), s.body) /\ Window(s.body, 0, 0) = <<>>
    <3>1. 0 \in 0..Len(s.body)
      BY <1>1
    <3> QED
      BY <1>1, <3>1, BodyParts, EmptyWindow
  <2>2. IsPrefix(r.out, s.body)
    BY <1>4, <2>1
  <2> QED
    BY <1>3, <1>4, <2>2, Zenon DEF Finished, K
<1>5. CASE 5 <= n /\ r.badGateway = FALSE
            /\ \E o \in 0..Len(s.body) :
                 r.out = Window(s.body, 0, o) /\ (n = Len(s.bytes) => o = Len(s.body))
  <2>1. PICK o \in 0..Len(s.body) :
          r.out = Window(s.body, 0, o) /\ (n = Len(s.bytes) => o = Len(s.body))
    BY <1>5
  <2>2. /\ IsPrefix(Window(s.body, 0, o), s.body)
        /\ o = Len(s.body) => Window(s.body, 0, o) = s.body
    BY BodyParts
  <2>3. IsPrefix(r.out, s.body) /\ (n = Len(s.bytes) => r.out = s.body)
    BY <2>1, <2>2, Zenon
  <2> QED
    BY <1>5, <2>3, Zenon DEF Finished
<1> QED
  BY <1>4, <1>5, Zenon DEF Finished

\* A relay that read the pair's own line shows what the property says.
LEMMA RelayedShows ==
  ASSUME NEW s, ResponseStream(s), s.head.status # "interim", OpensPair(s),
         NEW n \in 0..Len(s.bytes), NEW q \in 0..(Len(s.preamble) + n),
         NEW r, Relayed(s, r, q)
  PROVE  /\ IsPrefix(r.out, s.body) /\ r.phase # "destroyed" /\ r.badGateway = FALSE
         /\ r.phase = "ended" => r.out = s.body
         /\ (n = Len(s.bytes) /\ q = Len(s.preamble) + n /\ Noticeable(s.head)
               => r.phase = "ended")
<1> DEFINE K == Len(s.bytes)  L == Len(s.preamble)
<1>1. K \in Nat /\ 5 <= K /\ L = 4
  BY BodyKnown, WireOpens
<1>2. n \in 0..K /\ q \in 0..(L + n)
  OBVIOUS
<1> HIDE DEF K, L
<1>3. CASE q < 4 /\ r = Held(s, q)
  <2>1. Says(Held(s, q), "preamble", Window(Wire(s), 0, q), <<>>)
    BY RelaySays, Zenon DEF Held
  <2>2. r.phase = "preamble" /\ r.out = <<>> /\ r.badGateway = FALSE
    BY <1>3, <2>1, Zenon DEF Says
  <2>3. r.phase # "ended" /\ r.phase # "destroyed"
    BY <2>2
  <2>4. Gets(s, r)
    BY <2>2, <2>3, NothingPassed
  <2>5. q # L + n
    BY <1>1, <1>2, <1>3
  <2> QED
    BY <2>2, <2>3, <2>4, <2>5, GetsBody, Zenon DEF L
<1>4. CASE 4 <= q /\ Behind(s, r, q - 4)
  <2> DEFINE x == q - 4
  <2>1. x \in 0..K /\ (n = K /\ q = L + n => x = K)
    BY <1>1, <1>2, <1>4
  <2>2. Behind(s, r, x)
    BY <1>4
  <2> HIDE DEF x
  <2>3. /\ Gets(s, r) /\ r.phase \in {"head", "body", "ended"} /\ r.badGateway = FALSE
        /\ x = Len(s.bytes) /\ Noticeable(s.head) => r.phase = "ended"
    BY <2>1, <2>2, BehindShows, Zenon DEF K
  <2>4. r.phase # "destroyed"
    BY <2>3
  <2> QED
    BY <2>1, <2>3, <2>4, GetsBody, Zenon DEF K, L
<1> QED
  BY <1>3, <1>4, Zenon DEF Relayed

\* It gives the property.
LEMMA RelayInvAnswers ==
  ASSUME RelayInv, Kinds
  PROVE  AnswerRelayed
<1> DEFINE s == stream
<1>1. ASSUME s.kind = "response"
      PROVE  /\ ResponseStream(s) /\ Answered(s, near, far, second, local)
             /\ near \in 0..Len(s.bytes) /\ far \in 0..(Len(s.preamble) + near)
             /\ Len(OnDataSocket) = Len(s.preamble) + near
  <2>1. ResponseStream(s) /\ Answered(s, near, far, second, local)
    BY <1>1, ResponseKnown DEF RelayInv
  <2>2. near \in 0..Len(s.bytes) /\ far \in 0..(Len(s.preamble) + near)
    BY <2>1, Zenon DEF Answered
  <2>3. Len(OnDataSocket) = Len(s.preamble) + near
    BY <2>1, <2>2, WireSent DEF OnDataSocket
  <2> QED
    BY <2>1, <2>2, <2>3
<1>2. Len(HeadBytes) = 5
  <2> DEFINE k == Len(HeadBytes)
  <2>1. k \in Nat /\ k <= 5 /\ 5 <= k
    BY HeadPlaces
  <2> HIDE DEF k
  <2>2. k = 5
    BY <2>1
  <2> QED
    BY <2>2 DEF k
<1>3. Awaited => /\ s.kind = "response" /\ OpensPair(s) /\ s.head.status # "interim"
                 /\ ~s.pair.early
  BY Zenon DEF Awaited, OpensPair, PairLine
<1>4. ASSUME Awaited, local # "seen"
      PROVE  /\ IsPrefix(second.out, s.body) /\ second.phase # "destroyed"
             /\ second.badGateway = FALSE
             /\ second.phase = "ended" => second.out = s.body
             /\ (near = Len(s.bytes) /\ far = Len(OnDataSocket) /\ Noticeable(s.head)
                   => second.phase = "ended")
  <2>1. Relayed(s, second, far)
    BY <1>1, <1>3, <1>4, Zenon DEF Answered
  <2> HIDE DEF s
  <2> QED
    BY <1>1, <1>3, <1>4, <2>1, RelayedShows, Zenon
<1>5. ASSUME Awaited, local = "seen"
      PROVE  /\ IsPrefix(second.out, s.body) /\ second.phase = "ended"
             /\ near = Len(s.bytes) => second.out = s.body
             /\ second.badGateway => near < 5
  <2>1. Finished(s, second, near)
    BY <1>1, <1>3, <1>5, Zenon DEF Answered
  <2> HIDE DEF s
  <2> QED
    BY <1>1, <1>3, <1>5, <2>1, FinishedShows, Zenon
<1>6. second.phase = "ended" => second.phase # "destroyed"
  OBVIOUS
<1>7. BodyRelayed
  BY <1>2, <1>4, <1>5, <1>6, Zenon DEF BodyRelayed, Sent
<1>8. ResponseEnds
  BY <1>4, <1>5, Zenon DEF ResponseEnds, Sent
<1>9. ForeignSocketRefused
  <2>1. SUFFICES ASSUME s.kind = "response", ~OpensPair(s)
                 PROVE  second.out = <<>> /\ second.phase \in {"preamble", "destroyed"}
    BY Zenon DEF ForeignSocketRefused, OpensPair, PairLine
  <2>2. Refused(s, second, far)
    BY <1>1, <2>1, Zenon DEF Answered
  <2>3. Says(Held(s, far), "preamble", Window(Wire(s), 0, far), <<>>)
    BY RelaySays, Zenon DEF Held
  <2>4. second.out = <<>> /\ (second.phase = "preamble" \/ second.phase = "destroyed")
    BY <2>2, <2>3, Zenon DEF Refused, Says
  <2> QED
    BY <2>4
<1> QED
  BY <1>7, <1>8, <1>9 DEF AnswerRelayed

\* Whatever segments bring the answer of a service that waits for its request to the client and
\* over the data socket to the server, the external request gets the body and nothing else; an
\* answer whose end the relay can notice is ended when all of it is there, any other with its
\* socket; and a socket that opens with another line is refused.
THEOREM AnswersAreRelayed == Spec => []AnswerRelayed
BY RelayInvHolds, RelayInvAnswers, KindsHold, PTL
=============================================================================
