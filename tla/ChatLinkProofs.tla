--------------------------- MODULE ChatLinkProofs ---------------------------
(* Theorems about ChatClient and ChatLink: what the client's stream is and    *)
(* what the server's reads cut from it, for frames of any number of parts and *)
(* buffers of any size, and that the client in the connection is ChatClient.  *)
EXTENDS ChatLink, Integers, SequenceTheorems, TLAPS

-----------------------------------------------------------------------------
(* The parts of the lines, counted *)

\* The place of the i-th part of the k-th line in a stream of lines only.
Index(p) == (p[1] - 1) * FrameParts + p[2]

\* Frames are F parts: the places are in the order of the lines and their parts.
LEMMA Lexical ==
  ASSUME NEW F \in Nat \ {0}, NEW k \in Nat, NEW l \in Nat,
         NEW i \in 1 .. F, NEW j \in 1 .. F
  PROVE  /\ k < l => (k - 1) * F + i < (l - 1) * F + j
         /\ (k - 1) * F + i = (l - 1) * F + j => k = l /\ i = j
  <1>1. ASSUME NEW a \in Nat, NEW b \in Nat, NEW x \in 1 .. F, NEW y \in 1 .. F,
               a < b
        PROVE  (a - 1) * F + x < (b - 1) * F + y
    <2>1. PICK d \in Nat : b = a + 1 + d
      <3>1. b - a - 1 \in Nat /\ b = a + 1 + (b - a - 1)
        BY <1>1
      <3> QED
        BY <3>1
    <2>2. d * F \in Nat
      OBVIOUS
    <2>3. (b - 1) * F = (a - 1) * F + F + d * F
      BY <2>1
    <2> QED
      BY <2>2, <2>3
  <1>2. (k - 1) * F \in Int /\ (l - 1) * F \in Int
    OBVIOUS
  <1>3. ASSUME (k - 1) * F + i = (l - 1) * F + j PROVE k = l /\ i = j
    <2>1. ~(k < l)
      BY <1>1, <1>2, <1>3
    <2>2. ~(l < k)
      BY <1>1, <1>2, <1>3
    <2>3. k = l
      BY <2>1, <2>2
    <2> QED
      BY <1>2, <1>3, <2>3
  <1> QED
    BY <1>1, <1>3

\* Division with a remainder.
LEMMA Division ==
  ASSUME NEW n \in Nat, NEW F \in Nat \ {0}
  PROVE  /\ n \div F \in Nat /\ n % F \in 0 .. F - 1
         /\ n = (n \div F) * F + (n % F)
  OBVIOUS

\* LinePart is the part whose place it is.
LEMMA PartAt ==
  ASSUME NEW k \in Nat \ {0}, NEW i \in 1 .. FrameParts
  PROVE  LinePart((k - 1) * FrameParts + i) = <<k, i>>
  <1> DEFINE n == (k - 1) * FrameParts + i - 1
             q == n \div FrameParts
             r == n % FrameParts
  <1>0. FrameParts \in Nat \ {0}
    BY ClientAssumption
  <1>1. n \in Nat
    <2>1. (k - 1) * FrameParts \in Nat
      BY <1>0
    <2> QED
      BY <2>1
  <1>2. ((k - 1) * FrameParts + i) - 1 = n
    <2>1. (k - 1) * FrameParts \in Int
      BY <1>0
    <2> QED
      BY <2>1
  <1> HIDE DEF n
  <1>3. q \in Nat /\ r \in 0 .. FrameParts - 1 /\ n = q * FrameParts + r
    BY <1>0, <1>1, Division
  <1>4. LinePart((k - 1) * FrameParts + i) = <<q + 1, r + 1>>
    BY <1>2 DEF LinePart
  <1> HIDE DEF q, r
  <1>5. (k - 1) * FrameParts + i = ((q + 1) - 1) * FrameParts + (r + 1)
    <2>1. (k - 1) * FrameParts \in Int /\ q * FrameParts \in Int
      BY <1>0, <1>3
    <2>2. (q + 1) - 1 = q
      BY <1>3
    <2> QED
      BY <1>3, <2>1, <2>2 DEF n
  <1>6. q + 1 \in Nat /\ r + 1 \in 1 .. FrameParts
    BY <1>0, <1>3
  <1>7. \A l \in Nat : \A j \in 1 .. FrameParts :
          (k - 1) * FrameParts + i = (l - 1) * FrameParts + j => k = l /\ i = j
    BY <1>0, Lexical
  <1>8. k = q + 1 /\ i = r + 1
    BY <1>5, <1>6, <1>7
  <1> QED
    BY <1>4, <1>8

\* A part is the nickname's or a line's.
LEMMA PartShape ==
  ASSUME NEW p \in Part
  PROVE  /\ p = <<p[1], p[2]>> /\ p[1] \in Nat /\ p[2] \in Nat
         /\ p[1] = 0 => p[2] \in 1 .. HelloParts
         /\ p[1] # 0 => p[1] \in 1 .. MaxLines /\ p[2] \in 1 .. FrameParts
  BY ClientAssumption DEF Part

\* c counts some of l things, and l less it the others: neither goes down.
Rising(c, l, h) ==
  /\ c \in [0 .. l -> 0 .. h] /\ c[0] = 0
  /\ \A m, k \in 0 .. l : m <= k => c[m] <= c[k] /\ m - c[m] <= k - c[k]

\* c counts the nickname's parts: c[n] of the first n of the stream w are its
\* first c[n], and the others are the first n - c[n] of the lines.
Counts(c, w) ==
  /\ Rising(c, Len(w), HelloParts)
  /\ \A n \in 1 .. Len(w) :
       \/ w[n] = <<0, c[n]>> /\ c[n] = c[n - 1] + 1
       \/ w[n][1] # 0 /\ c[n] = c[n - 1] /\ Index(w[n]) = n - c[n]
  /\ \A i \in 1 .. c[Len(w)] : \E m \in 1 .. Len(w) : w[m] = <<0, i>>
  /\ \A i \in 1 .. Len(w) - c[Len(w)] :
       \E m \in 1 .. Len(w) : w[m][1] # 0 /\ Index(w[m]) = i

\* What a count is when n parts more have been sent: Up of them the nickname's.
Counted(c, l, n, up) ==
  [m \in 0 .. l + n |-> IF m <= l THEN c[m]
                        ELSE IF up = 1 THEN c[l] + (m - l) ELSE c[l]]

Extends(d, c, l, n, up) ==
  /\ \A m \in 0 .. l : d[m] = c[m]
  /\ \A i \in 0 .. n : d[l + i] = IF up = 1 THEN c[l] + i ELSE c[l]

LEMMA Onwards ==
  ASSUME NEW m \in Int, NEW k \in Int, NEW l \in Int, NEW x \in Int, NEW y \in Int,
         x <= y, m - x <= l - y, k > l
  PROVE  /\ x <= y + (k - l) /\ m - x <= k - (y + (k - l))
         /\ m - x <= k - y
  OBVIOUS

LEMMA CountGrows ==
  ASSUME NEW l \in Nat, NEW n \in Nat, NEW h \in Nat, NEW up \in {0, 1},
         NEW c, Rising(c, l, h), up = 1 => c[l] + n <= h
  PROVE  /\ Rising(Counted(c, l, n, up), l + n, h)
         /\ Extends(Counted(c, l, n, up), c, l, n, up)
  <1> DEFINE d == Counted(c, l, n, up)
  <1>0. /\ c \in [0 .. l -> 0 .. h] /\ c[0] = 0
        /\ \A m, k \in 0 .. l : m <= k => c[m] <= c[k] /\ m - c[m] <= k - c[k]
    BY DEF Rising
  <1>1. /\ c[l] \in 0 .. h
        /\ \A m \in 0 .. l : c[m] \in 0 .. h
        /\ \A m \in 0 .. l : c[m] <= c[l] /\ m - c[m] <= l - c[l]
    BY <1>0
  <1>2. /\ DOMAIN d = 0 .. l + n
        /\ \A m \in 0 .. l : d[m] = c[m]
    BY DEF Counted
  <1>3. \A m \in 0 .. l + n : m > l =>
          d[m] = IF up = 1 THEN c[l] + (m - l) ELSE c[l]
    BY DEF Counted
  <1>d. d = [m \in 0 .. l + n |-> d[m]]
    BY DEF Counted
  <1> HIDE DEF d
  <1>4. \A m \in 0 .. l + n : d[m] \in 0 .. h
    <2> SUFFICES ASSUME NEW m \in 0 .. l + n PROVE d[m] \in 0 .. h
      OBVIOUS
    <2>1. CASE m <= l
      <3>1. m \in 0 .. l
        BY <2>1
      <3> QED
        BY <1>1, <1>2, <3>1
    <2>2. CASE m > l /\ up = 1
      <3>1. d[m] = c[l] + (m - l)
        BY <1>3, <2>2
      <3>2. c[l] + n <= h /\ m - l \in 0 .. n
        BY <2>2
      <3> QED
        BY <1>1, <3>1, <3>2
    <2>3. CASE m > l /\ up = 0
      BY <1>1, <1>3, <2>3
    <2> QED
      BY <2>1, <2>2, <2>3
  <1>5. d \in [0 .. l + n -> 0 .. h]
    BY <1>4, <1>d
  <1>6. \A i \in 0 .. n : d[l + i] = IF up = 1 THEN c[l] + i ELSE c[l]
    <2> SUFFICES ASSUME NEW i \in 0 .. n
                 PROVE  d[l + i] = IF up = 1 THEN c[l] + i ELSE c[l]
      OBVIOUS
    <2>1. CASE i = 0
      BY <1>1, <1>2, <2>1
    <2>2. CASE i > 0
      <3>1. l + i \in 0 .. l + n /\ l + i > l /\ (l + i) - l = i
        BY <2>2
      <3> QED
        BY <1>3, <3>1
    <2> QED
      BY <2>1, <2>2
  <1>7. ASSUME NEW m \in 0 .. l + n, NEW k \in 0 .. l + n, m <= k
        PROVE  d[m] <= d[k] /\ m - d[m] <= k - d[k]
    <2>0. /\ m <= l => m \in 0 .. l /\ d[m] = c[m] /\ c[m] \in 0 .. h
          /\ k <= l => k \in 0 .. l /\ d[k] = c[k] /\ c[k] \in 0 .. h
      BY <1>1, <1>2
    <2>1. CASE k <= l
      <3>1. m \in 0 .. l /\ k \in 0 .. l /\ d[m] = c[m] /\ d[k] = c[k]
        BY <1>7, <2>0, <2>1
      <3>2. c[m] <= c[k] /\ m - c[m] <= k - c[k]
        BY <1>0, <1>7, <3>1
      <3> QED
        BY <3>1, <3>2
    <2>2. CASE m <= l /\ k > l
      <3>0. c[m] <= c[l] /\ m - c[m] <= l - c[l] /\ c[l] \in 0 .. h
        BY <1>1, <2>0, <2>2
      <3>3. /\ c[m] \in Int /\ c[l] \in Int /\ d[m] = c[m]
            /\ m \in Int /\ k \in Int /\ l \in Int /\ k > l
        BY <2>0, <2>2, <3>0
      <3>4. /\ c[m] <= c[l] + (k - l) /\ m - c[m] <= k - (c[l] + (k - l))
            /\ m - c[m] <= k - c[l]
        BY ONLY <3>0, <3>3, Onwards
      <3>1. CASE up = 1
        <4>1. d[k] = c[l] + (k - l)
          BY <1>3, <2>2, <3>1
        <4> QED
          BY <3>0, <3>3, <3>4, <4>1
      <3>2. CASE up = 0
        <4>1. d[k] = c[l]
          BY <1>3, <2>2, <3>2
        <4> QED
          BY <3>0, <3>3, <3>4, <4>1
      <3> QED
        BY <3>1, <3>2
    <2>3. CASE m > l
      <3>1. k > l
        BY <1>7, <2>3
      <3>2. CASE up = 1
        <4>1. d[m] = c[l] + (m - l) /\ d[k] = c[l] + (k - l)
          BY <1>3, <2>3, <3>1, <3>2
        <4> QED
          BY <1>1, <1>7, <4>1
      <3>3. CASE up = 0
        <4>1. d[m] = c[l] /\ d[k] = c[l]
          BY <1>3, <2>3, <3>1, <3>3
        <4> QED
          BY <1>1, <1>7, <4>1
      <3> QED
        BY <3>2, <3>3
    <2> QED
      BY <2>1, <2>2, <2>3
  <1>8. d[0] = 0
    BY <1>0, <1>2
  <1>9. Rising(d, l + n, h)
    BY <1>5, <1>7, <1>8 DEF Rising
  <1> QED
    BY <1>2, <1>6, <1>9 DEF d, Extends

\* The stream w with s behind it.
LEMMA Joined ==
  ASSUME NEW S, NEW w \in Seq(S), NEW s \in Seq(S)
  PROVE  /\ w \o s \in Seq(S) /\ Len(w) \in Nat /\ Len(s) \in Nat
         /\ Len(w \o s) = Len(w) + Len(s)
         /\ \A i \in 1 .. Len(w) : (w \o s)[i] = w[i]
         /\ \A i \in 1 .. Len(s) : (w \o s)[Len(w) + i] = s[i]
  <1>1. Len(w) \in Nat /\ Len(s) \in Nat
    BY LenProperties
  <1>2. /\ w \o s \in Seq(S) /\ Len(w \o s) = Len(w) + Len(s)
        /\ \A i \in 1 .. Len(w) + Len(s) :
             (w \o s)[i] = IF i <= Len(w) THEN w[i] ELSE s[i - Len(w)]
    BY ConcatProperties
  <1>3. \A i \in 1 .. Len(s) : /\ Len(w) + i \in 1 .. Len(w) + Len(s)
                               /\ ~(Len(w) + i <= Len(w))
                               /\ (Len(w) + i) - Len(w) = i
    BY <1>1
  <1>4. \A i \in 1 .. Len(w) : i \in 1 .. Len(w) + Len(s) /\ i <= Len(w)
    BY <1>1
  <1> QED
    BY <1>1, <1>2, <1>3, <1>4

\* More of the nickname is sent.
LEMMA NicknameSent ==
  ASSUME NEW w \in Seq(Part), NEW c, Counts(c, w), NEW s \in Seq(Part),
         c[Len(w)] + Len(s) <= HelloParts,
         \A i \in 1 .. Len(s) : s[i] = <<0, c[Len(w)] + i>>
  PROVE  Counts(Counted(c, Len(w), Len(s), 1), w \o s)
  <1> DEFINE L == Len(w)
             N == Len(s)
             h == c[L]
             u == w \o s
             d == Counted(c, L, N, 1)
  <1>1. /\ L \in Nat /\ N \in Nat /\ Len(u) = L + N
        /\ \A i \in 1 .. L : u[i] = w[i]
        /\ \A i \in 1 .. N : u[L + i] = s[i]
    BY Joined
  <1>2. /\ c \in [0 .. L -> 0 .. HelloParts] /\ c[0] = 0
        /\ \A m, k \in 0 .. L : m <= k => c[m] <= c[k] /\ m - c[m] <= k - c[k]
        /\ Rising(c, L, HelloParts)
    BY DEF Counts, Rising
  <1>3. \A n \in 1 .. L :
          \/ w[n] = <<0, c[n]>> /\ c[n] = c[n - 1] + 1
          \/ w[n][1] # 0 /\ c[n] = c[n - 1] /\ Index(w[n]) = n - c[n]
    BY DEF Counts
  <1>4. /\ \A i \in 1 .. h : \E m \in 1 .. L : w[m] = <<0, i>>
        /\ \A i \in 1 .. L - h : \E m \in 1 .. L : w[m][1] # 0 /\ Index(w[m]) = i
    BY DEF Counts
  <1>5. h \in 0 .. HelloParts /\ h + N <= HelloParts /\ HelloParts \in Nat
    BY <1>1, <1>2, ClientAssumption
  <1>6. \A i \in 1 .. N : s[i] = <<0, h + i>>
    OBVIOUS
  <1> HIDE DEF L, N, u
  <1>7. /\ Rising(d, L + N, HelloParts)
        /\ \A m \in 0 .. L : d[m] = c[m]
        /\ \A i \in 0 .. N : d[L + i] = c[L] + i
    <2>1. Rising(c, L, HelloParts) /\ L \in Nat /\ N \in Nat /\ HelloParts \in Nat
      BY <1>1, <1>2, <1>5
    <2>2. 1 \in {0, 1} /\ (1 = 1 => c[L] + N <= HelloParts)
      BY <1>5
    <2>3. Rising(d, L + N, HelloParts)
      BY ONLY <2>1, <2>2, CountGrows
    <2>4. Extends(d, c, L, N, 1)
      BY ONLY <2>1, <2>2, CountGrows
    <2> HIDE DEF d
    <2> QED
      BY ONLY <2>3, <2>4 DEF Extends
  <1> HIDE DEF d, h
  <1>8. /\ \A i \in 0 .. N : d[L + i] = h + i
        /\ d[L + N] = h + N
    BY <1>1, <1>7 DEF h
  <1>9. ASSUME NEW n \in 1 .. L + N
        PROVE  \/ u[n] = <<0, d[n]>> /\ d[n] = d[n - 1] + 1
               \/ u[n][1] # 0 /\ d[n] = d[n - 1] /\ Index(u[n]) = n - d[n]
    <2>1. CASE n <= L
      <3>1. n \in 1 .. L /\ n \in 0 .. L /\ n - 1 \in 0 .. L
        BY <1>1, <2>1
      <3>2. d[n] = c[n] /\ d[n - 1] = c[n - 1] /\ u[n] = w[n]
        BY <1>1, <1>7, <3>1
      <3> QED
        BY <1>3, <3>1, <3>2
    <2>2. CASE n > L
      <3>1. PICK i \in 1 .. N : n = L + i
        <4>1. n - L \in 1 .. N /\ n = L + (n - L)
          BY <1>1, <2>2
        <4> QED
          BY <4>1
      <3>2. d[n] = h + i
        BY <1>1, <1>8, <3>1
      <3>3. d[n - 1] = h + (i - 1)
        <4>1. i - 1 \in 0 .. N /\ n - 1 = L + (i - 1)
          BY <1>1, <3>1
        <4> QED
          BY <1>8, <4>1
      <3>4. u[n] = <<0, h + i>>
        BY <1>1, <1>6, <3>1
      <3> QED
        BY <1>1, <1>5, <3>2, <3>3, <3>4
    <2> QED
      BY <1>1, <2>1, <2>2
  <1>10. ASSUME NEW i \in 1 .. d[L + N]
         PROVE  \E m \in 1 .. L + N : u[m] = <<0, i>>
    <2>1. CASE i <= h
      <3>1. i \in 1 .. h
        BY <1>5, <1>8, <1>1, <2>1
      <3>2. PICK m \in 1 .. L : w[m] = <<0, i>>
        BY <1>4, <3>1
      <3>3. m \in 1 .. L + N /\ u[m] = w[m]
        BY <1>1
      <3> QED
        BY <3>2, <3>3
    <2>2. CASE i > h
      <3>1. i - h \in 1 .. N /\ h + (i - h) = i /\ L + (i - h) \in 1 .. L + N
        BY <1>1, <1>5, <1>8, <2>2
      <3>2. u[L + (i - h)] = <<0, h + (i - h)>>
        BY <1>1, <1>6, <3>1
      <3>3. u[L + (i - h)] = <<0, i>>
        BY <3>1, <3>2
      <3> QED
        BY <3>1, <3>3
    <2> QED
      BY <1>1, <1>5, <1>8, <2>1, <2>2
  <1>11. ASSUME NEW i \in 1 .. (L + N) - d[L + N]
         PROVE  \E m \in 1 .. L + N : u[m][1] # 0 /\ Index(u[m]) = i
    <2>1. i \in 1 .. L - h
      BY <1>1, <1>5, <1>8
    <2>2. PICK m \in 1 .. L : w[m][1] # 0 /\ Index(w[m]) = i
      BY <1>4, <2>1
    <2>3. m \in 1 .. L + N /\ u[m] = w[m]
      BY <1>1
    <2> QED
      BY <2>2, <2>3
  <1>12. Counts(d, u)
    <2>1. Len(u) = L + N
      BY <1>1
    <2> QED
      BY <1>7, <1>9, <1>10, <1>11, <2>1 DEF Counts
  <1> QED
    BY <1>12 DEF d, L, N, u

\* More of the lines is sent.
LEMMA LinesSent ==
  ASSUME NEW w \in Seq(Part), NEW c, Counts(c, w), NEW s \in Seq(Part),
         \A i \in 1 .. Len(s) :
           s[i][1] # 0 /\ Index(s[i]) = (Len(w) - c[Len(w)]) + i
  PROVE  Counts(Counted(c, Len(w), Len(s), 0), w \o s)
  <1> DEFINE L == Len(w)
             N == Len(s)
             h == c[L]
             u == w \o s
             d == Counted(c, L, N, 0)
  <1>1. /\ L \in Nat /\ N \in Nat /\ Len(u) = L + N
        /\ \A i \in 1 .. L : u[i] = w[i]
        /\ \A i \in 1 .. N : u[L + i] = s[i]
    BY Joined
  <1>2. /\ c \in [0 .. L -> 0 .. HelloParts] /\ c[0] = 0
        /\ \A m, k \in 0 .. L : m <= k => c[m] <= c[k] /\ m - c[m] <= k - c[k]
        /\ Rising(c, L, HelloParts)
    BY DEF Counts, Rising
  <1>3. \A n \in 1 .. L :
          \/ w[n] = <<0, c[n]>> /\ c[n] = c[n - 1] + 1
          \/ w[n][1] # 0 /\ c[n] = c[n - 1] /\ Index(w[n]) = n - c[n]
    BY DEF Counts
  <1>4. /\ \A i \in 1 .. h : \E m \in 1 .. L : w[m] = <<0, i>>
        /\ \A i \in 1 .. L - h : \E m \in 1 .. L : w[m][1] # 0 /\ Index(w[m]) = i
    BY DEF Counts
  <1>0. c[0] <= c[L] /\ 0 - c[0] <= L - c[L]
    BY <1>1, <1>2
  <1>5. h \in 0 .. HelloParts /\ HelloParts \in Nat /\ h <= L
    BY <1>1, <1>2, <1>0, ClientAssumption
  <1>6. \A i \in 1 .. N : s[i][1] # 0 /\ Index(s[i]) = (L - h) + i
    OBVIOUS
  <1> HIDE DEF L, N, u
  <1>7. /\ Rising(d, L + N, HelloParts)
        /\ \A m \in 0 .. L : d[m] = c[m]
        /\ \A i \in 0 .. N : d[L + i] = c[L]
    <2>1. Rising(c, L, HelloParts) /\ L \in Nat /\ N \in Nat /\ HelloParts \in Nat
      BY <1>1, <1>2, <1>5
    <2>2. 0 \in {0, 1} /\ (0 = 1 => c[L] + N <= HelloParts)
      BY <1>5
    <2>3. Rising(d, L + N, HelloParts)
      BY ONLY <2>1, <2>2, CountGrows
    <2>4. Extends(d, c, L, N, 0)
      BY ONLY <2>1, <2>2, CountGrows
    <2> HIDE DEF d
    <2> QED
      BY ONLY <2>3, <2>4 DEF Extends
  <1> HIDE DEF d, h
  <1>8. /\ \A i \in 0 .. N : d[L + i] = h
        /\ d[L + N] = h
    <2>1. \A i \in 0 .. N : d[L + i] = h
      BY <1>7 DEF h
    <2>2. N \in 0 .. N
      BY <1>1
    <2> QED
      BY <2>1, <2>2
  <1>9. ASSUME NEW n \in 1 .. L + N
        PROVE  \/ u[n] = <<0, d[n]>> /\ d[n] = d[n - 1] + 1
               \/ u[n][1] # 0 /\ d[n] = d[n - 1] /\ Index(u[n]) = n - d[n]
    <2>1. CASE n <= L
      <3>1. n \in 1 .. L /\ n \in 0 .. L /\ n - 1 \in 0 .. L
        BY <1>1, <2>1
      <3>2. d[n] = c[n] /\ d[n - 1] = c[n - 1] /\ u[n] = w[n]
        BY <1>1, <1>7, <3>1
      <3> QED
        BY <1>3, <3>1, <3>2
    <2>2. CASE n > L
      <3>1. PICK i \in 1 .. N : n = L + i
        <4>1. n - L \in 1 .. N /\ n = L + (n - L)
          BY <1>1, <2>2
        <4> QED
          BY <4>1
      <3>2. d[n] = h
        <4>1. i \in 0 .. N
          BY <1>1
        <4> QED
          BY <1>8, <3>1, <4>1
      <3>3. d[n - 1] = h
        <4>1. i - 1 \in 0 .. N /\ n - 1 = L + (i - 1)
          BY <1>1, <3>1
        <4> QED
          BY <1>8, <4>1
      <3>4. u[n][1] # 0 /\ Index(u[n]) = (L - h) + i
        BY <1>1, <1>6, <3>1
      <3>5. (L - h) + i = n - h
        BY <1>1, <1>5, <3>1
      <3> QED
        BY <3>2, <3>3, <3>4, <3>5
    <2> QED
      BY <1>1, <2>1, <2>2
  <1>10. ASSUME NEW i \in 1 .. d[L + N]
         PROVE  \E m \in 1 .. L + N : u[m] = <<0, i>>
    <2>1. PICK m \in 1 .. L : w[m] = <<0, i>>
      BY <1>4, <1>8
    <2>2. m \in 1 .. L + N /\ u[m] = w[m]
      BY <1>1
    <2> QED
      BY <2>1, <2>2
  <1>11. ASSUME NEW i \in 1 .. (L + N) - d[L + N]
         PROVE  \E m \in 1 .. L + N : u[m][1] # 0 /\ Index(u[m]) = i
    <2>1. CASE i <= L - h
      <3>1. i \in 1 .. L - h
        BY <1>5, <1>8, <1>1, <2>1
      <3>2. PICK m \in 1 .. L : w[m][1] # 0 /\ Index(w[m]) = i
        BY <1>4, <3>1
      <3>3. m \in 1 .. L + N /\ u[m] = w[m]
        BY <1>1
      <3> QED
        BY <3>2, <3>3
    <2>2. CASE i > L - h
      <3>1. PICK j \in 1 .. N : i = (L - h) + j
        <4>1. i - (L - h) \in 1 .. N /\ i = (L - h) + (i - (L - h))
          BY <1>1, <1>5, <1>8, <2>2
        <4> QED
          BY <4>1
      <3>2. L + j \in 1 .. L + N /\ u[L + j] = s[j]
        <4>1. L + j \in 1 .. L + N
          BY <1>1
        <4>2. u[L + j] = s[j]
          BY <1>1
        <4> QED
          BY <4>1, <4>2
      <3>3. u[L + j][1] # 0 /\ Index(u[L + j]) = i
        BY <1>6, <3>1, <3>2
      <3> QED
        BY <3>2, <3>3
    <2> QED
      BY <1>1, <1>5, <1>8, <2>1, <2>2
  <1>12. Counts(d, u)
    <2>1. Len(u) = L + N
      BY <1>1
    <2> QED
      BY <1>7, <1>9, <1>10, <1>11, <2>1 DEF Counts
  <1> QED
    BY <1>12 DEF d, L, N, u

-----------------------------------------------------------------------------
(* The client's invariant *)

\* write_msgs_ holds the lines taken last.
Queued == \A i \in DOMAIN queue : queue[i] = taken - Len(queue) + i

\* How the operations stand to each other, and to the connection.
Operations ==
  /\ write.state = "none" => write.parts = 0
  /\ write.state = "done" => write.parts = FrameParts
  /\ hello.state = "done" => hello.parts = HelloParts
  /\ hello.state # "none" => connecting = "none" /\ link # "none"
  /\ connecting \in {"trying", "failed"} => link = "none"
  /\ connecting = "ok" => link # "none"
  /\ hello.state = "failed" => ~isOpen \/ link = "lost"

\* With h parts of the nickname in the stream: how many of the lines there are,
\* how many of the nickname there can be, and what has not been written if
\* nothing was written early.
Amount(h) ==
  /\ Len(wire) - h <= taken * FrameParts
  /\ isOpen => Len(wire) - h = (taken - Len(queue)) * FrameParts + write.parts
  /\ connecting # "none" => h = 0
  /\ hello.state \in {"busy", "done"} => h = hello.parts
  /\ connecting = "none" /\ hello.state = "none" /\ link = "up" /\ isOpen
       => h = HelloParts
  /\ ~early /\ (connecting # "none" \/ hello.state = "busy")
       => write.state = "none" /\ queue = <<>> /\ Len(wire) = h
  /\ ~early /\ write.state # "none" /\ isOpen /\ link = "up" => h = HelloParts

\* The nickname is in front.
InFront(c) ==
  \A n \in 0 .. Len(wire) : c[n] = IF n <= HelloParts THEN n ELSE HelloParts

StreamInv == \E c : /\ Counts(c, wire)
                    /\ Amount(c[Len(wire)])
                    /\ ~early => InFront(c)

\* QueueServed and Listens are inductive with Operations, Framed and LinesIntact
\* are not: they follow from how much of what has been sent.
ClientInv == TypeOK /\ QueueServed /\ Listens /\ Queued /\ Operations /\ StreamInv

LEMMA Sizes == /\ FrameParts \in Nat \ {0} /\ HelloParts \in Nat \ {0}
               /\ MaxLines \in Nat /\ MaxFrames \in Nat
  BY ClientAssumption

\* An async_write that is started, goes on or fails.
LEMMA Writes ==
  ASSUME NEW size \in Nat \ {0}
  PROVE  /\ Idle \in Write(size) /\ Idle.state = "none" /\ Idle.parts = 0
         /\ Started \in Write(size) /\ Started.state = "busy" /\ Started.parts = 0
         /\ \A w \in Write(size) :
              /\ w.state \in {"none", "busy", "done", "failed"}
              /\ w.parts \in 0 .. size
              /\ [w EXCEPT !.state = "failed"] \in Write(size)
              /\ [w EXCEPT !.state = "failed"].state = "failed"
              /\ [w EXCEPT !.state = "failed"].parts = w.parts
  BY DEF Idle, Started, Write

LEMMA Sends ==
  ASSUME NEW size \in Nat \ {0}, NEW w \in Write(size),
         NEW n \in 1 .. size - w.parts
  PROVE  /\ Sent(w, size, n) \in Write(size)
         /\ Sent(w, size, n).parts = w.parts + n
         /\ Sent(w, size, n).state \in {"busy", "done"}
         /\ Sent(w, size, n).state = "done" => w.parts + n = size
  <1>1. w.parts \in 0 .. size
    BY Writes
  <1>2. w.parts + n \in 0 .. size
    BY <1>1
  <1> QED
    BY <1>2 DEF Sent, Completed, Write

LEMMA ClientTypes ==
  ASSUME TypeOK
  PROVE  /\ typed \in Nat /\ taken \in Nat /\ taken <= typed /\ typed <= MaxLines
         /\ queue \in Seq(1 .. MaxLines) /\ Len(queue) \in Nat
         /\ wire \in Seq(Part) /\ Len(wire) \in Nat
         /\ write \in Write(FrameParts) /\ hello \in Write(HelloParts)
         /\ write.parts \in 0 .. FrameParts /\ hello.parts \in 0 .. HelloParts
         /\ write.state \in {"none", "busy", "done", "failed"}
         /\ hello.state \in {"none", "busy", "done", "failed"}
         /\ arrived \in Nat /\ shown \in Nat /\ shown <= arrived
  <1>1. write \in Write(FrameParts) /\ hello \in Write(HelloParts)
    BY DEF TypeOK
  <1>2. /\ write.parts \in 0 .. FrameParts /\ hello.parts \in 0 .. HelloParts
        /\ write.state \in {"none", "busy", "done", "failed"}
        /\ hello.state \in {"none", "busy", "done", "failed"}
    BY <1>1, Sizes, Writes
  <1>3. /\ queue \in Seq(1 .. MaxLines) /\ Len(queue) \in Nat
        /\ wire \in Seq(Part) /\ Len(wire) \in Nat
    BY LenProperties DEF TypeOK
  <1>4. /\ typed \in Nat /\ taken \in Nat /\ taken <= typed /\ typed <= MaxLines
        /\ arrived \in Nat /\ shown \in Nat /\ shown <= arrived
    BY Sizes DEF TypeOK
  <1> QED
    BY <1>1, <1>2, <1>3, <1>4

\* A step that leaves the stream alone.
LEMMA StreamStays ==
  ASSUME StreamInv, UNCHANGED wire, early' \/ early' = early,
         \A h \in 0 .. HelloParts : Amount(h) => Amount(h)', TypeOK
  PROVE  StreamInv'
  <1>1. PICK c : /\ Counts(c, wire) /\ Amount(c[Len(wire)])
                 /\ ~early => InFront(c)
    BY DEF StreamInv
  <1>2. c[Len(wire)] \in 0 .. HelloParts
    BY <1>1, ClientTypes DEF Counts, Rising
  <1>3. Counts(c, wire')
    BY <1>1
  <1>4. ASSUME NEW h, h = c[Len(wire)] PROVE Amount(h)'
    BY <1>1, <1>2, <1>4
  <1>5. Amount(c[Len(wire)])'
    BY <1>4 DEF Amount
  <1>6. ~early' => InFront(c)'
    BY <1>1 DEF InFront
  <1> QED
    BY <1>3, <1>5, <1>6 DEF StreamInv

LEMMA InitClient == Init => ClientInv
  <1> SUFFICES ASSUME Init PROVE ClientInv
    OBVIOUS
  <1>1. TypeOK
    <2>1. Idle \in Write(FrameParts) /\ Idle \in Write(HelloParts)
      BY Sizes, Writes
    <2>2. <<>> \in Seq(Part) /\ <<>> \in Seq(1 .. MaxLines)
      OBVIOUS
    <2>3. queue \in Seq(1 .. MaxLines) /\ wire \in Seq(Part)
      BY <2>2 DEF Init
    <2>4. /\ typed \in 0 .. MaxLines /\ taken \in 0 .. typed
          /\ shown \in 0 .. arrived /\ arrived \in 0 .. MaxFrames
      BY Sizes DEF Init
    <2>5. hello \in Write(HelloParts) /\ write \in Write(FrameParts)
      BY <2>1 DEF Init
    <2> QED
      BY <2>3, <2>4, <2>5 DEF Init, TypeOK
  <1>2. QueueServed /\ Listens /\ Queued /\ Operations
    BY DEF Init, QueueServed, Listens, Queued, Operations, Idle
  <1>3. StreamInv
    <2> DEFINE c == [n \in 0 .. 0 |-> 0]
    <2>1. wire = <<>> /\ Len(wire) = 0
      BY DEF Init
    <2>2. c[0] = 0
      OBVIOUS
    <2>3. Rising(c, 0, HelloParts)
      BY Sizes DEF Rising
    <2>4. Counts(c, wire)
      <3> HIDE DEF c
      <3> QED
        BY <2>1, <2>2, <2>3 DEF Counts
    <2>5. Amount(0)
      <3>1. (taken - Len(queue)) * FrameParts = 0 /\ taken * FrameParts = 0
        BY Sizes DEF Init
      <3> QED
        BY <2>1, <3>1 DEF Init, Amount, Idle
    <2>6. InFront(c)
      <3> HIDE DEF c
      <3> QED
        BY <2>1, <2>2, Sizes DEF InFront
    <2>7. Amount(c[Len(wire)])
      BY <2>1, <2>2, <2>5
    <2> HIDE DEF c
    <2> QED
      BY <2>4, <2>6, <2>7 DEF StreamInv
  <1> QED
    BY <1>1, <1>2, <1>3 DEF ClientInv

\* main types, the worker's run returns, the server sends, the connection breaks.
LEMMA TypeKeeps ==
  ASSUME ClientInv, Type \/ RunReturns \/ Arrive \/ Lose
  PROVE  ClientInv'
  <1> USE DEF ClientInv
  <1>1. TypeOK'
    <2>1. CASE Type
      BY <2>1, ClientTypes, Sizes DEF Type, TypeOK
    <2>2. CASE RunReturns
      BY <2>2 DEF RunReturns, TypeOK
    <2>3. CASE Arrive
      BY <2>3, ClientTypes, Sizes DEF Arrive, TypeOK, client
    <2>4. CASE Lose
      BY <2>4, ClientTypes, Sizes DEF Lose, TypeOK, client
    <2> QED
      BY <2>1, <2>2, <2>3, <2>4
  <1>2. /\ UNCHANGED <<taken, connecting, isOpen, hello, write, reading, queue,
                       wire, early>>
        /\ link' = link \/ (link = "up" /\ link' = "lost")
    BY DEF Type, RunReturns, Arrive, Lose, client
  <1>3. QueueServed' /\ Listens' /\ Queued' /\ Operations'
    BY <1>2 DEF QueueServed, Listens, Queued, Operations
  <1>4. \A h \in 0 .. HelloParts : Amount(h) => Amount(h)'
    BY <1>2 DEF Amount
  <1>5. StreamInv'
    BY <1>2, <1>4, StreamStays
  <1> QED
    BY <1>1, <1>3, <1>5

LEMMA ConnectKeeps ==
  ASSUME ClientInv, Handshake \/ OnConnect
  PROVE  ClientInv'
  <1> USE DEF ClientInv
  <1>1. CASE Handshake
    <2>1. /\ UNCHANGED <<typed, taken, worker, isOpen, hello, write, reading,
                         queue, shown, wire, arrived, early>>
          /\ connecting = "trying"
          /\ \/ isOpen /\ connecting' = "ok" /\ link' = "up"
             \/ connecting' = "failed" /\ link' = link
      BY <1>1 DEF Handshake
    <2>2. TypeOK'
      BY <2>1 DEF TypeOK
    <2>3. QueueServed' /\ Listens' /\ Queued' /\ Operations'
      BY <2>1 DEF QueueServed, Listens, Queued, Operations
    <2>4. \A h \in 0 .. HelloParts : Amount(h) => Amount(h)'
      <3> SUFFICES ASSUME NEW h \in 0 .. HelloParts, Amount(h) PROVE Amount(h)'
        OBVIOUS
      <3>1. ~early => write.state = "none"
        BY <2>1 DEF Amount
      <3> QED
        BY <2>1, <3>1 DEF Amount
    <2>5. StreamInv'
      BY <2>1, <2>4, StreamStays
    <2> QED
      BY <2>2, <2>3, <2>5
  <1>2. CASE OnConnect
    <2>1. /\ UNCHANGED <<typed, taken, worker, isOpen, write, reading, queue,
                         shown, link, wire, arrived, early>>
          /\ connecting \in {"ok", "failed"} /\ connecting' = "none"
          /\ hello.state = "none"
          /\ connecting = "ok" => hello' = Started /\ link # "none"
          /\ connecting # "ok" => hello' = hello /\ link = "none"
      BY <1>2 DEF OnConnect, Operations
    <2>0. /\ Started \in Write(HelloParts) /\ Started.state = "busy"
          /\ Started.parts = 0
      BY Sizes, Writes
    <2>2. TypeOK'
      BY <2>0, <2>1 DEF TypeOK
    <2>3. QueueServed' /\ Listens' /\ Queued' /\ Operations'
      BY <2>0, <2>1 DEF QueueServed, Listens, Queued, Operations
    <2>4. \A h \in 0 .. HelloParts : Amount(h) => Amount(h)'
      <3> SUFFICES ASSUME NEW h \in 0 .. HelloParts, Amount(h) PROVE Amount(h)'
        OBVIOUS
      <3>1. ~early => write.state = "none" /\ queue = <<>> /\ Len(wire) = h
        BY <2>1 DEF Amount
      <3> QED
        BY <2>0, <2>1, <3>1 DEF Amount
    <2>5. StreamInv'
      BY <2>1, <2>4, StreamStays
    <2> QED
      BY <2>2, <2>3, <2>5
  <1> QED
    BY <1>1, <1>2

\* readHandler, for the nickname's write and for a read.
LEMMA ReadKeeps ==
  ASSUME ClientInv, HelloHandler \/ ReadHandler
  PROVE  ClientInv'
  <1> USE DEF ClientInv
  <1>1. CASE HelloHandler
    <2>1. /\ UNCHANGED <<typed, taken, worker, connecting, write, queue, shown,
                         link, wire, arrived, early>>
          /\ hello.state \in {"done", "failed"} /\ hello' = Idle
          /\ reading' \in BOOLEAN /\ isOpen' \in BOOLEAN
          /\ hello.state = "done" => reading' = TRUE /\ isOpen' = isOpen
          /\ hello.state # "done" => isOpen' = FALSE
      BY <1>1 DEF HelloHandler, Rearm, CloseImpl, TypeOK
    <2>0. Idle \in Write(HelloParts) /\ Idle.state = "none" /\ Idle.parts = 0
      BY Sizes, Writes
    <2>2. TypeOK'
      BY <2>0, <2>1 DEF TypeOK
    <2>3. QueueServed' /\ Listens' /\ Queued' /\ Operations'
      BY <2>0, <2>1 DEF QueueServed, Listens, Queued, Operations
    <2>4. \A h \in 0 .. HelloParts : Amount(h) => Amount(h)'
      <3> SUFFICES ASSUME NEW h \in 0 .. HelloParts, Amount(h) PROVE Amount(h)'
        OBVIOUS
      <3>1. connecting = "none" /\ (hello.state = "done" => h = HelloParts)
        BY <2>1 DEF Amount, Operations
      <3> QED
        BY <2>0, <2>1, <3>1 DEF Amount
    <2>5. StreamInv'
      BY <2>1, <2>4, StreamStays
    <2> QED
      BY <2>2, <2>3, <2>5
  <1>2. CASE ReadHandler
    <2>1. /\ UNCHANGED <<typed, taken, worker, connecting, hello, write, queue,
                         link, wire, arrived, early>>
          /\ shown' \in 0 .. arrived /\ reading' \in BOOLEAN /\ isOpen' \in BOOLEAN
          /\ isOpen' => isOpen /\ reading'
      <3>1. shown \in 0 .. arrived /\ isOpen \in BOOLEAN /\ arrived \in Nat
        BY ClientTypes DEF TypeOK
      <3>2. shown < arrived => shown + 1 \in 0 .. arrived
        BY <3>1
      <3>3. /\ reading' \in BOOLEAN /\ isOpen' \in BOOLEAN
            /\ isOpen' => isOpen /\ reading'
        BY <1>2, <3>1 DEF ReadHandler, Rearm, CloseImpl
      <3>4. shown' \in 0 .. arrived
        BY <1>2, <3>1, <3>2 DEF ReadHandler
      <3> QED
        BY <1>2, <3>3, <3>4 DEF ReadHandler
    <2>2. TypeOK'
      BY <2>1 DEF TypeOK
    <2>3. QueueServed' /\ Listens' /\ Queued' /\ Operations'
      BY <2>1 DEF QueueServed, Listens, Queued, Operations
    <2>4. \A h \in 0 .. HelloParts : Amount(h) => Amount(h)'
      BY <2>1 DEF Amount
    <2>5. StreamInv'
      BY <2>1, <2>4, StreamStays
    <2> QED
      BY <2>2, <2>3, <2>5
  <1> QED
    BY <1>1, <1>2

\* Lines are whole frames: one taken more, one sent less.
LEMMA FramesUp ==
  ASSUME NEW t \in Nat, NEW F \in Nat
  PROVE  /\ t * F \in Nat /\ (t + 1) * F = t * F + F
         /\ \A l \in Nat : (t - l) * F \in Int
         /\ \A l \in Nat : (t - l) * F <= t * F
         /\ \A l \in Nat \ {0} : /\ (t - (l - 1)) * F = (t - l) * F + F
                                 /\ (t - l) * F + F <= t * F
  <1>1. \A l \in Nat : l * F \in Nat /\ (t - l) * F = t * F - l * F
    OBVIOUS
  <1>2. t * F \in Nat /\ (t + 1) * F = t * F + F
    OBVIOUS
  <1>3. \A l \in Nat : (t - l) * F \in Int /\ (t - l) * F <= t * F
    BY <1>1, <1>2
  <1>4. ASSUME NEW l \in Nat \ {0}
        PROVE  /\ (t - (l - 1)) * F = (t - l) * F + F
               /\ (t - l) * F + F <= t * F
    <2>1. (t - (l - 1)) * F = (t - l) * F + F
      OBVIOUS
    <2>2. l - 1 \in Nat
      OBVIOUS
    <2>3. (t - (l - 1)) * F <= t * F
      BY <1>3, <2>2
    <2> QED
      BY <2>1, <2>3
  <1> QED
    BY <1>2, <1>3, <1>4

\* A line more in write_msgs_, and one less.
LEMMA QueueGrows ==
  ASSUME NEW m \in Nat, NEW q \in Seq(1 .. m), NEW t \in Nat, t + 1 <= m,
         \A i \in DOMAIN q : q[i] = t - Len(q) + i
  PROVE  /\ Append(q, t + 1) \in Seq(1 .. m) /\ Append(q, t + 1) # <<>>
         /\ Len(Append(q, t + 1)) = Len(q) + 1
         /\ \A i \in DOMAIN Append(q, t + 1) :
              Append(q, t + 1)[i] = (t + 1) - (Len(q) + 1) + i
  <1>1. t + 1 \in 1 .. m /\ Len(q) \in Nat /\ DOMAIN q = 1 .. Len(q)
    BY LenProperties
  <1>2. /\ Append(q, t + 1) \in Seq(1 .. m) /\ Append(q, t + 1) # <<>>
        /\ Len(Append(q, t + 1)) = Len(q) + 1
        /\ DOMAIN Append(q, t + 1) = 1 .. Len(q) + 1
        /\ \A i \in 1 .. Len(q) : Append(q, t + 1)[i] = q[i]
        /\ Append(q, t + 1)[Len(q) + 1] = t + 1
    <2>1. /\ Append(q, t + 1) \in Seq(1 .. m)
          /\ Len(Append(q, t + 1)) = Len(q) + 1
          /\ \A i \in 1 .. Len(q) : Append(q, t + 1)[i] = q[i]
          /\ Append(q, t + 1)[Len(q) + 1] = t + 1
      BY <1>1, AppendProperties
    <2>2. DOMAIN Append(q, t + 1) = 1 .. Len(Append(q, t + 1))
      BY <2>1, LenProperties
    <2>3. Append(q, t + 1) # <<>>
      BY <1>1, <2>1, EmptySeq
    <2> QED
      BY <2>1, <2>2, <2>3
  <1> DEFINE r == Append(q, t + 1)
  <1> HIDE DEF r
  <1>3. ASSUME NEW i \in 1 .. Len(q) + 1
        PROVE  r[i] = (t + 1) - (Len(q) + 1) + i
    <2>1. CASE i \in 1 .. Len(q)
      <3>1. r[i] = t - Len(q) + i
        BY <1>1, <1>2, <2>1 DEF r
      <3> QED
        BY <1>1, <3>1
    <2>2. CASE i = Len(q) + 1
      BY <1>1, <1>2, <2>2 DEF r
    <2> QED
      BY <1>1, <2>1, <2>2
  <1> QED
    BY <1>2, <1>3 DEF r

LEMMA QueueShrinks ==
  ASSUME NEW m \in Nat, NEW q \in Seq(1 .. m), NEW t \in Nat, q # <<>>,
         \A i \in DOMAIN q : q[i] = t - Len(q) + i
  PROVE  /\ Len(q) \in Nat \ {0} /\ Head(q) \in 1 .. m /\ Head(q) = t - Len(q) + 1
         /\ Tail(q) \in Seq(1 .. m) /\ Len(Tail(q)) = Len(q) - 1
         /\ \A i \in DOMAIN Tail(q) : Tail(q)[i] = t - (Len(q) - 1) + i
  <1>1. /\ Len(q) \in Nat /\ Len(q) # 0 /\ DOMAIN q = 1 .. Len(q)
    BY LenProperties, EmptySeq
  <1>2. /\ Head(q) = q[1] /\ Head(q) \in 1 .. m /\ 1 \in DOMAIN q
        /\ Tail(q) \in Seq(1 .. m) /\ Len(Tail(q)) = Len(q) - 1
    BY <1>1, HeadTailProperties
  <1>3. /\ DOMAIN Tail(q) = 1 .. Len(q) - 1
        /\ \A i \in 1 .. Len(q) - 1 : Tail(q)[i] = q[i + 1]
    BY <1>1, <1>2, HeadTailProperties, LenProperties
  <1>4. ASSUME NEW i \in 1 .. Len(q) - 1
        PROVE  Tail(q)[i] = t - (Len(q) - 1) + i
    <2>1. i + 1 \in DOMAIN q
      BY <1>1
    <2>2. Tail(q)[i] = t - Len(q) + (i + 1)
      BY <1>3, <2>1
    <2> QED
      BY <1>1, <2>2
  <1> QED
    BY <1>1, <1>2, <1>3, <1>4

\* A line is taken.
LEMMA WriteImplKeeps ==
  ASSUME ClientInv, WriteImpl
  PROVE  ClientInv'
  <1> USE DEF ClientInv
  <1>0. /\ Started \in Write(FrameParts) /\ Started.state = "busy"
        /\ Started.parts = 0
    BY Sizes, Writes
  <1>1. /\ UNCHANGED <<typed, worker, connecting, isOpen, hello, reading, shown,
                       link, wire, arrived>>
        /\ taken < typed /\ taken' = taken + 1 /\ queue' = Append(queue, taken + 1)
        /\ queue = <<>> => /\ write' = Started
                           /\ early' = (early \/ connecting # "none"
                                              \/ hello.state = "busy")
        /\ queue # <<>> => write' = write /\ early' = early
    BY DEF WriteImpl, StartsWrite
  <1>2. /\ queue' \in Seq(1 .. MaxLines) /\ queue' # <<>>
        /\ Len(queue') = Len(queue) + 1
        /\ \A i \in DOMAIN queue' : queue'[i] = taken' - Len(queue') + i
    <2>1. taken + 1 <= MaxLines /\ taken \in Nat /\ queue \in Seq(1 .. MaxLines)
      BY <1>1, ClientTypes, Sizes
    <2>2. \A i \in DOMAIN queue : queue[i] = taken - Len(queue) + i
      BY DEF Queued
    <2> DEFINE r == Append(queue, taken + 1)
    <2>3. /\ r \in Seq(1 .. MaxLines) /\ r # <<>> /\ Len(r) = Len(queue) + 1
          /\ \A i \in DOMAIN r : r[i] = (taken + 1) - (Len(queue) + 1) + i
      <3>1. PICK q, t, m : q = queue /\ t = taken /\ m = MaxLines
        OBVIOUS
      <3>2. /\ m \in Nat /\ q \in Seq(1 .. m) /\ t \in Nat /\ t + 1 <= m
            /\ \A i \in DOMAIN q : q[i] = t - Len(q) + i
        BY <2>1, <2>2, <3>1, Sizes
      <3>3. /\ Append(q, t + 1) \in Seq(1 .. m) /\ Append(q, t + 1) # <<>>
            /\ Len(Append(q, t + 1)) = Len(q) + 1
            /\ \A i \in DOMAIN Append(q, t + 1) :
                 Append(q, t + 1)[i] = (t + 1) - (Len(q) + 1) + i
        BY ONLY <3>2, QueueGrows
      <3> QED
        BY <3>1, <3>3
    <2> HIDE DEF r
    <2>4. queue' = r /\ taken' = taken + 1
      BY <1>1 DEF r
    <2> QED
      BY <2>3, <2>4
  <1>3. TypeOK'
    <2>1. taken' \in 0 .. typed' /\ early' \in BOOLEAN
      <3>1. taken \in Nat /\ typed \in Nat
        BY ClientTypes
      <3>2. taken' \in 0 .. typed'
        BY <1>1, <3>1
      <3>3. early' \in BOOLEAN
        BY <1>1 DEF TypeOK
      <3> QED
        BY <3>2, <3>3
    <2>2. write' \in Write(FrameParts)
      BY <1>0, <1>1 DEF TypeOK
    <2> QED
      BY <1>1, <1>2, <2>1, <2>2 DEF TypeOK
  <1>4. write.state = "none" /\ queue # <<>> => ~isOpen
    BY DEF QueueServed
  <1>5. queue = <<>> => write.state = "none" /\ write.parts = 0
    BY DEF QueueServed, Operations
  <1>6. QueueServed'
    BY <1>0, <1>1, <1>2, <1>4 DEF QueueServed
  <1>7. Listens' /\ Queued' /\ Operations'
    <2>1. Listens'
      BY <1>1 DEF Listens
    <2>2. Queued'
      BY <1>2 DEF Queued
    <2>3. Operations'
      BY <1>0, <1>1 DEF Operations
    <2> QED
      BY <2>1, <2>2, <2>3
  <1>8. ASSUME NEW h \in 0 .. HelloParts, Amount(h)
        PROVE  Amount(h)'
    <2>0. /\ taken \in Nat /\ Len(queue) \in Nat /\ Len(wire) \in Nat
          /\ h \in Nat /\ FrameParts \in Nat
      BY ClientTypes, Sizes
    <2>1. Len(wire') - h <= taken' * FrameParts
      <3>1. Len(wire) - h <= taken * FrameParts
        BY <1>8 DEF Amount
      <3>2. taken' * FrameParts = taken * FrameParts + FrameParts
              /\ taken * FrameParts \in Nat
        BY <1>1, <2>0, FramesUp
      <3> HIDE DEF ClientInv
      <3> QED
        BY <1>1, <2>0, <3>1, <3>2
    <2>2. isOpen' => Len(wire') - h = (taken' - Len(queue')) * FrameParts + write'.parts
      <3>1. taken' - Len(queue') = taken - Len(queue)
        BY <1>1, <1>2, <2>0
      <3>2. isOpen => write'.parts = write.parts
        BY <1>0, <1>1, <1>5
      <3>3. isOpen => Len(wire) - h = (taken - Len(queue)) * FrameParts + write.parts
        BY <1>8 DEF Amount
      <3> QED
        BY <1>1, <3>1, <3>2, <3>3
    <2>3. ~(~early' /\ (connecting' # "none" \/ hello'.state = "busy"))
      BY <1>1, <1>8 DEF Amount
    <2>4. ~early' /\ write'.state # "none" /\ isOpen' /\ link' = "up" => h = HelloParts
      <3>1. CASE queue = <<>>
        <4> SUFFICES ASSUME ~early', isOpen, link = "up" PROVE h = HelloParts
          BY <1>1
        <4>1. connecting = "none" /\ hello.state # "busy"
          BY <1>1, <3>1
        <4>2. hello.state \in {"none", "busy", "done", "failed"}
          BY ClientTypes
        <4> QED
          BY <1>8, <4>1, <4>2 DEF Amount, Operations
      <3>2. CASE queue # <<>>
        BY <1>1, <1>8, <3>2 DEF Amount
      <3> QED
        BY <3>1, <3>2
    <2> QED
      BY <1>1, <1>8, <2>1, <2>2, <2>3, <2>4 DEF Amount
  <1>9. StreamInv'
    <2>1. early' \/ early' = early
      <3>1. early \in BOOLEAN
        BY DEF TypeOK
      <3>2. early => early'
        BY <1>1
      <3>3. early' \in BOOLEAN
        BY <1>3 DEF TypeOK
      <3> QED
        BY <3>1, <3>2, <3>3
    <2>2. \A h \in 0 .. HelloParts : Amount(h) => Amount(h)'
      BY <1>8
    <2>3. UNCHANGED wire
      BY <1>1
    <2> QED
      BY <2>1, <2>2, <2>3, StreamStays
  <1> QED
    BY <1>3, <1>6, <1>7, <1>9

\* writeHandler.
LEMMA WriteHandlerKeeps ==
  ASSUME ClientInv, WriteHandler
  PROVE  ClientInv'
  <1> USE DEF ClientInv
  <1>0. /\ Started \in Write(FrameParts) /\ Started.state = "busy"
        /\ Started.parts = 0
        /\ Idle \in Write(FrameParts) /\ Idle.state = "none" /\ Idle.parts = 0
    BY Sizes, Writes
  <1>1. UNCHANGED <<typed, taken, worker, connecting, hello, reading, shown,
                    link, wire, arrived, early>>
    BY DEF WriteHandler
  <1>2. CASE write.state = "failed"
    <2>1. /\ isOpen' = FALSE /\ queue' = queue /\ write' = Idle
      BY <1>2 DEF WriteHandler, CloseImpl
    <2>2. TypeOK'
      BY <1>0, <1>1, <2>1 DEF TypeOK
    <2>3. QueueServed' /\ Listens' /\ Queued' /\ Operations'
      BY <1>0, <1>1, <2>1 DEF QueueServed, Listens, Queued, Operations
    <2>4. \A h \in 0 .. HelloParts : Amount(h) => Amount(h)'
      BY <1>0, <1>1, <2>1 DEF Amount
    <2>5. StreamInv'
      BY <1>1, <2>4, StreamStays
    <2> QED
      BY <2>2, <2>3, <2>5
  <1>3. CASE write.state = "done"
    <2>1. /\ isOpen' = isOpen /\ queue' = Tail(queue)
          /\ write' = IF queue' # <<>> THEN Started ELSE Idle
          /\ queue # <<>>
      BY <1>3 DEF WriteHandler, QueueServed
    <2>2. /\ Len(queue) \in Nat \ {0} /\ queue' \in Seq(1 .. MaxLines)
          /\ Len(queue') = Len(queue) - 1
          /\ \A i \in DOMAIN queue' : queue'[i] = taken - (Len(queue) - 1) + i
      <3>1. queue \in Seq(1 .. MaxLines) /\ taken \in Nat
        BY ClientTypes
      <3>2. \A i \in DOMAIN queue : queue[i] = taken - Len(queue) + i
        BY DEF Queued
      <3> DEFINE r == Tail(queue)
      <3>3. /\ Len(queue) \in Nat \ {0} /\ r \in Seq(1 .. MaxLines)
            /\ Len(r) = Len(queue) - 1
            /\ \A i \in DOMAIN r : r[i] = taken - (Len(queue) - 1) + i
        BY <2>1, <3>1, <3>2, Sizes, QueueShrinks
      <3>4. queue' = r
        BY <2>1
      <3> HIDE DEF r
      <3> QED
        BY <3>3, <3>4
    <2>3. write' \in Write(FrameParts) /\ write'.parts = 0
          /\ (write'.state = "none" <=> queue' = <<>>)
          /\ write'.state \in {"none", "busy"}
      BY <1>0, <2>1
    <2>4. TypeOK'
      BY <1>1, <2>1, <2>2, <2>3 DEF TypeOK
    <2>5. QueueServed' /\ Listens' /\ Operations'
      BY <1>1, <2>1, <2>3 DEF QueueServed, Listens, Operations
    <2>6. Queued'
      BY <1>1, <2>2 DEF Queued
    <2>7. ASSUME NEW h \in 0 .. HelloParts, Amount(h)
          PROVE  Amount(h)'
      <3>1. isOpen => Len(wire) - h = (taken - Len(queue')) * FrameParts + write'.parts
        <4>1. write.parts = FrameParts
          BY <1>3 DEF Operations
        <4>2. /\ (taken - (Len(queue) - 1)) * FrameParts
                   = (taken - Len(queue)) * FrameParts + FrameParts
              /\ (taken - (Len(queue) - 1)) * FrameParts \in Int
          <5>1. taken \in Nat /\ FrameParts \in Nat /\ Len(queue) - 1 \in Nat
            BY <2>2, ClientTypes, Sizes
          <5> QED
            BY <2>2, <5>1, FramesUp
        <4>3. isOpen => Len(wire) - h = (taken - Len(queue)) * FrameParts + FrameParts
          BY <2>7, <4>1 DEF Amount
        <4>4. isOpen => Len(wire) - h = (taken - Len(queue')) * FrameParts
          BY <2>2, <4>2, <4>3
        <4>5. (taken - Len(queue')) * FrameParts + 0 = (taken - Len(queue')) * FrameParts
          BY <2>2, <4>2
        <4> QED
          BY <2>3, <4>4, <4>5
      <3>2. ~(~early /\ (connecting # "none" \/ hello.state = "busy"))
        BY <1>3, <2>7 DEF Amount
      <3> QED
        BY <1>1, <1>3, <2>1, <2>7, <3>1, <3>2 DEF Amount
    <2>8. StreamInv'
      BY <1>1, <2>7, StreamStays
    <2> QED
      BY <2>4, <2>5, <2>6, <2>8
  <1> QED
    BY <1>2, <1>3 DEF WriteHandler

\* A write fails.
LEMMA SendFailsKeeps ==
  ASSUME ClientInv, SendFails
  PROVE  ClientInv'
  <1> USE DEF ClientInv
  <1>1. /\ UNCHANGED <<typed, taken, worker, connecting, isOpen, reading, queue,
                       shown, link, wire, arrived, early>>
        /\ ~(isOpen /\ link = "up")
        /\ \/ /\ hello.state = "busy" /\ write' = write
              /\ hello' = [hello EXCEPT !.state = "failed"]
           \/ /\ write.state = "busy" /\ hello' = hello
              /\ write' = [write EXCEPT !.state = "failed"]
    BY DEF SendFails
  <1>2. write \in Write(FrameParts) /\ hello \in Write(HelloParts)
    BY DEF TypeOK
  <1>3. CASE hello.state = "busy" /\ write' = write
              /\ hello' = [hello EXCEPT !.state = "failed"]
    <2>1. /\ hello' \in Write(HelloParts) /\ hello'.state = "failed"
          /\ hello'.parts = hello.parts
      BY <1>2, <1>3, Sizes, Writes
    <2>2. TypeOK'
      BY <1>1, <1>3, <2>1 DEF TypeOK
    <2>3. ~isOpen \/ link = "lost"
      BY <1>1, <1>3 DEF TypeOK, Operations
    <2>4. QueueServed' /\ Listens' /\ Queued' /\ Operations'
      BY <1>1, <1>3, <2>1, <2>3 DEF QueueServed, Listens, Queued, Operations
    <2>5. \A h \in 0 .. HelloParts : Amount(h) => Amount(h)'
      BY <1>1, <1>3, <2>1 DEF Amount
    <2>6. StreamInv'
      BY <1>1, <2>5, StreamStays
    <2> QED
      BY <2>2, <2>4, <2>6
  <1>4. CASE write.state = "busy" /\ hello' = hello
              /\ write' = [write EXCEPT !.state = "failed"]
    <2>1. /\ write' \in Write(FrameParts) /\ write'.state = "failed"
          /\ write'.parts = write.parts
      BY <1>2, <1>4, Sizes, Writes
    <2>2. TypeOK'
      BY <1>1, <1>4, <2>1 DEF TypeOK
    <2>4. QueueServed' /\ Listens' /\ Queued' /\ Operations'
      BY <1>1, <1>4, <2>1 DEF QueueServed, Listens, Queued, Operations
    <2>5. \A h \in 0 .. HelloParts : Amount(h) => Amount(h)'
      BY <1>1, <1>4, <2>1 DEF Amount
    <2>6. StreamInv'
      BY <1>1, <2>5, StreamStays
    <2> QED
      BY <2>2, <2>4, <2>6
  <1> QED
    BY <1>1, <1>3, <1>4

\* What a partial send appends.
LEMMA PartsSent ==
  ASSUME NEW k \in Nat, NEW size \in Nat \ {0}, NEW w \in Write(size),
         NEW n \in 1 .. size - w.parts,
         \/ k = 0 /\ size = HelloParts
         \/ k \in 1 .. MaxLines /\ size = FrameParts
  PROVE  /\ Parts(k, w, n) \in Seq(Part) /\ Len(Parts(k, w, n)) = n
         /\ \A i \in 1 .. n : Parts(k, w, n)[i] = <<k, w.parts + i>>
         /\ n \in Nat \ {0} /\ w.parts + n <= size
  <1>1. w.parts \in 0 .. size
    BY Writes
  <1>2. n \in Nat \ {0} /\ w.parts + n <= size
    BY <1>1
  <1>3. \A i \in 1 .. n : w.parts + i \in 1 .. size
    BY <1>1, <1>2
  <1>4. \A i \in 1 .. n : <<k, w.parts + i>> \in Part
    BY <1>3 DEF Part
  <1>5. Parts(k, w, n) = [i \in 1 .. n |-> <<k, w.parts + i>>]
    BY DEF Parts
  <1>6. Parts(k, w, n) \in [1 .. n -> Part]
    BY <1>4, <1>5
  <1>7. Parts(k, w, n) \in Seq(Part)
    BY <1>2, <1>6
  <1>8. DOMAIN Parts(k, w, n) = 1 .. n
    BY <1>5
  <1>9. Len(Parts(k, w, n)) = n
    BY <1>2, <1>7, <1>8, LenProperties
  <1>10. \A i \in 1 .. n : Parts(k, w, n)[i] = <<k, w.parts + i>>
    BY <1>5
  <1> QED
    BY <1>2, <1>7, <1>9, <1>10

\* The nickname's write goes on.
LEMMA NicknameKeeps ==
  ASSUME ClientInv, isOpen, link = "up", hello.state = "busy",
         NEW n \in 1 .. HelloParts - hello.parts,
         hello' = Sent(hello, HelloParts, n),
         wire' = wire \o Parts(0, hello, n),
         UNCHANGED <<typed, taken, worker, connecting, isOpen, write, reading,
                     queue, shown, link, arrived, early>>
  PROVE  ClientInv'
  <1> USE DEF ClientInv
  <1> DEFINE s == Parts(0, hello, n)
             L == Len(wire)
  <1>1. hello \in Write(HelloParts) /\ hello.parts \in 0 .. HelloParts
    BY Sizes, Writes DEF TypeOK
  <1>2. /\ s \in Seq(Part) /\ Len(s) = n /\ n \in Nat \ {0}
        /\ \A i \in 1 .. n : s[i] = <<0, hello.parts + i>>
        /\ hello.parts + n <= HelloParts
    <2>1. PICK k \in Nat : k = 0
      OBVIOUS
    <2>2. /\ Parts(k, hello, n) \in Seq(Part) /\ Len(Parts(k, hello, n)) = n
          /\ \A i \in 1 .. n : Parts(k, hello, n)[i] = <<k, hello.parts + i>>
          /\ n \in Nat \ {0} /\ hello.parts + n <= HelloParts
      BY <1>1, <2>1, Sizes, PartsSent
    <2> QED
      BY <2>1, <2>2
  <1>3. /\ hello' \in Write(HelloParts) /\ hello'.parts = hello.parts + n
        /\ hello'.state \in {"busy", "done"}
        /\ hello'.state = "done" => hello'.parts = HelloParts
    BY <1>1, Sizes, Sends
  <1> HIDE DEF s
  <1>4. /\ wire \in Seq(Part) /\ L \in Nat
        /\ wire' = wire \o s /\ wire' \in Seq(Part) /\ Len(wire') = L + n
    <2>1. wire \in Seq(Part)
      BY DEF TypeOK
    <2> QED
      BY <1>2, <2>1, Joined DEF s
  <1>5. TypeOK'
    BY <1>3, <1>4 DEF TypeOK
  <1>6. QueueServed' /\ Listens' /\ Queued' /\ Operations'
    BY <1>3 DEF QueueServed, Listens, Queued, Operations
  <1>7. PICK c : /\ Counts(c, wire) /\ Amount(c[L])
                 /\ ~early => InFront(c)
    BY DEF StreamInv
  <1> HIDE DEF L
  <1>d. PICK d : d = Counted(c, L, n, 1)
    OBVIOUS
  <1>8. c[L] = hello.parts /\ c[L] \in Nat
    BY <1>1, <1>7 DEF Amount
  <1>9. Counts(d, wire')
    <2>1. c[L] + n <= HelloParts /\ \A i \in 1 .. n : s[i] = <<0, c[L] + i>>
      BY <1>2, <1>8
    <2>2. /\ Counts(c, wire) /\ c[Len(wire)] + Len(s) <= HelloParts
          /\ \A i \in 1 .. Len(s) : s[i] = <<0, c[Len(wire)] + i>>
      BY <1>2, <1>7, <2>1 DEF L
    <2>3. Counts(Counted(c, Len(wire), Len(s), 1), wire \o s)
      BY <1>2, <1>4, <2>2, NicknameSent
    <2> QED
      BY <1>2, <1>4, <1>d, <2>3 DEF L
  <1>10. /\ \A m \in 0 .. L : d[m] = c[m]
         /\ \A i \in 0 .. n : d[L + i] = c[L] + i
    <2>1. Rising(c, L, HelloParts)
      BY <1>7 DEF Counts, L
    <2>2. Extends(d, c, L, n, 1)
      BY <1>2, <1>4, <1>8, <1>d, <2>1, Sizes, CountGrows
    <2> QED
      BY <2>2 DEF Extends
  <1>11. d[Len(wire')] = c[L] + n
    <2>1. n \in 0 .. n
      BY <1>2
    <2> QED
      BY <1>4, <1>10, <2>1
  <1>12. ~early => write.state = "none" /\ queue = <<>> /\ L = c[L]
    BY <1>7 DEF Amount, L
  <1>13. ASSUME NEW h, h = c[L] + n PROVE Amount(h)'
    <2>0. Amount(c[L]) /\ h \in Nat /\ h = hello'.parts
      BY <1>2, <1>3, <1>7, <1>8, <1>13
    <2>1. Len(wire') - h = Len(wire) - c[L]
      BY <1>2, <1>4, <1>8, <1>13 DEF L
    <2>2. connecting = "none"
      BY DEF Operations
    <2>3. ~early => Len(wire') = h
      BY <1>2, <1>4, <1>8, <1>12, <1>13
    <2> QED
      BY <1>3, <1>12, <2>0, <2>1, <2>2, <2>3 DEF Amount
  <1>14. ASSUME ~early PROVE InFront(d)'
    <2>1. \A m \in 0 .. L : c[m] = IF m <= HelloParts THEN m ELSE HelloParts
      BY <1>7, <1>14 DEF InFront, L
    <2>2. L = c[L] /\ L + n <= HelloParts
      BY <1>2, <1>8, <1>12, <1>14
    <2> SUFFICES ASSUME NEW m \in 0 .. L + n
                 PROVE  d[m] = IF m <= HelloParts THEN m ELSE HelloParts
      BY <1>4 DEF InFront
    <2>3. CASE m <= L
      BY <1>4, <1>10, <2>1, <2>3
    <2>4. CASE m > L
      <3>1. PICK i \in 0 .. n : m = L + i
        <4>1. m - L \in 0 .. n /\ m = L + (m - L)
          BY <1>2, <1>4, <2>4
        <4> QED
          BY <4>1
      <3>2. d[m] = m
        BY <1>10, <2>2, <3>1
      <3>3. m <= HelloParts
        BY <1>2, <1>4, <2>2, Sizes
      <3> QED
        BY <3>2, <3>3
    <2> QED
      BY <1>4, <2>3, <2>4
  <1>15. StreamInv'
    <2>1. ASSUME NEW h, h = d[Len(wire')] PROVE Amount(h)'
      BY <1>11, <1>13, <2>1
    <2>2. Amount(d[Len(wire)])'
      BY <2>1 DEF Amount
    <2> QED
      BY <1>9, <1>14, <2>2 DEF StreamInv
  <1> QED
    BY <1>5, <1>6, <1>15

\* The write of the line in front goes on.
LEMMA LineKeeps ==
  ASSUME ClientInv, isOpen, link = "up", write.state = "busy",
         NEW n \in 1 .. FrameParts - write.parts,
         write' = Sent(write, FrameParts, n),
         wire' = wire \o Parts(Head(queue), write, n),
         UNCHANGED <<typed, taken, worker, connecting, isOpen, hello, reading,
                     queue, shown, link, arrived, early>>
  PROVE  ClientInv'
  <1> USE DEF ClientInv
  <1> DEFINE k == Head(queue)
             s == Parts(k, write, n)
             L == Len(wire)
  <1>0. /\ queue # <<>> /\ Len(queue) \in Nat \ {0}
        /\ k \in 1 .. MaxLines /\ k = taken - Len(queue) + 1 /\ taken \in Nat
    <2>1. queue \in Seq(1 .. MaxLines) /\ taken \in Nat /\ queue # <<>>
      BY ClientTypes DEF QueueServed
    <2>2. \A i \in DOMAIN queue : queue[i] = taken - Len(queue) + i
      BY DEF Queued
    <2> QED
      BY <2>1, <2>2, Sizes, QueueShrinks
  <1> HIDE DEF k
  <1>1. write \in Write(FrameParts) /\ write.parts \in 0 .. FrameParts
    BY Sizes, Writes DEF TypeOK
  <1>2. /\ s \in Seq(Part) /\ Len(s) = n /\ n \in Nat \ {0}
        /\ \A i \in 1 .. n : s[i] = <<k, write.parts + i>>
        /\ write.parts + n <= FrameParts
    <2>1. /\ k \in Nat /\ FrameParts \in Nat \ {0}
          /\ k \in 1 .. MaxLines /\ FrameParts = FrameParts
      BY <1>0, Sizes
    <2> QED
      BY <1>1, <2>1, PartsSent
  <1>3. /\ write' \in Write(FrameParts) /\ write'.parts = write.parts + n
        /\ write'.state \in {"busy", "done"}
        /\ write'.state = "done" => write'.parts = FrameParts
    BY <1>1, Sizes, Sends
  <1> HIDE DEF s
  <1>4. /\ wire \in Seq(Part) /\ L \in Nat
        /\ wire' = wire \o s /\ wire' \in Seq(Part) /\ Len(wire') = L + n
    <2>1. wire \in Seq(Part)
      BY DEF TypeOK
    <2> QED
      BY <1>2, <2>1, Joined DEF s, k
  <1>5. TypeOK'
    BY <1>3, <1>4 DEF TypeOK
  <1>6. QueueServed' /\ Listens' /\ Queued' /\ Operations'
    BY <1>0, <1>3 DEF QueueServed, Listens, Queued, Operations
  <1>7. PICK c : /\ Counts(c, wire) /\ Amount(c[L])
                 /\ ~early => InFront(c)
    BY DEF StreamInv
  <1> HIDE DEF L
  <1>d. PICK d : d = Counted(c, L, n, 0)
    OBVIOUS
  <1>r. Rising(c, L, HelloParts)
    BY <1>7 DEF Counts, L
  <1>8. c[L] \in Nat /\ c[L] <= HelloParts
    BY <1>4, <1>r, Sizes DEF Rising
  <1>9. L - c[L] = (taken - Len(queue)) * FrameParts + write.parts
    BY <1>7 DEF Amount, L
  <1>m. /\ (taken - Len(queue)) * FrameParts \in Int
        /\ (taken - Len(queue)) * FrameParts + FrameParts <= taken * FrameParts
        /\ taken * FrameParts \in Int
        /\ k - 1 = taken - Len(queue)
    <2>1. taken \in Nat /\ FrameParts \in Nat
      BY <1>0, Sizes
    <2>2. /\ \A l \in Nat : (taken - l) * FrameParts \in Int
          /\ \A l \in Nat \ {0} :
               (taken - l) * FrameParts + FrameParts <= taken * FrameParts
          /\ taken * FrameParts \in Nat
      BY <2>1, FramesUp
    <2>3. Len(queue) \in Nat \ {0}
      BY <1>0
    <2>4. k - 1 = taken - Len(queue)
      BY <1>0, <2>3
    <2> QED
      BY <2>2, <2>3, <2>4
  <1>10. Counts(d, wire')
    <2>1. ASSUME NEW i \in 1 .. n
          PROVE  s[i][1] # 0 /\ Index(s[i]) = (L - c[L]) + i
      <3>1. s[i][1] = k /\ s[i][2] = write.parts + i
        BY <1>2
      <3>2. Index(s[i]) = (taken - Len(queue)) * FrameParts + (write.parts + i)
        BY <1>m, <3>1 DEF Index
      <3> QED
        BY <1>0, <1>1, <1>9, <1>m, <3>1, <3>2
    <2>2. /\ Counts(c, wire)
          /\ \A i \in 1 .. Len(s) :
               s[i][1] # 0 /\ Index(s[i]) = (Len(wire) - c[Len(wire)]) + i
      BY <1>2, <1>7, <2>1 DEF L
    <2>3. Counts(Counted(c, Len(wire), Len(s), 0), wire \o s)
      BY <1>2, <1>4, <2>2, LinesSent
    <2> QED
      BY <1>2, <1>4, <1>d, <2>3 DEF L
  <1>11. /\ \A m \in 0 .. L : d[m] = c[m]
         /\ \A i \in 0 .. n : d[L + i] = c[L]
    <2>2. Extends(d, c, L, n, 0)
      BY <1>2, <1>4, <1>8, <1>d, <1>r, Sizes, CountGrows
    <2> QED
      BY <2>2 DEF Extends
  <1>12. d[Len(wire')] = c[L]
    <2>1. n \in 0 .. n
      BY <1>2
    <2> QED
      BY <1>4, <1>11, <2>1
  <1>13. ASSUME NEW h, h = c[L] PROVE Amount(h)'
    <2>0. Amount(h)
      BY <1>7, <1>13
    <2>1. Len(wire') - h = (taken - Len(queue)) * FrameParts + write'.parts
      <3> DEFINE x == (taken - Len(queue)) * FrameParts
      <3>1. x \in Int /\ L - c[L] = x + write.parts
        BY <1>9, <1>m
      <3> HIDE DEF x
      <3>2. (L + n) - h = x + (write.parts + n)
        <4>1. /\ h \in Nat /\ L - h = x + write.parts /\ L \in Nat
              /\ n \in Nat /\ write.parts \in Nat /\ x \in Int
          BY <1>1, <1>2, <1>4, <1>8, <1>13, <3>1
        <4> DEFINE w == write.parts
        <4> HIDE DEF w
        <4>2. /\ h \in Nat /\ L - h = x + w /\ L \in Nat
              /\ n \in Nat /\ w \in Nat /\ x \in Int
          BY <4>1 DEF w
        <4>3. (L + n) - h = x + (w + n)
          BY ONLY <4>2
        <4> QED
          BY <4>3 DEF w
      <3> QED
        BY <1>3, <1>4, <3>2 DEF x
    <2>2. Len(wire') - h <= taken * FrameParts
      BY <1>1, <1>2, <1>3, <1>m, <2>1, Sizes
    <2>3. ~(~early /\ (connecting # "none" \/ hello.state = "busy"))
      BY <2>0 DEF Amount
    <2> QED
      BY <1>3, <2>0, <2>1, <2>2, <2>3 DEF Amount
  <1>14. ASSUME ~early PROVE InFront(d)'
    <2>1. \A m \in 0 .. L : c[m] = IF m <= HelloParts THEN m ELSE HelloParts
      BY <1>7, <1>14 DEF InFront, L
    <2>2. c[L] = HelloParts
      BY <1>7, <1>14 DEF Amount
    <2>3. L >= HelloParts
      BY <1>4, <2>1, <2>2, Sizes
    <2> SUFFICES ASSUME NEW m \in 0 .. L + n
                 PROVE  d[m] = IF m <= HelloParts THEN m ELSE HelloParts
      BY <1>4 DEF InFront
    <2>4. CASE m <= L
      BY <1>4, <1>11, <2>1, <2>4
    <2>5. CASE m > L
      <3>1. PICK i \in 0 .. n : m = L + i
        <4>1. m - L \in 0 .. n /\ m = L + (m - L)
          BY <1>2, <1>4, <2>5
        <4> QED
          BY <4>1
      <3>2. d[m] = HelloParts
        BY <1>11, <2>2, <3>1
      <3>3. ~(m <= HelloParts)
        BY <1>4, <2>3, <2>5, Sizes
      <3> QED
        BY <3>2, <3>3
    <2> QED
      BY <1>4, <2>4, <2>5
  <1>15. StreamInv'
    <2>1. ASSUME NEW h, h = d[Len(wire')] PROVE Amount(h)'
      BY <1>12, <1>13, <2>1
    <2>2. Amount(d[Len(wire)])'
      BY <2>1 DEF Amount
    <2> QED
      BY <1>10, <1>14, <2>2 DEF StreamInv
  <1> QED
    BY <1>5, <1>6, <1>15

LEMMA StepClient == ClientInv /\ [Next]_vars => ClientInv'
  <1> SUFFICES ASSUME ClientInv, [Next]_vars PROVE ClientInv'
    OBVIOUS
  <1>1. CASE Type \/ RunReturns \/ Arrive \/ Lose
    BY <1>1, TypeKeeps
  <1>2. CASE Handshake \/ OnConnect
    BY <1>2, ConnectKeeps
  <1>3. CASE HelloHandler \/ ReadHandler
    BY <1>3, ReadKeeps
  <1>4. CASE WriteImpl
    BY <1>4, WriteImplKeeps
  <1>5. CASE WriteHandler
    BY <1>5, WriteHandlerKeeps
  <1>6. CASE SendFails
    BY <1>6, SendFailsKeeps
  <1>7. CASE Send
    <2>1. /\ isOpen /\ link = "up"
          /\ UNCHANGED <<typed, taken, worker, connecting, isOpen, reading,
                         queue, shown, link, arrived, early>>
      BY <1>7 DEF Send
    <2>2. CASE /\ hello.state = "busy" /\ write' = write
               /\ \E n \in 1 .. HelloParts - hello.parts :
                    /\ hello' = Sent(hello, HelloParts, n)
                    /\ wire' = wire \o Parts(0, hello, n)
      BY <2>1, <2>2, NicknameKeeps
    <2>3. CASE /\ write.state = "busy" /\ hello' = hello
               /\ \E n \in 1 .. FrameParts - write.parts :
                    /\ write' = Sent(write, FrameParts, n)
                    /\ wire' = wire \o Parts(Head(queue), write, n)
      BY <2>1, <2>3, LineKeeps
    <2> QED
      BY <1>7, <2>2, <2>3 DEF Send
  <1>8. CASE UNCHANGED vars
    BY <1>8 DEF vars, ClientInv, TypeOK, QueueServed, Listens, Queued, Operations,
                StreamInv, Amount, InFront
  <1> QED
    BY <1>1, <1>2, <1>3, <1>4, <1>5, <1>6, <1>7, <1>8 DEF Next

LEMMA ClientAlways == Spec => []ClientInv
  BY InitClient, StepClient, PTL DEF Spec

-----------------------------------------------------------------------------
(* What the stream is *)

\* The places tell the lines' parts apart, and which is first.
LEMMA Places ==
  ASSUME NEW p \in Part, NEW q \in Part, p[1] # 0, q[1] # 0
  PROVE  /\ Index(p) \in Nat \ {0}
         /\ Index(p) = Index(q) => p = q
         /\ Index(p) < Index(q) <=> Earlier(p, q)
  <1>1. /\ p[1] \in 1 .. MaxLines /\ p[2] \in 1 .. FrameParts /\ p = <<p[1], p[2]>>
        /\ q[1] \in 1 .. MaxLines /\ q[2] \in 1 .. FrameParts /\ q = <<q[1], q[2]>>
    BY PartShape
  <1>2. PICK k, i, l, j : k = p[1] /\ i = p[2] /\ l = q[1] /\ j = q[2]
    OBVIOUS
  <1>3. /\ k \in Nat \ {0} /\ l \in Nat \ {0} /\ i \in 1 .. FrameParts
        /\ j \in 1 .. FrameParts /\ FrameParts \in Nat \ {0}
    BY <1>1, <1>2, Sizes
  <1>4. /\ Index(p) = (k - 1) * FrameParts + i /\ Index(q) = (l - 1) * FrameParts + j
    BY <1>2 DEF Index
  <1>5. /\ (k - 1) * FrameParts \in Nat /\ (l - 1) * FrameParts \in Nat
    BY <1>3
  <1>6. Index(p) \in Nat \ {0} /\ Index(q) \in Nat
    BY <1>3, <1>4, <1>5
  <1>7. /\ k < l => Index(p) < Index(q)
        /\ l < k => Index(q) < Index(p)
        /\ Index(p) = Index(q) => k = l /\ i = j
    BY <1>3, <1>4, Lexical
  <1>8. k = l => (Index(p) < Index(q) <=> i < j)
    BY <1>3, <1>4, <1>5
  <1>9. Earlier(p, q) <=> k < l \/ (k = l /\ i < j)
    BY <1>2 DEF Earlier
  <1> QED
    BY <1>1, <1>2, <1>3, <1>6, <1>7, <1>8, <1>9

\* What is at a place of the stream.
LEMMA At ==
  ASSUME TypeOK, NEW c, Counts(c, wire), NEW n \in 1 .. Len(wire)
  PROVE  /\ n \in Nat /\ c[n] \in 0 .. HelloParts /\ c[n - 1] \in 0 .. HelloParts
         /\ \A m \in 0 .. n : /\ c[m] \in 0 .. HelloParts /\ c[m] <= c[n]
                              /\ m - c[m] <= n - c[n]
         /\ wire[n] \in Part
         /\ \/ wire[n] = <<0, c[n]>> /\ wire[n][1] = 0 /\ c[n] = c[n - 1] + 1
            \/ wire[n][1] # 0 /\ c[n] = c[n - 1] /\ Index(wire[n]) = n - c[n]
  <1>1. wire \in Seq(Part) /\ Len(wire) \in Nat
    BY ClientTypes
  <1>2. wire[n] \in Part
    BY <1>1, ElementOfSeq
  <1>3. /\ c \in [0 .. Len(wire) -> 0 .. HelloParts]
        /\ \A m, k \in 0 .. Len(wire) :
             m <= k => c[m] <= c[k] /\ m - c[m] <= k - c[k]
    BY DEF Counts, Rising
  <1>4. n \in 0 .. Len(wire) /\ n - 1 \in 0 .. Len(wire)
    BY <1>1
  <1>5. \/ wire[n] = <<0, c[n]>> /\ c[n] = c[n - 1] + 1
        \/ wire[n][1] # 0 /\ c[n] = c[n - 1] /\ Index(wire[n]) = n - c[n]
    BY DEF Counts
  <1>6. wire[n] = <<0, c[n]>> => wire[n][1] = 0
    OBVIOUS
  <1>7. \A m \in 0 .. n : /\ c[m] \in 0 .. HelloParts /\ c[m] <= c[n]
                           /\ m - c[m] <= n - c[n]
    <2> SUFFICES ASSUME NEW m \in 0 .. n
                 PROVE  /\ c[m] \in 0 .. HelloParts /\ c[m] <= c[n]
                        /\ m - c[m] <= n - c[n]
      OBVIOUS
    <2>1. m \in 0 .. Len(wire) /\ m <= n
      BY <1>1
    <2> QED
      BY <1>3, <1>4, <2>1
  <1>8. n \in Nat /\ c[n] \in 0 .. HelloParts /\ c[n - 1] \in 0 .. HelloParts
    BY <1>1, <1>3, <1>4
  <1> QED
    BY <1>2, <1>5, <1>6, <1>7, <1>8

LEMMA ClientFramed == ClientInv => Framed
  <1> SUFFICES ASSUME ClientInv, ~early, NEW n \in DOMAIN wire
               PROVE  wire[n] = IF n <= HelloParts THEN <<0, n>>
                                                   ELSE LinePart(n - HelloParts)
    BY DEF Framed
  <1>1. TypeOK /\ n \in 1 .. Len(wire) /\ Len(wire) \in Nat
    BY ClientTypes, LenProperties DEF ClientInv
  <1>2. PICK c : Counts(c, wire) /\ InFront(c)
    BY DEF ClientInv, StreamInv
  <1>3. /\ c[n] = IF n <= HelloParts THEN n ELSE HelloParts
        /\ c[n - 1] = IF n - 1 <= HelloParts THEN n - 1 ELSE HelloParts
    <2>1. n \in 0 .. Len(wire) /\ n - 1 \in 0 .. Len(wire)
      BY <1>1
    <2> QED
      BY <1>2, <2>1 DEF InFront
  <1>4. /\ wire[n] \in Part
        /\ \/ wire[n] = <<0, c[n]>> /\ c[n] = c[n - 1] + 1
           \/ wire[n][1] # 0 /\ c[n] = c[n - 1] /\ Index(wire[n]) = n - c[n]
    BY <1>1, <1>2, At
  <1>5. CASE n <= HelloParts
    BY <1>1, <1>3, <1>4, <1>5, Sizes
  <1>6. CASE n > HelloParts
    <2>1. wire[n][1] # 0 /\ Index(wire[n]) = n - HelloParts
      BY <1>1, <1>3, <1>4, <1>6, Sizes
    <2>2. PICK k, i : k = wire[n][1] /\ i = wire[n][2]
      OBVIOUS
    <2>3. k \in Nat \ {0} /\ i \in 1 .. FrameParts /\ wire[n] = <<k, i>>
      BY <1>4, <2>1, <2>2, PartShape, Sizes
    <2>4. LinePart((k - 1) * FrameParts + i) = <<k, i>>
      BY <2>3, PartAt
    <2>5. (k - 1) * FrameParts + i = n - HelloParts
      BY <2>1, <2>2 DEF Index
    <2> QED
      BY <1>1, <1>6, <2>3, <2>4, <2>5, Sizes
  <1> QED
    BY <1>1, <1>5, <1>6, Sizes

LEMMA ClientIntact == ClientInv => LinesIntact
  <1> SUFFICES ASSUME ClientInv, NEW n \in DOMAIN wire
               PROVE  /\ wire[n][1] <= taken
                      /\ \A p \in Part : Alike(p, wire[n]) =>
                           ((\E m \in 1 .. n - 1 : wire[m] = p)
                              <=> Earlier(p, wire[n]))
    BY DEF LinesIntact
  <1>1. TypeOK /\ n \in 1 .. Len(wire) /\ Len(wire) \in Nat /\ taken \in Nat
    BY ClientTypes, LenProperties DEF ClientInv
  <1> DEFINE L == Len(wire)
  <1>2. PICK c : Counts(c, wire) /\ Amount(c[L])
    BY DEF ClientInv, StreamInv
  <1>3. \A m \in 1 .. L :
          /\ m \in Nat /\ c[m] \in 0 .. HelloParts /\ c[m - 1] \in 0 .. HelloParts
          /\ \A k \in 0 .. m : /\ c[k] \in 0 .. HelloParts /\ c[k] <= c[m]
                               /\ k - c[k] <= m - c[m]
          /\ wire[m] \in Part
          /\ \/ wire[m] = <<0, c[m]>> /\ wire[m][1] = 0 /\ c[m] = c[m - 1] + 1
             \/ wire[m][1] # 0 /\ c[m] = c[m - 1] /\ Index(wire[m]) = m - c[m]
    BY <1>1, <1>2, At
  <1>4. /\ \A i \in 1 .. c[L] : \E m \in 1 .. L : wire[m] = <<0, i>>
        /\ \A i \in 1 .. L - c[L] : \E m \in 1 .. L : wire[m][1] # 0
                                                      /\ Index(wire[m]) = i
        /\ L - c[L] <= taken * FrameParts
    BY <1>2 DEF Counts, Amount
  <1> HIDE DEF L
  <1>5. n \in 1 .. L /\ L \in Nat /\ L \in 1 .. L /\ n \in 0 .. L
    BY <1>1 DEF L
  <1>6. /\ wire[n] \in Part /\ c[n] \in 0 .. HelloParts
        /\ c[L] \in 0 .. HelloParts /\ c[n] <= c[L] /\ n - c[n] <= L - c[L]
    BY <1>3, <1>5
  <1>7. wire[n][1] <= taken
    <2>1. CASE wire[n][1] = 0
      BY <1>1, <2>1
    <2>2. CASE wire[n][1] # 0
      <3>1. PICK k, i : k = wire[n][1] /\ i = wire[n][2]
        OBVIOUS
      <3>2. k \in Nat \ {0} /\ i \in 1 .. FrameParts
        BY <1>6, <2>2, <3>1, PartShape, Sizes
      <3>3. (k - 1) * FrameParts + i = n - c[n]
        BY <1>3, <1>5, <2>2, <3>1 DEF Index
      <3>4. (k - 1) * FrameParts + i <= taken * FrameParts
        <4>1. taken * FrameParts \in Nat
          BY <1>1, Sizes
        <4> QED
          BY <1>4, <1>5, <1>6, <3>3, <4>1
      <3>5. ASSUME taken < k PROVE FALSE
        <4>1. FrameParts \in Nat \ {0} /\ FrameParts \in 1 .. FrameParts
          BY Sizes
        <4>2. (taken - 1) * FrameParts + FrameParts < (k - 1) * FrameParts + i
          BY <1>1, <3>2, <3>5, <4>1, Lexical
        <4>3. (taken - 1) * FrameParts + FrameParts = taken * FrameParts
          BY <1>1, <4>1
        <4>4. taken * FrameParts \in Int /\ (k - 1) * FrameParts \in Int
          BY <1>1, <3>2, <4>1
        <4> QED
          BY <3>2, <3>4, <4>2, <4>3, <4>4
      <3> QED
        BY <1>1, <3>1, <3>2, <3>5
    <2> QED
      BY <2>1, <2>2
  <1>8. ASSUME NEW p \in Part, Alike(p, wire[n])
        PROVE  (\E m \in 1 .. n - 1 : wire[m] = p) <=> Earlier(p, wire[n])
    <2>1. CASE wire[n][1] = 0
      <3>1. wire[n][2] = c[n] /\ c[n] = c[n - 1] + 1
        BY <1>3, <1>5, <2>1
      <3>2. PICK q \in 1 .. HelloParts : p = <<0, q>>
        <4>1. p[1] = 0
          BY <1>8, <2>1 DEF Alike
        <4> QED
          BY <4>1, PartShape
      <3>3. Earlier(p, wire[n]) <=> q < c[n]
        BY <2>1, <3>1, <3>2 DEF Earlier
      <3>4. ASSUME NEW m \in 1 .. n - 1, wire[m] = p
            PROVE  q < c[n]
        <4>1. m \in 1 .. L /\ m \in 0 .. n - 1 /\ n - 1 \in 0 .. n
              /\ (n - 1 \in 1 .. L)
          BY <1>5
        <4>2. c[m] = q
          BY <1>3, <3>2, <3>4, <4>1
        <4>3. c[m] <= c[n - 1]
          BY <1>3, <4>1
        <4> QED
          BY <1>6, <3>1, <3>2, <4>2, <4>3, <1>3, <1>5
      <3>5. ASSUME q < c[n]
            PROVE  \E m \in 1 .. n - 1 : wire[m] = p
        <4>1. q \in 1 .. c[L]
          BY <1>6, <3>5
        <4>2. PICK m \in 1 .. L : wire[m] = p
          BY <1>4, <3>2, <4>1
        <4>3. c[m] = q
          BY <1>3, <3>2, <4>2
        <4>4. ~(m >= n)
          <5> SUFFICES ASSUME m >= n PROVE FALSE
            OBVIOUS
          <5>1. n \in 0 .. m
            BY <1>5
          <5>2. c[n] <= c[m]
            BY <1>3, <5>1
          <5> QED
            BY <1>6, <3>5, <4>3, <5>2
        <4> QED
          BY <1>5, <4>2, <4>4
      <3> QED
        BY <3>3, <3>4, <3>5
    <2>2. CASE wire[n][1] # 0
      <3>1. Index(wire[n]) = n - c[n] /\ c[n] = c[n - 1]
        BY <1>3, <1>5, <2>2
      <3>2. p[1] # 0
        BY <1>8, <2>2 DEF Alike
      <3>3. /\ Index(p) \in Nat \ {0}
            /\ Earlier(p, wire[n]) <=> Index(p) < n - c[n]
        BY <1>6, <2>2, <3>1, <3>2, Places
      <3>4. ASSUME NEW m \in 1 .. n - 1, wire[m] = p
            PROVE  Index(p) < n - c[n]
        <4>1. m \in 1 .. L /\ m \in 0 .. n - 1 /\ n - 1 \in 1 .. L
          BY <1>5
        <4>2. Index(p) = m - c[m]
          BY <1>3, <3>2, <3>4, <4>1
        <4>3. m - c[m] <= (n - 1) - c[n - 1] /\ c[m] \in 0 .. HelloParts
          BY <1>3, <4>1
        <4> QED
          BY <1>5, <1>6, <3>1, <4>2, <4>3
      <3>5. ASSUME Index(p) < n - c[n]
            PROVE  \E m \in 1 .. n - 1 : wire[m] = p
        <4>1. Index(p) \in 1 .. L - c[L]
          BY <1>5, <1>6, <3>3, <3>5
        <4>2. PICK m \in 1 .. L : wire[m][1] # 0 /\ Index(wire[m]) = Index(p)
          BY <1>4, <4>1
        <4>3. wire[m] = p /\ Index(p) = m - c[m]
          BY <1>3, <3>2, <4>2, Places
        <4>4. ~(m >= n)
          <5> SUFFICES ASSUME m >= n PROVE FALSE
            OBVIOUS
          <5>1. n \in 0 .. m
            BY <1>5
          <5>2. n - c[n] <= m - c[m] /\ c[m] \in 0 .. HelloParts
            BY <1>3, <5>1
          <5> QED
            BY <1>5, <1>6, <3>5, <4>3, <5>2
        <4> QED
          BY <1>5, <4>3, <4>4
      <3> QED
        BY <3>3, <3>4, <3>5
    <2> QED
      BY <2>1, <2>2
  <1> QED
    BY <1>7, <1>8

\* With any server and any network that ChatClient allows, the client's stream is
\* as said, the lines it has queued have a write, and it listens (chat_client's
\* handlers, lines 54-101).
THEOREM ClientHolds == Spec => [](Framed /\ LinesIntact /\ QueueServed /\ Listens)
  <1>1. ClientInv => Framed /\ LinesIntact /\ QueueServed /\ Listens
    BY ClientFramed, ClientIntact DEF ClientInv
  <1> QED
    BY <1>1, ClientAlways, PTL

-----------------------------------------------------------------------------
(* The client in the connection *)

\* The steps of the client and of the connection towards it.
ClientStep ==
  \/ Client(Type) \/ Client(OnConnect) \/ Client(WriteImpl)
  \/ Client(WriteHandler) \/ Client(HelloHandler) \/ Client(RunReturns)
  \/ Client(Handshake) \/ Client(SendFails)
  \/ SendIntoRoom \/ Show \/ Pull \/ Break
ServerStep ==
  \/ OnAccept \/ NicknameHandler \/ MsgHandler \/ OtherSays \/ AnswerHandler
  \/ Take \/ Answer \/ AnswerFails

LEMMA TwoHalves == LinkNext => ClientStep \/ ServerStep
  BY DEF LinkNext, ClientStep, ServerStep

LEMMA ServerLeavesClient == ServerStep => UNCHANGED vars
  BY DEF ServerStep, OnAccept, NicknameHandler, MsgHandler, OtherSays,
         AnswerHandler, Take, Answer, AnswerFails

LEMMA ClientLeavesServer == ClientStep => UNCHANGED server
  BY DEF ClientStep, Client, SendIntoRoom, Show, Pull, Break

LEMMA ClientStepIsOne == ClientStep => [Next]_vars
  <1> SUFFICES ASSUME ClientStep PROVE [Next]_vars
    OBVIOUS
  <1>1. CASE Pull
    BY <1>1 DEF Pull, Next
  <1>2. CASE ~Pull
    BY <1>2 DEF ClientStep, Client, SendIntoRoom, Show, Break, Next
  <1> QED
    BY <1>1, <1>2

LEMMA LinkStepIsOne == [LinkNext]_linkVars => [Next]_vars
  <1>1. LinkNext => [Next]_vars
    BY TwoHalves, ServerLeavesClient, ClientStepIsOne
  <1>2. UNCHANGED linkVars => UNCHANGED vars
    BY DEF linkVars
  <1> QED
    BY <1>1, <1>2

\* The client that serves and is served in a connection with bounded buffers is
\* one that ChatClient allows: no step of the server or of the network does to it
\* what ChatClient does not have.
THEOREM ClientInLink == LinkSpec => Spec
  <1>1. LinkInit => Init
    BY DEF LinkInit
  <1> QED
    BY <1>1, LinkStepIsOne, PTL DEF LinkSpec, Spec

\* The stream only grows.
LEMMA WireGrows ==
  ASSUME ClientInv, [Next]_vars
  PROVE  /\ Len(wire') \in Nat /\ Len(wire) \in Nat /\ Len(wire) <= Len(wire')
         /\ \A i \in 1 .. Len(wire) : wire'[i] = wire[i]
  <1>1. TypeOK /\ wire \in Seq(Part) /\ Len(wire) \in Nat
    BY ClientTypes DEF ClientInv
  <1>2. CASE UNCHANGED wire
    BY <1>1, <1>2
  <1>3. CASE Send
    <2>1. ASSUME NEW s \in Seq(Part), wire' = wire \o s
          PROVE  /\ Len(wire') \in Nat /\ Len(wire) <= Len(wire')
                 /\ \A i \in 1 .. Len(wire) : wire'[i] = wire[i]
      <3>1. PICK u : u = wire \o s
        OBVIOUS
      <3>2. /\ Len(u) \in Nat /\ Len(wire) <= Len(u)
            /\ \A i \in 1 .. Len(wire) : u[i] = wire[i]
        <4>1. /\ Len(s) \in Nat /\ Len(u) = Len(wire) + Len(s)
              /\ \A i \in 1 .. Len(wire) : u[i] = wire[i]
          BY <1>1, <3>1, Joined
        <4> QED
          BY <1>1, <4>1
      <3>3. wire' = u
        BY <2>1, <3>1
      <3> QED
        BY <3>2, <3>3
    <2>2. CASE hello.state = "busy" /\ \E n \in 1 .. HelloParts - hello.parts :
                                          wire' = wire \o Parts(0, hello, n)
      <3>1. PICK n \in 1 .. HelloParts - hello.parts :
              wire' = wire \o Parts(0, hello, n)
        BY <2>2
      <3>2. hello \in Write(HelloParts)
        BY <1>1 DEF TypeOK
      <3>3. Parts(0, hello, n) \in Seq(Part)
        BY <3>2, Sizes, PartsSent
      <3> QED
        BY <1>1, <2>1, <3>1, <3>3
    <2>3. CASE write.state = "busy" /\ \E n \in 1 .. FrameParts - write.parts :
                                          wire' = wire \o Parts(Head(queue), write, n)
      <3>1. PICK n \in 1 .. FrameParts - write.parts :
              wire' = wire \o Parts(Head(queue), write, n)
        BY <2>3
      <3>2. write \in Write(FrameParts)
        BY <1>1 DEF TypeOK
      <3>3. Head(queue) \in 1 .. MaxLines
        <4>1. queue \in Seq(1 .. MaxLines) /\ taken \in Nat /\ queue # <<>>
          BY <1>1, <2>3, ClientTypes DEF QueueServed, ClientInv
        <4>2. \A i \in DOMAIN queue : queue[i] = taken - Len(queue) + i
          BY DEF Queued, ClientInv
        <4> QED
          BY <4>1, <4>2, Sizes, QueueShrinks
      <3>4. PICK k \in 1 .. MaxLines : k = Head(queue)
        BY <3>3
      <3>5. k \in Nat
        BY Sizes
      <3>6. Parts(k, write, n) \in Seq(Part)
        BY <3>2, <3>5, Sizes, PartsSent
      <3> QED
        BY <1>1, <2>1, <3>1, <3>4, <3>6
    <2> QED
      BY <1>3, <2>2, <2>3 DEF Send
  <1>4. [Next]_vars => Send \/ UNCHANGED wire
    BY DEF Next, vars, client, Type, OnConnect, WriteImpl, WriteHandler,
           HelloHandler, ReadHandler, RunReturns, Handshake, SendFails, Arrive, Lose
  <1> QED
    BY <1>2, <1>3, <1>4

\* The stream is no longer than the nickname and the lines.
LEMMA StreamLength ==
  ASSUME ClientInv
  PROVE  Len(wire) <= HelloParts + MaxLines * FrameParts
  <1>1. PICK c : Counts(c, wire) /\ Amount(c[Len(wire)])
    BY DEF ClientInv, StreamInv
  <1>2. /\ Len(wire) \in Nat /\ taken \in Nat /\ taken <= MaxLines
        /\ MaxLines \in Nat /\ FrameParts \in Nat /\ HelloParts \in Nat
    BY ClientTypes, Sizes DEF ClientInv
  <1>3. c[Len(wire)] \in 0 .. HelloParts
    BY <1>1, <1>2 DEF Counts, Rising
  <1>4. Len(wire) - c[Len(wire)] <= taken * FrameParts
    BY <1>1 DEF Amount
  <1>5. (MaxLines - (MaxLines - taken)) * FrameParts <= MaxLines * FrameParts
    <2>1. MaxLines - taken \in Nat
      BY <1>2
    <2> QED
      BY <1>2, <2>1, FramesUp
  <1>6. MaxLines - (MaxLines - taken) = taken
    BY <1>2
  <1>7. taken * FrameParts \in Nat /\ MaxLines * FrameParts \in Nat
    BY <1>2
  <1> QED
    BY <1>2, <1>3, <1>4, <1>5, <1>6, <1>7

-----------------------------------------------------------------------------
(* The server's half *)

\* What the reads returned is cut from the stream: what came of the nickname,
\* then frames, one behind the other.
Slices ==
  heard # <<>> =>
    /\ Len(heard[1]) <= HelloParts
    /\ \A i \in 1 .. Len(heard[1]) : heard[1][i] = wire[i]
    /\ \A k \in 1 .. Len(heard) - 1 :
         /\ Len(heard[k + 1]) = FrameParts
         /\ \A i \in 1 .. FrameParts :
              heard[k + 1][i] = wire[Len(heard[1]) + ((k - 1) * FrameParts + i)]

HeardInv ==
  /\ heard \in Seq(Seq(Part))
  /\ heard = <<>> <=> session \in {"accept", "nick"}
  /\ session = "accept" => part = 0
  /\ heard # <<>> /\ (Len(heard) > 1 \/ part > 0) => Len(heard[1]) = HelloParts
  /\ Slices

\* write_msgs_ holds no more than what was said in the room.
AnswerInv ==
  /\ heard = <<>> => replies = 0
  /\ heard # <<>> => replies <= others + (Len(heard) - 1)
  /\ inRoom /\ replies > 0 => answer.state # "none"

LinkInv == ClientInv /\ LinkTypeOK /\ HeardInv /\ AnswerInv

LEMMA LinkTypes ==
  ASSUME LinkTypeOK, HeardInv
  PROVE  /\ Len(heard) \in Nat /\ part \in Nat /\ Cut \in Nat /\ Read = Cut + part
         /\ others \in Nat /\ replies \in Nat /\ Buffer \in Nat /\ MaxOthers \in Nat
         /\ heard = <<>> <=> Len(heard) = 0
         /\ heard = <<>> => Cut = 0
         /\ heard # <<>> =>
              /\ heard[1] \in Seq(Part) /\ Len(heard[1]) \in Nat
              /\ Cut = Len(heard[1]) + FrameParts * (Len(heard) - 1)
  <1>1. heard \in Seq(Seq(Part))
    BY DEF HeardInv
  <1>2. Len(heard) \in Nat /\ (heard = <<>> <=> Len(heard) = 0)
    BY <1>1, EmptySeq, LenProperties
  <1>3. part \in Nat /\ others \in Nat /\ replies \in Nat
    BY Sizes, LinkAssumption DEF LinkTypeOK, Size, FirstSize
  <1>4. heard # <<>> => heard[1] \in Seq(Part) /\ Len(heard[1]) \in Nat
    <2> SUFFICES ASSUME heard # <<>>
                 PROVE  heard[1] \in Seq(Part) /\ Len(heard[1]) \in Nat
      OBVIOUS
    <2>1. heard[1] \in Seq(Part)
      BY <1>1, <1>2, ElementOfSeq
    <2> QED
      BY <2>1, LenProperties
  <1>5. Cut \in Nat
    <2>1. CASE heard = <<>>
      BY <2>1 DEF Cut
    <2>2. CASE heard # <<>>
      <3>1. FrameParts * (Len(heard) - 1) \in Nat
        BY <1>2, <2>2, Sizes
      <3> QED
        BY <1>4, <2>2, <3>1 DEF Cut
    <2> QED
      BY <2>1, <2>2
  <1> QED
    BY <1>2, <1>3, <1>4, <1>5, LinkAssumption DEF Cut, Read

\* A slice of the stream that a read returns.
LEMMA Slice ==
  ASSUME NEW S, NEW w \in Seq(S), NEW a \in Nat, NEW n \in Nat, a + n <= Len(w)
  PROVE  /\ SubSeq(w, a + 1, a + n) \in Seq(S)
         /\ Len(SubSeq(w, a + 1, a + n)) = n
         /\ \A i \in 1 .. n : SubSeq(w, a + 1, a + n)[i] = w[a + i]
  <1>1. Len(w) \in Nat /\ DOMAIN w = 1 .. Len(w)
    BY LenProperties
  <1>2. \A i \in a + 1 .. a + n : w[i] \in S
    BY <1>1, ElementOfSeq
  <1>3. /\ SubSeq(w, a + 1, a + n) = [i \in 1 .. (1 + (a + n) - (a + 1)) |-> w[i + (a + 1) - 1]]
    OBVIOUS
  <1>4. 1 + (a + n) - (a + 1) = n
    OBVIOUS
  <1>5. \A i \in 1 .. n : i + (a + 1) - 1 = a + i
    OBVIOUS
  <1>6. SubSeq(w, a + 1, a + n) = [i \in 1 .. n |-> w[a + i]]
    BY <1>3, <1>4, <1>5
  <1>7. [i \in 1 .. n |-> w[a + i]] \in [1 .. n -> S]
    BY <1>2
  <1>8. [i \in 1 .. n |-> w[a + i]] \in Seq(S)
    BY <1>7
  <1>9. Len([i \in 1 .. n |-> w[a + i]]) = n
    BY <1>8, LenProperties
  <1> QED
    BY <1>6, <1>8, <1>9

\* A frame of those that are in front.
LEMMA FramesFit ==
  ASSUME NEW F \in Nat \ {0}, NEW m \in Nat, NEW k \in 1 .. m, NEW i \in 1 .. F
  PROVE  (k - 1) * F + i \in 1 .. F * m
  <1>1. PICK d \in Nat : m = k + d
    <2>1. m - k \in Nat /\ m = k + (m - k)
      OBVIOUS
    <2> QED
      BY <2>1
  <1>2. PICK j \in Nat : k = j + 1
    <2>1. k - 1 \in Nat /\ k = (k - 1) + 1
      OBVIOUS
    <2> QED
      BY <2>1
  <1>3. j * F \in Nat /\ d * F \in Nat
    OBVIOUS
  <1>4. F * m = j * F + F + d * F
    BY <1>1, <1>2
  <1>5. k - 1 = j
    BY <1>2
  <1> QED
    BY <1>3, <1>4, <1>5

\* Neither half disturbs the other's invariant: what was heard stays as the
\* stream grows.
LEMMA ClientKeepsSlices ==
  ASSUME LinkInv, UNCHANGED heard, Read <= Len(wire),
         /\ Len(wire') \in Nat /\ Len(wire) \in Nat /\ Len(wire) <= Len(wire')
         /\ \A i \in 1 .. Len(wire) : wire'[i] = wire[i]
  PROVE  Slices'
  <1> USE DEF LinkInv
  <1> SUFFICES ASSUME heard # <<>>
               PROVE  /\ \A i \in 1 .. Len(heard[1]) : heard[1][i] = wire'[i]
                      /\ \A k \in 1 .. Len(heard) - 1 : \A i \in 1 .. FrameParts :
                           heard[k + 1][i]
                             = wire'[Len(heard[1]) + ((k - 1) * FrameParts + i)]
    BY DEF Slices, HeardInv
  <1>1. /\ Len(heard[1]) \in Nat /\ Len(heard) \in Nat \ {0} /\ part \in Nat
        /\ Len(heard[1]) + FrameParts * (Len(heard) - 1) <= Len(wire)
        /\ FrameParts * (Len(heard) - 1) \in Nat
    <2>1. /\ Len(heard[1]) \in Nat /\ Len(heard) \in Nat \ {0} /\ part \in Nat
          /\ Cut = Len(heard[1]) + FrameParts * (Len(heard) - 1)
          /\ Read = Cut + part /\ Cut \in Nat
      BY LinkTypes
    <2>2. FrameParts * (Len(heard) - 1) \in Nat
      BY <2>1, Sizes
    <2> QED
      BY <2>1, <2>2
  <1>2. \A i \in 1 .. Len(heard[1]) : heard[1][i] = wire[i] /\ i \in 1 .. Len(wire)
    BY <1>1 DEF HeardInv, Slices
  <1>3. ASSUME NEW k \in 1 .. Len(heard) - 1, NEW i \in 1 .. FrameParts
        PROVE  heard[k + 1][i] = wire'[Len(heard[1]) + ((k - 1) * FrameParts + i)]
    <2>1. (k - 1) * FrameParts + i \in 1 .. FrameParts * (Len(heard) - 1)
      <3>1. Len(heard) - 1 \in Nat
        BY <1>1
      <3> QED
        BY <3>1, Sizes, FramesFit
    <2>2. Len(heard[1]) + ((k - 1) * FrameParts + i) \in 1 .. Len(wire)
      BY <1>1, <2>1
    <2>3. heard[k + 1][i] = wire[Len(heard[1]) + ((k - 1) * FrameParts + i)]
      BY DEF HeardInv, Slices
    <2> QED
      BY <2>2, <2>3
  <1> QED
    BY <1>2, <1>3

LEMMA InitLink == LinkInit => LinkInv
  <1> SUFFICES ASSUME LinkInit PROVE LinkInv
    OBVIOUS
  <1>1. ClientInv
    BY InitClient DEF LinkInit
  <1>2. heard = <<>> /\ Len(heard) = 0 /\ Cut = 0 /\ Read = 0 /\ part = 0
    BY DEF LinkInit, Cut, Read
  <1>3. Len(wire) \in Nat /\ TypeOK
    BY <1>1, ClientTypes DEF ClientInv
  <1>4. answer \in Write(FrameParts) /\ answer.state = "none"
    BY Sizes, Writes DEF LinkInit
  <1>5. LinkTypeOK
    <2>1. /\ part \in 0 .. Size /\ Len(heard) \in 0 .. MaxLines + 1
          /\ Read <= Len(wire)
      BY <1>2, <1>3, Sizes DEF Size, FirstSize
    <2>2. /\ others \in 0 .. MaxOthers /\ replies \in 0 .. MaxOthers + MaxLines
          /\ down \in 0 .. Buffer
          /\ inRead \in 0 .. FrameParts /\ (inRead = FrameParts => shown < arrived)
      BY Sizes, LinkAssumption DEF LinkInit
    <2> QED
      BY <1>3, <1>4, <2>1, <2>2 DEF LinkInit, LinkTypeOK
  <1>6. HeardInv
    BY <1>2 DEF LinkInit, HeardInv, Slices
  <1>7. AnswerInv
    BY <1>2 DEF LinkInit, AnswerInv
  <1> QED
    BY <1>1, <1>5, <1>6, <1>7 DEF LinkInv

\* What is on its way to the client, and what its read has.
LEMMA DownKeeps ==
  ASSUME LinkInv, ClientStep
  PROVE  /\ down' \in 0 .. Buffer
         /\ inRead' \in 0 .. FrameParts /\ (inRead' = FrameParts => shown' < arrived')
  <1>1. /\ down \in 0 .. Buffer /\ inRead \in 0 .. FrameParts
        /\ inRead = FrameParts => shown < arrived
        /\ arrived \in Nat /\ shown \in Nat /\ shown <= arrived
        /\ FrameParts \in Nat \ {0} /\ Buffer \in Nat
    BY ClientTypes, Sizes, LinkAssumption DEF LinkInv, ClientInv, LinkTypeOK
  <1>2. CASE /\ UNCHANGED <<down, inRead, shown, arrived>>
    BY <1>1, <1>2
  <1>3. CASE Show
    <2>1. /\ arrived' = arrived /\ down' = down
          /\ inRead' = (IF shown' # shown THEN 0 ELSE inRead)
      BY <1>3 DEF Show, ReadHandler
    <2> QED
      BY <1>1, <2>1
  <1>4. CASE Pull
    <2>1. PICK n \in 1 .. FrameParts - inRead :
            n <= down /\ down' = down - n /\ inRead' = inRead + n
      BY <1>4 DEF Pull
    <2>2. down' \in 0 .. Buffer /\ inRead' \in 0 .. FrameParts
      BY <1>1, <2>1
    <2>3. ASSUME inRead' = FrameParts PROVE shown' < arrived'
      <3>1. shown' = shown /\ arrived' = arrived + 1
        BY <1>4, <2>3 DEF Pull, Arrive, client
      <3> QED
        BY <1>1, <3>1
    <2> QED
      BY <2>2, <2>3
  <1>5. CASE Break
    <2>1. arrived' = arrived /\ down' = 0 /\ inRead' = inRead /\ shown' = shown
      BY <1>5 DEF Break, Lose, client
    <2> QED
      BY <1>1, <2>1
  <1>6. ClientStep => \/ UNCHANGED <<down, inRead, shown, arrived>>
                      \/ Show \/ Pull \/ Break
    BY DEF ClientStep, Client, SendIntoRoom, Type, OnConnect, WriteImpl,
           WriteHandler, HelloHandler, RunReturns, Handshake, SendFails, Send
  <1> QED
    BY <1>2, <1>3, <1>4, <1>5, <1>6

LEMMA ClientHalf == LinkInv /\ ClientStep => LinkInv'
  <1> SUFFICES ASSUME LinkInv, ClientStep PROVE LinkInv'
    OBVIOUS
  <1> USE DEF LinkInv
  <1>1. [Next]_vars /\ ClientInv'
    BY ClientStepIsOne, StepClient
  <1>2. /\ session' = session /\ part' = part /\ heard' = heard /\ inRoom' = inRoom
        /\ others' = others /\ replies' = replies /\ answer' = answer
    BY ClientLeavesServer DEF server
  <1>3. Cut' = Cut /\ Read' = Read /\ Size' = Size
    BY <1>2 DEF Cut, Read, Size, FirstSize
  <1>4. /\ Len(wire') \in Nat /\ Len(wire) \in Nat /\ Len(wire) <= Len(wire')
        /\ \A i \in 1 .. Len(wire) : wire'[i] = wire[i]
    BY <1>1, WireGrows
  <1>5. Read \in Nat /\ Read <= Len(wire)
    BY LinkTypes DEF LinkTypeOK
  <1>6. LinkTypeOK'
    <2>1. TypeOK' /\ Read' <= Len(wire')
      BY <1>1, <1>3, <1>4, <1>5 DEF ClientInv
    <2> QED
      BY <1>2, <1>3, <2>1, DownKeeps DEF LinkTypeOK
  <1>7. HeardInv'
    <2>1. Slices'
      BY <1>2, <1>4, <1>5, ClientKeepsSlices
    <2> QED
      BY <1>2, <2>1 DEF HeardInv
  <1>8. AnswerInv'
    BY <1>2 DEF AnswerInv
  <1> QED
    BY <1>1, <1>6, <1>7, <1>8

\* onMessage starts a write when none is needed yet, and only then.
LEMMA OnMessagesKeeps ==
  ASSUME NEW n \in Nat, OnMessages(n), LinkTypeOK
  PROVE  /\ replies' = replies + n /\ replies' \in Nat
         /\ answer' \in Write(FrameParts)
         /\ answer'.state # "none" => replies' > 0
         /\ (replies > 0 => answer.state # "none")
              => (replies' > 0 => answer'.state # "none")
  <1>1. /\ replies \in Nat /\ answer \in Write(FrameParts)
        /\ answer.state # "none" => replies > 0
    BY Sizes, LinkAssumption DEF LinkTypeOK
  <1>2. Started \in Write(FrameParts) /\ Started.state = "busy"
    BY Sizes, Writes
  <1> QED
    BY <1>1, <1>2 DEF OnMessages

\* A server step that reads nothing to its end.
LEMMA HeardStays ==
  ASSUME HeardInv, UNCHANGED <<wire, heard>>
  PROVE  Slices' /\ heard' \in Seq(Seq(Part))
  BY DEF HeardInv, Slices

LEMMA Lines ==
  ASSUME ClientInv, NEW n \in Nat, HelloParts + FrameParts * n <= Len(wire)
  PROVE  n <= MaxLines
  <1>1. /\ Len(wire) \in Nat /\ MaxLines \in Nat
        /\ FrameParts \in Nat \ {0} /\ HelloParts \in Nat
    BY ClientTypes, Sizes DEF ClientInv
  <1>2. MaxLines * FrameParts \in Nat /\ FrameParts * n \in Nat
    BY <1>1
  <1>3. FrameParts * n <= MaxLines * FrameParts
    BY <1>1, <1>2, StreamLength
  <1> SUFFICES ASSUME MaxLines < n PROVE FALSE
    BY <1>1
  <1>4. PICK d \in Nat : n = MaxLines + 1 + d
    <2>1. n - (MaxLines + 1) \in Nat /\ n = MaxLines + 1 + (n - (MaxLines + 1))
      BY <1>1
    <2> QED
      BY <2>1
  <1>5. FrameParts * n = MaxLines * FrameParts + FrameParts + FrameParts * d
    BY <1>1, <1>4
  <1>6. FrameParts * d \in Nat
    BY <1>1
  <1> QED
    BY <1>1, <1>2, <1>3, <1>5, <1>6

LEMMA OnAcceptKeeps == LinkInv /\ OnAccept => LinkInv'
  <1> SUFFICES ASSUME LinkInv, OnAccept PROVE LinkInv'
    OBVIOUS
  <1> USE DEF LinkInv
  <1>1. /\ session = "accept" /\ session' = "nick" /\ UNCHANGED vars
        /\ part' = part /\ heard' = heard /\ inRoom' = inRoom
        /\ others' = others /\ replies' = replies /\ answer' = answer
        /\ down' = down /\ inRead' = inRead
    BY DEF OnAccept
  <1>2. ClientInv' /\ wire' = wire /\ shown' = shown /\ arrived' = arrived
    BY <1>1, StepClient DEF vars
  <1>3. part = 0 /\ Read' = Read
    BY <1>1 DEF HeardInv, Read, Cut
  <1>4. part' \in 0 .. Size' /\ inRoom = FALSE
    BY <1>1, <1>3, Sizes DEF Size, FirstSize, LinkTypeOK
  <1>5. LinkTypeOK'
    BY <1>1, <1>2, <1>3, <1>4 DEF LinkTypeOK, ClientInv
  <1>6. HeardInv'
    BY <1>1, <1>2, <1>3, HeardStays DEF HeardInv
  <1>7. AnswerInv'
    BY <1>1 DEF AnswerInv
  <1> QED
    BY <1>2, <1>5, <1>6, <1>7

LEMMA NicknameHandlerKeeps == LinkInv /\ NicknameHandler => LinkInv'
  <1> SUFFICES ASSUME LinkInv, NicknameHandler PROVE LinkInv'
    OBVIOUS
  <1> USE DEF LinkInv
  <1>1. /\ session = "nick" /\ session' = "msg" /\ part' = 0 /\ inRoom' = TRUE
        /\ Hear(part) /\ OnMessages(others) /\ UNCHANGED vars
        /\ others' = others /\ down' = down /\ inRead' = inRead
    BY DEF NicknameHandler
  <1>2. ClientInv' /\ wire' = wire /\ shown' = shown /\ arrived' = arrived
    BY <1>1, StepClient DEF vars
  <1>3. /\ heard = <<>> /\ Cut = 0 /\ Read = part /\ part \in Nat
        /\ others \in Nat /\ replies = 0
    BY <1>1, LinkTypes DEF HeardInv, AnswerInv
  <1>4. /\ part <= HelloParts /\ part <= Len(wire) /\ wire \in Seq(Part)
        /\ Len(wire) \in Nat
    BY <1>1, <1>3, Sizes, ClientTypes
    DEF LinkTypeOK, Size, FirstSize, ClientInv
  <1>5. PICK s : s = SubSeq(wire, 0 + 1, 0 + part)
    OBVIOUS
  <1>6. s \in Seq(Part) /\ Len(s) = part /\ \A i \in 1 .. part : s[i] = wire[i]
    BY <1>3, <1>4, <1>5, Slice
  <1>7. heard' = <<s>>
    BY <1>1, <1>3, <1>5 DEF Hear
  <1>8. /\ heard' # <<>> /\ heard' \in Seq(Seq(Part)) /\ Len(heard') = 1
        /\ heard'[1] = s
    BY <1>6, <1>7
  <1>9. Read' = part
    <2>1. Cut' = Len(s) + FrameParts * (1 - 1)
      BY <1>8 DEF Cut
    <2> QED
      BY <1>1, <1>3, <1>6, <2>1, Sizes DEF Read
  <1>10. /\ replies' = others /\ answer' \in Write(FrameParts)
         /\ answer'.state # "none" => replies' > 0
         /\ replies' > 0 => answer'.state # "none"
    BY <1>1, <1>3, OnMessagesKeeps
  <1>11. LinkTypeOK'
    <2>1. part' \in 0 .. Size' /\ Len(heard') \in 0 .. MaxLines + 1
      BY <1>1, <1>8, Sizes DEF Size
    <2>2. replies' \in 0 .. MaxOthers + MaxLines
      BY <1>3, <1>10, Sizes, LinkAssumption DEF LinkTypeOK
    <2> QED
      BY <1>1, <1>2, <1>4, <1>9, <1>10, <2>1, <2>2 DEF LinkTypeOK, ClientInv
  <1>12. HeardInv'
    <2>1. Slices'
      BY <1>2, <1>4, <1>6, <1>8 DEF Slices
    <2> QED
      BY <1>1, <1>8, <2>1 DEF HeardInv
  <1>13. AnswerInv'
    BY <1>1, <1>3, <1>8, <1>10 DEF AnswerInv
  <1> QED
    BY <1>2, <1>11, <1>12, <1>13

\* readHandler: a whole message was read, or the connection has ended.
LEMMA MsgHandlerKeeps == LinkInv /\ MsgHandler => LinkInv'
  <1> SUFFICES ASSUME LinkInv, MsgHandler PROVE LinkInv'
    OBVIOUS
  <1> USE DEF LinkInv
  <1>1. /\ session = "msg" /\ UNCHANGED vars /\ others' = others
        /\ down' = down /\ inRead' = inRead
    BY DEF MsgHandler
  <1>2. ClientInv' /\ wire' = wire /\ shown' = shown /\ arrived' = arrived
    BY <1>1, StepClient DEF vars
  <1>3. /\ heard # <<>> /\ Len(heard) \in Nat \ {0} /\ part \in Nat
        /\ others \in Nat /\ replies \in Nat /\ Size = FrameParts
        /\ Cut = Len(heard[1]) + FrameParts * (Len(heard) - 1)
        /\ Cut \in Nat /\ Read = Cut + part /\ Len(heard[1]) \in Nat
        /\ Len(wire) \in Nat /\ wire \in Seq(Part) /\ heard \in Seq(Seq(Part))
    BY <1>1, LinkTypes, ClientTypes DEF HeardInv, Size, ClientInv
  <1>4. CASE /\ part = Size /\ part' = 0 /\ Hear(Size)
             /\ OnMessages(IF inRoom THEN 1 ELSE 0)
             /\ session' = IF MsgRead(TRUE) THEN "msg" ELSE "over"
             /\ inRoom' = inRoom
    <2>1. session' = "msg" /\ part = FrameParts /\ part > 0
      BY <1>3, <1>4, Sizes DEF MsgRead
    <2>2. Len(heard[1]) = HelloParts
      BY <1>3, <2>1 DEF HeardInv
    <2>3. Cut + FrameParts <= Len(wire)
      BY <1>3, <2>1 DEF LinkTypeOK
    <2>4. PICK s : s = SubSeq(wire, Cut + 1, Cut + FrameParts)
      OBVIOUS
    <2>5. /\ s \in Seq(Part) /\ Len(s) = FrameParts
          /\ \A i \in 1 .. FrameParts : s[i] = wire[Cut + i]
      <3>1. PICK a \in Nat : a = Cut
        BY <1>3
      <3>2. PICK n \in Nat : n = FrameParts
        BY Sizes
      <3>3. a + n <= Len(wire)
        BY <2>3, <3>1, <3>2
      <3>4. s = SubSeq(wire, a + 1, a + n)
        BY <2>4, <3>1, <3>2
      <3>5. /\ s \in Seq(Part) /\ Len(s) = n
            /\ \A i \in 1 .. n : s[i] = wire[a + i]
        BY <1>3, <3>3, <3>4, Slice
      <3> QED
        BY <3>1, <3>2, <3>5
    <2>6. PICK L \in Nat \ {0} : L = Len(heard)
      BY <1>3
    <2>7. PICK h : h = Append(heard, s)
      OBVIOUS
    <2>8. /\ h \in Seq(Seq(Part)) /\ h # <<>> /\ Len(h) = L + 1
          /\ h[L + 1] = s /\ \A k \in 1 .. L : h[k] = heard[k]
      <3>1. PICK S : S = Seq(Part)
        OBVIOUS
      <3>2. /\ h \in Seq(S) /\ h # <<>> /\ Len(h) = Len(heard) + 1
            /\ \A k \in 1 .. Len(heard) : h[k] = heard[k]
            /\ h[Len(heard) + 1] = s
        <4>1. heard \in Seq(S) /\ s \in S
          BY <1>3, <2>5, <3>1
        <4> QED
          BY <2>7, <4>1, AppendProperties
      <3> QED
        BY <2>6, <3>1, <3>2
    <2>9. heard' = h
      BY <1>3, <1>4, <2>4, <2>7 DEF Hear
    <2>10. h[1] = heard[1] /\ \A k \in 1 .. L - 1 : h[k + 1] = heard[k + 1]
      BY <2>8
    <2>11. FrameParts * L \in Nat /\ FrameParts * (L - 1) \in Nat
           /\ FrameParts * L = (FrameParts * (L - 1) + FrameParts)
      BY Sizes
    <2>12. Read' = Cut + FrameParts
      <3>1. Cut' = Len(heard[1]) + FrameParts * ((L + 1) - 1)
        BY <2>8, <2>9, <2>10 DEF Cut
      <3>2. (L + 1) - 1 = L
        OBVIOUS
      <3>3. Cut' = Cut + FrameParts
        <4>1. PICK f : f = FrameParts * (L - 1)
          OBVIOUS
        <4>2. PICK g : g = FrameParts * L
          OBVIOUS
        <4>3. Cut' = Len(heard[1]) + g
          BY <3>1, <3>2, <4>2
        <4>4. g = f + FrameParts /\ f \in Nat
          BY <2>11, <4>1, <4>2
        <4>5. Cut = Len(heard[1]) + f
          BY <1>3, <2>6, <4>1
        <4>6. PICK a \in Nat : a = Len(heard[1])
          BY <1>3
        <4>7. a + (f + FrameParts) = (a + f) + FrameParts
          BY <4>4, Sizes
        <4> QED
          BY <4>3, <4>4, <4>5, <4>6, <4>7
      <3> QED
        BY <1>3, <1>4, <3>3, Sizes DEF Read
    <2>13. L <= MaxLines
      <3>1. HelloParts + FrameParts * L <= Len(wire)
        BY <1>3, <2>2, <2>3, <2>6, <2>11, Sizes
      <3> QED
        BY <3>1, Lines
    <2>14. /\ replies' = replies + (IF inRoom THEN 1 ELSE 0)
           /\ answer' \in Write(FrameParts)
           /\ answer'.state # "none" => replies' > 0
           /\ (replies > 0 => answer.state # "none")
                => (replies' > 0 => answer'.state # "none")
      <3>1. PICK n : n = IF inRoom THEN 1 ELSE 0
        OBVIOUS
      <3>2. n \in Nat /\ OnMessages(n)
        BY <1>4, <3>1
      <3> QED
        BY <3>1, <3>2, OnMessagesKeeps
    <2>15. replies' \in Nat /\ replies' <= others + ((L + 1) - 1)
      <3>1. replies <= others + (L - 1)
        BY <1>3, <2>6 DEF AnswerInv
      <3> QED
        BY <1>3, <2>14, <3>1
    <2>16. LinkTypeOK'
      <3>1. part' \in 0 .. Size' /\ Len(heard') \in 0 .. MaxLines + 1
        BY <1>4, <2>1, <2>8, <2>9, <2>13, Sizes DEF Size
      <3>2. replies' \in 0 .. MaxOthers + MaxLines
        BY <1>3, <2>13, <2>15, Sizes, LinkAssumption DEF LinkTypeOK
      <3> QED
        BY <1>1, <1>2, <1>4, <2>1, <2>3, <2>12, <2>14, <3>1, <3>2
        DEF LinkTypeOK, ClientInv
    <2>17. HeardInv'
      <3>1. ASSUME NEW k \in 1 .. (L + 1) - 1
            PROVE  /\ Len(h[k + 1]) = FrameParts
                   /\ \A i \in 1 .. FrameParts :
                        h[k + 1][i] = wire[Len(h[1]) + ((k - 1) * FrameParts + i)]
        <4>1. CASE k \in 1 .. L - 1
          BY <1>3, <2>6, <2>10, <4>1 DEF HeardInv, Slices
        <4>2. CASE k = L
          <5>1. \A i \in 1 .. FrameParts :
                  Cut + i = Len(h[1]) + ((L - 1) * FrameParts + i)
            <6>1. PICK f \in Nat : f = FrameParts * (L - 1)
              BY <2>11
            <6>2. (L - 1) * FrameParts = f
              BY <6>1, Sizes
            <6>3. Cut = Len(h[1]) + f
              BY <1>3, <2>6, <2>10, <6>1
            <6>4. PICK a \in Nat : a = Len(h[1])
              BY <1>3, <2>10
            <6>5. \A i \in 1 .. FrameParts : (a + f) + i = a + (f + i)
              BY Sizes
            <6> QED
              BY <6>2, <6>3, <6>4, <6>5
          <5> QED
            BY <2>5, <2>8, <4>2, <5>1
        <4> QED
          BY <4>1, <4>2
      <3>2. /\ Len(h[1]) <= HelloParts
            /\ \A i \in 1 .. Len(h[1]) : h[1][i] = wire[i]
        BY <1>3, <2>10 DEF HeardInv, Slices
      <3>3. Slices'
        BY <1>2, <2>8, <2>9, <3>1, <3>2 DEF Slices
      <3> QED
        BY <2>1, <2>2, <2>8, <2>9, <2>10, <3>3 DEF HeardInv
    <2>18. AnswerInv'
      BY <1>1, <1>4, <2>8, <2>9, <2>14, <2>15 DEF AnswerInv
    <2> QED
      BY <1>2, <2>16, <2>17, <2>18
  <1>5. CASE /\ part < Size
             /\ session' = IF MsgRead(FALSE) THEN "msg" ELSE "over"
             /\ inRoom' = FALSE /\ part' = part /\ heard' = heard
             /\ replies' = replies /\ answer' = answer
    <2>1. session' = "over"
      BY <1>5 DEF MsgRead
    <2>2. Read' = Read /\ Size' = Size
      BY <1>3, <1>5, <2>1 DEF Read, Cut, Size
    <2>3. LinkTypeOK'
      BY <1>1, <1>2, <1>5, <2>1, <2>2 DEF LinkTypeOK, ClientInv
    <2>4. HeardInv'
      BY <1>2, <1>3, <1>5, <2>1, HeardStays DEF HeardInv
    <2>5. AnswerInv'
      BY <1>1, <1>5 DEF AnswerInv
    <2> QED
      BY <1>2, <2>3, <2>4, <2>5
  <1> QED
    BY <1>4, <1>5 DEF MsgHandler

LEMMA OtherSaysKeeps == LinkInv /\ OtherSays => LinkInv'
  <1> SUFFICES ASSUME LinkInv, OtherSays PROVE LinkInv'
    OBVIOUS
  <1> USE DEF LinkInv
  <1>1. /\ others < MaxOthers /\ others' = others + 1
        /\ OnMessages(IF inRoom THEN 1 ELSE 0) /\ UNCHANGED vars
        /\ session' = session /\ part' = part /\ heard' = heard
        /\ inRoom' = inRoom /\ down' = down /\ inRead' = inRead
    BY DEF OtherSays
  <1>2. ClientInv' /\ wire' = wire /\ shown' = shown /\ arrived' = arrived
    BY <1>1, StepClient DEF vars
  <1>3. /\ Len(heard) \in Nat /\ others \in Nat /\ replies \in Nat
        /\ MaxOthers \in Nat /\ (heard = <<>> <=> Len(heard) = 0)
        /\ Len(heard) <= MaxLines + 1 /\ MaxLines \in Nat
    <2>1. /\ Len(heard) \in Nat /\ others \in Nat /\ replies \in Nat
          /\ MaxOthers \in Nat /\ (heard = <<>> <=> Len(heard) = 0)
      BY LinkTypes
    <2>2. Len(heard) <= MaxLines + 1 /\ MaxLines \in Nat
      BY Sizes DEF LinkTypeOK
    <2> QED
      BY <2>1, <2>2
  <1>4. /\ replies' = replies + (IF inRoom THEN 1 ELSE 0)
        /\ answer' \in Write(FrameParts)
        /\ answer'.state # "none" => replies' > 0
        /\ (replies > 0 => answer.state # "none")
             => (replies' > 0 => answer'.state # "none")
    <2>1. PICK n : n = IF inRoom THEN 1 ELSE 0
      OBVIOUS
    <2>2. n \in Nat /\ OnMessages(n)
      BY <1>1, <2>1
    <2> QED
      BY <2>1, <2>2, OnMessagesKeeps
  <1>5. inRoom => heard # <<>>
    BY DEF LinkTypeOK, HeardInv
  <1>6. AnswerInv'
    BY <1>1, <1>3, <1>4, <1>5 DEF AnswerInv
  <1>7. LinkTypeOK'
    <2>1. Read' = Read /\ Size' = Size /\ Len(wire') = Len(wire)
      BY <1>1, <1>2 DEF Read, Cut, Size, FirstSize
    <2>2. replies' \in 0 .. MaxOthers + MaxLines /\ others' \in 0 .. MaxOthers
      BY <1>1, <1>3, <1>4, <1>6 DEF AnswerInv
    <2> QED
      BY <1>1, <1>2, <1>4, <2>1, <2>2 DEF LinkTypeOK, ClientInv
  <1>8. HeardInv'
    BY <1>1, <1>2, HeardStays DEF HeardInv
  <1> QED
    BY <1>2, <1>6, <1>7, <1>8

LEMMA AnswerHandlerKeeps == LinkInv /\ AnswerHandler => LinkInv'
  <1> SUFFICES ASSUME LinkInv, AnswerHandler PROVE LinkInv'
    OBVIOUS
  <1> USE DEF LinkInv
  <1>1. /\ UNCHANGED vars /\ session' = session /\ part' = part
        /\ heard' = heard /\ others' = others
        /\ down' = down /\ inRead' = inRead
    BY DEF AnswerHandler
  <1>2. ClientInv' /\ wire' = wire /\ shown' = shown /\ arrived' = arrived
    BY <1>1, StepClient DEF vars
  <1>3. Read' = Read /\ Size' = Size /\ Len(wire') = Len(wire)
    BY <1>1, <1>2 DEF Read, Cut, Size, FirstSize
  <1>4. /\ replies \in Nat /\ others \in Nat /\ Len(heard) \in Nat
        /\ replies <= MaxOthers + MaxLines /\ MaxOthers \in Nat /\ MaxLines \in Nat
        /\ inRoom \in BOOLEAN /\ (inRoom => session = "msg")
        /\ answer \in Write(FrameParts) /\ (answer.state # "none" => replies > 0)
    <2>1. /\ replies \in Nat /\ others \in Nat /\ Len(heard) \in Nat
          /\ MaxOthers \in Nat /\ MaxLines \in Nat
      BY LinkTypes, Sizes
    <2>2. replies <= MaxOthers + MaxLines
      BY <2>1 DEF LinkTypeOK
    <2>3. /\ inRoom \in BOOLEAN /\ (inRoom => session = "msg")
          /\ answer \in Write(FrameParts) /\ (answer.state # "none" => replies > 0)
      BY DEF LinkTypeOK
    <2> QED
      BY <2>1, <2>2, <2>3
  <1>5. /\ Idle \in Write(FrameParts) /\ Idle.state = "none"
        /\ Started \in Write(FrameParts) /\ Started.state = "busy"
    BY Sizes, Writes
  <1>6. /\ replies' \in Nat /\ replies' <= replies /\ inRoom' \in BOOLEAN
        /\ (inRoom' => inRoom) /\ answer' \in Write(FrameParts)
        /\ answer'.state # "none" => replies' > 0
        /\ inRoom' /\ replies' > 0 => answer'.state # "none"
    <2>1. CASE /\ answer.state = "done" /\ replies' = replies - 1
               /\ answer' = (IF replies' > 0 THEN Started ELSE Idle)
               /\ inRoom' = inRoom
      BY <1>4, <1>5, <2>1
    <2>2. CASE /\ answer' = Idle /\ inRoom' = FALSE /\ replies' = replies
      <3>1. replies' \in Nat /\ replies' <= replies
        BY <1>4, <2>2
      <3>2. answer' \in Write(FrameParts) /\ answer'.state = "none"
        BY <1>5, <2>2
      <3> QED
        BY <2>2, <3>1, <3>2
    <2> QED
      BY <2>1, <2>2 DEF AnswerHandler
  <1>7. LinkTypeOK'
    <2>1. replies' \in 0 .. MaxOthers + MaxLines
      BY <1>4, <1>6
    <2>2. inRoom' \in BOOLEAN /\ (inRoom' => session' = "msg")
      BY <1>1, <1>4, <1>6
    <2>3. others' \in 0 .. MaxOthers /\ Read' <= Len(wire') /\ part' \in 0 .. Size'
      BY <1>1, <1>3 DEF LinkTypeOK
    <2> QED
      BY <1>1, <1>2, <1>6, <2>1, <2>2, <2>3 DEF LinkTypeOK, ClientInv
  <1>8. HeardInv'
    BY <1>1, <1>2, HeardStays DEF HeardInv
  <1>9. AnswerInv'
    BY <1>1, <1>4, <1>6 DEF AnswerInv
  <1> QED
    BY <1>2, <1>7, <1>8, <1>9

LEMMA TakeKeeps == LinkInv /\ Take => LinkInv'
  <1> SUFFICES ASSUME LinkInv, Take PROVE LinkInv'
    OBVIOUS
  <1> USE DEF LinkInv
  <1>1. /\ session \in {"nick", "msg"} /\ UNCHANGED vars
        /\ heard # <<>> => ~(Len(heard[1]) < HelloParts)
        /\ session' = session /\ heard' = heard /\ inRoom' = inRoom
        /\ others' = others /\ replies' = replies /\ answer' = answer
        /\ down' = down /\ inRead' = inRead
    BY DEF Take, FirstSize
  <1>2. ClientInv' /\ wire' = wire /\ shown' = shown /\ arrived' = arrived
    BY <1>1, StepClient DEF vars
  <1>3. PICK n \in 1 .. Size - part : Read + n <= Len(wire) /\ part' = part + n
    BY DEF Take
  <1>4. Cut' = Cut /\ Size' = Size
    BY <1>1 DEF Cut, Size, FirstSize
  <1>5. part \in Nat /\ Cut \in Nat /\ Read = Cut + part /\ Size \in Nat
    BY LinkTypes, Sizes DEF Size, FirstSize
  <1>6. Read' = Read + n
    BY <1>3, <1>4, <1>5 DEF Read
  <1>7. LinkTypeOK'
    <2>1. part' \in 0 .. Size' /\ Read' <= Len(wire')
      BY <1>2, <1>3, <1>4, <1>5, <1>6
    <2> QED
      BY <1>1, <1>2, <2>1 DEF LinkTypeOK, ClientInv
  <1>8. HeardInv'
    <2>1. heard # <<>> => Len(heard[1]) = HelloParts
      BY <1>1, LinkTypes, Sizes DEF HeardInv, Slices
    <2> QED
      BY <1>1, <1>2, <2>1, HeardStays DEF HeardInv
  <1>9. AnswerInv'
    BY <1>1 DEF AnswerInv
  <1> QED
    BY <1>2, <1>7, <1>8, <1>9

\* Sends to the client go on or fail.
LEMMA AnswerKeeps == LinkInv /\ (Answer \/ AnswerFails) => LinkInv'
  <1> SUFFICES ASSUME LinkInv, Answer \/ AnswerFails PROVE LinkInv'
    OBVIOUS
  <1> USE DEF LinkInv
  <1>1. /\ UNCHANGED vars /\ session' = session /\ part' = part
        /\ heard' = heard /\ inRoom' = inRoom /\ others' = others
        /\ replies' = replies /\ inRead' = inRead /\ answer.state = "busy"
    BY DEF Answer, AnswerFails
  <1>2. ClientInv' /\ wire' = wire /\ shown' = shown /\ arrived' = arrived
    BY <1>1, StepClient DEF vars
  <1>3. Read' = Read /\ Size' = Size /\ Len(wire') = Len(wire)
    BY <1>1, <1>2 DEF Read, Cut, Size, FirstSize
  <1>4. /\ answer \in Write(FrameParts) /\ (answer.state # "none" => replies > 0)
        /\ down \in 0 .. Buffer /\ Buffer \in Nat
    BY LinkAssumption DEF LinkTypeOK
  <1>5. /\ answer' \in Write(FrameParts) /\ answer'.state # "none"
        /\ down' \in 0 .. Buffer
    <2>1. CASE AnswerFails
      <3>1. answer' = [answer EXCEPT !.state = "failed"] /\ down' = down
        BY <2>1 DEF AnswerFails
      <3>2. /\ [answer EXCEPT !.state = "failed"] \in Write(FrameParts)
            /\ [answer EXCEPT !.state = "failed"].state = "failed"
        BY <1>4, Sizes, Writes
      <3> QED
        BY <1>4, <3>1, <3>2
    <2>2. CASE Answer
      <3>1. PICK n \in 1 .. FrameParts - answer.parts :
              /\ down + n <= Buffer /\ down' = down + n
              /\ answer' = Sent(answer, FrameParts, n)
        BY <2>2 DEF Answer
      <3>2. /\ Sent(answer, FrameParts, n) \in Write(FrameParts)
            /\ Sent(answer, FrameParts, n).state \in {"busy", "done"}
        BY <1>4, Sizes, Sends
      <3> QED
        BY <1>4, <3>1, <3>2
    <2> QED
      BY <2>1, <2>2
  <1>6. LinkTypeOK'
    BY <1>1, <1>2, <1>3, <1>4, <1>5 DEF LinkTypeOK, ClientInv
  <1>7. HeardInv'
    BY <1>1, <1>2, HeardStays DEF HeardInv
  <1>8. AnswerInv'
    BY <1>1, <1>5 DEF AnswerInv
  <1> QED
    BY <1>2, <1>6, <1>7, <1>8

LEMMA StepLink == LinkInv /\ [LinkNext]_linkVars => LinkInv'
  <1> SUFFICES ASSUME LinkInv, [LinkNext]_linkVars PROVE LinkInv'
    OBVIOUS
  <1>1. CASE ClientStep
    BY <1>1, ClientHalf
  <1>2. CASE ServerStep
    BY <1>2, OnAcceptKeeps, NicknameHandlerKeeps, MsgHandlerKeeps, OtherSaysKeeps,
       AnswerHandlerKeeps, TakeKeeps, AnswerKeeps DEF ServerStep
  <1>3. CASE UNCHANGED linkVars
    <2>1. ClientInv'
      BY <1>3, StepClient DEF LinkInv, linkVars
    <2>2. LinkTypeOK'
      BY <1>3, <2>1
      DEF LinkInv, LinkTypeOK, linkVars, server, vars, Read, Cut, Size, FirstSize,
          ClientInv
    <2>3. HeardInv'
      BY <1>3 DEF LinkInv, HeardInv, Slices, linkVars, server, vars
    <2>4. AnswerInv'
      BY <1>3 DEF LinkInv, AnswerInv, linkVars, server
    <2> QED
      BY <2>1, <2>2, <2>3, <2>4 DEF LinkInv
  <1> QED
    BY <1>1, <1>2, <1>3, TwoHalves

LEMMA LinkAlways == LinkSpec => []LinkInv
  <1> QED
    BY InitLink, StepLink, PTL DEF LinkSpec

-----------------------------------------------------------------------------
(* What the invariant is for *)

\* On either side what must be outstanding is, whatever the two do and however
\* small the buffers: write_msgs_ has a write, and the client a read.
THEOREM OutstandingHolds == LinkSpec => []Outstanding
  <1>1. LinkInv => Outstanding
    BY DEF LinkInv, ClientInv, AnswerInv, Outstanding
  <1> QED
    BY <1>1, LinkAlways, PTL

\* Behind the whole nickname the stream is the lines' alone.
LEMMA BehindNickname ==
  ASSUME TypeOK, NEW c, Counts(c, wire),
         NEW i \in 1 .. Len(wire), wire[i] = <<0, HelloParts>>,
         NEW m \in i + 1 .. Len(wire)
  PROVE  wire[m] \in Part /\ wire[m][1] # 0 /\ Index(wire[m]) = m - HelloParts
  <1>1. Len(wire) \in Nat /\ HelloParts \in Nat \ {0}
    BY ClientTypes, Sizes
  <1>2. m \in 1 .. Len(wire) /\ i \in 0 .. m /\ m - 1 \in 1 .. Len(wire) /\ i \in 0 .. m - 1
    BY <1>1
  <1>3. c[i] = HelloParts
    <2>1. \/ wire[i] = <<0, c[i]>>
          \/ wire[i][1] # 0
      BY At
    <2> QED
      BY <2>1
  <1>4. c[m] = HelloParts
    <2>1. c[m] \in 0 .. HelloParts /\ c[i] <= c[m]
      BY <1>2, At
    <2> QED
      BY <1>1, <1>3, <2>1
  <1>5. c[m - 1] = HelloParts
    <2>1. PICK j \in 1 .. Len(wire) : j = m - 1
      BY <1>2
    <2>2. c[j] \in 0 .. HelloParts /\ c[i] <= c[j]
      BY <1>2, <2>1, At
    <2> QED
      BY <1>1, <1>3, <2>1, <2>2
  <1>6. /\ wire[m] \in Part
        /\ \/ c[m] = c[m - 1] + 1
           \/ wire[m][1] # 0 /\ Index(wire[m]) = m - c[m]
    BY <1>2, At
  <1> QED
    BY <1>1, <1>4, <1>5, <1>6

LEMMA WhatIsHeard == LinkInv => LinesHeard
  <1> SUFFICES ASSUME LinkInv, NEW k \in 1 .. Len(heard) - 1,
                      NicknameBefore(HelloParts + (k - 1) * FrameParts + 1)
               PROVE  heard[k + 1] = Frame(k)
    BY DEF LinesHeard
  <1>1. TypeOK /\ LinkTypeOK /\ HeardInv /\ wire \in Seq(Part) /\ Len(wire) \in Nat
    BY ClientTypes DEF LinkInv, ClientInv
  <1>2. PICK c : Counts(c, wire)
    BY DEF LinkInv, ClientInv, StreamInv
  <1>3. /\ Len(heard) \in Nat /\ heard # <<>> /\ Cut \in Nat /\ part \in Nat
        /\ Cut = Len(heard[1]) + FrameParts * (Len(heard) - 1)
        /\ Read = Cut + part
    BY <1>1, LinkTypes
  <1>4. /\ Len(heard[1]) = HelloParts /\ Cut <= Len(wire)
        /\ Len(heard) - 1 <= MaxLines /\ k \in 1 .. MaxLines
    <2>1. Len(heard[1]) = HelloParts
      <3>1. Len(heard) > 1
        BY <1>3
      <3> QED
        BY <1>1, <1>3, <3>1 DEF HeardInv
    <2>2. Cut <= Len(wire)
      BY <1>1, <1>3 DEF LinkTypeOK
    <2>3. Len(heard) <= MaxLines + 1 /\ MaxLines \in Nat
      BY <1>1, <1>3, Sizes DEF LinkTypeOK
    <2> QED
      BY <1>3, <2>1, <2>2, <2>3
  <1>5. PICK f \in Nat : f = (k - 1) * FrameParts
    BY <1>3, Sizes
  <1>6. \A j \in 1 .. FrameParts : f + j \in 1 .. FrameParts * (Len(heard) - 1)
    <2>1. Len(heard) - 1 \in Nat
      BY <1>3
    <2> QED
      BY <1>5, <2>1, Sizes, FramesFit
  <1>7. \A j \in 1 .. FrameParts : HelloParts + (f + j) \in 1 .. Len(wire)
    <2>1. PICK g : g = FrameParts * (Len(heard) - 1)
      OBVIOUS
    <2>2. g \in Nat /\ HelloParts + g <= Len(wire)
      <3>1. g \in Nat
        BY <1>3, <2>1, Sizes
      <3> QED
        BY <1>3, <1>4, <2>1, <3>1
    <2>3. \A j \in 1 .. FrameParts : f + j \in 1 .. g
      BY <1>6, <2>1
    <2>4. PICK H \in Nat : H = HelloParts
      BY Sizes
    <2> QED
      BY <1>1, <2>2, <2>3, <2>4
  <1>8. PICK i \in 1 .. HelloParts + f : wire[i] = <<0, HelloParts>>
    <2>1. PICK n : n = HelloParts + f + 1
      OBVIOUS
    <2>2. NicknameBefore(n)
      BY <1>5, <2>1
    <2>3. PICK i \in 1 .. n - 1 : wire[i] = <<0, HelloParts>>
      BY <2>2 DEF NicknameBefore
    <2>4. n - 1 = HelloParts + f
      BY <2>1, Sizes
    <2> QED
      BY <2>3, <2>4
  <1>9. ASSUME NEW j \in 1 .. FrameParts
        PROVE  heard[k + 1][j] = <<k, j>>
    <2>1. PICK m : m = HelloParts + (f + j)
      OBVIOUS
    <2>2. m \in 1 .. Len(wire) /\ i \in 1 .. Len(wire) /\ m \in i + 1 .. Len(wire)
      BY <1>1, <1>7, <1>8, <2>1, Sizes
    <2>3. wire[m] \in Part /\ wire[m][1] # 0 /\ Index(wire[m]) = f + j
      <3>1. m - HelloParts = f + j
        BY <2>1, Sizes
      <3> QED
        BY <1>1, <1>2, <1>8, <2>2, <3>1, BehindNickname
    <2>4. PICK p : p = <<k, j>>
      OBVIOUS
    <2>5. p \in Part /\ p[1] # 0 /\ Index(p) = f + j
      BY <1>4, <1>5, <2>4, Sizes DEF Part, Index
    <2>6. wire[m] = p
      BY <2>3, <2>5, Places
    <2>7. heard[k + 1][j] = wire[HelloParts + ((k - 1) * FrameParts + j)]
      BY <1>1, <1>3, <1>4 DEF HeardInv, Slices
    <2> QED
      BY <1>5, <2>1, <2>4, <2>6, <2>7
  <1>10. heard[k + 1] \in Seq(Part) /\ Len(heard[k + 1]) = FrameParts
    <2>1. k + 1 \in 1 .. Len(heard)
      BY <1>3
    <2>2. heard \in Seq(Seq(Part))
      BY <1>1 DEF HeardInv
    <2> QED
      BY <1>1, <1>3, <2>1, <2>2, ElementOfSeq DEF HeardInv, Slices
  <1>11. heard[k + 1] = [j \in 1 .. FrameParts |-> heard[k + 1][j]]
    BY <1>10, LenProperties
  <1> QED
    BY <1>9, <1>11 DEF Frame

LEMMA WhoIsNamed == LinkInv => NamedRight
  <1> SUFFICES ASSUME LinkInv, ~early, heard # <<>>, NEW i \in DOMAIN heard[1]
               PROVE  heard[1][i] = <<0, i>>
    BY DEF NamedRight
  <1>1. /\ TypeOK /\ LinkTypeOK /\ HeardInv
        /\ wire \in Seq(Part) /\ Len(wire) \in Nat
    BY ClientTypes DEF LinkInv, ClientInv
  <1>2. /\ heard[1] \in Seq(Part) /\ Len(heard[1]) \in Nat /\ Cut \in Nat
        /\ Cut = Len(heard[1]) + FrameParts * (Len(heard) - 1)
        /\ Len(heard) \in Nat \ {0} /\ part \in Nat /\ Read = Cut + part
    BY <1>1, LinkTypes
  <1>3. i \in 1 .. Len(heard[1])
    BY <1>2, LenProperties
  <1>4. heard[1][i] = wire[i] /\ i <= HelloParts
    BY <1>1, <1>2, <1>3, Sizes DEF HeardInv, Slices
  <1>5. i \in 1 .. Len(wire)
    <2>1. FrameParts * (Len(heard) - 1) \in Nat
      BY <1>2, Sizes
    <2>2. Len(heard[1]) <= Len(wire)
      <3>1. Read <= Len(wire)
        BY <1>1 DEF LinkTypeOK
      <3>2. PICK a \in Nat : a = Len(heard[1])
        BY <1>2
      <3>3. PICK f \in Nat : f = FrameParts * (Len(heard) - 1)
        BY <2>1
      <3>4. Read = a + f + part
        BY <1>2, <3>2, <3>3
      <3> QED
        BY <1>1, <1>2, <3>1, <3>2, <3>3, <3>4
    <2> QED
      BY <1>1, <1>2, <1>3, <2>2
  <1>6. i \in DOMAIN wire
    BY <1>1, <1>5, LenProperties
  <1> QED
    BY <1>4, <1>6, ClientFramed DEF LinkInv, Framed

\* Whatever is typed when, and wherever the reads cut: the stream that the client
\* makes is the nickname and the lines, each in order, and what the server takes
\* for the k-th message is the k-th line once the nickname has gone before it
\* (chat_client's writeImpl, writeHandler and onConnect, chat_server's
\* nicknameHandler and readHandler).
THEOREM HeardAsTypedHolds == LinkSpec => []HeardAsTyped
  <1>1. LinkInv => HeardAsTyped
    BY ClientFramed, ClientIntact, WhatIsHeard, WhoIsNamed DEF LinkInv, HeardAsTyped
  <1> QED
    BY <1>1, LinkAlways, PTL
=============================================================================
