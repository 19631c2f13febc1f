------------------------- MODULE RequestFraming_proofs -------------------------
(***************************************************************************)
(* Proofs about RequestFraming: whatever is sent and however it is split,  *)
(* the buffer stays within its limit, no complete request waits in it, a   *)
(* request well below the limit is not refused, and the requests passed on *)
(* are the messages sent.                                                  *)
(***************************************************************************)
EXTENDS RequestFraming, SequenceTheorems, WellFoundedInduction, TLAPS

-------------------------------------------------------------------------------
(* Min and Max                                                                 *)

LEMMA MinIsIn ==
    ASSUME NEW S \in SUBSET Nat, S # {}
    PROVE  Min(S) \in S /\ \A y \in S : Min(S) <= y
<1>1. PICK x \in S : \A y \in S : ~(<<y, x>> \in OpToRel(<, Nat))
    BY NatLessThanWellFounded, WFMin
<1>2. \A y \in S : ~(y < x)
    BY <1>1 DEF OpToRel
<1>3. \A y \in S : x <= y
    BY <1>2
<1> QED BY <1>3 DEF Min

\* Induction over the natural numbers, for sets.
LEMMA SetInduction ==
    ASSUME NEW S, 0 \in S, \A n \in Nat : n \in S => n + 1 \in S
    PROVE  Nat \subseteq S
<1> DEFINE T == Nat \ S
<1>1. SUFFICES ASSUME T # {} PROVE FALSE
    OBVIOUS
<1>2. PICK n \in T : \A y \in T : n <= y
    BY <1>1, MinIsIn
<1>3. n \in Nat \ {0} /\ n - 1 \in Nat /\ ~(n <= n - 1)
    BY <1>2
<1>4. n - 1 \in S
    BY <1>2, <1>3
<1>5. (n - 1) + 1 \in S
    BY <1>3, <1>4
<1> QED BY <1>2, <1>3, <1>5

LEMMA MinIs ==
    ASSUME NEW S \in SUBSET Nat, NEW x \in S, \A y \in S : x <= y
    PROVE  Min(S) = x
<1>1. Min(S) \in S /\ \A y \in S : Min(S) <= y
    BY MinIsIn
<1>2. Min(S) <= x /\ x <= Min(S) /\ x \in Nat /\ Min(S) \in Nat
    BY <1>1
<1> QED BY <1>2

LEMMA MaxIsIn ==
    ASSUME NEW n \in Nat, NEW S \in SUBSET (1 .. n), S # {}
    PROVE  Max(S) \in S
<1> DEFINE T == {n - x : x \in S}
<1>1. T \in SUBSET Nat /\ T # {}
    <2>1. PICK x \in S : TRUE
        OBVIOUS
    <2>2. n - x \in T /\ \A y \in S : n - y \in Nat
        BY <2>1
    <2> QED BY <2>2
<1>2. Min(T) \in T /\ \A t \in T : Min(T) <= t
    BY <1>1, MinIsIn
<1>3. PICK x \in S : Min(T) = n - x
    BY <1>2
<1>4. \A y \in S : n - x <= n - y
    BY <1>2, <1>3
<1>5. \A y \in S : x >= y
    BY <1>4
<1> QED BY <1>5 DEF Max

-------------------------------------------------------------------------------
(* The lines of a request                                                      *)

\* A complete request has its headers, and a body, within the buffer.
LEMMA CompleteHasSize ==
    ASSUME NEW buf \in Seq(Line), Complete(buf)
    PROVE  /\ HeaderEnd(buf) \in Ends(buf) /\ \A k \in Ends(buf) : HeaderEnd(buf) <= k
           /\ HeaderEnd(buf) \in 2 .. Len(buf)
           /\ ContentLength(buf) \in Nat
           /\ TotalRequestSize(buf) \in 2 .. Len(buf)
           /\ HeaderEnd(buf) <= TotalRequestSize(buf)
<1>1. Ends(buf) \in SUBSET Nat /\ Ends(buf) # {} /\ Len(buf) \in Nat
    BY DEF Complete, HasHeaders, Ends
<1>2. HeaderEnd(buf) \in Ends(buf) /\ \A k \in Ends(buf) : HeaderEnd(buf) <= k
    BY <1>1, MinIsIn DEF HeaderEnd
<1>3. HeaderEnd(buf) \in 2 .. Len(buf)
    BY <1>2 DEF Ends
<1>4. ContentLength(buf) \in Nat
    <2> DEFINE k == Max(LengthLines(buf))
    <2>1. CASE LengthLines(buf) = {}
        BY <2>1 DEF ContentLength
    <2>2. CASE LengthLines(buf) # {}
        <3>1. LengthLines(buf) \in SUBSET (1 .. HeaderEnd(buf)) /\ HeaderEnd(buf) \in Nat
            BY <1>3 DEF LengthLines
        <3>2. k \in LengthLines(buf)
            BY <2>2, <3>1, MaxIsIn
        <3> HIDE DEF k
        <3>3. buf[k] # "badlength"
            BY <3>2 DEF Complete, Refused
        <3>4. buf[k] \in DOMAIN Declares
            BY <3>2, <3>3 DEF LengthLines
        <3>5. Declares[buf[k]] \in Nat
            BY <3>4, LineAssumption
        <3> QED BY <2>2, <3>5 DEF ContentLength, k
    <2> QED BY <2>1, <2>2
<1>5. /\ TotalRequestSize(buf) \in 2 .. Len(buf)
      /\ HeaderEnd(buf) <= TotalRequestSize(buf)
    BY <1>1, <1>3, <1>4 DEF Complete, TotalRequestSize
<1> QED BY <1>2, <1>3, <1>4, <1>5

\* What handle_read finds is there as soon as all of it has come.
LEMMA PrefixComplete ==
    ASSUME NEW s \in Seq(Line), NEW b \in Seq(Line), Complete(s),
           Len(b) <= Len(s), TotalRequestSize(s) <= Len(b),
           \A k \in 1 .. Len(b) : b[k] = s[k]
    PROVE  Complete(b)
<1> DEFINE h == HeaderEnd(s)
<1>1. /\ h \in Ends(s) /\ \A k \in Ends(s) : h <= k
      /\ h \in 2 .. Len(b) /\ Len(b) \in Nat /\ Len(s) \in Nat
    <2>1. /\ h \in Ends(s) /\ \A k \in Ends(s) : h <= k
          /\ h \in 2 .. Len(s) /\ h <= TotalRequestSize(s) /\ TotalRequestSize(s) \in 2 .. Len(s)
        BY CompleteHasSize
    <2> QED BY <2>1
<1> HIDE DEF h
<1>2. /\ Ends(b) \in SUBSET Nat /\ Ends(b) \subseteq Ends(s)
    BY <1>1 DEF Ends
<1>3. h \in Ends(b)
    BY <1>1 DEF Ends
<1>4. HeaderEnd(b) = h
    BY <1>1, <1>2, <1>3, MinIs DEF HeaderEnd
<1>5. \A k \in 1 .. h : k \in 1 .. Len(b) /\ b[k] = s[k]
    BY <1>1
<1>6. b[1] = s[1]
    BY <1>1
<1>7. LengthLines(b) = LengthLines(s)
    BY <1>4, <1>5, <1>6 DEF LengthLines, h
<1>8. LengthLines(b) \subseteq 1 .. h
    BY <1>4 DEF LengthLines
<1>9. Refused(b) = Refused(s)
    BY <1>5, <1>7, <1>8 DEF Refused
<1>10. ContentLength(b) = ContentLength(s)
    <2>1. CASE LengthLines(b) = {}
        BY <1>7, <2>1 DEF ContentLength
    <2>2. CASE LengthLines(b) # {}
        <3>1. h \in Nat /\ LengthLines(b) \in SUBSET (1 .. h)
            BY <1>1, <1>8
        <3>2. Max(LengthLines(b)) \in LengthLines(b)
            BY <2>2, <3>1, MaxIsIn
        <3>3. b[Max(LengthLines(b))] = s[Max(LengthLines(b))]
            BY <1>5, <1>8, <3>2
        <3> QED BY <1>7, <2>2, <3>3 DEF ContentLength
    <2> QED BY <2>1, <2>2
<1>11. TotalRequestSize(b) = TotalRequestSize(s)
    BY <1>4, <1>10 DEF TotalRequestSize, h
<1> QED BY <1>3, <1>9, <1>11 DEF Complete, HasHeaders

\* handle_read finds the end of a well-formed message at the front of the buffer, and
\* not before all of it has come.
LEMMA MessageAtFront ==
    ASSUME NEW m \in Seq(Line), WellFormed(m), NEW buf \in Seq(Line), Complete(buf),
           \A i \in 1 .. Len(buf) : i <= Len(m) => buf[i] = m[i]
    PROVE  TotalRequestSize(buf) = Len(m)
<1> DEFINE e == HeaderEnd(buf)
           Lengths(h) == {k \in 2 .. h : m[k] \in DOMAIN Declares}
<1>1. PICK h \in 2 .. Len(m) :
         /\ m[1] \in DOMAIN Request
         /\ m[h] = "blank"
         /\ \A k \in 2 .. h - 1 : m[k] # "blank" /\ m[k] # "badlength"
         /\ \/ Lengths(h) = {} /\ Len(m) = h
            \/ \E k \in Lengths(h) : Lengths(h) = {k} /\ Len(m) = h + Declares[m[k]]
    BY DEF WellFormed
<1>2. /\ e \in 2 .. Len(buf) /\ buf[e] = "blank" /\ \A k \in Ends(buf) : e <= k
      /\ Len(buf) \in Nat /\ Len(m) \in Nat
    BY CompleteHasSize DEF Ends
<1> HIDE DEF e
<1>3. e = h
    <2>1. ~(e < h)
        <3>1. SUFFICES ASSUME e < h PROVE FALSE
            OBVIOUS
        <3>2. e \in 2 .. h - 1 /\ e \in 1 .. Len(buf) /\ e <= Len(m)
            BY <1>1, <1>2, <3>1
        <3> QED BY <1>1, <1>2, <3>2
    <2>2. ~(h < e)
        <3>1. SUFFICES ASSUME h < e PROVE FALSE
            OBVIOUS
        <3>2. h \in 1 .. Len(buf) /\ h <= Len(m) /\ h \in 2 .. Len(buf)
            BY <1>1, <1>2, <3>1
        <3>3. h \in Ends(buf)
            BY <1>1, <3>2 DEF Ends
        <3> QED BY <1>1, <1>2, <3>1, <3>3
    <2> QED BY <1>1, <1>2, <2>1, <2>2
<1>4. \A i \in 1 .. h : i \in 1 .. Len(buf) /\ i <= Len(m) /\ buf[i] = m[i]
    BY <1>1, <1>2, <1>3
<1>5. /\ "blank" \notin DOMAIN Request /\ "badlength" \notin DOMAIN Request
      /\ "blank" \notin DOMAIN Declares /\ DOMAIN Request \cap DOMAIN Declares = {}
    BY LineAssumption
<1>6. LengthLines(buf) = Lengths(h)
    <2>1. LengthLines(buf) = {k \in 1 .. h : /\ buf[1] # "blank"
                                             /\ buf[k] = "badlength" \/ buf[k] \in DOMAIN Declares}
        BY <1>3 DEF LengthLines, e
    <2>2. buf[1] = m[1] /\ m[1] # "blank" /\ m[1] # "badlength" /\ m[1] \notin DOMAIN Declares
        BY <1>1, <1>4, <1>5
    <2>3. ASSUME NEW k \in 1 .. h
          PROVE  (buf[k] = "badlength" \/ buf[k] \in DOMAIN Declares)
                    <=> (k \in 2 .. h /\ m[k] \in DOMAIN Declares)
        <3>1. CASE k = 1
            BY <2>2, <3>1
        <3>2. CASE k = h
            <4>1. buf[k] = "blank" /\ m[k] = "blank" /\ k \in 2 .. h
                BY <1>1, <1>4, <3>2
            <4> QED BY <1>5, <4>1
        <3>3. CASE k \in 2 .. h - 1
            <4>1. buf[k] = m[k] /\ m[k] # "badlength" /\ k \in 2 .. h
                BY <1>1, <1>4, <3>3
            <4> QED BY <4>1
        <3> QED BY <1>1, <3>1, <3>2, <3>3
    <2>4. \A k \in Lengths(h) : k \in 1 .. h
        BY <1>1
    <2> QED BY <2>1, <2>2, <2>3, <2>4
<1>7. TotalRequestSize(buf) = h + ContentLength(buf)
    BY <1>3 DEF TotalRequestSize, e
<1>8. CASE Lengths(h) = {} /\ Len(m) = h
    <2>1. ContentLength(buf) = 0
        BY <1>6, <1>8 DEF ContentLength
    <2> QED BY <1>1, <1>7, <1>8, <2>1
<1>9. CASE \E k \in Lengths(h) : Lengths(h) = {k} /\ Len(m) = h + Declares[m[k]]
    <2>1. PICK k \in Lengths(h) : Lengths(h) = {k} /\ Len(m) = h + Declares[m[k]]
        BY <1>9
    <2>2. k \in 1 .. h /\ k \in Nat
        BY <1>1
    <2>3. LengthLines(buf) \in SUBSET (1 .. h) /\ h \in Nat /\ LengthLines(buf) # {}
        BY <1>1, <1>6, <2>1, <2>2
    <2>4. Max(LengthLines(buf)) = k
        BY <1>6, <2>1, <2>3, MaxIsIn
    <2>5. ContentLength(buf) = Declares[m[k]]
        BY <1>4, <2>2, <2>3, <2>4 DEF ContentLength
    <2> QED BY <1>7, <2>1, <2>5
<1> QED BY <1>1, <1>8, <1>9

\* A well-formed message is not refused as malformed.
LEMMA WellFormedNotMalformed ==
    ASSUME NEW m \in Seq(Line), WellFormed(m)
    PROVE  ~Malformed(m)
<1>1. m[1] \in DOMAIN Request
    BY DEF WellFormed
<1>2. m[1] # "blank"
    BY <1>1, LineAssumption
<1> QED BY <1>1, <1>2 DEF Malformed, RequestLine

-------------------------------------------------------------------------------
(* The stream of a client                                                      *)

\* FlattenSeq joins one sequence after the other.
Joined(ms, f) == [i \in 1 .. Len(ms) |-> IF i = 1 THEN ms[i] ELSE f[i - 1] \o ms[i]]

\* There is such a function.
LEMMA JoinedExists ==
    ASSUME NEW ms, Len(ms) \in Nat
    PROVE  \E f : f = Joined(ms, f)
<1> DEFINE Upto(k, f) == [i \in 1 .. k |-> IF i = 1 THEN ms[i] ELSE f[i - 1] \o ms[i]]
           S == {k \in Nat : \E f : f = Upto(k, f)}
<1>1. 0 \in S
    <2>1. << >> = Upto(0, << >>)
        OBVIOUS
    <2> QED BY <2>1
<1>2. ASSUME NEW k \in Nat, k \in S PROVE k + 1 \in S
    <2>1. PICK f : f = Upto(k, f)
        BY <1>2
    <2> DEFINE last == IF k + 1 = 1 THEN ms[k + 1] ELSE f[(k + 1) - 1] \o ms[k + 1]
               g == [i \in 1 .. k + 1 |-> IF i = k + 1 THEN last ELSE f[i]]
    <2>2. \A i \in 1 .. k : g[i] = f[i] /\ i # k + 1
        OBVIOUS
    <2>3. ASSUME NEW i \in 1 .. k + 1
          PROVE  g[i] = IF i = 1 THEN ms[i] ELSE g[i - 1] \o ms[i]
        <3>1. CASE i = k + 1
            <4>1. g[i] = last
                BY <3>1
            <4>2. i # 1 => g[i - 1] = f[i - 1]
                BY <2>2, <3>1
            <4> HIDE DEF g
            <4> QED BY <3>1, <4>1, <4>2
        <3>2. CASE i \in 1 .. k
            <4>1. f[i] = IF i = 1 THEN ms[i] ELSE f[i - 1] \o ms[i]
                BY <2>1, <3>2
            <4>2. i # 1 => i - 1 \in 1 .. k
                BY <3>2
            <4>3. g[i] = f[i] /\ (i # 1 => g[i - 1] = f[i - 1])
                BY <2>2, <3>2, <4>2
            <4> HIDE DEF g
            <4> QED BY <4>1, <4>3
        <3> QED BY <3>1, <3>2
    <2>4. g = [i \in 1 .. k + 1 |-> g[i]]
        OBVIOUS
    <2> HIDE DEF g
    <2>5. g = Upto(k + 1, g)
        BY <2>3, <2>4
    <2> HIDE DEF Upto
    <2>6. \E h : h = Upto(k + 1, h)
        BY <2>5, Zenon
    <2> QED BY <2>6
<1>3. Len(ms) \in S
    <2> HIDE DEF S
    <2> QED BY <1>1, <1>2, SetInduction
<1>4. PICK f : f = Upto(Len(ms), f)
    BY <1>3
<1>5. f = Joined(ms, f)
    BY <1>4, Zenon DEF Joined
<1> QED BY <1>5

\* It is the one FlattenSeq is defined by.
LEMMA FlattenJoins ==
    ASSUME NEW ms, Len(ms) \in Nat
    PROVE  \E f : /\ f = Joined(ms, f)
                  /\ FlattenSeq(ms) = IF Len(ms) = 0 THEN ms ELSE f[Len(ms)]
<1> DEFINE f == CHOOSE f : f = [i \in 1 .. Len(ms) |-> IF i = 1 THEN ms[i] ELSE f[i - 1] \o ms[i]]
<1>1. f = Joined(ms, f)
    BY JoinedExists, Zenon DEF Joined
<1>2. FlattenSeq(ms) = IF Len(ms) = 0 THEN ms ELSE f[Len(ms)]
    BY Zenon DEF FlattenSeq
<1> QED BY <1>1, <1>2

\* Where the n first of some sequences begin and end in the sequence s they make up.
Layout(n, ms, s, off) ==
    /\ s \in Seq(Line)
    /\ off \in [0 .. n -> Nat] /\ off[0] = 0 /\ off[n] = Len(s)
    /\ \A k \in 1 .. n : /\ off[k] = off[k - 1] + Len(ms[k]) /\ off[k] <= Len(s)
                         /\ \A j \in 1 .. Len(ms[k]) : s[off[k - 1] + j] = ms[k][j]

\* One more sequence is joined to the others.
LEMMA LayoutGrows ==
    ASSUME NEW ms \in Seq(Seq(Line)), NEW n \in Nat, n + 1 <= Len(ms), NEW s, NEW off,
           Layout(n, ms, s, off)
    PROVE  \E next : Layout(n + 1, ms, s \o ms[n + 1], next)
<1> DEFINE m == ms[n + 1]
           t == s \o m
           next == [i \in 0 .. n + 1 |-> IF i = n + 1 THEN off[n] + Len(m) ELSE off[i]]
<1>1. /\ s \in Seq(Line) /\ Len(s) \in Nat /\ off \in [0 .. n -> Nat] /\ off[0] = 0
      /\ off[n] = Len(s)
    BY DEF Layout
<1>2. m \in Seq(Line) /\ Len(m) \in Nat
    <2>1. n + 1 \in 1 .. Len(ms)
        OBVIOUS
    <2>2. ms[n + 1] \in Seq(Line)
        BY <2>1, ElementOfSeq
    <2> QED BY <2>2
<1>3. /\ t \in Seq(Line) /\ Len(t) = Len(s) + Len(m)
      /\ \A i \in 1 .. Len(s) + Len(m) : t[i] = IF i <= Len(s) THEN s[i] ELSE m[i - Len(s)]
    <2> HIDE DEF m
    <2> QED BY <1>1, <1>2, ConcatProperties
<1>4. \A i \in 0 .. n : next[i] = off[i] /\ off[i] \in Nat
    BY <1>1
<1>5. next[n + 1] = Len(s) + Len(m) /\ next[n] = Len(s) /\ next[0] = 0
    BY <1>1, <1>4
<1>6. next \in [0 .. n + 1 -> Nat]
    BY <1>1, <1>2
<1> HIDE DEF next, t, m
<1>7. ASSUME NEW k \in 1 .. n + 1
      PROVE  /\ next[k] = next[k - 1] + Len(ms[k]) /\ next[k] <= Len(t)
             /\ \A j \in 1 .. Len(ms[k]) : t[next[k - 1] + j] = ms[k][j]
    <2>1. CASE k = n + 1
        <3>1. k - 1 = n /\ ms[k] = m
            BY <2>1 DEF m
        <3>2. next[k] = next[k - 1] + Len(ms[k]) /\ next[k] <= Len(t)
            <4>1. next[k] = next[n + 1] /\ next[k - 1] = next[n]
                BY <2>1, <3>1
            <4>2. Len(t) \in Nat /\ Len(s) + Len(m) <= Len(t)
                BY <1>1, <1>2, <1>3
            <4> QED BY <1>3, <1>5, <3>1, <4>1, <4>2
        <3>3. ASSUME NEW j \in 1 .. Len(m) PROVE t[Len(s) + j] = m[j]
            <4>1. /\ Len(s) + j \in 1 .. Len(s) + Len(m) /\ ~(Len(s) + j <= Len(s))
                  /\ (Len(s) + j) - Len(s) = j
                BY <1>1, <1>2, <3>3
            <4> QED BY <1>3, <4>1
        <3> QED BY <1>5, <3>1, <3>2, <3>3
    <2>2. CASE k \in 1 .. n
        <3>1. k \in 0 .. n /\ k - 1 \in 0 .. n
            BY <2>2
        <3>2. /\ off[k] = off[k - 1] + Len(ms[k]) /\ off[k] <= Len(s)
              /\ \A j \in 1 .. Len(ms[k]) : s[off[k - 1] + j] = ms[k][j]
            BY <2>2 DEF Layout
        <3>3. /\ next[k] = off[k] /\ next[k - 1] = off[k - 1]
              /\ off[k] \in Nat /\ off[k - 1] \in Nat
            BY <1>4, <3>1
        <3>4. Len(ms[k]) \in Nat
            <4>1. k \in 1 .. Len(ms)
                BY <2>2
            <4>2. ms[k] \in Seq(Line)
                BY <4>1, ElementOfSeq
            <4> QED BY <4>2
        <3>5. ASSUME NEW j \in 1 .. Len(ms[k]) PROVE t[off[k - 1] + j] = ms[k][j]
            <4> DEFINE o == off[k - 1]
                       l == Len(ms[k])
            <4>3. o \in Nat /\ l \in Nat /\ j \in 1 .. l /\ o + l <= Len(s)
                BY <3>2, <3>3, <3>4, <3>5
            <4> HIDE DEF o, l
            <4>4. o + j \in 1 .. Len(s) + Len(m) /\ o + j <= Len(s)
                BY <1>1, <1>2, <4>3
            <4>1. off[k - 1] + j \in 1 .. Len(s) + Len(m) /\ off[k - 1] + j <= Len(s)
                BY <4>4 DEF o
            <4>2. t[off[k - 1] + j] = s[off[k - 1] + j]
                BY <1>3, <4>1
            <4> QED BY <3>2, <4>2
        <3> QED BY <1>1, <1>2, <1>3, <3>2, <3>3, <3>5
    <2> QED BY <2>1, <2>2
<1>8. Layout(n + 1, ms, t, next)
    BY <1>2, <1>3, <1>5, <1>6, <1>7, <1>1 DEF Layout
<1> QED BY <1>8 DEF t, m

\* FlattenSeq keeps every sequence, in order.
LEMMA LayoutExists ==
    ASSUME NEW ms \in Seq(Seq(Line))
    PROVE  \E off : Layout(Len(ms), ms, FlattenSeq(ms), off)
<1>1. Len(ms) \in Nat
    OBVIOUS
<1>2. PICK f : /\ f = Joined(ms, f)
               /\ FlattenSeq(ms) = IF Len(ms) = 0 THEN ms ELSE f[Len(ms)]
    BY <1>1, FlattenJoins
<1> DEFINE Upto(k) == IF k = 0 THEN << >> ELSE f[k]
           S == {k \in Nat : k <= Len(ms) => \E off : Layout(k, ms, Upto(k), off)}
<1>3. Upto(Len(ms)) = FlattenSeq(ms)
    <2>1. Len(ms) = 0 => ms = << >>
        OBVIOUS
    <2> QED BY <1>2, <2>1
<1>4. 0 \in S
    <2> DEFINE off == [i \in 0 .. 0 |-> 0]
    <2>1. /\ << >> \in Seq(Line) /\ Len(<< >>) = 0 /\ off \in [0 .. 0 -> Nat] /\ off[0] = 0
          /\ 1 .. 0 = {}
        OBVIOUS
    <2> HIDE DEF off
    <2>2. Layout(0, ms, << >>, off)
        BY <2>1 DEF Layout
    <2>3. Upto(0) = << >>
        OBVIOUS
    <2> HIDE DEF Upto
    <2> QED BY <2>2, <2>3
<1>5. ASSUME NEW k \in Nat, k \in S PROVE k + 1 \in S
    <2>1. SUFFICES ASSUME k + 1 <= Len(ms)
                   PROVE  \E off : Layout(k + 1, ms, Upto(k + 1), off)
        <3> HIDE DEF Upto
        <3> QED OBVIOUS
    <2>2. PICK begins : Layout(k, ms, Upto(k), begins)
        <3> HIDE DEF Upto
        <3> QED BY <1>1, <1>5, <2>1
    <2>3. Upto(k + 1) = Upto(k) \o ms[k + 1]
        <3>1. k + 1 \in 1 .. Len(ms) /\ (k + 1) - 1 = k /\ k + 1 # 0
            BY <1>1, <2>1
        <3>2. f[k + 1] = IF k + 1 = 1 THEN ms[k + 1] ELSE f[(k + 1) - 1] \o ms[k + 1]
            BY <1>2, <3>1 DEF Joined
        <3>3. ms[k + 1] \in Seq(Line)
            BY <3>1, ElementOfSeq
        <3>4. << >> \o ms[k + 1] = ms[k + 1]
            BY <3>3, ConcatEmptySeq
        <3>7. Upto(k + 1) = f[k + 1]
            BY <3>1
        <3>5. CASE k = 0
            <4>1. Upto(k) = << >> /\ f[k + 1] = ms[k + 1]
                BY <3>2, <3>5
            <4> HIDE DEF Upto
            <4> QED BY <3>4, <3>7, <4>1
        <3>6. CASE k # 0
            <4>1. Upto(k) = f[k] /\ k + 1 # 1
                BY <3>6
            <4> HIDE DEF Upto
            <4> QED BY <3>1, <3>2, <3>7, <4>1
        <3> QED BY <3>5, <3>6
    <2> HIDE DEF Upto
    <2>4. \E off : Layout(k + 1, ms, Upto(k) \o ms[k + 1], off)
        BY <2>1, <2>2, LayoutGrows
    <2> QED BY <2>1, <2>3, <2>4
<1>6. Len(ms) \in S
    <2> HIDE DEF S
    <2> QED BY <1>1, <1>4, <1>5, SetInduction
<1> HIDE DEF Upto
<1>7. \E off : Layout(Len(ms), ms, Upto(Len(ms)), off)
    BY <1>1, <1>6
<1> QED BY <1>3, <1>7

\* What a client sends is a sequence of lines.
LEMMA StreamsAreLines ==
    ASSUME NEW ms \in Streams
    PROVE  ms \in Seq(Seq(Line)) /\ FlattenSeq(ms) \in Seq(Line)
<1>1. ms \in Seq(Seq(Line))
    BY LineAssumption
<1>2. FlattenSeq(ms) \in Seq(Line)
    BY <1>1, LayoutExists, Zenon DEF Layout
<1> QED BY <1>1, <1>2

-------------------------------------------------------------------------------
(* The invariant                                                               *)

\* The bytes of every read that waits for its handler are in data_.
QueueFits == \A k \in 1 .. Len(queue) : queue[k].n <= Len(data_)

\* request_buffer_ holds the first n lines of the stream.
Buffered(n) == /\ n \in Nat /\ n <= Len(stream)
               /\ Len(request_buffer_) = n
               /\ \A k \in 1 .. n : request_buffer_[k] = stream[k]

\* Until the first answer one operation is pending, or one handler runs, and all that
\* has come is in the buffer or about to be added to it.
FirstRead ==
    \/ reads = 1 /\ queue = << >> /\ at = "run" /\ Buffered(pos)
    \/ \E n \in 1 .. MaxLength :
          /\ reads = 0 /\ queue = <<[kind |-> "read", n |-> n]>> /\ at = "run"
          /\ Buffered(pos - n)
          /\ \A k \in 1 .. n : data_[k] = stream[pos - n + k]
    \/ reads = 0 /\ queue = << >> /\ at = "loop" /\ Buffered(pos)

BeforeFirstAnswer ==
    replies = << >> /\ at # "dead" => writes = 0 /\ requests = << >> /\ FirstRead

IInv == TypeOK /\ QueueFits /\ NoneOverlooked /\ BeforeFirstAnswer /\ SmallRequestsFit

Event == [kind : {"read", "write"}, n : 0 .. MaxLength]

LEMMA InitInvariant == Init => IInv
<1> SUFFICES ASSUME Init PROVE IInv
    OBVIOUS
<1>1. stream \in Seq(Line)
    BY StreamsAreLines DEF Init
<1>2. /\ Len(stream) \in Nat /\ pos = 0 /\ request_buffer_ = << >> /\ data_ = << >>
      /\ queue = << >> /\ requests = << >> /\ replies = << >> /\ at = "run"
      /\ reads = 1 /\ writes = 0 /\ patient \in BOOLEAN
    BY <1>1 DEF Init
<1>3. \A S : << >> \in Seq(S)
    OBVIOUS
<1>4. Len(<< >>) = 0
    OBVIOUS
<1>5. TypeOK
    BY <1>1, <1>2, <1>3, <1>4, LimitsAssumption DEF TypeOK
<1>6. QueueFits
    BY <1>2, <1>4 DEF QueueFits
<1>7. ~Complete(request_buffer_)
    BY <1>2, <1>4 DEF Complete, HasHeaders, Ends
<1>8. Buffered(pos)
    BY <1>2, <1>4 DEF Buffered
<1> QED BY <1>2, <1>5, <1>6, <1>7, <1>8
        DEF IInv, NoneOverlooked, BeforeFirstAnswer, FirstRead, SmallRequestsFit

\* SubSeq of sequences, within and past their ends.
LEMMA SubSeqType ==
    ASSUME NEW S, NEW s \in Seq(S), NEW m \in Nat \ {0}, NEW n \in Nat, n <= Len(s)
    PROVE  /\ SubSeq(s, m, n) \in Seq(S)
           /\ Len(SubSeq(s, m, n)) = (IF m <= n THEN n - m + 1 ELSE 0)
           /\ \A k \in 1 .. n - m + 1 : SubSeq(s, m, n)[k] = s[m + k - 1]
<1>1. \A k \in m .. n : s[k] \in S
    BY ElementOfSeq
<1> QED BY <1>1, SubSeqProperties

\* What an answer leaves to be shown: the first one is not a 413.
LEMMA AnswerKeepsFit ==
    ASSUME IInv, NEW status, replies' = Append(replies, status), status # 413,
           UNCHANGED stream
    PROVE  SmallRequestsFit' /\ replies' # << >>
<1>1. replies \in Seq({200, 400, 403, 404, 413, 500})
    BY DEF IInv, TypeOK
<1>2. /\ Len(replies) \in Nat /\ Len(replies') = Len(replies) + 1
      /\ replies'[Len(replies) + 1] = status
      /\ \A k \in 1 .. Len(replies) : replies'[k] = replies[k]
    BY <1>1
<1>3. replies' # << >>
    BY <1>2
<1>4. CASE replies = << >>
    BY <1>2, <1>4 DEF SmallRequestsFit
<1>5. CASE replies # << >>
    <2>1. 1 \in 1 .. Len(replies)
        BY <1>1, <1>5
    <2>2. replies'[1] = replies[1]
        BY <1>2, <2>1
    <2> QED BY <1>5, <2>2 DEF SmallRequestsFit, IInv
<1> QED BY <1>3, <1>4, <1>5

-------------------------------------------------------------------------------
(* The network and io_service                                                  *)

\* The lines of a read replace the first ones of data_.
LEMMA OverwriteData ==
    ASSUME IInv, NEW n \in 1 .. MaxLength, pos + n <= Len(stream),
           data_' = SubSeq(stream, pos + 1, pos + n) \o SubSeq(data_, n + 1, Len(data_))
    PROVE  /\ data_' \in Seq(Line) /\ Len(data_') \in Nat /\ Len(data_') <= MaxLength
           /\ n <= Len(data_') /\ Len(data_) <= Len(data_')
           /\ \A k \in 1 .. n : data_'[k] = stream[pos + k]
<1> DEFINE A == SubSeq(stream, pos + 1, pos + n)
           B == SubSeq(data_, n + 1, Len(data_))
<1>1. /\ stream \in Seq(Line) /\ data_ \in Seq(Line) /\ Len(data_) \in Nat
      /\ Len(data_) <= MaxLength /\ pos \in Nat /\ MaxLength \in Nat /\ n \in Nat /\ n > 0
      /\ Len(stream) \in Nat
    BY LimitsAssumption DEF IInv, TypeOK
<1>2. /\ A \in Seq(Line) /\ Len(A) = n
      /\ \A k \in 1 .. n : A[k] = stream[pos + k]
    <2>1. pos + 1 \in Nat \ {0} /\ pos + n \in Nat /\ pos + 1 <= pos + n
          /\ (pos + n) - (pos + 1) + 1 = n
        BY <1>1
    <2>2. /\ A \in Seq(Line) /\ Len(A) = n
          /\ \A k \in 1 .. n : A[k] = stream[(pos + 1) + k - 1]
        BY <1>1, <2>1, SubSeqType
    <2>3. \A k \in 1 .. n : (pos + 1) + k - 1 = pos + k
        BY <1>1
    <2> QED BY <2>2, <2>3
<1>3. B \in Seq(Line) /\ Len(B) = IF n + 1 <= Len(data_) THEN Len(data_) - n ELSE 0
    <2>1. n + 1 \in Nat \ {0} /\ Len(data_) - (n + 1) + 1 = Len(data_) - n
        BY <1>1
    <2> QED BY <1>1, <2>1, SubSeqType
<1>4. data_' = A \o B
    OBVIOUS
<1> HIDE DEF A, B
<1>5. /\ data_' \in Seq(Line) /\ Len(data_') = n + Len(B)
      /\ \A k \in 1 .. n : data_'[k] = A[k]
    <2>1. /\ A \o B \in Seq(Line) /\ Len(A \o B) = Len(A) + Len(B)
          /\ \A k \in 1 .. Len(A) + Len(B) : (A \o B)[k] = IF k <= Len(A) THEN A[k] ELSE B[k - Len(A)]
        <3>1. A \in Seq(Line) /\ B \in Seq(Line)
            BY <1>2, <1>3
        <3> QED BY <3>1, ConcatProperties
    <2>2. Len(B) \in Nat
        BY <1>3
    <2>3. \A k \in 1 .. n : k \in 1 .. Len(A) + Len(B) /\ k <= Len(A)
        BY <1>1, <1>2, <2>2
    <2> QED BY <1>2, <1>4, <2>1, <2>3
<1>6. /\ Len(data_') \in Nat /\ Len(data_') <= MaxLength /\ n <= Len(data_')
      /\ Len(data_) <= Len(data_')
    BY <1>1, <1>3, <1>5
<1> QED BY <1>2, <1>5, <1>6

LEMMA ReceiveStep == IInv /\ Receive => IInv'
<1> SUFFICES ASSUME IInv, Receive PROVE IInv'
    OBVIOUS
<1>1. PICK n \in 1 .. MaxLength :
         /\ pos + n <= Len(stream)
         /\ data_' = SubSeq(stream, pos + 1, pos + n) \o SubSeq(data_, n + 1, Len(data_))
         /\ queue' = Append(queue, [kind |-> "read", n |-> n])
         /\ pos' = pos + n
    BY DEF Receive
<1>2. /\ data_' \in Seq(Line) /\ Len(data_') \in Nat /\ Len(data_') <= MaxLength
      /\ n <= Len(data_') /\ Len(data_) <= Len(data_')
      /\ \A k \in 1 .. n : data_'[k] = stream[pos + k]
    BY <1>1, OverwriteData
<1>3. /\ at # "dead" /\ reads > 0 /\ reads' = reads - 1
      /\ UNCHANGED <<stream, patient, writes, request_buffer_, at, requests, replies>>
    BY DEF Receive, client
<1>4. /\ queue \in Seq(Event) /\ Len(queue) \in Nat /\ pos \in Nat /\ Len(stream) \in Nat
      /\ Len(data_) \in Nat /\ MaxLength \in Nat /\ reads \in Nat
    BY LimitsAssumption DEF IInv, TypeOK, Event
<1>5. [kind |-> "read", n |-> n] \in Event
    BY <1>4 DEF Event
<1>6. /\ queue' \in Seq(Event) /\ Len(queue') = Len(queue) + 1
      /\ queue'[Len(queue) + 1].n = n
      /\ \A k \in 1 .. Len(queue) : queue'[k] = queue[k]
    BY <1>1, <1>4, <1>5, AppendProperties
<1>7. TypeOK'
    <2>1. pos' \in 0 .. Len(stream) /\ reads' \in Nat
        BY <1>1, <1>3, <1>4
    <2> QED BY <1>2, <1>3, <1>6, <2>1 DEF IInv, TypeOK, Event
<1>8. QueueFits'
    <2>1. SUFFICES ASSUME NEW k \in 1 .. Len(queue')
                   PROVE  queue'[k].n <= Len(data_')
        BY DEF QueueFits
    <2>2. CASE k = Len(queue) + 1
        BY <1>2, <1>6, <2>2
    <2>3. CASE k \in 1 .. Len(queue)
        <3>1. queue[k] \in Event /\ queue[k].n <= Len(data_)
            BY <1>4, <2>3 DEF IInv, QueueFits
        <3>2. queue[k].n \in Nat
            BY <1>4, <3>1 DEF Event
        <3> QED BY <1>2, <1>4, <1>6, <2>3, <3>1, <3>2
    <2> QED BY <1>4, <1>6, <2>2, <2>3
<1>9. NoneOverlooked' /\ SmallRequestsFit'
    BY <1>3 DEF IInv, NoneOverlooked, SmallRequestsFit
<1>10. BeforeFirstAnswer'
    <2>1. SUFFICES ASSUME replies = << >>
                   PROVE  writes' = 0 /\ requests' = << >> /\ FirstRead'
        BY <1>3 DEF BeforeFirstAnswer
    <2>2. /\ writes = 0 /\ requests = << >>
          /\ reads = 1 /\ queue = << >> /\ at = "run" /\ Buffered(pos)
        BY <1>3, <2>1 DEF IInv, BeforeFirstAnswer, FirstRead
    <2>3. queue' = <<[kind |-> "read", n |-> n]>>
        BY <1>1, <2>2
    <2>4. pos' - n = pos
        BY <1>1, <1>4
    <2>5. Buffered(pos - n)'
        BY <1>3, <2>2, <2>4 DEF Buffered
    <2>6. \A k \in 1 .. n : data_'[k] = stream'[pos' - n + k]
        BY <1>2, <1>3, <2>4
    <2> QED BY <1>3, <2>2, <2>3, <2>5, <2>6 DEF FirstRead
<1> QED BY <1>7, <1>8, <1>9, <1>10 DEF IInv

\* Once something is answered, or the thread is dead, the first read is over.
LEMMA AnsweredBefore ==
    ASSUME IInv, at # "dead", writes > 0 \/ (queue # << >> /\ Head(queue).kind = "write")
    PROVE  replies # << >>
<1>1. SUFFICES ASSUME replies = << >> PROVE FALSE
    OBVIOUS
<1>2. writes = 0 /\ FirstRead
    BY <1>1 DEF IInv, BeforeFirstAnswer
<1>3. queue # << >> /\ Head(queue).kind = "write"
    BY <1>2
<1>4. PICK n \in 1 .. MaxLength : queue = <<[kind |-> "read", n |-> n]>>
    BY <1>2, <1>3 DEF FirstRead
<1> QED BY <1>3, <1>4

LEMMA SentStep == IInv /\ Sent => IInv'
<1> SUFFICES ASSUME IInv, Sent PROVE IInv'
    OBVIOUS
<1>1. replies # << >>
    BY AnsweredBefore DEF Sent
<1>2. /\ queue \in Seq(Event) /\ Len(queue) \in Nat /\ writes \in Nat /\ writes > 0
      /\ Len(data_) \in Nat /\ MaxLength \in Nat
    BY LimitsAssumption DEF IInv, TypeOK, Event, Sent
<1>3. [kind |-> "write", n |-> 0] \in Event
    BY <1>2 DEF Event
<1>4. /\ queue' \in Seq(Event) /\ Len(queue') = Len(queue) + 1
      /\ queue'[Len(queue) + 1].n = 0
      /\ \A k \in 1 .. Len(queue) : queue'[k] = queue[k]
    BY <1>2, <1>3, AppendProperties DEF Sent
<1>5. QueueFits'
    <2>1. SUFFICES ASSUME NEW k \in 1 .. Len(queue')
                   PROVE  queue'[k].n <= Len(data_')
        BY DEF QueueFits
    <2>2. data_' = data_
        BY DEF Sent
    <2>3. CASE k = Len(queue) + 1
        BY <1>2, <1>4, <2>2, <2>3
    <2>4. CASE k \in 1 .. Len(queue)
        BY <1>4, <2>2, <2>4 DEF IInv, QueueFits
    <2> QED BY <1>2, <1>4, <2>3, <2>4
<1>6. TypeOK'
    BY <1>2, <1>4 DEF Sent, client, IInv, TypeOK, Event
<1>7. NoneOverlooked' /\ BeforeFirstAnswer' /\ SmallRequestsFit'
    BY <1>1 DEF Sent, client, IInv, NoneOverlooked, BeforeFirstAnswer, SmallRequestsFit
<1> QED BY <1>5, <1>6, <1>7 DEF IInv

\* The queue without its first event.
LEMMA QueueAfterRun ==
    ASSUME IInv, queue # << >>, queue' = Tail(queue), data_' = data_
    PROVE  /\ queue' \in Seq(Event) /\ QueueFits'
           /\ Head(queue) \in Event /\ Head(queue).n \in Nat
           /\ Head(queue).n <= Len(data_)
<1>1. queue \in Seq(Event) /\ Len(queue) \in Nat /\ Len(queue) > 0
    BY DEF IInv, TypeOK, Event
<1>2. /\ queue' \in Seq(Event) /\ Len(queue') = Len(queue) - 1
      /\ \A k \in 1 .. Len(queue') : queue'[k] = queue[k + 1]
      /\ Head(queue) \in Event /\ Head(queue) = queue[1]
    BY <1>1, HeadTailProperties
<1>3. \A k \in 1 .. Len(queue') : k + 1 \in 1 .. Len(queue)
    BY <1>1, <1>2
<1>4. QueueFits'
    BY <1>2, <1>3 DEF IInv, QueueFits
<1>5. Head(queue).n <= Len(data_)
    BY <1>1, <1>2 DEF IInv, QueueFits
<1>6. Head(queue).n \in Nat
    BY <1>2 DEF Event
<1> QED BY <1>2, <1>4, <1>5, <1>6

LEMMA HandleWriteStep == IInv /\ HandleWrite => IInv'
<1> SUFFICES ASSUME IInv, HandleWrite PROVE IInv'
    OBVIOUS
<1>1. replies # << >>
    BY AnsweredBefore DEF HandleWrite, Run
<1>2. queue' \in Seq(Event) /\ QueueFits'
    BY QueueAfterRun DEF HandleWrite, Run
<1>3. TypeOK'
    BY <1>2 DEF HandleWrite, client, IInv, TypeOK, Event
<1>4. NoneOverlooked' /\ BeforeFirstAnswer' /\ SmallRequestsFit'
    BY <1>1 DEF HandleWrite, client, IInv, NoneOverlooked, BeforeFirstAnswer, SmallRequestsFit
<1> QED BY <1>2, <1>3, <1>4 DEF IInv

-------------------------------------------------------------------------------
(* handle_read                                                                 *)

\* What Respond does to the variables it changes.
LEMMA RespondTypes ==
    ASSUME IInv, NEW status \in {200, 400, 403, 404, 413, 500}, Respond(status)
    PROVE  /\ replies' \in Seq({200, 400, 403, 404, 413, 500}) /\ replies' # << >>
           /\ writes' \in Nat
BY AppendProperties DEF Respond, IInv, TypeOK

LEMMA StatusLineType ==
    ASSUME NEW status
    PROVE  StatusLine(status) \in {200, 400, 403, 404, 413, 500} /\ StatusLine(status) # 413
BY DEF StatusLine

\* The first answer is a 413 only if a complete small request cannot be in the stream:
\* all of it would be in the buffer, and nothing complete is.
LEMMA TooLargeIsLarge ==
    ASSUME IInv, RequestTooLarge, replies = << >>
    PROVE  ~(Complete(stream) /\ TotalRequestSize(stream) - 1 + MaxLength <= MaxRequestSize)
<1>1. /\ at = "run" /\ queue # << >> /\ Head(queue).kind = "read" /\ NewSize > MaxRequestSize
    BY DEF RequestTooLarge, Run, Exceeds
<1>2. PICK n \in 1 .. MaxLength : queue = <<[kind |-> "read", n |-> n]>> /\ Buffered(pos - n)
    BY <1>1 DEF IInv, BeforeFirstAnswer, FirstRead
<1>3. requests = << >>
    BY <1>1 DEF IInv, BeforeFirstAnswer
<1>4. Head(queue).n = n
    BY <1>2
<1>5. /\ stream \in Seq(Line) /\ request_buffer_ \in Seq(Line) /\ Len(stream) \in Nat
      /\ pos \in Nat /\ MaxLength \in Nat /\ MaxRequestSize \in Nat
    BY LimitsAssumption DEF IInv, TypeOK
<1>6. /\ Len(request_buffer_) = pos - n /\ pos - n \in Nat /\ pos - n <= Len(stream)
      /\ \A k \in 1 .. Len(request_buffer_) : request_buffer_[k] = stream[k]
    BY <1>2 DEF Buffered
<1>7. pos > MaxRequestSize
    BY <1>1, <1>4, <1>5, <1>6 DEF NewSize
<1>8. ~Complete(request_buffer_)
    <2>1. \A k \in DOMAIN requests : FALSE
        BY <1>3
    <2> QED BY <1>1, <2>1 DEF IInv, NoneOverlooked
<1>9. SUFFICES ASSUME Complete(stream),
                      TotalRequestSize(stream) - 1 + MaxLength <= MaxRequestSize
               PROVE  FALSE
    OBVIOUS
<1>10. TotalRequestSize(stream) \in Nat
    BY <1>5, <1>9, CompleteHasSize
<1>11. TotalRequestSize(stream) <= Len(request_buffer_)
    BY <1>5, <1>6, <1>7, <1>9, <1>10
<1> QED BY <1>5, <1>6, <1>8, <1>9, <1>11, PrefixComplete

LEMMA RequestTooLargeStep == IInv /\ RequestTooLarge => IInv'
<1> SUFFICES ASSUME IInv, RequestTooLarge PROVE IInv'
    OBVIOUS
<1>1. /\ Respond(413) /\ queue # << >> /\ queue' = Tail(queue) /\ at = "run"
      /\ UNCHANGED <<stream, patient, pos, reads, data_, request_buffer_, at, requests>>
    BY DEF RequestTooLarge, Run, client
<1>2. /\ replies' \in Seq({200, 400, 403, 404, 413, 500}) /\ replies' # << >>
      /\ writes' \in Nat
    BY <1>1, RespondTypes
<1>3. queue' \in Seq(Event) /\ QueueFits'
    BY <1>1, QueueAfterRun
<1>4. TypeOK'
    BY <1>1, <1>2, <1>3 DEF IInv, TypeOK, Event
<1>5. NoneOverlooked' /\ BeforeFirstAnswer'
    BY <1>1, <1>2 DEF IInv, NoneOverlooked, BeforeFirstAnswer
<1>6. SmallRequestsFit'
    <2>1. CASE replies = << >>
        <3>1. ~(Complete(stream) /\ TotalRequestSize(stream) - 1 + MaxLength <= MaxRequestSize)
            BY <2>1, TooLargeIsLarge
        <3> QED BY <1>1, <3>1 DEF SmallRequestsFit
    <2>2. CASE replies # << >>
        <3>1. replies \in Seq({200, 400, 403, 404, 413, 500}) /\ 1 \in 1 .. Len(replies)
            BY <2>2 DEF IInv, TypeOK
        <3>2. replies'[1] = replies[1]
            BY <1>1, <3>1, AppendProperties DEF Respond
        <3> QED BY <1>1, <2>2, <3>2 DEF SmallRequestsFit, IInv
    <2> QED BY <2>1, <2>2
<1> QED BY <1>3, <1>4, <1>5, <1>6 DEF IInv

LEMMA AppendDataStep == IInv /\ AppendData => IInv'
<1> SUFFICES ASSUME IInv, AppendData PROVE IInv'
    OBVIOUS
<1> DEFINE n == Head(queue).n
           bytes == SubSeq(data_, 1, n)
<1>1. /\ queue # << >> /\ queue' = Tail(queue) /\ at = "run" /\ at' = "loop"
      /\ request_buffer_' = request_buffer_ \o bytes
      /\ Len(request_buffer_) + n <= MaxRequestSize
      /\ UNCHANGED <<stream, patient, pos, reads, writes, data_, requests, replies>>
    <2>1. ~(NewSize > MaxRequestSize)
        BY DEF AppendData, Exceeds
    <2>2. n \in Nat /\ Len(request_buffer_) \in Nat /\ MaxRequestSize \in Nat
        BY QueueAfterRun, LimitsAssumption DEF AppendData, Run, IInv, TypeOK
    <2>3. Len(request_buffer_) + n <= MaxRequestSize
        BY <2>1, <2>2 DEF NewSize
    <2> QED BY <2>3 DEF AppendData, Run, client
<1>2. queue' \in Seq(Event) /\ QueueFits' /\ n \in Nat /\ n <= Len(data_)
    BY <1>1, QueueAfterRun
<1>3. /\ stream \in Seq(Line) /\ data_ \in Seq(Line) /\ request_buffer_ \in Seq(Line)
      /\ Len(data_) \in Nat /\ Len(request_buffer_) \in Nat /\ pos \in Nat /\ pos <= Len(stream)
      /\ Len(stream) \in Nat
    BY DEF IInv, TypeOK
<1> HIDE DEF n
<1>4. /\ bytes \in Seq(Line) /\ Len(bytes) = n
      /\ \A k \in 1 .. n : bytes[k] = data_[k]
    <2>1. /\ bytes \in Seq(Line) /\ Len(bytes) = IF 1 <= n THEN n - 1 + 1 ELSE 0
          /\ \A k \in 1 .. n - 1 + 1 : bytes[k] = data_[1 + k - 1]
        BY <1>2, <1>3, SubSeqType
    <2>2. \A k \in 1 .. n : k \in 1 .. n - 1 + 1 /\ 1 + k - 1 = k
        BY <1>2
    <2> QED BY <1>2, <2>1, <2>2
<1> HIDE DEF bytes
<1>5. /\ request_buffer_' \in Seq(Line) /\ Len(request_buffer_') = Len(request_buffer_) + n
      /\ \A k \in 1 .. Len(request_buffer_) + n :
            request_buffer_'[k] = IF k <= Len(request_buffer_)
                                  THEN request_buffer_[k] ELSE bytes[k - Len(request_buffer_)]
    BY <1>1, <1>3, <1>4, ConcatProperties
<1>6. TypeOK'
    BY <1>1, <1>2, <1>5 DEF IInv, TypeOK, Event
<1>7. NoneOverlooked' /\ SmallRequestsFit'
    BY <1>1 DEF IInv, NoneOverlooked, SmallRequestsFit
<1>8. BeforeFirstAnswer'
    <2>1. SUFFICES ASSUME replies = << >>
                   PROVE  writes = 0 /\ requests = << >> /\ FirstRead'
        BY <1>1 DEF BeforeFirstAnswer
    <2>2. writes = 0 /\ requests = << >> /\ FirstRead
        BY <1>1, <2>1 DEF IInv, BeforeFirstAnswer
    <2>3. PICK m \in 1 .. MaxLength :
             /\ reads = 0 /\ queue = <<[kind |-> "read", n |-> m]>> /\ Buffered(pos - m)
             /\ \A k \in 1 .. m : data_[k] = stream[pos - m + k]
        BY <1>1, <2>2 DEF FirstRead
    <2>4. n = m /\ queue' = << >>
        BY <1>1, <2>3 DEF n
    <2>5. Len(request_buffer_) = pos - n /\ \A k \in 1 .. pos - n : request_buffer_[k] = stream[k]
        BY <2>3, <2>4 DEF Buffered
    <2>6. Len(request_buffer_') = pos
        BY <1>2, <1>3, <1>5, <2>5
    <2>7. ASSUME NEW k \in 1 .. pos PROVE request_buffer_'[k] = stream[k]
        <3>1. CASE k <= pos - n
            BY <1>2, <1>3, <1>5, <2>5, <2>6, <3>1
        <3>2. CASE k > pos - n
            <4>1. k - (pos - n) \in 1 .. n /\ pos - n + (k - (pos - n)) = k
                BY <1>2, <1>3, <2>7, <3>2
            <4>2. request_buffer_'[k] = bytes[k - (pos - n)]
                BY <1>2, <1>3, <1>5, <2>5, <2>7, <3>2
            <4>3. data_[k - (pos - n)] = stream[k]
                BY <2>3, <2>4, <4>1
            <4> QED BY <1>4, <4>1, <4>2, <4>3
        <3> QED BY <1>2, <1>3, <3>1, <3>2
    <2>8. Buffered(pos)'
        BY <1>1, <1>3, <2>6, <2>7 DEF Buffered
    <2> QED BY <1>1, <2>2, <2>3, <2>4, <2>8 DEF FirstRead
<1> QED BY <1>2, <1>6, <1>7, <1>8 DEF IInv

LEMMA WaitForMoreStep == IInv /\ WaitForMore => IInv'
<1> SUFFICES ASSUME IInv, WaitForMore PROVE IInv'
    OBVIOUS
<1>1. /\ at = "loop" /\ at' = "run" /\ reads' = reads + 1
      /\ UNCHANGED <<stream, patient, pos, writes, queue, data_, request_buffer_, requests, replies>>
    BY DEF WaitForMore, client
<1>2. ~Complete(request_buffer_)
    BY DEF WaitForMore, Complete
<1>3. TypeOK' /\ QueueFits'
    BY <1>1 DEF IInv, TypeOK, QueueFits
<1>4. NoneOverlooked' /\ SmallRequestsFit'
    BY <1>1, <1>2 DEF IInv, NoneOverlooked, SmallRequestsFit
<1>5. BeforeFirstAnswer'
    <2>1. SUFFICES ASSUME replies = << >>
                   PROVE  writes = 0 /\ requests = << >> /\ FirstRead'
        BY <1>1 DEF BeforeFirstAnswer
    <2>2. writes = 0 /\ requests = << >> /\ reads = 0 /\ queue = << >> /\ Buffered(pos)
        BY <1>1, <2>1 DEF IInv, BeforeFirstAnswer, FirstRead
    <2>3. Buffered(pos)'
        BY <1>1, <2>2 DEF Buffered
    <2> QED BY <1>1, <2>2, <2>3 DEF FirstRead
<1> QED BY <1>3, <1>4, <1>5 DEF IInv

LEMMA RefuseContentLengthStep == IInv /\ RefuseContentLength => IInv'
<1> SUFFICES ASSUME IInv, RefuseContentLength PROVE IInv'
    OBVIOUS
<1>1. /\ Refused(request_buffer_) # {}
      /\ UNCHANGED <<stream, patient, pos, reads, queue, data_, request_buffer_, requests>>
    BY DEF RefuseContentLength, client
<1>2. \/ at' = "dead" /\ UNCHANGED <<writes, replies>>
      \/ at' = "run" /\ Respond(StatusLine(413))
    BY DEF RefuseContentLength
<1>3. QueueFits'
    BY <1>1 DEF IInv, QueueFits
<1>4. CASE at' = "dead" /\ UNCHANGED <<writes, replies>>
    <2>1. TypeOK'
        BY <1>1, <1>4 DEF IInv, TypeOK
    <2>2. NoneOverlooked' /\ BeforeFirstAnswer' /\ SmallRequestsFit'
        BY <1>1, <1>4 DEF IInv, NoneOverlooked, BeforeFirstAnswer, SmallRequestsFit
    <2> QED BY <1>3, <2>1, <2>2 DEF IInv
<1>5. CASE at' = "run" /\ Respond(StatusLine(413))
    <2>1. /\ replies' \in Seq({200, 400, 403, 404, 413, 500}) /\ replies' # << >>
          /\ writes' \in Nat
        BY <1>5, RespondTypes, StatusLineType
    <2>2. TypeOK'
        BY <1>1, <1>5, <2>1 DEF IInv, TypeOK
    <2>3. NoneOverlooked' /\ BeforeFirstAnswer'
        BY <1>1, <2>1 DEF NoneOverlooked, BeforeFirstAnswer, Complete
    <2>4. SmallRequestsFit'
        BY <1>1, <1>5, StatusLineType, AnswerKeepsFit DEF Respond
    <2> QED BY <1>3, <2>2, <2>3, <2>4 DEF IInv
<1> QED BY <1>2, <1>4, <1>5

\* TakeRequest takes a sequence of lines from the buffer and leaves the rest.
LEMMA TakenRequest ==
    ASSUME IInv, TakeRequest
    PROVE  /\ request_buffer_' \in Seq(Line) /\ Len(request_buffer_') <= MaxRequestSize
           /\ requests' \in Seq(Seq(Line))
           /\ Len(requests) + 1 \in DOMAIN requests'
           /\ requests'[Len(requests) + 1] = FullRequest
<1> DEFINE total == TotalRequestSize(request_buffer_)
<1>1. /\ request_buffer_ \in Seq(Line) /\ Len(request_buffer_) \in Nat
      /\ Len(request_buffer_) <= MaxRequestSize /\ requests \in Seq(Seq(Line))
      /\ MaxRequestSize \in Nat
    BY LimitsAssumption DEF IInv, TypeOK
<1>2. total \in 2 .. Len(request_buffer_)
    BY <1>1, CompleteHasSize DEF TakeRequest
<1> HIDE DEF total
<1>3. FullRequest \in Seq(Line) /\ Len(FullRequest) = total
    <2>1. /\ total \in Nat /\ total <= Len(request_buffer_) /\ 1 \in Nat \ {0}
          /\ 1 <= total /\ total - 1 + 1 = total
        BY <1>1, <1>2
    <2>2. /\ SubSeq(request_buffer_, 1, total) \in Seq(Line)
          /\ Len(SubSeq(request_buffer_, 1, total)) = IF 1 <= total THEN total - 1 + 1 ELSE 0
        BY <1>1, <2>1, SubSeqType
    <2>3. FullRequest = SubSeq(request_buffer_, 1, total)
        BY DEF FullRequest, total
    <2> QED BY <2>1, <2>2, <2>3
<1>4. request_buffer_' \in Seq(Line) /\ Len(request_buffer_') <= MaxRequestSize
    <2>1. total + 1 \in Nat \ {0}
        BY <1>2
    <2>2. /\ request_buffer_' \in Seq(Line)
          /\ Len(request_buffer_') = IF total + 1 <= Len(request_buffer_)
                                     THEN Len(request_buffer_) - (total + 1) + 1 ELSE 0
        BY <1>1, <1>3, <2>1, SubSeqType DEF TakeRequest
    <2> QED BY <1>1, <1>2, <2>2
<1>5. /\ requests' \in Seq(Seq(Line)) /\ Len(requests') = Len(requests) + 1
      /\ requests'[Len(requests) + 1] = FullRequest
    BY <1>1, <1>3, AppendProperties DEF TakeRequest
<1>6. Len(requests) + 1 \in DOMAIN requests'
    BY <1>1, <1>5
<1> QED BY <1>4, <1>5, <1>6

\* An answered request: what Respond and TakeRequest change keeps the invariant if
\* the loop goes on or the request was the last.
LEMMA AnsweredStep ==
    ASSUME IInv, TakeRequest, NEW status, status \in {200, 400, 403, 404, 413, 500}, status # 413,
           Respond(status), UNCHANGED <<stream, patient, pos, reads, queue, data_>>,
           \/ at' = "loop"
           \/ at' = "run" /\ (Closes(FullRequest) \/ Malformed(FullRequest))
    PROVE  IInv'
<1>1. /\ request_buffer_' \in Seq(Line) /\ Len(request_buffer_') <= MaxRequestSize
      /\ requests' \in Seq(Seq(Line))
      /\ Len(requests) + 1 \in DOMAIN requests'
      /\ requests'[Len(requests) + 1] = FullRequest
    BY TakenRequest
<1>2. /\ replies' \in Seq({200, 400, 403, 404, 413, 500}) /\ replies' # << >>
      /\ writes' \in Nat
    BY RespondTypes
<1>3. TypeOK' /\ QueueFits'
    BY <1>1, <1>2 DEF IInv, TypeOK, QueueFits
<1>4. NoneOverlooked'
    <2>1. CASE at' = "loop"
        BY <2>1 DEF NoneOverlooked
    <2>2. CASE Closes(FullRequest) \/ Malformed(FullRequest)
        <3>1. \E k \in DOMAIN requests' : Closes(requests'[k]) \/ Malformed(requests'[k])
            BY <1>1, <2>2
        <3> QED BY <3>1 DEF NoneOverlooked
    <2> QED BY <2>1, <2>2
<1>5. BeforeFirstAnswer'
    BY <1>2 DEF BeforeFirstAnswer
<1>6. SmallRequestsFit'
    BY AnswerKeepsFit DEF Respond
<1> QED BY <1>3, <1>4, <1>5, <1>6 DEF IInv

LEMMA HandlerThrowsStep == IInv /\ HandlerThrows => IInv'
<1> SUFFICES ASSUME IInv, HandlerThrows PROVE IInv'
    OBVIOUS
<1>1. /\ request_buffer_' \in Seq(Line) /\ Len(request_buffer_') <= MaxRequestSize
      /\ requests' \in Seq(Seq(Line))
    BY TakenRequest DEF HandlerThrows
<1>2. /\ at' = "dead"
      /\ UNCHANGED <<stream, patient, pos, reads, writes, queue, data_, replies>>
    BY DEF HandlerThrows, client
<1>3. TypeOK' /\ QueueFits'
    BY <1>1, <1>2 DEF IInv, TypeOK, QueueFits
<1>4. NoneOverlooked' /\ BeforeFirstAnswer' /\ SmallRequestsFit'
    BY <1>2 DEF IInv, NoneOverlooked, BeforeFirstAnswer, SmallRequestsFit
<1> QED BY <1>3, <1>4 DEF IInv

-------------------------------------------------------------------------------
(* Every step                                                                  *)

LEMMA StepInvariant == IInv /\ [Next]_vars => IInv'
<1> SUFFICES ASSUME IInv, [Next]_vars PROVE IInv'
    OBVIOUS
<1>1. CASE BadRequest
    BY <1>1, AnsweredStep, StatusLineType DEF BadRequest, client
<1>2. CASE RespondAndReturn
    BY <1>2, AnsweredStep, StatusLineType DEF RespondAndReturn, Answer, client
<1>3. CASE RespondAndContinue
    BY <1>3, AnsweredStep, StatusLineType DEF RespondAndContinue, TakeRequest, Answer, client
<1>4. CASE UNCHANGED vars
    <2>1. TypeOK' /\ QueueFits' /\ NoneOverlooked' /\ SmallRequestsFit'
        BY <1>4 DEF vars, client, IInv, TypeOK, QueueFits, NoneOverlooked, SmallRequestsFit
    <2>2. BeforeFirstAnswer'
        BY <1>4 DEF vars, client, IInv, BeforeFirstAnswer, FirstRead, Buffered
    <2> QED BY <2>1, <2>2 DEF IInv
<1> QED BY <1>1, <1>2, <1>3, <1>4, ReceiveStep, SentStep, HandleWriteStep, RequestTooLargeStep,
           AppendDataStep, WaitForMoreStep, RefuseContentLengthStep, HandlerThrowsStep
           DEF Next, HandleRead

\* The invariant holds for all streams, however they are split, and for all limits.
THEOREM InductiveInvariant == Spec => []IInv
BY InitInvariant, StepInvariant, PTL DEF Spec

\* The variables have their types, and request_buffer_ never outgrows max_request_size_.
THEOREM TypeCorrect == Spec => []TypeOK
<1>1. IInv => TypeOK
    BY DEF IInv
<1> QED BY <1>1, InductiveInvariant, PTL

\* handle_read leaves its loop only when no complete request is in request_buffer_.
THEOREM NoneWaits == Spec => []NoneOverlooked
<1>1. IInv => NoneOverlooked
    BY DEF IInv
<1> QED BY <1>1, InductiveInvariant, PTL

\* A first request that ends max_length before max_request_size_ is never refused for
\* its size.
THEOREM SmallOnesFit == Spec => []SmallRequestsFit
<1>1. IInv => SmallRequestsFit
    BY DEF IInv
<1> QED BY <1>1, InductiveInvariant, PTL

-------------------------------------------------------------------------------
(* The requests and the messages                                               *)

\* The stream is what one of the clients sends.
Sends == messages \in Streams /\ stream = FlattenSeq(messages)

\* Where each message begins in the stream.
Begins == CHOOSE off : Layout(Len(messages), messages, stream, off)

\* The premise of RequestsAreMessages.
Sound == /\ OneAtATime
         /\ \A k \in DOMAIN replies : replies[k] # 413
         /\ \A k \in DOMAIN messages : WellFormed(messages[k])

Passed == Len(requests) <= Len(messages) /\ \A k \in 1 .. Len(requests) : requests[k] = messages[k]

\* Without a patient client, a session has one operation, one handler, or nothing more.
OnePending ==
    ~patient => reads + writes + Len(queue) + (IF at = "loop" THEN 1 ELSE 0) <= 1

\* The buffer has the stream up to line q, from the first message that was not passed on.
Holds(q) == LET c == Begins[Len(requests)] IN
            /\ c <= q /\ q <= Len(stream) /\ Len(request_buffer_) = q - c
            /\ \A i \in 1 .. q - c : request_buffer_[i] = stream[c + i]

\* The lines that came after line q are in data_, for one handler that has not run.
Waiting == {k \in 1 .. Len(queue) : queue[k].kind = "read"}
Pending(q) == \/ Waiting = {} /\ q = pos
              \/ \E k \in Waiting : /\ Waiting = {k} /\ q = pos - queue[k].n
                                    /\ \A i \in 1 .. queue[k].n : data_[i] = stream[q + i]
Arrived == at # "dead" => \E q \in Nat : Holds(q) /\ Pending(q)

MInv == Sends /\ (Sound => Passed /\ OnePending /\ Arrived)

LEMMA BeginsIs ==
    ASSUME Sends
    PROVE  /\ messages \in Seq(Seq(Line)) /\ Len(messages) \in Nat
           /\ Layout(Len(messages), messages, stream, Begins)
<1>1. messages \in Seq(Seq(Line))
    BY StreamsAreLines DEF Sends
<1>2. \E off : Layout(Len(messages), messages, stream, off)
    BY <1>1, LayoutExists DEF Sends
<1>3. Layout(Len(messages), messages, stream, Begins)
    BY <1>2, Zenon DEF Begins
<1> QED BY <1>1, <1>3

LEMMA BeginsStays == UNCHANGED <<messages, stream>> => Begins' = Begins
BY DEF Begins

LEMMA HoldsStays ==
    ASSUME NEW q, Holds(q), UNCHANGED <<messages, stream, requests, request_buffer_>>
    PROVE  Holds(q)'
BY BeginsStays DEF Holds

LEMMA PendingStays ==
    ASSUME NEW q, Pending(q), UNCHANGED <<stream, pos, queue, data_>>
    PROVE  Pending(q)'
BY DEF Pending, Waiting

LEMMA InitMessages == Init => MInv
<1> SUFFICES ASSUME Init PROVE MInv
    OBVIOUS
<1>1. Sends
    BY DEF Init, Sends
<1>2. Layout(Len(messages), messages, stream, Begins) /\ Len(messages) \in Nat
    BY <1>1, BeginsIs
<1>3. /\ Begins[0] = 0 /\ stream \in Seq(Line) /\ Len(stream) \in Nat
    BY <1>2 DEF Layout
<1>4. /\ pos = 0 /\ request_buffer_ = << >> /\ queue = << >> /\ requests = << >> /\ at = "run"
      /\ reads = 1 /\ writes = 0 /\ Len(<< >>) = 0 /\ 1 .. 0 = {}
    BY DEF Init
<1>5. Passed
    BY <1>2, <1>4 DEF Passed
<1>6. OnePending
    BY <1>4 DEF OnePending
<1>7. Holds(0)
    BY <1>3, <1>4 DEF Holds
<1>8. Pending(0)
    BY <1>4 DEF Pending, Waiting
<1> QED BY <1>1, <1>5, <1>6, <1>7, <1>8 DEF MInv, Arrived

\* Requests and replies are only added.
LEMMA OnlyAdded ==
    ASSUME IInv, Next
    PROVE  /\ UNCHANGED client
           /\ \/ requests' = requests
              \/ TakeRequest
           /\ \/ replies' = replies
              \/ \E status : replies' = Append(replies, status)
<1>1. UNCHANGED client
    BY DEF Next, Receive, Sent, HandleWrite, HandleRead, RequestTooLarge, AppendData, WaitForMore,
           RefuseContentLength, BadRequest, HandlerThrows, RespondAndReturn, RespondAndContinue
<1>2. requests' = requests \/ TakeRequest
    BY DEF Next, Receive, Sent, HandleWrite, HandleRead, RequestTooLarge, AppendData, WaitForMore,
           RefuseContentLength, BadRequest, HandlerThrows, RespondAndReturn, RespondAndContinue
<1>3. replies' = replies \/ \E status : replies' = Append(replies, status)
    BY DEF Next, Receive, Sent, HandleWrite, HandleRead, RequestTooLarge, AppendData, WaitForMore,
           RefuseContentLength, BadRequest, HandlerThrows, RespondAndReturn, RespondAndContinue,
           Respond
<1> QED BY <1>1, <1>2, <1>3

LEMMA AddedLast ==
    ASSUME NEW S, NEW s \in Seq(S), NEW e
    PROVE  \A k \in DOMAIN s : k \in DOMAIN Append(s, e) /\ Append(s, e)[k] = s[k]
OBVIOUS

\* What a client and a session have done wrong stays done.
LEMMA SoundBefore == IInv /\ [Next]_vars /\ Sound' => Sound
<1> SUFFICES ASSUME IInv, [Next]_vars, Sound' PROVE Sound
    OBVIOUS
<1>1. CASE UNCHANGED vars
    BY <1>1 DEF vars, client, Sound, OneAtATime
<1>2. CASE Next
    <2>1. messages' = messages /\ patient' = patient
        BY <1>2, OnlyAdded DEF client
    <2>2. /\ requests \in Seq(Seq(Line)) /\ replies \in Seq({200, 400, 403, 404, 413, 500})
        BY DEF IInv, TypeOK
    <2>3. \A k \in DOMAIN requests : k \in DOMAIN requests' /\ requests'[k] = requests[k]
        <3>1. CASE requests' = requests
            BY <3>1
        <3>2. CASE TakeRequest
            BY <2>2, <3>2, AddedLast DEF TakeRequest
        <3> QED BY <1>2, <3>1, <3>2, OnlyAdded
    <2>4. \A k \in DOMAIN replies : k \in DOMAIN replies' /\ replies'[k] = replies[k]
        BY <1>2, <2>2, OnlyAdded, AddedLast
    <2>5. OneAtATime
        <3>1. CASE patient
            BY <3>1 DEF OneAtATime
        <3>2. CASE ~patient
            <4>1. \A k \in DOMAIN requests' : Closes(requests'[k]) \/ Malformed(requests'[k])
                BY <2>1, <3>2 DEF Sound, OneAtATime
            <4>2. \A k \in DOMAIN requests : Closes(requests[k]) \/ Malformed(requests[k])
                BY <2>3, <4>1
            <4> QED BY <4>2 DEF OneAtATime
        <3> QED BY <3>1, <3>2
    <2>6. \A k \in DOMAIN replies : replies[k] # 413
        BY <2>4 DEF Sound
    <2>7. \A k \in DOMAIN messages : WellFormed(messages[k])
        BY <2>1 DEF Sound
    <2> QED BY <2>5, <2>6, <2>7 DEF Sound
<1> QED BY <1>1, <1>2

\* A step that leaves the client's messages alone, and shows the rest if the premise
\* held before.
LEMMA StepMessages ==
    ASSUME IInv, MInv, Next,
           Sound /\ Sound' /\ Passed /\ OnePending /\ Arrived => Passed' /\ OnePending' /\ Arrived'
    PROVE  MInv'
<1>1. Sends'
    BY OnlyAdded DEF MInv, Sends, client
<1>2. Sound' => Sound
    BY SoundBefore
<1> QED BY <1>1, <1>2 DEF MInv

LEMMA QueueTypes ==
    ASSUME IInv
    PROVE  /\ queue \in Seq(Event) /\ Len(queue) \in Nat
           /\ \A k \in 1 .. Len(queue) : queue[k] \in Event /\ queue[k].n \in Nat
           /\ reads \in Nat /\ writes \in Nat /\ pos \in Nat /\ pos <= Len(stream)
           /\ Len(stream) \in Nat
<1>1. queue \in Seq(Event) /\ stream \in Seq(Line) /\ pos \in 0 .. Len(stream)
    BY DEF IInv, TypeOK, Event
<1>2. \A k \in 1 .. Len(queue) : queue[k] \in Event
    BY <1>1
<1>3. \A x \in Event : x.n \in Nat
    BY LimitsAssumption DEF Event
<1> QED BY <1>1, <1>2, <1>3 DEF IInv, TypeOK

LEMMA ReceiveMessages == IInv /\ MInv /\ Receive => MInv'
<1> SUFFICES ASSUME IInv, MInv, Receive, Sound, Passed, OnePending, Arrived
             PROVE  Passed' /\ OnePending' /\ Arrived'
    BY StepMessages DEF Next
<1>1. PICK n \in 1 .. MaxLength :
         /\ pos + n <= Len(stream)
         /\ data_' = SubSeq(stream, pos + 1, pos + n) \o SubSeq(data_, n + 1, Len(data_))
         /\ queue' = Append(queue, [kind |-> "read", n |-> n])
         /\ pos' = pos + n
    BY DEF Receive
<1>2. \A k \in 1 .. n : data_'[k] = stream[pos + k]
    BY <1>1, OverwriteData
<1>3. /\ at # "dead" /\ reads > 0 /\ reads' = reads - 1
      /\ patient => Waiting = {}
      /\ UNCHANGED <<messages, stream, patient, writes, request_buffer_, at, requests>>
    BY DEF Receive, client, ReadQueued, Waiting
<1>4. /\ queue \in Seq(Event) /\ Len(queue) \in Nat /\ reads \in Nat /\ writes \in Nat
      /\ pos \in Nat /\ n \in Nat
    BY LimitsAssumption, QueueTypes
<1>5. Waiting = {}
    <2>1. CASE patient
        BY <1>3, <2>1
    <2>2. CASE ~patient
        <3>1. reads + writes + Len(queue) <= 1
            BY <1>4, <2>2 DEF OnePending
        <3>2. Len(queue) = 0
            BY <1>3, <1>4, <3>1
        <3> QED BY <3>2 DEF Waiting
    <2> QED BY <2>1, <2>2
<1>6. PICK q \in Nat : Holds(q) /\ q = pos
    BY <1>3, <1>5 DEF Arrived, Pending
<1>7. /\ Len(queue') = Len(queue) + 1
      /\ queue'[Len(queue) + 1] = [kind |-> "read", n |-> n]
      /\ \A k \in 1 .. Len(queue) : queue'[k] = queue[k]
    BY <1>1, <1>4
<1>8. Passed'
    BY <1>3 DEF Passed
<1>9. OnePending'
    BY <1>3, <1>4, <1>7 DEF OnePending
<1>10. Waiting' = {Len(queue) + 1}
    <2>1. ASSUME NEW k \in 1 .. Len(queue) + 1
          PROVE  queue'[k].kind = "read" <=> k = Len(queue) + 1
        <3>1. CASE k = Len(queue) + 1
            BY <1>7, <3>1
        <3>2. CASE k # Len(queue) + 1
            <4>1. k \in 1 .. Len(queue)
                BY <1>4, <3>2
            <4>2. queue[k].kind # "read"
                BY <1>5, <4>1 DEF Waiting
            <4> QED BY <1>7, <3>2, <4>1, <4>2
        <3> QED BY <3>1, <3>2
    <2>2. Waiting' = {k \in 1 .. Len(queue) + 1 : queue'[k].kind = "read"}
        BY <1>7 DEF Waiting
    <2>3. Len(queue) + 1 \in 1 .. Len(queue) + 1
        BY <1>4
    <2> QED BY <2>1, <2>2, <2>3
<1>11. Pending(q)'
    <2> DEFINE k == Len(queue) + 1
    <2>1. queue'[k].n = n /\ k \in Waiting' /\ Waiting' = {k}
        BY <1>7, <1>10
    <2>2. q = pos' - queue'[k].n
        BY <1>1, <1>4, <1>6, <2>1
    <2>3. \A i \in 1 .. queue'[k].n : data_'[i] = stream'[q + i]
        BY <1>2, <1>3, <1>6, <2>1
    <2> HIDE DEF k
    <2> QED BY <2>1, <2>2, <2>3 DEF Pending
<1>12. Holds(q)'
    BY <1>3, <1>6, HoldsStays
<1> QED BY <1>8, <1>9, <1>11, <1>12 DEF Arrived

LEMMA SentMessages == IInv /\ MInv /\ Sent => MInv'
<1> SUFFICES ASSUME IInv, MInv, Sent, Sound, Passed, OnePending, Arrived
             PROVE  Passed' /\ OnePending' /\ Arrived'
    BY StepMessages DEF Next
<1>1. /\ at # "dead" /\ writes > 0 /\ writes' = writes - 1
      /\ queue' = Append(queue, [kind |-> "write", n |-> 0])
      /\ UNCHANGED <<messages, stream, patient, pos, reads, data_, request_buffer_, at, requests>>
    BY DEF Sent, client
<1>2. /\ queue \in Seq(Event) /\ Len(queue) \in Nat /\ reads \in Nat /\ writes \in Nat
    BY QueueTypes
<1>3. /\ Len(queue') = Len(queue) + 1
      /\ queue'[Len(queue) + 1] = [kind |-> "write", n |-> 0]
      /\ \A k \in 1 .. Len(queue) : queue'[k] = queue[k]
    BY <1>1, <1>2
<1>4. Passed'
    BY <1>1 DEF Passed
<1>5. OnePending'
    BY <1>1, <1>2, <1>3 DEF OnePending
<1>6. PICK q \in Nat : Holds(q) /\ Pending(q)
    BY <1>1 DEF Arrived
<1>7. Holds(q)'
    BY <1>1, <1>6, HoldsStays
<1>8. Waiting' = Waiting
    <2>1. ~(queue'[Len(queue) + 1].kind = "read")
        BY <1>3
    <2>2. Waiting' = {k \in 1 .. Len(queue) + 1 : queue'[k].kind = "read"}
        BY <1>3 DEF Waiting
    <2>3. \A k \in 1 .. Len(queue) + 1 : k = Len(queue) + 1 \/ k \in 1 .. Len(queue)
        BY <1>2
    <2>4. \A k \in 1 .. Len(queue) : k \in 1 .. Len(queue) + 1
        BY <1>2
    <2> QED BY <1>3, <2>1, <2>2, <2>3, <2>4 DEF Waiting
<1>9. \A k \in Waiting : queue'[k] = queue[k]
    BY <1>3 DEF Waiting
<1>10. Pending(q)'
    BY <1>1, <1>6, <1>8, <1>9 DEF Pending
<1> QED BY <1>4, <1>5, <1>7, <1>10 DEF Arrived

\* The operation at the head of the queue leaves it.
LEMMA TailQueue ==
    ASSUME IInv, queue # << >>, queue' = Tail(queue)
    PROVE  /\ Len(queue) \in Nat /\ Len(queue') = Len(queue) - 1 /\ Len(queue') \in Nat
           /\ 1 \in 1 .. Len(queue) /\ Head(queue) = queue[1]
           /\ \A k \in 1 .. Len(queue') : k + 1 \in 1 .. Len(queue) /\ queue'[k] = queue[k + 1]
<1>1. queue \in Seq(Event) /\ Len(queue) \in Nat
    BY QueueTypes
<1> QED BY <1>1

LEMMA HandleWriteMessages == IInv /\ MInv /\ HandleWrite => MInv'
<1> SUFFICES ASSUME IInv, MInv, HandleWrite, Sound, Passed, OnePending, Arrived
             PROVE  Passed' /\ OnePending' /\ Arrived'
    BY StepMessages DEF Next
<1>1. /\ at = "run" /\ queue # << >> /\ Head(queue).kind = "write" /\ queue' = Tail(queue)
      /\ reads' = reads + 1
      /\ UNCHANGED <<messages, stream, patient, pos, writes, data_, request_buffer_, at, requests>>
    BY DEF HandleWrite, Run, client
<1>2. /\ Len(queue) \in Nat /\ Len(queue') = Len(queue) - 1 /\ Len(queue') \in Nat
      /\ 1 \in 1 .. Len(queue) /\ Head(queue) = queue[1]
      /\ \A k \in 1 .. Len(queue') : k + 1 \in 1 .. Len(queue) /\ queue'[k] = queue[k + 1]
    BY <1>1, TailQueue
<1>3. reads \in Nat /\ writes \in Nat
    BY QueueTypes
<1>4. Passed'
    BY <1>1 DEF Passed
<1>5. OnePending'
    BY <1>1, <1>2, <1>3 DEF OnePending
<1>6. PICK q \in Nat : Holds(q) /\ Pending(q)
    BY <1>1 DEF Arrived
<1>7. Holds(q)'
    BY <1>1, <1>6, HoldsStays
<1>8. \A k \in Waiting : k # 1 /\ k \in 1 .. Len(queue)
    BY <1>1, <1>2 DEF Waiting
<1>9. \A k \in 1 .. Len(queue') : k \in Waiting' <=> k + 1 \in Waiting
    BY <1>2 DEF Waiting
<1>10. CASE Waiting = {} /\ q = pos
    <2>1. Waiting' = {}
        BY <1>9, <1>10 DEF Waiting
    <2> QED BY <1>1, <1>4, <1>5, <1>7, <1>10, <2>1 DEF Arrived, Pending
<1>11. CASE \E k \in Waiting : /\ Waiting = {k} /\ q = pos - queue[k].n
                               /\ \A i \in 1 .. queue[k].n : data_[i] = stream[q + i]
    <2>1. PICK k \in Waiting : /\ Waiting = {k} /\ q = pos - queue[k].n
                               /\ \A i \in 1 .. queue[k].n : data_[i] = stream[q + i]
        BY <1>11
    <2>2. k \in 1 .. Len(queue) /\ k # 1
        BY <1>8
    <2>3. k - 1 \in 1 .. Len(queue') /\ (k - 1) + 1 = k
        BY <1>2, <2>2
    <2>4. k - 1 \in Waiting' /\ queue'[k - 1] = queue[k]
        BY <1>2, <1>9, <2>3
    <2>5. ASSUME NEW j \in Waiting' PROVE j = k - 1
        <3>1. j \in 1 .. Len(queue')
            BY DEF Waiting
        <3>2. j + 1 = k
            BY <1>9, <2>1, <3>1
        <3> QED BY <2>2, <3>1, <3>2
    <2>6. Waiting' = {k - 1}
        BY <2>4, <2>5
    <2>7. /\ q = pos' - queue'[k - 1].n
          /\ \A i \in 1 .. queue'[k - 1].n : data_'[i] = stream'[q + i]
        BY <1>1, <2>1, <2>4
    <2>8. Pending(q)'
        BY <2>4, <2>6, <2>7 DEF Pending
    <2> QED BY <1>4, <1>5, <1>7, <2>8 DEF Arrived
<1> QED BY <1>6, <1>10, <1>11 DEF Pending

LEMMA RequestTooLargeMessages == IInv /\ MInv /\ RequestTooLarge => MInv'
<1> SUFFICES ASSUME IInv, MInv, RequestTooLarge, Sound' PROVE FALSE
    BY StepMessages DEF Next, HandleRead
<1>1. replies' = Append(replies, 413) /\ replies \in Seq({200, 400, 403, 404, 413, 500})
    BY DEF RequestTooLarge, Respond, IInv, TypeOK
<1>2. Len(replies) + 1 \in DOMAIN replies' /\ replies'[Len(replies) + 1] = 413
    BY <1>1
<1> QED BY <1>2 DEF Sound

LEMMA AppendDataMessages == IInv /\ MInv /\ AppendData => MInv'
<1> SUFFICES ASSUME IInv, MInv, AppendData, Sound, Passed, OnePending, Arrived
             PROVE  Passed' /\ OnePending' /\ Arrived'
    BY StepMessages DEF Next, HandleRead
<1>1. /\ at = "run" /\ at' = "loop"
      /\ queue # << >> /\ Head(queue).kind = "read" /\ queue' = Tail(queue)
      /\ request_buffer_' = request_buffer_ \o SubSeq(data_, 1, Head(queue).n)
      /\ UNCHANGED <<messages, stream, patient, pos, reads, writes, data_, requests>>
    BY DEF AppendData, Run, client
<1>2. /\ Len(queue) \in Nat /\ Len(queue') = Len(queue) - 1 /\ Len(queue') \in Nat
      /\ 1 \in 1 .. Len(queue) /\ Head(queue) = queue[1]
      /\ \A k \in 1 .. Len(queue') : k + 1 \in 1 .. Len(queue) /\ queue'[k] = queue[k + 1]
    BY <1>1, TailQueue
<1>3. reads \in Nat /\ writes \in Nat /\ pos \in Nat /\ pos <= Len(stream)
      /\ queue[1].n \in Nat /\ Len(stream) \in Nat
    BY <1>2, QueueTypes
<1>4. Passed'
    BY <1>1 DEF Passed
<1>5. OnePending'
    BY <1>1, <1>2, <1>3 DEF OnePending
<1>6. PICK q \in Nat : Holds(q) /\ Pending(q)
    BY <1>1 DEF Arrived
<1>7. 1 \in Waiting
    BY <1>1, <1>2 DEF Waiting
<1>8. /\ Waiting = {1} /\ q = pos - queue[1].n
      /\ \A i \in 1 .. queue[1].n : data_[i] = stream[q + i]
    BY <1>6, <1>7 DEF Pending
<1>9. Waiting' = {}
    <2>1. ASSUME NEW k \in 1 .. Len(queue') PROVE queue'[k].kind # "read"
        <3>1. k + 1 \in 1 .. Len(queue) /\ k + 1 # 1 /\ queue'[k] = queue[k + 1]
            BY <1>2
        <3>2. k + 1 \notin Waiting
            BY <1>8, <3>1
        <3> QED BY <3>1, <3>2 DEF Waiting
    <2> QED BY <2>1 DEF Waiting
<1> DEFINE n == queue[1].n
           bytes == SubSeq(data_, 1, n)
           c == Begins[Len(requests)]
<1>10. /\ request_buffer_ \in Seq(Line) /\ data_ \in Seq(Line) /\ n <= Len(data_)
       /\ Len(request_buffer_) \in Nat
    BY <1>2 DEF IInv, TypeOK, QueueFits
<1>11. /\ bytes \in Seq(Line) /\ Len(bytes) = n
       /\ \A k \in 1 .. n : bytes[k] = data_[k]
    <2>1. n \in Nat
        BY <1>3
    <2> HIDE DEF n
    <2>2. /\ 1 \in Nat \ {0} /\ n - 1 + 1 = n
          /\ \A k \in 1 .. n : 1 + k - 1 = k
        BY <2>1
    <2>3. /\ SubSeq(data_, 1, n) \in Seq(Line)
          /\ Len(SubSeq(data_, 1, n)) = (IF 1 <= n THEN n - 1 + 1 ELSE 0)
          /\ \A k \in 1 .. n - 1 + 1 : SubSeq(data_, 1, n)[k] = data_[1 + k - 1]
        BY <1>10, <2>1, <2>2, SubSeqType
    <2> QED BY <2>1, <2>2, <2>3
<1>12. request_buffer_' = request_buffer_ \o bytes
    BY <1>1, <1>2
<1>22. n \in Nat /\ pos - n = q /\ \A i \in 1 .. n : data_[i] = stream[q + i]
    BY <1>3, <1>8
<1> HIDE DEF bytes, n
<1>13. /\ Len(request_buffer_') = Len(request_buffer_) + n
       /\ \A k \in 1 .. Len(request_buffer_) + n :
             request_buffer_'[k] = IF k <= Len(request_buffer_) THEN request_buffer_[k]
                                   ELSE bytes[k - Len(request_buffer_)]
    <2> DEFINE b == request_buffer_
    <2>1. b \in Seq(Line) /\ bytes \in Seq(Line)
        BY <1>10, <1>11
    <2>2. /\ Len(b \o bytes) = Len(b) + Len(bytes)
          /\ \A k \in 1 .. Len(b) + Len(bytes) :
                (b \o bytes)[k] = IF k <= Len(b) THEN b[k] ELSE bytes[k - Len(b)]
        BY <2>1, ConcatProperties
    <2> QED BY <1>11, <1>12, <2>2
<1>14. /\ c <= q /\ Len(request_buffer_) = q - c
       /\ \A i \in 1 .. q - c : request_buffer_[i] = stream[c + i]
    BY <1>6 DEF Holds
<1>15. c \in Int
    <2>1. Len(requests) \in 0 .. Len(messages)
        <3>1. Len(requests) \in Nat
            BY DEF IInv, TypeOK
        <3>2. Len(messages) \in Nat
            BY BeginsIs DEF MInv
        <3> QED BY <3>1, <3>2 DEF Passed
    <2>2. Begins \in [0 .. Len(messages) -> Nat]
        BY BeginsIs DEF MInv, Layout
    <2> QED BY <2>1, <2>2
<1>16. Begins' = Begins /\ c = Begins'[Len(requests')]
    BY <1>1, BeginsStays
<1> HIDE DEF c
<1>17. pos = q + n /\ n \in Nat /\ c <= pos /\ Len(request_buffer_') = pos - c
    <2>1. pos = q + n /\ c <= pos
        BY <1>3, <1>6, <1>14, <1>15, <1>22
    <2>2. Len(request_buffer_') = (q - c) + n
        BY <1>13, <1>14
    <2> QED BY <1>6, <1>15, <1>22, <2>1, <2>2
<1>18. ASSUME NEW i \in 1 .. pos - c PROVE request_buffer_'[i] = stream[c + i]
    <2>1. i \in 1 .. (q - c) + n
        BY <1>6, <1>15, <1>17
    <2>2. CASE i <= q - c
        BY <1>13, <1>14, <2>1, <2>2
    <2>3. CASE i > q - c
        <3>1. i - (q - c) \in 1 .. n /\ q + (i - (q - c)) = c + i /\ ~(i <= q - c)
            BY <1>6, <1>15, <1>17, <2>1, <2>3
        <3>2. request_buffer_'[i] = bytes[i - (q - c)]
            BY <1>13, <1>14, <2>1, <3>1
        <3>3. data_[i - (q - c)] = stream[c + i]
            BY <1>22, <3>1
        <3> QED BY <1>11, <3>1, <3>2, <3>3
    <2> QED BY <1>6, <1>15, <1>17, <2>2, <2>3
<1>19. PICK p \in Nat : p = pos
    BY <1>3
<1>20. Holds(p)'
    BY <1>1, <1>3, <1>16, <1>17, <1>18, <1>19 DEF Holds
<1>21. Pending(p)'
    BY <1>1, <1>9, <1>19 DEF Pending
<1> QED BY <1>4, <1>5, <1>20, <1>21 DEF Arrived

LEMMA WaitForMoreMessages == IInv /\ MInv /\ WaitForMore => MInv'
<1> SUFFICES ASSUME IInv, MInv, WaitForMore, Sound, Passed, OnePending, Arrived
             PROVE  Passed' /\ OnePending' /\ Arrived'
    BY StepMessages DEF Next, HandleRead
<1>1. /\ at = "loop" /\ at' = "run" /\ reads' = reads + 1
      /\ UNCHANGED <<messages, stream, patient, pos, writes, queue, data_, request_buffer_, requests>>
    BY DEF WaitForMore, client
<1>2. Passed'
    BY <1>1 DEF Passed
<1>3. OnePending'
    BY <1>1, QueueTypes DEF OnePending
<1>4. PICK q \in Nat : Holds(q) /\ Pending(q)
    BY <1>1 DEF Arrived
<1>5. Holds(q)' /\ Pending(q)'
    BY <1>1, <1>4, HoldsStays, PendingStays
<1> QED BY <1>2, <1>3, <1>5 DEF Arrived

LEMMA RefuseContentLengthMessages == IInv /\ MInv /\ RefuseContentLength => MInv'
<1> SUFFICES ASSUME IInv, MInv, RefuseContentLength, Sound, Passed, OnePending, Arrived
             PROVE  Passed' /\ OnePending' /\ Arrived'
    BY StepMessages DEF Next, HandleRead
<1>1. /\ at = "loop"
      /\ UNCHANGED <<messages, stream, patient, pos, reads, queue, data_, request_buffer_, requests>>
    BY DEF RefuseContentLength, client
<1>2. \/ at' = "dead" /\ writes' = writes
      \/ at' = "run" /\ writes' = writes + 1
    BY DEF RefuseContentLength, Respond
<1>3. Passed'
    BY <1>1 DEF Passed
<1>4. OnePending'
    BY <1>1, <1>2, QueueTypes DEF OnePending
<1>5. PICK q \in Nat : Holds(q) /\ Pending(q)
    BY <1>1 DEF Arrived
<1>6. Holds(q)' /\ Pending(q)'
    BY <1>1, <1>5, HoldsStays, PendingStays
<1> QED BY <1>3, <1>4, <1>6 DEF Arrived

\* handle_read takes exactly the next message out of the buffer.
LEMMA TakesMessage ==
    ASSUME IInv, Sends, \A k \in DOMAIN messages : WellFormed(messages[k]),
           Passed, NEW q \in Nat, Holds(q), TakeRequest, UNCHANGED <<messages, stream>>
    PROVE  /\ Passed' /\ Holds(q)'
           /\ ~Malformed(FullRequest)
           /\ Len(requests) + 1 \in DOMAIN requests'
           /\ requests'[Len(requests) + 1] = FullRequest
<1> DEFINE r == Len(requests)
           c == Begins[r]
           buf == request_buffer_
           m == messages[r + 1]
           total == TotalRequestSize(buf)
<1>1. /\ messages \in Seq(Seq(Line)) /\ Len(messages) \in Nat
      /\ Layout(Len(messages), messages, stream, Begins)
    BY BeginsIs
<1>2. /\ requests \in Seq(Seq(Line)) /\ r \in Nat /\ r <= Len(messages)
      /\ buf \in Seq(Line) /\ Len(buf) \in Nat
    BY DEF IInv, TypeOK, Passed
<1>3. /\ Complete(buf) /\ total \in 2 .. Len(buf)
      /\ FullRequest = SubSeq(buf, 1, total)
      /\ requests' = Append(requests, FullRequest)
      /\ buf' = SubSeq(buf, Len(FullRequest) + 1, Len(buf))
    BY <1>2, CompleteHasSize DEF TakeRequest, FullRequest
<1>4. /\ c \in Nat /\ c <= q /\ q <= Len(stream) /\ Len(buf) = q - c
      /\ \A i \in 1 .. q - c : buf[i] = stream[c + i]
      /\ Len(stream) \in Nat
    BY <1>1, <1>2 DEF Holds, Layout
<1> HIDE DEF total
<1>5. r < Len(messages)
    <2>1. SUFFICES ASSUME r = Len(messages) PROVE FALSE
        BY <1>1, <1>2
    <2>2. c = Len(stream)
        BY <1>1, <2>1 DEF Layout
    <2> QED BY <1>3, <1>4, <2>2
<1>6. /\ r + 1 \in 1 .. Len(messages) /\ (r + 1) - 1 = r
      /\ m \in Seq(Line) /\ Len(m) \in Nat /\ WellFormed(m)
    <2>1. r + 1 \in 1 .. Len(messages) /\ (r + 1) - 1 = r
        BY <1>1, <1>2, <1>5
    <2>2. messages[r + 1] \in Seq(Line)
        BY <1>1, <2>1, ElementOfSeq
    <2>3. r + 1 \in DOMAIN messages
        BY <1>1, <2>1
    <2> QED BY <2>1, <2>2, <2>3
<1>7. /\ Begins[r + 1] = c + Len(m) /\ Begins[r + 1] <= Len(stream)
      /\ \A j \in 1 .. Len(m) : stream[c + j] = m[j]
    BY <1>1, <1>6 DEF Layout
<1> HIDE DEF c, m, r
<1>8. \A i \in 1 .. Len(buf) : i <= Len(m) => buf[i] = m[i]
    BY <1>4, <1>6, <1>7
<1>9. total = Len(m)
    BY <1>2, <1>3, <1>6, <1>8, MessageAtFront DEF total
<1>10. /\ FullRequest \in Seq(Line) /\ Len(FullRequest) = Len(m)
       /\ \A k \in 1 .. Len(m) : FullRequest[k] = buf[k]
    <2>1. total \in Nat /\ 1 <= total /\ total <= Len(buf) /\ total - 1 + 1 = total
          /\ \A k \in 1 .. total : 1 + k - 1 = k
        BY <1>2, <1>3
    <2>2. /\ SubSeq(buf, 1, total) \in Seq(Line)
          /\ Len(SubSeq(buf, 1, total)) = (IF 1 <= total THEN total - 1 + 1 ELSE 0)
          /\ \A k \in 1 .. total - 1 + 1 : SubSeq(buf, 1, total)[k] = buf[1 + k - 1]
        BY <1>2, <2>1, SubSeqType
    <2> QED BY <1>3, <1>9, <2>1, <2>2
<1>11. FullRequest = m
    <2>1. \A k \in 1 .. Len(m) : FullRequest[k] = m[k]
        BY <1>2, <1>3, <1>8, <1>9, <1>10
    <2> QED BY <1>6, <1>10, <2>1, SeqEqual
<1>12. /\ Len(requests') = r + 1 /\ requests'[r + 1] = m /\ r + 1 \in DOMAIN requests'
       /\ \A k \in 1 .. r : requests'[k] = requests[k]
    <2>1. m \in Seq(Line)
        BY <1>6
    <2>2. requests' = Append(requests, m)
        BY <1>3, <1>11
    <2> QED BY <1>2, <2>1, <2>2, AppendProperties DEF r
<1>13. Passed'
    <2>1. messages' = messages
        OBVIOUS
    <2>2. ASSUME NEW k \in 1 .. r + 1 PROVE requests'[k] = messages[k]
        <3>1. CASE k = r + 1
            BY <1>12, <3>1 DEF m
        <3>2. CASE k \in 1 .. r
            BY <1>12, <3>2 DEF Passed, r
        <3> QED BY <1>2, <3>1, <3>2
    <2> QED BY <1>6, <1>12, <2>1, <2>2 DEF Passed
<1>14. Holds(q)'
    <2> DEFINE d == Begins[r + 1]
               l == Len(m)
    <2>1. /\ d = c + l /\ l \in Nat /\ l >= 2 /\ l <= Len(buf) /\ d <= q
        BY <1>2, <1>3, <1>4, <1>6, <1>7, <1>9
    <2>2. d = Begins'[Len(requests')] /\ stream' = stream
        BY <1>12, BeginsStays
    <2>3. buf' = SubSeq(buf, l + 1, Len(buf))
        BY <1>3, <1>10
    <2> HIDE DEF d, l
    <2>4. /\ Len(buf') = (IF l + 1 <= Len(buf) THEN Len(buf) - (l + 1) + 1 ELSE 0)
          /\ \A k \in 1 .. Len(buf) - (l + 1) + 1 : buf'[k] = buf[(l + 1) + k - 1]
        <3>1. l + 1 \in Nat \ {0}
            BY <2>1
        <3> QED BY <1>2, <2>3, <3>1, SubSeqType
    <2>5. /\ Len(buf) - (l + 1) + 1 = q - d /\ q - d \in Nat
          /\ l + 1 <= Len(buf) \/ q - d = 0
        BY <1>4, <2>1
    <2>6. Len(buf') = q - d
        BY <1>2, <2>1, <2>4, <2>5
    <2>7. ASSUME NEW i \in 1 .. q - d PROVE buf'[i] = stream[d + i]
        <3>1. /\ (l + 1) + i - 1 = l + i /\ l + i \in 1 .. q - c /\ c + (l + i) = d + i
            BY <1>4, <2>1, <2>7
        <3> QED BY <1>4, <2>4, <2>5, <3>1
    <2> QED BY <1>4, <2>1, <2>2, <2>6, <2>7 DEF Holds
<1>15. ~Malformed(FullRequest)
    BY <1>6, <1>11, WellFormedNotMalformed
<1> QED BY <1>11, <1>12, <1>13, <1>14, <1>15 DEF r

\* A step that takes a request, and leaves data_ and the queue alone.
LEMMA TakeMessages ==
    ASSUME IInv, MInv, Next, TakeRequest, at = "loop", UNCHANGED <<pos, queue, data_>>,
           OnePending /\ (~patient => Closes(FullRequest)) => OnePending'
    PROVE  MInv'
<1> SUFFICES ASSUME Sound, Sound', Passed, OnePending, Arrived
             PROVE  Passed' /\ OnePending' /\ Arrived'
    BY StepMessages
<1>1. Sends /\ \A k \in DOMAIN messages : WellFormed(messages[k])
    BY DEF MInv, Sound
<1>2. UNCHANGED <<messages, stream, patient>>
    BY OnlyAdded DEF client
<1>3. PICK q \in Nat : Holds(q) /\ Pending(q)
    BY DEF Arrived
<1>4. /\ Passed' /\ Holds(q)' /\ ~Malformed(FullRequest)
      /\ Len(requests) + 1 \in DOMAIN requests'
      /\ requests'[Len(requests) + 1] = FullRequest
    BY <1>1, <1>2, <1>3, TakesMessage
<1>5. Pending(q)'
    BY <1>2, <1>3, PendingStays
<1>6. ~patient => Closes(FullRequest)
    <2>1. SUFFICES ASSUME ~patient PROVE Closes(FullRequest)
        OBVIOUS
    <2>2. \A k \in DOMAIN requests' : Closes(requests'[k]) \/ Malformed(requests'[k])
        BY <1>2, <2>1 DEF Sound, OneAtATime
    <2> QED BY <1>4, <2>2
<1>7. OnePending'
    BY <1>4, <1>6
<1> QED BY <1>3, <1>4, <1>5, <1>7 DEF Arrived

LEMMA AnswerMessages == IInv /\ MInv /\ (BadRequest \/ RespondAndReturn) => MInv'
<1> SUFFICES ASSUME IInv, MInv, BadRequest \/ RespondAndReturn PROVE MInv'
    OBVIOUS
<1>1. /\ Next /\ TakeRequest /\ at = "loop" /\ at' = "run" /\ writes' = writes + 1
      /\ UNCHANGED <<patient, pos, reads, queue, data_>>
    BY DEF BadRequest, RespondAndReturn, Respond, Next, HandleRead, TakeRequest, client
<1>2. OnePending => OnePending'
    BY <1>1, QueueTypes DEF OnePending
<1> QED BY <1>1, <1>2, TakeMessages

LEMMA HandlerThrowsMessages == IInv /\ MInv /\ HandlerThrows => MInv'
<1> SUFFICES ASSUME IInv, MInv, HandlerThrows PROVE MInv'
    OBVIOUS
<1>1. /\ Next /\ TakeRequest /\ at = "loop" /\ at' = "dead"
      /\ UNCHANGED <<patient, pos, reads, writes, queue, data_>>
    BY DEF HandlerThrows, Next, HandleRead, TakeRequest, client
<1>2. OnePending => OnePending'
    BY <1>1, QueueTypes DEF OnePending
<1> QED BY <1>1, <1>2, TakeMessages

LEMMA RespondAndContinueMessages == IInv /\ MInv /\ RespondAndContinue => MInv'
<1> SUFFICES ASSUME IInv, MInv, RespondAndContinue PROVE MInv'
    OBVIOUS
<1>1. /\ Next /\ TakeRequest /\ at = "loop" /\ ~Closes(FullRequest)
      /\ UNCHANGED <<patient, pos, queue, data_>>
    BY DEF RespondAndContinue, Next, HandleRead, TakeRequest, client
<1>2. (~patient => Closes(FullRequest)) => OnePending'
    BY <1>1 DEF OnePending
<1> QED BY <1>1, <1>2, TakeMessages

LEMMA MessagesStep == IInv /\ MInv /\ [Next]_vars => MInv'
<1> SUFFICES ASSUME IInv, MInv, UNCHANGED vars PROVE MInv'
    BY ReceiveMessages, SentMessages, HandleWriteMessages, RequestTooLargeMessages,
       AppendDataMessages, WaitForMoreMessages, RefuseContentLengthMessages, AnswerMessages,
       HandlerThrowsMessages, RespondAndContinueMessages DEF Next, HandleRead
<1>1. Sends' /\ (Sound' => Sound) /\ (Passed => Passed') /\ (OnePending => OnePending')
    BY DEF vars, client, MInv, Sends, Sound, OneAtATime, Passed, OnePending
<1>2. Arrived => Arrived'
    <2>1. SUFFICES ASSUME at # "dead", NEW q \in Nat, Holds(q), Pending(q)
                   PROVE  Holds(q)' /\ Pending(q)'
        BY DEF Arrived, vars
    <2> QED BY <2>1, HoldsStays, PendingStays DEF vars, client
<1> QED BY <1>1, <1>2 DEF MInv

LEMMA MessagesInvariant == Spec => []MInv
BY InitMessages, MessagesStep, InductiveInvariant, PTL DEF Spec

\* Whatever well-formed messages a client sends and however the network cuts them,
\* handle_read passes them on one by one, whole and in order, while data_ is not
\* overwritten and no bytes are dropped with a 413.
THEOREM MessagesArePassedOn == Spec => []RequestsAreMessages
<1>1. IInv /\ MInv => RequestsAreMessages
    <2>1. SUFFICES ASSUME IInv, MInv, Sound PROVE IsPrefix(requests, messages)
        BY DEF RequestsAreMessages, Sound
    <2>2. Passed
        BY <2>1 DEF MInv
    <2>3. /\ requests \in Seq(Seq(Line)) /\ messages \in Seq(Seq(Line))
          /\ Len(requests) \in Nat /\ Len(messages) \in Nat /\ Len(requests) <= Len(messages)
        BY <2>1, <2>2, BeginsIs DEF MInv, IInv, TypeOK, Passed
    <2>4. SubSeq(requests, 1, Len(requests)) = SubSeq(messages, 1, Len(requests))
        <3> DEFINE r == Len(requests)
        <3>1. /\ 1 \in Nat \ {0} /\ r \in Nat /\ r <= Len(requests) /\ r <= Len(messages)
              /\ r - 1 + 1 = r /\ (1 <= r \/ r = 0) /\ \A k \in 1 .. r : 1 + k - 1 = k
            BY <2>3
        <3> HIDE DEF r
        <3>2. /\ SubSeq(requests, 1, r) \in Seq(Seq(Line)) /\ Len(SubSeq(requests, 1, r)) = r
              /\ \A k \in 1 .. r : SubSeq(requests, 1, r)[k] = requests[k]
            BY <2>3, <3>1, SubSeqType
        <3>3. /\ SubSeq(messages, 1, r) \in Seq(Seq(Line)) /\ Len(SubSeq(messages, 1, r)) = r
              /\ \A k \in 1 .. r : SubSeq(messages, 1, r)[k] = messages[k]
            BY <2>3, <3>1, SubSeqType
        <3>4. \A k \in 1 .. r : requests[k] = messages[k]
            BY <2>2 DEF Passed, r
        <3>5. SubSeq(requests, 1, r) = SubSeq(messages, 1, r)
            BY <3>2, <3>3, <3>4, SeqEqual
        <3> QED BY <3>5 DEF r
    <2> QED BY <2>3, <2>4 DEF IsPrefix
<1> QED BY <1>1, InductiveInvariant, MessagesInvariant, PTL

===============================================================================
