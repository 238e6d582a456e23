---------------------------- MODULE FormatsProofs ----------------------------
(* What VerifyFormat and Format compute, for formats of any length and any  *)
(* registered ids: the loop of VerifyFormat keeps the parts that are not    *)
(* blank in their order, and Format takes the first that accepts the body.  *)
EXTENDS Formats, LeastNumber

-----------------------------------------------------------------------------
(* THE LOOP OF VERIFYFORMAT *)

(* g is ff, for the first m parts of f. *)
Loop(g, f, m) ==
  g = [n \in 0..m |->
         IF n = 0 THEN <<>>
         ELSE IF NonBlank(f[n]) THEN Append(g[n - 1], f[n]) ELSE g[n - 1]]

(* The recursive function ff is defined. *)
LEMMA LoopRuns ==
  ASSUME NEW f, Len(f) \in Nat
  PROVE  \E g : Loop(g, f, Len(f))
  <1> DEFINE S == {m \in Nat : \E g : Loop(g, f, m)}
  <1>1. 0 \in S
    <2>1. Loop([n \in 0..0 |-> <<>>], f, 0)
      BY DEF Loop
    <2> QED
      BY <2>1
  <1>2. ASSUME NEW m \in 1..Len(f), m - 1 \in S PROVE m \in S
    <2>1. PICK g : Loop(g, f, m - 1)
      BY <1>2
    <2> DEFINE last == IF NonBlank(f[m]) THEN Append(g[m - 1], f[m]) ELSE g[m - 1]
               h == [n \in 0..m |-> IF n = m THEN last ELSE g[n]]
    <2>2. ASSUME NEW n \in 0..m
          PROVE  h[n] = IF n = 0 THEN <<>>
                        ELSE IF NonBlank(f[n]) THEN Append(h[n - 1], f[n]) ELSE h[n - 1]
      <3>1. CASE n = m
        <4>1. m # 0 /\ m - 1 \in 0..m /\ m - 1 # m
          OBVIOUS
        <4>2. h[m - 1] = g[m - 1] /\ h[n] = last
          BY <3>1, <4>1
        <4> QED
          BY <3>1, <4>1, <4>2
      <3>2. CASE n # m
        <4>1. n \in 0..(m - 1) /\ h[n] = g[n]
          BY <3>2
        <4>2. n # 0 => n - 1 \in 0..m /\ n - 1 # m /\ h[n - 1] = g[n - 1]
          BY <3>2
        <4> HIDE DEF h
        <4> QED
          BY <2>1, <4>1, <4>2 DEF Loop
      <3> QED
        BY <3>1, <3>2
    <2>3. Loop(h, f, m)
      <3>1. h = [n \in 0..m |-> h[n]]
        OBVIOUS
      <3> HIDE DEF h
      <3> QED
        BY <2>2, <3>1 DEF Loop
    <2> QED
      BY <2>3
  <1> HIDE DEF S
  <1>3. \A n \in 0..Len(f) : n \in S
    BY <1>1, <1>2, UpTo
  <1> QED
    BY <1>3 DEF S

LEMMA KeptIsLoop ==
  ASSUME NEW f, Len(f) \in Nat
  PROVE  \E g : Loop(g, f, Len(f)) /\ Kept(f) = g[Len(f)]
  <1> DEFINE ff == CHOOSE g : Loop(g, f, Len(f))
  <1>1. Loop(ff, f, Len(f))
    BY LoopRuns
  <1>2. Kept(f) = ff[Len(f)]
    BY DEF Kept, Loop
  <1> QED
    BY <1>1, <1>2
-----------------------------------------------------------------------------
(* WHAT IT KEEPS *)

(* The provers do not know that a literal is a string. *)
Strings == STRING \cup {"text"}

(* s is what is not blank in the first n parts of f, h the places it came  *)
(* from, in the order of f.                                                *)
Picks(h, f, n, s) ==
  /\ s \in Seq(Strings)
  /\ h \in [1..Len(s) -> 1..n]
  /\ \A i \in 1..Len(s) : s[i] = f[h[i]] /\ NonBlank(f[h[i]])
  /\ \A i, j \in 1..Len(s) : i < j => h[i] < h[j]
  /\ \A k \in 1..n : NonBlank(f[k]) => \E i \in 1..Len(s) : h[i] = k

(* A blank part is dropped, another one goes to the end. *)
LEMMA PicksOne ==
  ASSUME NEW f \in Seq(Strings), NEW n \in 1..Len(f), NEW s, NEW h,
         Picks(h, f, n - 1, s)
  PROVE  \E h2 : Picks(h2, f, n, IF NonBlank(f[n]) THEN Append(s, f[n]) ELSE s)
  <1>1. s \in Seq(Strings) /\ Len(s) \in Nat /\ f[n] \in Strings
    BY DEF Picks
  <1>2. CASE ~NonBlank(f[n])
    <2>1. Picks(h, f, n, s)
      BY <1>1, <1>2 DEF Picks
    <2> QED
      BY <1>2, <2>1
  <1>3. CASE NonBlank(f[n])
    <2> DEFINE t == Append(s, f[n])
               h2 == [i \in 1..Len(t) |-> IF i = Len(t) THEN n ELSE h[i]]
    <2>1. /\ t \in Seq(Strings) /\ Len(t) = Len(s) + 1 /\ t[Len(t)] = f[n]
          /\ \A i \in 1..Len(s) : t[i] = s[i]
      BY <1>1
    <2>2. /\ h2[Len(t)] = n
          /\ \A i \in 1..Len(s) : h2[i] = h[i] /\ h[i] \in 1..(n - 1)
      <3>1. Len(t) \in 1..Len(t) /\ \A i \in 1..Len(s) : i \in 1..Len(t) /\ i # Len(t)
        BY <1>1, <2>1
      <3>2. \A i \in 1..Len(s) : h[i] \in 1..(n - 1)
        BY DEF Picks
      <3> HIDE DEF t
      <3> QED
        BY <3>1, <3>2
    <2>3. \A i \in 1..Len(t) : i = Len(t) \/ i \in 1..Len(s)
      BY <1>1, <2>1
    <2>4. h2 \in [1..Len(t) -> 1..n]
      <3>1. \A i \in 1..Len(t) : h2[i] \in 1..n
        BY <2>2, <2>3
      <3> QED
        BY <3>1
    <2> HIDE DEF t, h2
    <2>5. \A i \in 1..Len(t) : t[i] = f[h2[i]] /\ NonBlank(f[h2[i]])
      BY <1>3, <2>1, <2>2, <2>3 DEF Picks
    <2>6. \A i, j \in 1..Len(t) : i < j => h2[i] < h2[j]
      <3> SUFFICES ASSUME NEW i \in 1..Len(t), NEW j \in 1..Len(t), i < j
                   PROVE  h2[i] < h2[j]
        OBVIOUS
      <3>1. i \in 1..Len(s)
        BY <1>1, <2>1
      <3>2. CASE j = Len(t)
        BY <2>2, <3>1, <3>2
      <3>3. CASE j # Len(t)
        BY <2>2, <2>3, <3>1, <3>3 DEF Picks
      <3> QED
        BY <3>2, <3>3
    <2>7. \A k \in 1..n : NonBlank(f[k]) => \E i \in 1..Len(t) : h2[i] = k
      <3> SUFFICES ASSUME NEW k \in 1..n, NonBlank(f[k])
                   PROVE  \E i \in 1..Len(t) : h2[i] = k
        OBVIOUS
      <3>1. CASE k = n
        BY <1>1, <2>1, <2>2, <3>1
      <3>2. CASE k # n
        <4>1. PICK i \in 1..Len(s) : h[i] = k
          BY <3>2 DEF Picks
        <4>2. i \in 1..Len(t) /\ h2[i] = k
          BY <1>1, <2>1, <2>2, <4>1
        <4> QED
          BY <4>2
      <3> QED
        BY <3>1, <3>2
    <2>8. Picks(h2, f, n, t)
      BY <2>1, <2>4, <2>5, <2>6, <2>7 DEF Picks
    <2> QED
      BY <1>3, <2>8 DEF t
  <1> QED
    BY <1>2, <1>3

LEMMA KeptPicks ==
  ASSUME NEW f \in Seq(Strings)
  PROVE  \E h : Picks(h, f, Len(f), Kept(f))
  <1>1. Len(f) \in Nat
    OBVIOUS
  <1>2. PICK g : Loop(g, f, Len(f)) /\ Kept(f) = g[Len(f)]
    BY <1>1, KeptIsLoop
  <1> DEFINE S == {n \in 0..Len(f) : \E h : Picks(h, f, n, g[n])}
  <1>3. 0 \in S
    <2>1. g[0] = <<>>
      BY <1>1, <1>2 DEF Loop
    <2>2. Picks([i \in 1..0 |-> 1], f, 0, g[0])
      BY <2>1 DEF Picks
    <2> QED
      BY <1>1, <2>2
  <1>4. ASSUME NEW n \in 1..Len(f), n - 1 \in S PROVE n \in S
    <2>1. g[n] = IF NonBlank(f[n]) THEN Append(g[n - 1], f[n]) ELSE g[n - 1]
      <3>1. n \in 0..Len(f) /\ n # 0
        BY <1>1
      <3> QED
        BY <1>2, <3>1 DEF Loop
    <2>2. PICK h : Picks(h, f, n - 1, g[n - 1])
      BY <1>4
    <2>3. \E h2 : Picks(h2, f, n, g[n])
      BY <2>1, <2>2, PicksOne
    <2> QED
      BY <2>3
  <1> HIDE DEF S
  <1>5. \A n \in 0..Len(f) : n \in S
    BY <1>1, <1>3, <1>4, UpTo
  <1> QED
    BY <1>1, <1>2, <1>5 DEF S

(* The least place that makes Format stop. *)
LEMMA FirstStopIs ==
  ASSUME NEW f, NEW b, Len(f) \in Nat, DOMAIN f = 1..Len(f), Stops(f, b) # {}
  PROVE  /\ FirstStop(f, b) \in Stops(f, b)
         /\ \A j \in Stops(f, b) : FirstStop(f, b) <= j
  <1>1. Stops(f, b) \in SUBSET Nat
    BY DEF Stops
  <1>2. \E i \in Stops(f, b) : \A j \in Stops(f, b) : i <= j
    BY <1>1, LeastElement
  <1> QED
    BY <1>2 DEF FirstStop

-----------------------------------------------------------------------------
(* With the format VerifyFormat leaves of a valid one, no body is refused: *)
(* Format takes the first part configured that accepts it, and text if     *)
(* there is none.                                                          *)
THEOREM FirstAccepting ==
  ASSUME NEW f \in Seq(STRING), Verifies(f), NEW b \in Bodies
  PROVE  LET v == VerifyFormat(f)
             accepting == {k \in DOMAIN f : NonBlank(f[k]) /\ f[k] \in b}
         IN  /\ ~FormatFails(v, b)
             /\ \/ accepting = {} /\ Format(v, b) = "text"
                \/ \E k \in accepting :
                     Format(v, b) = f[k] /\ \A n \in accepting : k <= n
  <1> DEFINE s == Kept(f)
             v == VerifyFormat(f)
             accepting == {k \in DOMAIN f : NonBlank(f[k]) /\ f[k] \in b}
  <1>1. PICK h : Picks(h, f, Len(f), s)
    <2>1. \A k \in 1..Len(f) : f[k] \in Strings
      BY DEF Strings
    <2>2. f \in Seq(Strings)
      BY <2>1
    <2> QED
      BY <2>2, KeptPicks
  <1>2. s \in Seq(Strings) /\ Len(s) \in Nat /\ Len(f) \in Nat /\ DOMAIN f = 1..Len(f)
    BY <1>1 DEF Picks
  <1>3. b \in SUBSET FormatIds /\ "text" \in b /\ "text" \in FormatIds
    BY FormatsAssumption DEF Bodies
  <1>4. \A i \in 1..Len(s) : s[i] \in FormatIds
    BY <1>1, <1>2 DEF Picks, Verifies, NonBlank
  <1>5. v = IF Part(f, "text") THEN s ELSE Append(s, "text")
    BY DEF VerifyFormat
  <1> HIDE DEF s, v
  <1>6. /\ v \in Seq(Strings) /\ Len(v) >= Len(s)
        /\ \A i \in 1..Len(s) : v[i] = s[i]
        /\ \A i \in 1..Len(v) : i \notin 1..Len(s) => v[i] = "text"
    <2>1. CASE Part(f, "text")
      BY <1>2, <1>5, <2>1
    <2>2. CASE ~Part(f, "text")
      <3>1. v = Append(s, "text")
        BY <1>5, <2>2
      <3>2. v \in Seq(Strings) /\ Len(v) = Len(s) + 1
        <4>1. "text" \in Strings
          BY DEF Strings
        <4>2. Append(s, "text") \in Seq(Strings)
          BY <1>2, <4>1
        <4>3. Len(Append(s, "text")) = Len(s) + 1
          BY <1>2
        <4> QED
          BY <3>1, <4>2, <4>3
      <3>3. v[Len(s) + 1] = "text"
        BY <1>2, <3>1
      <3>4. \A i \in 1..Len(s) : v[i] = s[i]
        BY <1>2, <3>1
      <3> QED
        BY <1>2, <3>2, <3>3, <3>4
    <2> QED
      BY <2>1, <2>2
  <1>7. \E i \in 1..Len(v) : v[i] = "text"
    <2>1. CASE Part(f, "text")
      <3>1. PICK k \in 1..Len(f) : f[k] = "text"
        BY <1>2, <2>1 DEF Part
      <3>2. PICK i \in 1..Len(s) : h[i] = k
        BY <1>1, <3>1 DEF Picks, NonBlank
      <3>3. v[i] = "text" /\ i \in 1..Len(v)
        BY <1>1, <1>2, <1>6, <3>1, <3>2 DEF Picks
      <3> QED
        BY <3>3
    <2>2. CASE ~Part(f, "text")
      <3>1. Len(v) = Len(s) + 1 /\ v[Len(s) + 1] = "text"
        BY <1>2, <1>5, <2>2
      <3> QED
        BY <1>2, <3>1
    <2> QED
      BY <2>1, <2>2
  <1>8. Len(v) \in Nat /\ DOMAIN v = 1..Len(v)
    BY <1>6
  <1>9. \A i \in 1..Len(v) : v[i] \in FormatIds
    BY <1>3, <1>4, <1>6
  <1>10. Stops(v, b) = {i \in 1..Len(v) : v[i] \in b}
    BY <1>8, <1>9 DEF Stops
  <1> DEFINE p == FirstStop(v, b)
  <1>11. p \in Stops(v, b) /\ \A j \in Stops(v, b) : p <= j
    <2>1. Stops(v, b) # {}
      BY <1>3, <1>7, <1>10
    <2> QED
      BY <1>8, <2>1, FirstStopIs
  <1> HIDE DEF p
  <1>12. ~FormatFails(v, b)
    BY <1>9, <1>10, <1>11 DEF FormatFails, p
  <1>13. Format(v, b) = v[p]
    BY DEF Format, p
  <1>14. ASSUME NEW n \in accepting
         PROVE  \E i \in 1..Len(s) : h[i] = n /\ s[i] = f[n] /\ i \in Stops(v, b) /\ p <= i
    <2>1. PICK i \in 1..Len(s) : h[i] = n
      BY <1>1, <1>2 DEF Picks
    <2>2. s[i] = f[n] /\ v[i] = s[i] /\ i \in 1..Len(v)
      BY <1>1, <1>2, <1>6, <1>8, <2>1 DEF Picks
    <2>3. i \in Stops(v, b)
      BY <1>10, <2>2
    <2> QED
      BY <1>11, <2>1, <2>2, <2>3
  <1>15. CASE p \in 1..Len(s)
    <2>1. h[p] \in accepting /\ v[p] = f[h[p]]
      BY <1>1, <1>2, <1>6, <1>10, <1>11, <1>15 DEF Picks
    <2>2. ASSUME NEW n \in accepting PROVE h[p] <= n
      <3>1. PICK i \in 1..Len(s) : h[i] = n /\ p <= i
        BY <1>14
      <3> QED
        BY <1>1, <1>2, <1>15, <3>1 DEF Picks
    <2> QED
      BY <1>12, <1>13, <2>1, <2>2 DEF v
  <1>16. CASE p \notin 1..Len(s)
    <2>1. v[p] = "text"
      BY <1>6, <1>10, <1>11, <1>16
    <2>2. accepting = {}
      <3> SUFFICES ASSUME NEW n \in accepting PROVE FALSE
        OBVIOUS
      <3>1. PICK i \in 1..Len(s) : p <= i
        BY <1>14
      <3> QED
        BY <1>2, <1>8, <1>10, <1>11, <1>16, <3>1
    <2> QED
      BY <1>12, <1>13, <2>1, <2>2 DEF v
  <1> QED
    BY <1>15, <1>16
=============================================================================
