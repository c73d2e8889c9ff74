--------------------------- MODULE CrontabProofs ---------------------------
(***************************************************************************)
(* What Crontab keeps for any commands, ticks and entries of the user, and *)
(* for crontabs of any length: one tracker at most, where a command finds  *)
(* it, and the user's entries through every command nobody overtook.       *)
(***************************************************************************)
EXTENDS Crontab, TLAPS, WellFoundedInduction, FiniteSetTheorems,
        SequenceTheorems

(* Folds over a crontab are computed one line after the other.  That takes *)
(* induction over the number of lines, by a least counterexample.          *)
LEMMA Minimum ==
  ASSUME NEW S \in SUBSET Nat, S # {}
  PROVE  \E n \in S : \A m \in S : n <= m
<1>1. PICK n \in S : \A m \in S : ~(<<m, n>> \in OpToRel(<, Nat))
  BY NatLessThanWellFounded, WFMin
<1>2. \A m \in S : ~(m < n)
  BY <1>1 DEF OpToRel
<1>3. QED
  BY <1>2

(* A set that holds 0 and, with a number below N, the next one, holds them *)
(* all up to N.                                                            *)
LEMMA Induction ==
  ASSUME NEW N \in Nat, NEW S, 0 \in S, \A k \in 1..N : k - 1 \in S => k \in S
  PROVE  \A k \in 0..N : k \in S
<1> DEFINE Missed == {k \in 0..N : k \notin S}
<1>1. SUFFICES ASSUME Missed # {} PROVE FALSE
  OBVIOUS
<1>2. PICK k \in Missed : \A m \in Missed : k <= m
  <2>1. Missed \in SUBSET Nat
    OBVIOUS
  <2> HIDE DEF Missed
  <2>2. QED
    BY <1>1, <2>1, Minimum
<1>3. k \in 0..N /\ k # 0 /\ k \notin S
  OBVIOUS
<1>4. k \in 1..N /\ k - 1 \in 0..N /\ ~(k <= k - 1)
  BY <1>3
<1>5. k - 1 \in Missed
  BY <1>3, <1>4
<1>6. QED
  BY <1>2, <1>4, <1>5

LEMMA Greatest ==
  ASSUME NEW k \in Nat, NEW s \in SUBSET (1..k), k \in s
  PROVE  Max(s) = k
<1>1. \A y \in s : k >= y
  OBVIOUS
<1>2. ASSUME NEW x \in s, \A y \in s : x >= y PROVE x = k
  BY <1>1, <1>2
<1>3. QED
  BY <1>1, <1>2 DEF Max

LEMMA MaxIn ==
  ASSUME NEW N \in Nat, NEW s \in SUBSET (1..N), s # {}
  PROVE  Max(s) \in s
<1> DEFINE S == {k \in Nat : \A t \in SUBSET (1..k) : t # {} => Max(t) \in t}
<1>1. 0 \in S
  <2>1. \A t \in SUBSET (1..0) : t = {}
    OBVIOUS
  <2>2. QED
    BY <2>1
<1>2. ASSUME NEW k \in 1..N, k - 1 \in S PROVE k \in S
  <2>1. SUFFICES ASSUME NEW t \in SUBSET (1..k), t # {} PROVE Max(t) \in t
    OBVIOUS
  <2>2. CASE k \in t
    BY <2>2, Greatest
  <2>3. CASE k \notin t
    <3>1. t \in SUBSET (1..(k - 1))
      BY <2>3
    <3>2. QED
      BY <3>1, <2>1, <1>2
  <2>4. QED
    BY <2>2, <2>3
<1>3. \A k \in 0..N : k \in S
  <2> HIDE DEF S
  <2>1. QED
    BY <1>1, <1>2, Induction
<1>4. N \in S
  BY <1>3
<1>5. QED
  BY <1>4

(* What a fold of `step' computes, as a function of the set of positions   *)
(* it goes over.                                                           *)
IsFold(g, N, St, base, step) ==
  /\ g \in [SUBSET (1..N) -> St]
  /\ \A s \in SUBSET (1..N) :
       g[s] = IF s = {} THEN base ELSE step[Max(s)][g[s \ {Max(s)}]]

LEMMA FoldExists ==
  ASSUME NEW N \in Nat, NEW St, NEW base \in St, NEW step \in [1..N -> [St -> St]]
  PROVE  \E g : IsFold(g, N, St, base, step)
<1> DEFINE S == {k \in Nat : \E g : IsFold(g, k, St, base, step)}
<1>1. 0 \in S
  <2>1. IsFold([s \in SUBSET (1..0) |-> base], 0, St, base, step)
    BY DEF IsFold
  <2>2. QED
    BY <2>1
<1>2. ASSUME NEW k \in 1..N, k - 1 \in S PROVE k \in S
  <2>1. PICK g : IsFold(g, k - 1, St, base, step)
    BY <1>2
  <2> DEFINE h == [s \in SUBSET (1..k) |->
                     IF k \in s THEN step[k][g[s \ {k}]] ELSE g[s]]
  <2>2. ASSUME NEW s \in SUBSET (1..k)
        PROVE  /\ k \notin s => s \in SUBSET (1..(k - 1))
               /\ s \ {k} \in SUBSET (1..(k - 1))
    OBVIOUS
  <2>3. h \in [SUBSET (1..k) -> St]
    <3>1. ASSUME NEW s \in SUBSET (1..k)
          PROVE  (IF k \in s THEN step[k][g[s \ {k}]] ELSE g[s]) \in St
      <4>1. g[s \ {k}] \in St
        BY <2>1, <2>2 DEF IsFold
      <4>2. k \notin s => g[s] \in St
        BY <2>1, <2>2 DEF IsFold
      <4>3. step[k] \in [St -> St]
        OBVIOUS
      <4>4. QED
        BY <4>1, <4>2, <4>3
    <3>2. QED
      BY <3>1
  <2>4. ASSUME NEW s \in SUBSET (1..k)
        PROVE  h[s] = IF s = {} THEN base ELSE step[Max(s)][h[s \ {Max(s)}]]
    <3>1. CASE k \in s
      <4>1. Max(s) = k
        BY <3>1, Greatest
      <4>2. h[s \ {k}] = g[s \ {k}]
        BY <2>2
      <4>3. h[s] = step[k][g[s \ {k}]]
        BY <3>1
      <4>4. QED
        BY <3>1, <4>1, <4>2, <4>3
    <3>2. CASE k \notin s
      <4>1. h[s] = g[s] /\ s \in SUBSET (1..(k - 1))
        BY <3>2, <2>2
      <4>2. h[s \ {Max(s)}] = g[s \ {Max(s)}]
        BY <3>2
      <4>3. g[s] = IF s = {} THEN base ELSE step[Max(s)][g[s \ {Max(s)}]]
        BY <4>1, <2>1 DEF IsFold
      <4>4. QED
        BY <4>1, <4>2, <4>3
    <3>3. QED
      BY <3>1, <3>2
  <2>5. IsFold(h, k, St, base, step)
    <3> HIDE DEF h
    <3>1. QED
      BY <2>3, <2>4 DEF IsFold
  <2>6. QED
    BY <2>5
<1>3. \A k \in 0..N : k \in S
  <2> HIDE DEF S
  <2>1. QED
    BY <1>1, <1>2, Induction
<1>4. N \in S
  BY <1>3
<1>5. QED
  BY <1>4

(* What a fold goes over first is all but the last of the positions.       *)
LEMMA Initial ==
  ASSUME NEW N \in Nat, NEW n \in 1..N
  PROVE  /\ 1..n \in SUBSET (1..N) /\ 1..n # {}
         /\ Max(1..n) = n
         /\ (1..n) \ {n} = 1..(n - 1)
<1>1. n \in 1..n /\ 1..n \in SUBSET (1..N) /\ (1..n) \ {n} = 1..(n - 1)
  OBVIOUS
<1>2. Max(1..n) = n
  BY <1>1, Greatest
<1>3. QED
  BY <1>1, <1>2

-----------------------------------------------------------------------------
Lines == Entries \cup {"begin", "tracker", "end"}

Outside == [kept |-> <<>>, inside |-> FALSE]

Seen == [kept : Seq(Lines), inside : BOOLEAN]

(* What Scan has seen after each line.                                     *)
Scanned(text, h) ==
  /\ h[0] = Outside
  /\ \A n \in 1..Len(text) : h[n] = Scan(h[n - 1], text[n])

(* What stripping has kept so far is a list of lines of a crontab.         *)
LEMMA ScanSeen ==
  ASSUME NEW v \in Seen, NEW line \in Lines
  PROVE  Scan(v, line) \in Seen
<1>1. CASE line = "begin"
  BY <1>1 DEF Scan, Seen
<1>2. CASE line = "end"
  BY <1>2 DEF Scan, Seen
<1>3. CASE line \notin {"begin", "end"}
  <2>1. Append(v.kept, line) \in Seq(Lines)
    BY DEF Seen
  <2>2. Scan(v, line) = IF v.inside THEN v
                        ELSE [v EXCEPT !.kept = Append(@, line)]
    BY <1>3 DEF Scan
  <2>3. QED
    BY <2>1, <2>2 DEF Seen
<1>4. QED
  BY <1>1, <1>2, <1>3

(* Stripping reads the lines in their order (_strip_managed_block).        *)
LEMMA Scanning ==
  ASSUME NEW text \in Seq(Lines)
  PROVE  \E h : Scanned(text, h) /\ Strip(text) = h[Len(text)].kept
<1> DEFINE N == Len(text)
           step == [n \in 1..N |-> [v \in Seen |-> Scan(v, text[n])]]
           Fold(H) == H = [s \in SUBSET (1..N) |->
                             IF s = {} THEN Outside
                             ELSE Scan(H[s \ {Max(s)}], text[Max(s)])]
           f == CHOOSE H : Fold(H)
<1>1. N \in Nat /\ DOMAIN text = 1..N /\ \A n \in 1..N : text[n] \in Lines
  OBVIOUS
<1>2. Outside \in Seen
  BY DEF Outside, Seen
<1>3. step \in [1..N -> [Seen -> Seen]]
  <2>1. ASSUME NEW n \in 1..N, NEW v \in Seen PROVE Scan(v, text[n]) \in Seen
    BY <1>1, ScanSeen
  <2>2. QED
    BY <2>1
<1>4. PICK g : IsFold(g, N, Seen, Outside, step)
  <2> HIDE DEF N, step
  <2>1. QED
    BY <1>1, <1>2, <1>3, FoldExists
<1>5. Fold(g)
  <2>1. g = [s \in SUBSET (1..N) |-> g[s]]
    BY <1>4 DEF IsFold
  <2>2. ASSUME NEW s \in SUBSET (1..N)
        PROVE  g[s] = IF s = {} THEN Outside
                      ELSE Scan(g[s \ {Max(s)}], text[Max(s)])
    <3>1. s # {} => Max(s) \in 1..N
      BY <1>1, MaxIn
    <3>2. g[s \ {Max(s)}] \in Seen
      BY <1>4 DEF IsFold
    <3>3. g[s] = IF s = {} THEN Outside ELSE step[Max(s)][g[s \ {Max(s)}]]
      BY <1>4 DEF IsFold
    <3>4. QED
      BY <3>1, <3>2, <3>3
  <2>3. QED
    BY <2>1, <2>2
<1>6. Fold(f)
  <2> HIDE DEF Fold
  <2>1. QED
    BY <1>5
<1>7. Strip(text) = f[1..N].kept
  BY <1>1, Zenon DEF Strip, FoldLeft, MapThenFoldSet, Outside
<1> DEFINE h == [n \in 0..N |-> f[1..n]]
<1>8. h[0] = Outside
  <2>1. 1..0 = {} /\ 1..0 \in SUBSET (1..N)
    BY <1>1
  <2> HIDE DEF f
  <2>2. QED
    BY <1>6, <2>1
<1>9. ASSUME NEW n \in 1..N
      PROVE  h[n] = Scan(h[n - 1], text[n])
  <2>1. /\ 1..n \in SUBSET (1..N) /\ 1..n # {}
        /\ Max(1..n) = n /\ (1..n) \ {n} = 1..(n - 1)
    BY <1>1, Initial
  <2>2. f[1..n] = Scan(f[(1..n) \ {Max(1..n)}], text[Max(1..n)])
    <3> HIDE DEF f
    <3>1. QED
      BY <1>6, <2>1
  <2>3. n - 1 \in 0..N /\ n \in 0..N
    BY <1>1
  <2>4. h[n] = f[1..n] /\ h[n - 1] = f[1..(n - 1)]
    <3> HIDE DEF f
    <3>1. QED
      BY <2>3
  <2>5. QED
    BY <2>1, <2>2, <2>4
<1>10. h[N] = f[1..N]
  BY <1>1
<1>11. Scanned(text, h) /\ Strip(text) = h[Len(text)].kept
  <2> HIDE DEF f, h
  <2>1. QED
    BY <1>7, <1>8, <1>9, <1>10 DEF Scanned
<1>12. QED
  BY <1>11
(* What is left of a text after each line.                                 *)
Taken(some, line, lines) == IF line \in lines THEN Append(some, line) ELSE some

Chosen(text, lines, h) ==
  /\ h[0] = <<>>
  /\ \A n \in 1..Len(text) : h[n] = Taken(h[n - 1], text[n], lines)

(* So does picking lines.                                                  *)
LEMMA Choosing ==
  ASSUME NEW text \in Seq(Lines), NEW lines
  PROVE  \E h : Chosen(text, lines, h) /\ Among(text, lines) = h[Len(text)]
<1> DEFINE N == Len(text)
           step == [n \in 1..N |-> [v \in Seq(Lines) |-> Taken(v, text[n], lines)]]
           Fold(H) == H = [s \in SUBSET (1..N) |->
                             IF s = {} THEN <<>>
                             ELSE Taken(H[s \ {Max(s)}], text[Max(s)], lines)]
           f == CHOOSE H : Fold(H)
<1>1. N \in Nat /\ DOMAIN text = 1..N /\ \A n \in 1..N : text[n] \in Lines
  OBVIOUS
<1>2. <<>> \in Seq(Lines)
  OBVIOUS
<1>3. step \in [1..N -> [Seq(Lines) -> Seq(Lines)]]
  <2>1. ASSUME NEW n \in 1..N, NEW v \in Seq(Lines) PROVE Taken(v, text[n], lines) \in Seq(Lines)
    BY <1>1 DEF Taken
  <2>2. QED
    BY <2>1
<1>4. PICK g : IsFold(g, N, Seq(Lines), <<>>, step)
  <2> HIDE DEF N, step
  <2>1. QED
    BY <1>1, <1>2, <1>3, FoldExists
<1>5. Fold(g)
  <2>1. g = [s \in SUBSET (1..N) |-> g[s]]
    BY <1>4 DEF IsFold
  <2>2. ASSUME NEW s \in SUBSET (1..N)
        PROVE  g[s] = IF s = {} THEN <<>>
                      ELSE Taken(g[s \ {Max(s)}], text[Max(s)], lines)
    <3>1. s # {} => Max(s) \in 1..N
      BY <1>1, MaxIn
    <3>2. g[s \ {Max(s)}] \in Seq(Lines)
      BY <1>4 DEF IsFold
    <3>3. g[s] = IF s = {} THEN <<>> ELSE step[Max(s)][g[s \ {Max(s)}]]
      BY <1>4 DEF IsFold
    <3>4. QED
      BY <3>1, <3>2, <3>3
  <2>3. QED
    BY <2>1, <2>2
<1>6. Fold(f)
  <2> HIDE DEF Fold
  <2>1. QED
    BY <1>5
<1>7. Among(text, lines) = f[1..N]
  BY <1>1, Zenon DEF Among, Taken, FoldLeft, MapThenFoldSet
<1> DEFINE h == [n \in 0..N |-> f[1..n]]
<1>8. h[0] = <<>>
  <2>1. 1..0 = {} /\ 1..0 \in SUBSET (1..N)
    BY <1>1
  <2> HIDE DEF f
  <2>2. QED
    BY <1>6, <2>1
<1>9. ASSUME NEW n \in 1..N
      PROVE  h[n] = Taken(h[n - 1], text[n], lines)
  <2>1. /\ 1..n \in SUBSET (1..N) /\ 1..n # {}
        /\ Max(1..n) = n /\ (1..n) \ {n} = 1..(n - 1)
    BY <1>1, Initial
  <2>2. f[1..n] = Taken(f[(1..n) \ {Max(1..n)}], text[Max(1..n)], lines)
    <3> HIDE DEF f
    <3>1. QED
      BY <1>6, <2>1
  <2>3. n - 1 \in 0..N /\ n \in 0..N
    BY <1>1
  <2>4. h[n] = f[1..n] /\ h[n - 1] = f[1..(n - 1)]
    <3> HIDE DEF f
    <3>1. QED
      BY <2>3
  <2>5. QED
    BY <2>1, <2>2, <2>4
<1>10. h[N] = f[1..N]
  BY <1>1
<1>11. Chosen(text, lines, h) /\ Among(text, lines) = h[Len(text)]
  <2> HIDE DEF f, h
  <2>1. QED
    BY <1>7, <1>8, <1>9, <1>10 DEF Chosen
<1>12. QED
  BY <1>11

-----------------------------------------------------------------------------
(* One line under another: a block is begun once, the managed line stands  *)
(* under the begin marker, the end marker under the managed line; entries  *)
(* may stand anywhere.                                                     *)
Shape(text) ==
  /\ text \in Seq(Lines)
  /\ \A i, j \in DOMAIN text :
       text[i] = "begin" /\ text[j] = "begin" => i = j
  /\ \A i \in DOMAIN text :
       /\ text[i] = "tracker" => i > 1 /\ text[i - 1] = "begin"
       /\ text[i] = "end" => i > 1 /\ text[i - 1] = "tracker"

LEMMA LineFacts ==
  /\ "begin" \in Lines /\ "tracker" \in Lines /\ "end" \in Lines
  /\ "begin" \notin Entries /\ "tracker" \notin Entries /\ "end" \notin Entries
  /\ Entries \subseteq Lines
BY CrontabAssumptions DEF Lines

LEMMA ShapeFacts ==
  ASSUME NEW text, Shape(text)
  PROVE  /\ Len(text) \in Nat
         /\ DOMAIN text = 1..Len(text)
         /\ \A i \in 1..Len(text) :
              /\ text[i] \in Lines
              /\ text[i] = "tracker" =>
                   i > 1 /\ i - 1 \in 1..Len(text) /\ text[i - 1] = "begin"
              /\ text[i] = "end" =>
                   i > 1 /\ i - 1 \in 1..Len(text) /\ text[i - 1] = "tracker"
         /\ \A i, j \in 1..Len(text) :
              text[i] = "begin" /\ text[j] = "begin" => i = j
<1>1. /\ text \in Seq(Lines) /\ Len(text) \in Nat /\ DOMAIN text = 1..Len(text)
      /\ \A i \in 1..Len(text) : text[i] \in Lines
  BY DEF Shape
<1>2. \A i \in 1..Len(text) : i > 1 => i - 1 \in 1..Len(text)
  BY <1>1
<1>3. QED
  BY <1>1, <1>2 DEF Shape

(* What is between a begin and an end marker never gets out: of a crontab  *)
(* that has a shape, stripping leaves the user's entries only.             *)
LEMMA StripEntries ==
  ASSUME NEW text, Shape(text)
  PROVE  Strip(text) \in Seq(Entries)
<1>1. text \in Seq(Lines) /\ Len(text) \in Nat
  BY DEF Shape
<1>2. PICK h : Scanned(text, h) /\ Strip(text) = h[Len(text)].kept
  BY <1>1, Scanning
<1> DEFINE S == {k \in 0..Len(text) :
                   /\ h[k] \in [kept : Seq(Entries), inside : BOOLEAN]
                   /\ k > 0 /\ text[k] = "begin" => h[k].inside}
<1>3. 0 \in S
  <2>1. <<>> \in Seq(Entries)
    OBVIOUS
  <2>2. h[0] \in [kept : Seq(Entries), inside : BOOLEAN]
    BY <1>2, <2>1 DEF Scanned, Outside
  <2>3. QED
    BY <1>1, <2>2
<1>4. ASSUME NEW k \in 1..Len(text), k - 1 \in S PROVE k \in S
  <2>1. h[k] = Scan(h[k - 1], text[k])
    BY <1>2 DEF Scanned
  <2>2. h[k - 1] \in [kept : Seq(Entries), inside : BOOLEAN] /\ k \in 0..Len(text)
    BY <1>4
  <2>3. CASE text[k] = "begin"
    BY <2>1, <2>2, <2>3 DEF Scan
  <2>4. CASE text[k] = "end"
    BY <2>1, <2>2, <2>4 DEF Scan
  <2>5. CASE text[k] = "tracker"
    <3>1. k > 1 /\ text[k - 1] = "begin"
      BY <2>5, ShapeFacts
    <3>2. h[k - 1].inside
      BY <1>4, <3>1
    <3>3. h[k] = h[k - 1]
      BY <2>1, <2>5, <3>2 DEF Scan
    <3>4. QED
      BY <2>2, <2>5, <3>3
  <2>6. CASE text[k] \in Entries
    <3>1. text[k] # "begin" /\ text[k] # "end"
      BY <2>6, LineFacts
    <3>2. h[k] = IF h[k - 1].inside THEN h[k - 1]
                 ELSE [h[k - 1] EXCEPT !.kept = Append(@, text[k])]
      BY <2>1, <3>1 DEF Scan
    <3>3. Append(h[k - 1].kept, text[k]) \in Seq(Entries)
      BY <2>2, <2>6
    <3>4. QED
      BY <2>2, <3>1, <3>2, <3>3
  <2>7. text[k] \in Lines
    BY ShapeFacts
  <2>8. QED
    BY <2>3, <2>4, <2>5, <2>6, <2>7 DEF Lines
<1>5. \A k \in 0..Len(text) : k \in S
  <2> HIDE DEF S
  <2>1. QED
    BY <1>1, <1>3, <1>4, Induction
<1>6. Len(text) \in S
  BY <1>1, <1>5
<1>7. QED
  BY <1>2, <1>6

(* If the block of a crontab is closed, no entry is in it: stripping keeps *)
(* all of the user's entries.                                              *)
LEMMA StripOwn ==
  ASSUME NEW text, Shape(text), Closed(text)
  PROVE  Strip(text) = OwnLines(text)
<1>1. text \in Seq(Lines) /\ Len(text) \in Nat /\ DOMAIN text = 1..Len(text)
  BY ShapeFacts DEF Shape
<1>2. PICK h : Scanned(text, h) /\ Strip(text) = h[Len(text)].kept
  BY <1>1, Scanning
<1>3. PICK o : Chosen(text, Entries, o) /\ OwnLines(text) = o[Len(text)]
  BY <1>1, Choosing DEF OwnLines
<1>4. ASSUME NEW i \in 1..Len(text), text[i] = "begin"
      PROVE  /\ i + 2 \in 1..Len(text)
             /\ text[i + 1] = "tracker" /\ text[i + 2] = "end"
  <2>1. PICK j \in i..Len(text) : text[j] = "end"
    BY <1>1, <1>4 DEF Closed
  <2>2. j \in 1..Len(text) /\ j > 1 /\ text[j - 1] = "tracker"
    <3>1. j \in 1..Len(text)
      BY <1>1
    <3>2. QED
      BY <2>1, <3>1, ShapeFacts
  <2>3. j - 1 \in 1..Len(text)
    BY <2>1, <2>2, ShapeFacts
  <2>4. (j - 1) - 1 \in 1..Len(text) /\ text[(j - 1) - 1] = "begin"
    BY <2>2, <2>3, ShapeFacts
  <2>5. (j - 1) - 1 = i
    BY <1>4, <2>4, ShapeFacts
  <2>6. j - 1 = i + 1 /\ j = i + 2
    BY <1>1, <2>2, <2>5
  <2>7. QED
    BY <2>1, <2>2, <2>6
<1> DEFINE S == {k \in 0..Len(text) :
                   /\ h[k] \in Seen /\ h[k].kept = o[k]
                   /\ h[k].inside => k > 0 /\ text[k] \in {"begin", "tracker"}
                   /\ k > 0 /\ text[k] = "begin" => h[k].inside}
<1>5. 0 \in S
  <2>1. Outside \in Seen /\ h[0] = Outside /\ o[0] = <<>>
    BY <1>2, <1>3 DEF Scanned, Chosen, Outside, Seen
  <2>2. QED
    BY <1>1, <2>1 DEF Outside
<1>6. ASSUME NEW k \in 1..Len(text), k - 1 \in S PROVE k \in S
  <2>1. h[k] = Scan(h[k - 1], text[k]) /\ o[k] = Taken(o[k - 1], text[k], Entries)
    BY <1>2, <1>3 DEF Scanned, Chosen
  <2>2. /\ h[k - 1] \in Seen /\ h[k - 1].kept = o[k - 1]
        /\ h[k - 1].inside =>
             k - 1 \in 1..Len(text) /\ text[k - 1] \in {"begin", "tracker"}
        /\ k \in 0..Len(text)
    BY <1>1, <1>6
  <2>3. h[k] \in Seen
    BY <1>1, <2>1, <2>2, ShapeFacts, ScanSeen
  <2>4. CASE text[k] = "begin"
    <3>1. h[k] = [h[k - 1] EXCEPT !.inside = TRUE] /\ o[k] = o[k - 1]
      BY <2>1, <2>4, LineFacts DEF Scan, Taken
    <3>2. QED
      BY <2>2, <2>3, <2>4, <3>1 DEF Seen
  <2>5. CASE text[k] = "end"
    <3>1. h[k] = [h[k - 1] EXCEPT !.inside = FALSE] /\ o[k] = o[k - 1]
      BY <2>1, <2>5, LineFacts DEF Scan, Taken
    <3>2. QED
      BY <2>2, <2>3, <2>5, <3>1 DEF Seen
  <2>6. CASE text[k] = "tracker"
    <3>1. k > 1 /\ text[k - 1] = "begin"
      BY <2>6, ShapeFacts
    <3>2. h[k - 1].inside
      BY <1>6, <3>1
    <3>3. h[k] = h[k - 1] /\ o[k] = o[k - 1]
      BY <2>1, <2>6, <3>2, LineFacts DEF Scan, Taken
    <3>4. QED
      BY <2>2, <2>6, <3>3
  <2>7. CASE text[k] \in Entries
    <3>1. text[k] # "begin" /\ text[k] # "end" /\ text[k] # "tracker"
      BY <2>7, LineFacts
    <3>2. ~h[k - 1].inside
      <4>1. SUFFICES ASSUME h[k - 1].inside PROVE FALSE
        OBVIOUS
      <4>2. k - 1 \in 1..Len(text)
        BY <2>2, <4>1
      <4>3. CASE text[k - 1] = "begin"
        <5>1. text[(k - 1) + 1] = "tracker"
          BY <1>4, <4>2, <4>3
        <5>2. QED
          BY <1>1, <3>1, <5>1
      <4>4. CASE text[k - 1] = "tracker"
        <5>1. (k - 1) - 1 \in 1..Len(text) /\ text[(k - 1) - 1] = "begin"
          BY <4>2, <4>4, ShapeFacts
        <5>2. ((k - 1) - 1) + 2 = k
          BY <1>1
        <5>3. QED
          BY <1>4, <3>1, <5>1, <5>2
      <4>5. QED
        BY <2>2, <4>1, <4>3, <4>4
    <3>3. h[k] = [h[k - 1] EXCEPT !.kept = Append(@, text[k])]
      BY <2>1, <3>1, <3>2 DEF Scan
    <3>4. o[k] = Append(o[k - 1], text[k])
      BY <2>1, <2>7 DEF Taken
    <3>5. h[k].kept = o[k] /\ h[k].inside = h[k - 1].inside
      BY <2>2, <3>3, <3>4 DEF Seen
    <3>6. QED
      BY <2>2, <2>3, <3>1, <3>2, <3>5
  <2>8. text[k] \in Lines
    BY ShapeFacts
  <2>9. QED
    BY <2>4, <2>5, <2>6, <2>7, <2>8 DEF Lines
<1>7. \A k \in 0..Len(text) : k \in S
  <2> HIDE DEF S
  <2>1. QED
    BY <1>1, <1>5, <1>6, Induction
<1>8. Len(text) \in S
  BY <1>1, <1>7
<1>9. QED
  BY <1>2, <1>3, <1>8

(* What is picked is a list of lines of a crontab.                         *)
LEMMA AmongLines ==
  ASSUME NEW text \in Seq(Lines), NEW lines
  PROVE  Among(text, lines) \in Seq(Lines)
<1>1. PICK h : Chosen(text, lines, h) /\ Among(text, lines) = h[Len(text)]
  BY Choosing
<1> DEFINE S == {k \in 0..Len(text) : h[k] \in Seq(Lines)}
<1>2. Len(text) \in Nat
  OBVIOUS
<1>3. 0 \in S
  <2>1. h[0] = <<>>
    BY <1>1 DEF Chosen
  <2>2. <<>> \in Seq(Lines) /\ 0 \in 0..Len(text)
    BY <1>2
  <2>3. QED
    BY <2>1, <2>2
<1>4. ASSUME NEW k \in 1..Len(text), k - 1 \in S PROVE k \in S
  <2>1. h[k] = Taken(h[k - 1], text[k], lines) /\ text[k] \in Lines
    BY <1>1 DEF Chosen
  <2>2. h[k] \in Seq(Lines)
    BY <1>4, <2>1 DEF Taken
  <2>3. QED
    BY <2>2
<1>5. \A k \in 0..Len(text) : k \in S
  <2> HIDE DEF S
  <2>1. QED
    BY <1>2, <1>3, <1>4, Induction
<1>6. Len(text) \in S
  BY <1>2, <1>5
<1>7. QED
  BY <1>1, <1>6

(* Lines that come before all the others and are all taken.                *)
LEMMA AmongFirst ==
  ASSUME NEW s \in Seq(Lines), NEW t \in Seq(Lines), NEW lines,
         \A i \in 1..Len(s) : s[i] \in lines,
         \A i \in 1..Len(t) : t[i] \notin lines
  PROVE  Among(s \o t, lines) = s
<1> DEFINE text == s \o t
<1>1. /\ text \in Seq(Lines) /\ Len(text) = Len(s) + Len(t)
      /\ Len(s) \in Nat /\ Len(t) \in Nat /\ Len(text) \in Nat
      /\ \A i \in 1..Len(s) : text[i] = s[i]
      /\ \A i \in 1..Len(text) : i > Len(s) => text[i] \notin lines
  OBVIOUS
<1>2. PICK h : Chosen(text, lines, h) /\ Among(text, lines) = h[Len(text)]
  BY <1>1, Choosing
<1> HIDE DEF text
<1> DEFINE S == {k \in 0..Len(text) :
                   h[k] = IF k =< Len(s) THEN SubSeq(s, 1, k) ELSE s}
<1>3. 0 \in S
  <2>1. SubSeq(s, 1, 0) = <<>>
    BY SubSeqEmpty
  <2>2. h[0] = <<>>
    BY <1>2 DEF Chosen
  <2>3. 0 \in 0..Len(text) /\ 0 =< Len(s)
    BY <1>1
  <2>4. QED
    BY <2>1, <2>2, <2>3
<1>4. ASSUME NEW k \in 1..Len(text), k - 1 \in S PROVE k \in S
  <2>1. h[k] = Taken(h[k - 1], text[k], lines)
    BY <1>2 DEF Chosen
  <2>2. CASE k =< Len(s)
    <3>1. k \in 1..Len(s) /\ k - 1 =< Len(s)
      BY <1>1, <2>2
    <3>2. h[k - 1] = SubSeq(s, 1, k - 1) /\ text[k] = s[k] /\ s[k] \in lines
      BY <1>1, <1>4, <3>1
    <3>3. Append(SubSeq(s, 1, k - 1), s[k]) = SubSeq(s, 1, k)
      <4>1. SubSeq(s, 1, k) = SubSeq(s, 1, k - 1) \o <<s[k]>>
        BY <1>1, <3>1, SubSeqRecursiveSecond
      <4>2. SubSeq(s, 1, k - 1) \in Seq(Lines) /\ s[k] \in Lines
        BY <3>1
      <4>3. QED
        BY <4>1, <4>2, AppendIsConcat
    <3>4. h[k] = SubSeq(s, 1, k)
      BY <2>1, <3>2, <3>3 DEF Taken
    <3>5. QED
      BY <1>1, <2>2, <3>4
  <2>3. CASE ~(k =< Len(s))
    <3>1. h[k - 1] = s
      <4>1. CASE k - 1 =< Len(s)
        <5>1. k - 1 = Len(s) /\ h[k - 1] = SubSeq(s, 1, k - 1)
          BY <1>1, <1>4, <2>3, <4>1
        <5>2. SubSeq(s, 1, Len(s)) = s
          OBVIOUS
        <5>3. QED
          BY <5>1, <5>2
      <4>2. CASE ~(k - 1 =< Len(s))
        BY <1>4, <4>2
      <4>3. QED
        BY <4>1, <4>2
    <3>2. text[k] \notin lines
      BY <1>1, <2>3
    <3>3. QED
      BY <2>1, <2>3, <3>1, <3>2 DEF Taken
  <2>4. QED
    BY <2>2, <2>3
<1>5. \A k \in 0..Len(text) : k \in S
  <2> HIDE DEF S
  <2>1. QED
    BY <1>1, <1>3, <1>4, Induction
<1>6. h[Len(text)] = s
  <2>1. Len(text) \in S
    BY <1>1, <1>5
  <2>2. CASE Len(text) =< Len(s)
    <3>1. Len(text) = Len(s)
      BY <1>1, <2>2
    <3>2. SubSeq(s, 1, Len(s)) = s
      OBVIOUS
    <3>3. QED
      BY <2>1, <3>1, <3>2
  <2>3. QED
    BY <2>1, <2>2
<1>7. QED
  BY <1>2, <1>6 DEF text

(* Taking lines out, neither the begin marker nor the managed line among   *)
(* them, leaves the shape.                                                 *)
LEMMA AmongShape ==
  ASSUME NEW text, Shape(text), NEW lines,
         \A i \in 1..Len(text) : text[i] \in {"begin", "tracker"} => text[i] \in lines
  PROVE  Shape(Among(text, lines))
<1>1. text \in Seq(Lines) /\ Len(text) \in Nat /\ DOMAIN text = 1..Len(text)
  BY ShapeFacts DEF Shape
<1>2. PICK h : Chosen(text, lines, h) /\ Among(text, lines) = h[Len(text)]
  BY <1>1, Choosing
<1> DEFINE Kept(k) ==
             /\ Shape(h[k])
             /\ (\E i \in 1..Len(h[k]) : h[k][i] = "begin") =>
                  \E i \in 1..k : text[i] = "begin"
             /\ k > 0 /\ text[k] \in {"begin", "tracker"} =>
                  Len(h[k]) > 0 /\ h[k][Len(h[k])] = text[k]
           S == {k \in 0..Len(text) : Kept(k)}
<1>3. 0 \in S
  <2>1. h[0] = <<>>
    BY <1>2 DEF Chosen
  <2>2. Shape(<<>>)
    BY DEF Shape
  <2>3. QED
    BY <1>1, <2>1, <2>2
<1>4. ASSUME NEW k \in 1..Len(text), k - 1 \in S PROVE k \in S
  <2>1. h[k] = Taken(h[k - 1], text[k], lines) /\ text[k] \in Lines
    BY <1>1, <1>2, ShapeFacts DEF Chosen
  <2>2. Kept(k - 1)
    BY <1>4
  <2>3. CASE text[k] \notin lines
    <3>1. h[k] = h[k - 1] /\ text[k] \notin {"begin", "tracker"}
      BY <2>1, <2>3 DEF Taken
    <3>2. \A i \in 1..(k - 1) : i \in 1..k
      BY <1>1
    <3>3. Kept(k)
      BY <2>2, <3>1, <3>2
    <3>4. QED
      BY <1>1, <3>3
  <2>4. CASE text[k] \in lines
    <3> DEFINE u == h[k - 1]
               v == h[k]
    <3>1. /\ u \in Seq(Lines) /\ v \in Seq(Lines) /\ Len(u) \in Nat
          /\ Len(v) = Len(u) + 1 /\ v[Len(u) + 1] = text[k]
          /\ \A i \in 1..Len(u) : v[i] = u[i]
      <4>1. u \in Seq(Lines)
        BY <2>2 DEF Shape
      <4>2. v = Append(u, text[k])
        BY <2>1, <2>4 DEF Taken
      <4> HIDE DEF u, v
      <4>3. QED
        BY <2>1, <4>1, <4>2
    <3>2. /\ \A i \in 1..Len(u) :
               /\ u[i] = "tracker" =>
                    i > 1 /\ i - 1 \in 1..Len(u) /\ u[i - 1] = "begin"
               /\ u[i] = "end" =>
                    i > 1 /\ i - 1 \in 1..Len(u) /\ u[i - 1] = "tracker"
          /\ \A i, j \in 1..Len(u) : u[i] = "begin" /\ u[j] = "begin" => i = j
      BY <2>2, ShapeFacts
    <3>3. (\E i \in 1..Len(u) : u[i] = "begin") =>
             \E i \in 1..(k - 1) : text[i] = "begin"
      BY <2>2
    <3>4. text[k] = "tracker" => Len(u) > 0 /\ u[Len(u)] = "begin"
      <4>1. SUFFICES ASSUME text[k] = "tracker"
                     PROVE  Len(u) > 0 /\ u[Len(u)] = "begin"
        OBVIOUS
      <4>2. k - 1 > 0 /\ text[k - 1] = "begin"
        BY <1>1, <4>1, ShapeFacts
      <4>3. QED
        BY <2>2, <4>2
    <3>5. text[k] = "end" => Len(u) > 0 /\ u[Len(u)] = "tracker"
      <4>1. SUFFICES ASSUME text[k] = "end"
                     PROVE  Len(u) > 0 /\ u[Len(u)] = "tracker"
        OBVIOUS
      <4>2. k - 1 > 0 /\ text[k - 1] = "tracker"
        BY <1>1, <4>1, ShapeFacts
      <4>3. QED
        BY <2>2, <4>2
    <3>6. text[k] = "begin" => \A i \in 1..Len(u) : u[i] # "begin"
      <4>1. \A i \in 1..(k - 1) : i \in 1..Len(text) /\ i # k
        BY <1>1
      <4>2. QED
        BY <3>3, <4>1, ShapeFacts
    <3> HIDE DEF u, v
    <3>7. Shape(v)
      <4>1. DOMAIN v = 1..(Len(u) + 1)
        BY <3>1
      <4>2. ASSUME NEW i \in 1..(Len(u) + 1), NEW j \in 1..(Len(u) + 1),
                   v[i] = "begin", v[j] = "begin"
            PROVE  i = j
        <5>1. (i \in 1..Len(u) \/ i = Len(u) + 1) /\ (j \in 1..Len(u) \/ j = Len(u) + 1)
          BY <3>1
        <5>2. QED
          BY <3>1, <3>2, <3>6, <4>2, <5>1
      <4>3. ASSUME NEW i \in 1..(Len(u) + 1)
            PROVE  /\ v[i] = "tracker" => i > 1 /\ v[i - 1] = "begin"
                   /\ v[i] = "end" => i > 1 /\ v[i - 1] = "tracker"
        <5>1. CASE i \in 1..Len(u)
          BY <3>1, <3>2, <5>1
        <5>2. CASE i = Len(u) + 1
          <6>1. Len(u) > 0 => i > 1 /\ i - 1 = Len(u) /\ Len(u) \in 1..Len(u)
            BY <3>1, <5>2
          <6>2. QED
            BY <3>1, <3>4, <3>5, <5>2, <6>1
        <5>3. QED
          BY <3>1, <5>1, <5>2
      <4>4. QED
        BY <3>1, <4>1, <4>2, <4>3 DEF Shape
    <3>8. (\E i \in 1..Len(v) : v[i] = "begin") => \E i \in 1..k : text[i] = "begin"
      <4>1. SUFFICES ASSUME NEW i \in 1..Len(v), v[i] = "begin"
                     PROVE  \E j \in 1..k : text[j] = "begin"
        OBVIOUS
      <4>2. CASE i \in 1..Len(u)
        <5>1. \A j \in 1..(k - 1) : j \in 1..k
          BY <1>1
        <5>2. QED
          BY <3>1, <3>3, <4>1, <4>2, <5>1
      <4>3. CASE i = Len(u) + 1
        <5>1. k \in 1..k /\ text[k] = "begin"
          BY <1>1, <3>1, <4>1, <4>3
        <5>2. QED
          BY <5>1
      <4>4. QED
        BY <3>1, <4>2, <4>3
    <3>9. Len(v) > 0 /\ v[Len(v)] = text[k]
      BY <3>1
    <3>10. Kept(k)
      BY <3>7, <3>8, <3>9 DEF v
    <3>11. QED
      BY <1>1, <3>10
  <2>5. QED
    BY <2>3, <2>4
<1>5. \A k \in 0..Len(text) : k \in S
  <2> HIDE DEF S
  <2>1. QED
    BY <1>1, <1>3, <1>4, Induction
<1>6. Len(text) \in S
  BY <1>1, <1>5
<1>7. QED
  BY <1>2, <1>6

(* A list of the user's entries has a shape, and one with the block at its *)
(* end has as well.                                                        *)
LEMMA EntriesShape ==
  ASSUME NEW s \in Seq(Entries)
  PROVE  Shape(s) /\ Shape(s \o Block)
<1>1. Len(s) \in Nat /\ s \in Seq(Lines) /\ \A i \in 1..Len(s) : s[i] \in Entries
  BY LineFacts
<1>2. \A i \in 1..Len(s) : s[i] # "begin" /\ s[i] # "tracker" /\ s[i] # "end"
  BY <1>1, LineFacts
<1>3. Shape(s)
  BY <1>1, <1>2 DEF Shape
<1> DEFINE t == s \o Block
<1>4. /\ t \in Seq(Lines) /\ DOMAIN t = 1..(Len(s) + 3)
      /\ \A i \in 1..Len(s) : t[i] = s[i]
      /\ t[Len(s) + 1] = "begin" /\ t[Len(s) + 2] = "tracker"
      /\ t[Len(s) + 3] = "end"
  <2>1. Block \in Seq(Lines) /\ Len(Block) = 3
    BY LineFacts DEF Block
  <2>2. Block[1] = "begin" /\ Block[2] = "tracker" /\ Block[3] = "end"
    BY DEF Block
  <2> HIDE DEF Block
  <2>3. /\ t \in Seq(Lines) /\ Len(t) = Len(s) + Len(Block)
        /\ \A i \in 1..(Len(s) + Len(Block)) :
             t[i] = IF i <= Len(s) THEN s[i] ELSE Block[i - Len(s)]
    BY <1>1, <2>1, ConcatProperties
  <2> HIDE DEF t
  <2>4. /\ DOMAIN t = 1..(Len(s) + 3)
        /\ \A i \in 1..(Len(s) + 3) :
             t[i] = IF i <= Len(s) THEN s[i] ELSE Block[i - Len(s)]
    BY <2>1, <2>3
  <2>5. \A i \in 1..Len(s) : i \in 1..(Len(s) + 3) /\ i <= Len(s)
    BY <1>1
  <2>6. ASSUME NEW k \in 1..3
        PROVE  t[Len(s) + k] = Block[k]
    <3>1. /\ Len(s) + k \in 1..(Len(s) + 3)
          /\ ~(Len(s) + k <= Len(s)) /\ (Len(s) + k) - Len(s) = k
      BY <1>1
    <3>2. QED
      BY <2>4, <3>1
  <2>7. QED
    BY <2>2, <2>3, <2>4, <2>5, <2>6
<1> HIDE DEF t
<1>5. ASSUME NEW i \in DOMAIN t
      PROVE  /\ t[i] = "begin" => i = Len(s) + 1
             /\ t[i] = "tracker" => i > 1 /\ t[i - 1] = "begin"
             /\ t[i] = "end" => i > 1 /\ t[i - 1] = "tracker"
  <2>1. \/ i \in 1..Len(s) \/ i = Len(s) + 1
        \/ (i = Len(s) + 2 /\ i - 1 = Len(s) + 1 /\ i > 1)
        \/ (i = Len(s) + 3 /\ i - 1 = Len(s) + 2 /\ i > 1)
    BY <1>1, <1>4
  <2>2. QED
    BY <1>2, <1>4, <2>1
<1>6. Shape(t)
  BY <1>4, <1>5 DEF Shape
<1>7. QED
  BY <1>3, <1>6 DEF t

(* What a command installs has a shape, over any crontab that has one.     *)
LEMMA UpdatedShape ==
  ASSUME NEW text, Shape(text), NEW does
  PROVE  Shape(Updated(does, text))
BY StripEntries, EntriesShape DEF Updated

(* What a command installs over a closed block holds the user's entries as *)
(* they were.                                                              *)
LEMMA UpdatedOwn ==
  ASSUME NEW text, Shape(text), Closed(text), NEW does
  PROVE  OwnLines(Updated(does, text)) = OwnLines(text)
<1> DEFINE s == Strip(text)
<1>1. s = OwnLines(text) /\ s \in Seq(Entries)
  BY StripOwn, StripEntries
<1> HIDE DEF s
<1>2. s \in Seq(Lines) /\ \A i \in 1..Len(s) : s[i] \in Entries
  BY <1>1, LineFacts
<1>3. /\ Block \in Seq(Lines) /\ <<>> \in Seq(Lines)
      /\ \A i \in 1..Len(Block) : Block[i] \notin Entries
      /\ \A i \in 1..Len(<<>>) : <<>>[i] \notin Entries
  BY LineFacts DEF Block
<1>4. Among(s \o Block, Entries) = s /\ Among(s \o <<>>, Entries) = s
  BY <1>2, <1>3, AmongFirst
<1>5. s \o <<>> = s
  BY <1>2
<1>6. QED
  BY <1>1, <1>4, <1>5 DEF Updated, OwnLines, s

(* So does whatever an editor saves.                                       *)
LEMMA EditedShape ==
  ASSUME NEW text, Shape(text), NEW new \in Edited(text)
  PROVE  Shape(new)
<1>1. ASSUME NEW line \in Entries \cup {"end"} PROVE Shape(Without(text, line))
  <2>1. line # "begin" /\ line # "tracker"
    BY LineFacts
  <2>2. \A i \in 1..Len(text) :
          text[i] \in {"begin", "tracker"} => text[i] \in ToSet(text) \ {line}
    BY <2>1, ShapeFacts DEF ToSet
  <2>3. QED
    BY <2>2, AmongShape DEF Without
<1>2. ASSUME NEW e \in Entries PROVE Shape(<<e>> \o text)
  <2> DEFINE t == <<e>> \o text
  <2>1. /\ text \in Seq(Lines) /\ e \in Lines
        /\ e # "begin" /\ e # "tracker" /\ e # "end"
    BY LineFacts DEF Shape
  <2>2. /\ t \in Seq(Lines) /\ DOMAIN t = 1..(Len(text) + 1)
        /\ t[1] = e /\ \A i \in 1..Len(text) : t[i + 1] = text[i]
    BY <2>1
  <2> HIDE DEF t
  <2>3. ASSUME NEW i \in DOMAIN t
        PROVE  i = 1 \/ (i - 1 \in 1..Len(text) /\ t[i] = text[i - 1])
    BY <2>2, ShapeFacts
  <2>4. ASSUME NEW i \in DOMAIN t, NEW j \in DOMAIN t,
               t[i] = "begin", t[j] = "begin"
        PROVE  i = j
    <3>1. /\ i - 1 \in 1..Len(text) /\ text[i - 1] = "begin"
          /\ j - 1 \in 1..Len(text) /\ text[j - 1] = "begin"
      BY <2>1, <2>2, <2>3, <2>4
    <3>2. i - 1 = j - 1
      BY <3>1, ShapeFacts
    <3>3. QED
      BY <2>2, <3>2
  <2>5. ASSUME NEW i \in DOMAIN t
        PROVE  /\ t[i] = "tracker" => i > 1 /\ t[i - 1] = "begin"
               /\ t[i] = "end" => i > 1 /\ t[i - 1] = "tracker"
    <3>1. CASE i = 1
      BY <2>1, <2>2, <3>1
    <3>2. CASE i - 1 \in 1..Len(text) /\ t[i] = text[i - 1]
      <4>1. (i - 1) - 1 \in 1..Len(text) => t[i - 1] = text[(i - 1) - 1]
        BY <2>2, <3>2, ShapeFacts
      <4>2. i > 1
        BY <2>2, <3>2
      <4>3. QED
        BY <3>2, <4>1, <4>2, ShapeFacts
    <3>3. QED
      BY <2>3, <3>1, <3>2
  <2>6. Shape(t)
    BY <2>2, <2>4, <2>5 DEF Shape
  <2>7. QED
    BY <2>6 DEF t
<1>3. ASSUME NEW e \in Entries PROVE Shape(Append(text, e))
  <2> DEFINE t == Append(text, e)
  <2>1. /\ text \in Seq(Lines) /\ Len(text) \in Nat /\ e \in Lines
        /\ e # "begin" /\ e # "tracker" /\ e # "end"
    BY LineFacts DEF Shape
  <2>2. /\ t \in Seq(Lines) /\ DOMAIN t = 1..(Len(text) + 1)
        /\ t[Len(text) + 1] = e /\ \A i \in 1..Len(text) : t[i] = text[i]
    BY <2>1
  <2> HIDE DEF t
  <2>3. ASSUME NEW i \in DOMAIN t
        PROVE  /\ t[i] \in {"begin", "tracker", "end"} =>
                    i \in 1..Len(text) /\ t[i] = text[i]
               /\ t[i] = "tracker" => i > 1 /\ t[i - 1] = "begin"
               /\ t[i] = "end" => i > 1 /\ t[i - 1] = "tracker"
    <3>1. CASE i \in 1..Len(text)
      BY <2>2, <3>1, ShapeFacts
    <3>2. CASE i = Len(text) + 1
      BY <2>1, <2>2, <3>2
    <3>3. QED
      BY <2>1, <2>2, <3>1, <3>2
  <2>4. ASSUME NEW i \in DOMAIN t, NEW j \in DOMAIN t,
               t[i] = "begin", t[j] = "begin"
        PROVE  i = j
    <3>1. /\ i \in 1..Len(text) /\ text[i] = "begin"
          /\ j \in 1..Len(text) /\ text[j] = "begin"
      BY <2>3, <2>4
    <3>2. QED
      BY <3>1, ShapeFacts
  <2>5. \A i, j \in DOMAIN t : t[i] = "begin" /\ t[j] = "begin" => i = j
    BY <2>4
  <2>6. \A i \in DOMAIN t : /\ t[i] = "tracker" => i > 1 /\ t[i - 1] = "begin"
                            /\ t[i] = "end" => i > 1 /\ t[i - 1] = "tracker"
    BY <2>3
  <2>7. Shape(t)
    BY <2>2, <2>5, <2>6 DEF Shape
  <2>8. QED
    BY <2>7 DEF t
<1>4. \/ \E line \in Entries \cup {"end"} : new = Without(text, line)
      \/ \E e \in Entries : new \in {<<e>> \o text, Append(text, e)}
  BY DEF Edited
<1>5. QED
  BY <1>1, <1>2, <1>3, <1>4

-----------------------------------------------------------------------------
(* Every text that is installed, or was read and may still be, has a shape.*)
Shaped ==
  /\ Shape(crontab)
  /\ writer = [w \in Writers |-> writer[w]]
  /\ \A w \in Writers : Shape(writer[w].text)

LEMMA ShapedAtFirst == Init => Shaped
<1>1. Shape(<<>>)
  BY DEF Shape
<1>2. QED
  BY <1>1 DEF Init, Shaped, Idle

(* A writer that has read holds a text with a shape.                       *)
LEMMA ReadsShaped ==
  ASSUME Shaped, NEW w \in Writers, NEW does, NEW fails, Reads(w, does, fails)
  PROVE  Shaped'
<1>1. Shape(<<>>) /\ Shape(crontab)
  BY DEF Shape, Shaped
<1>2. PICK text : Shape(text) /\ (writer' = writer \/
                    writer' = [writer EXCEPT ![w] = [does |-> does, text |-> text]])
  BY <1>1 DEF Reads
<1>3. writer' = [v \in Writers |-> writer'[v]]
  BY <1>2 DEF Shaped
<1>4. \A v \in Writers : Shape(writer'[v].text)
  BY <1>2 DEF Shaped
<1>5. crontab' = crontab
  BY DEF Reads
<1>6. QED
  BY <1>1, <1>3, <1>4, <1>5 DEF Shaped

(* A writer that is done leaves a text with a shape behind.                *)
LEMMA DoneShaped ==
  ASSUME Shaped, NEW w \in Writers, writer' = [writer EXCEPT ![w] = Idle],
         Shape(crontab')
  PROVE  Shaped'
<1>1. Shape(Idle.text)
  BY DEF Shape, Idle
<1>2. writer' = [v \in Writers |-> writer'[v]]
  BY DEF Shaped
<1>3. \A v \in Writers : Shape(writer'[v].text)
  BY <1>1 DEF Shaped
<1>4. QED
  BY <1>2, <1>3 DEF Shaped

(* No step leaves a crontab, installed or in hand, without a shape.        *)
LEMMA ShapedStays == Shaped /\ [Next]_vars => Shaped'
<1> SUFFICES ASSUME Shaped, [Next]_vars PROVE Shaped'
  OBVIOUS
<1>1. ASSUME NEW w \in Commands, NEW does \in {"on", "off"}, NEW fails \in BOOLEAN,
             CommandReads(w, does, fails)
      PROVE  Shaped'
  BY <1>1, ReadsShaped DEF CommandReads, Writers
<1>2. ASSUME NEW w \in Ticks, NEW fails \in BOOLEAN, TickReads(w, fails)
      PROVE  Shaped'
  BY <1>2, ReadsShaped DEF TickReads, Writers
<1>3. ASSUME NEW w \in Writers, Install(w) PROVE Shaped'
  <2>1. Shape(crontab')
    BY <1>3, UpdatedShape DEF Install, Shaped
  <2>2. QED
    BY <1>3, <2>1, DoneShaped DEF Install
<1>4. ASSUME NEW w \in Writers, GivesUp(w) PROVE Shaped'
  <2>1. crontab' = crontab /\ writer' = [writer EXCEPT ![w] = Idle]
    BY <1>4 DEF GivesUp
  <2>2. Shape(crontab')
    BY <2>1 DEF Shaped
  <2>3. QED
    BY <2>1, <2>2, DoneShaped
<1>5. CASE UserReads
  BY <1>5, ReadsShaped DEF UserReads, Writers
<1>6. CASE UserSaves
  <2>1. Shape(crontab')
    BY <1>6, EditedShape DEF UserSaves, Shaped, Writers
  <2>2. QED
    BY <1>6, <2>1, DoneShaped DEF UserSaves, Writers
<1>7. CASE PackageChanges
  BY <1>7 DEF PackageChanges, Shaped
<1>8. CASE UNCHANGED vars
  BY <1>8 DEF vars, Shaped
<1>9. QED
  BY <1>1, <1>2, <1>3, <1>4, <1>5, <1>6, <1>7, <1>8 DEF Next

LEMMA AlwaysShaped == Spec => []Shaped
BY ShapedAtFirst, ShapedStays, PTL DEF Spec

(* In a crontab that has a shape the tracker is where commands find it.    *)
LEMMA ShapedOneBlock == Shaped => OneBlock
<1> SUFFICES ASSUME Shaped PROVE OneBlock
  OBVIOUS
<1>1. Shape(crontab)
  BY DEF Shaped
<1>2. ASSUME NEW line \in {"begin", "tracker"}
      PROVE  Cardinality({i \in DOMAIN crontab : crontab[i] = line}) =< 1
  <2> DEFINE At == {i \in DOMAIN crontab : crontab[i] = line}
  <2>1. \A i, j \in At : i = j
    BY <1>1, ShapeFacts
  <2>2. At = {} \/ \E i : At = {i}
    BY <2>1
  <2> HIDE DEF At
  <2>3. Cardinality(At) =< 1
    <3>1. CASE At = {}
      BY <3>1, FS_EmptySet
    <3>2. ASSUME NEW i, At = {i} PROVE Cardinality(At) =< 1
      <4>1. Cardinality({i}) = 1
        BY FS_Singleton
      <4>2. QED
        BY <3>2, <4>1
    <3>3. QED
      BY <2>2, <3>1, <3>2
  <2>4. QED
    BY <2>3 DEF At
<1>3. ASSUME "tracker" \in ToSet(crontab) PROVE Managed(crontab)
  <2>1. PICK i \in 1..Len(crontab) : crontab[i] = "tracker"
    BY <1>1, <1>3, ShapeFacts DEF ToSet
  <2>2. i > 1 /\ i - 1 \in 1..Len(crontab) /\ crontab[i - 1] = "begin"
    BY <1>1, <2>1, ShapeFacts
  <2>3. i - 1 \in 1..(Len(crontab) - 1) /\ crontab[(i - 1) + 1] # "end"
    BY <1>1, <2>1, <2>2, ShapeFacts
  <2>4. QED
    BY <2>2, <2>3 DEF Managed
<1>4. QED
  BY <1>2, <1>3 DEF OneBlock

(* Whoever overwrites whom, fails, is killed or loses the end marker: one  *)
(* tracker at most, where `off' and the next `on' find it.                 *)
THEOREM OneTracker == Spec => []OneBlock
BY AlwaysShaped, ShapedOneBlock, PTL

(* What EntriesKept says of one step.                                      *)
Keeps ==
  \A w \in Commands \cup Ticks :
    (/\ writer[w] # Idle /\ writer'[w] = Idle
     /\ writer[w].text = crontab
     /\ Closed(crontab))
    => OwnLines(crontab') = OwnLines(crontab)

(* Between reading and installing, nothing of the user's entries is lost.  *)
LEMMA StepKeeps == Shaped /\ [Next]_vars => Keeps
<1> SUFFICES ASSUME Shaped, [Next]_vars,
                    NEW w \in Commands \cup Ticks,
                    writer[w] # Idle, writer'[w] = Idle,
                    writer[w].text = crontab, Closed(crontab)
             PROVE  OwnLines(crontab') = OwnLines(crontab)
  BY DEF Keeps
<1>1. w \in Writers /\ w # User
  BY CrontabAssumptions DEF Writers, User
<1>2. CASE crontab' = crontab
  BY <1>2
<1>3. ASSUME NEW v \in Writers, Install(v)
      PROVE  OwnLines(crontab') = OwnLines(crontab)
  <2>1. v = w
    BY <1>1, <1>3 DEF Install, Shaped
  <2>2. crontab' = Updated(writer[w].does, crontab)
    BY <1>3, <2>1 DEF Install
  <2>3. QED
    BY <2>2, UpdatedOwn DEF Shaped
<1>4. CASE UserSaves
  BY <1>1, <1>4 DEF UserSaves, Shaped
<1>5. QED
  BY <1>2, <1>3, <1>4 DEF Next, CommandReads, TickReads, Reads, GivesUp,
                          UserReads, PackageChanges, vars

(* A command or a cleanup that nobody overtook keeps the user's entries.   *)
THEOREM OwnEntriesKept == Spec => EntriesKept
<1>1. Shaped /\ [Next]_vars => [Keeps]_vars
  BY StepKeeps
<1>2. Spec => [][Keeps]_vars
  BY <1>1, AlwaysShaped, PTL DEF Spec
<1>3. QED
  BY <1>2 DEF EntriesKept, Keeps
=============================================================================
