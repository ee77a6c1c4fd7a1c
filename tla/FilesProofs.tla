----------------------------- MODULE FilesProofs -----------------------------
(***************************************************************************)
(* Proofs about results in files: the view that shows one result at a time *)
(* and the history files its edits are written to, the history's index,    *)
(* and the documents results are saved to.                                 *)
(***************************************************************************)
EXTENDS HistoryStore, SingletonView, ResultDocuments, ScratchPads, SequenceLemmas

(***************************************************************************)
(* Lists: what a filter gives.                                             *)
(***************************************************************************)

\* The recursion of Only has a solution.
LEMMA OnlyExists ==
  ASSUME NEW A, NEW s \in Seq(A), NEW S
  PROVE  \E g : g = [i \in 0 .. Len(s) |->
                       IF i = 0 THEN <<>> ELSE IF s[i] \in S THEN Append(g[i - 1], s[i]) ELSE g[i - 1]]
<1> DEFINE Body(g, i) == IF i = 0 THEN <<>> ELSE IF s[i] \in S THEN Append(g[i - 1], s[i]) ELSE g[i - 1]
           P(n) == \E g : g = [i \in 0 .. n |-> Body(g, i)]
           T == {n \in Nat : P(n)}
<1>1. 0 \in T
  <2> DEFINE g == [i \in 0 .. 0 |-> <<>>]
  <2>1. g = [i \in 0 .. 0 |-> Body(g, i)]
    OBVIOUS
  <2> QED
    BY <2>1
<1>2. ASSUME NEW n \in T PROVE n + 1 \in T
  <2>1. n \in Nat
    OBVIOUS
  <2>2. PICK g : g = [i \in 0 .. n |-> Body(g, i)]
    OBVIOUS
  <2> DEFINE h == [i \in 0 .. (n + 1) |-> IF i = n + 1 THEN Body(g, i) ELSE g[i]]
  <2>3. ASSUME NEW i \in 0 .. (n + 1) PROVE h[i] = Body(h, i)
    <3>1. CASE i = n + 1
      <4>1. i # 0 /\ i - 1 \in 0 .. (n + 1) /\ i - 1 # n + 1 /\ h[i - 1] = g[i - 1]
        BY <2>1, <3>1
      <4> QED
        BY <3>1, <4>1
    <3>2. CASE i # n + 1
      <4>1. i \in 0 .. n /\ h[i] = g[i]
        BY <2>1, <3>2
      <4>2. g[i] = Body(g, i)
        BY <2>2, <4>1
      <4>3. i # 0 => h[i - 1] = g[i - 1]
        BY <2>1, <4>1
      <4> QED
        BY <4>1, <4>2, <4>3
    <3> QED
      BY <3>1, <3>2
  <2>4. h = [i \in 0 .. (n + 1) |-> Body(h, i)]
    BY <2>3
  <2>5. P(n + 1)
    BY <2>4
  <2> HIDE DEF P
  <2> QED
    BY <2>1, <2>5
<1>3. Len(s) \in T
  <2>1. T \in SUBSET Nat
    OBVIOUS
  <2> HIDE DEF T
  <2>2. T = Nat
    BY <1>1, <1>2, <2>1, Induction
  <2> QED
    BY <2>2
<1> QED
  BY <1>3

\* What Only gives: the elements of s that are in S, each as often as in s.
LEMMA OnlyFacts ==
  ASSUME NEW A, NEW s \in Seq(A), NEW S
  PROVE  /\ Only(s, S) \in Seq(A) /\ Len(Only(s, S)) <= Len(s)
         /\ \A i \in 1 .. Len(Only(s, S)) : Only(s, S)[i] \in S /\ \E j \in 1 .. Len(s) : s[j] = Only(s, S)[i]
         /\ \A j \in 1 .. Len(s) : s[j] \in S => \E i \in 1 .. Len(Only(s, S)) : Only(s, S)[i] = s[j]
         /\ (\A i, j \in 1 .. Len(s) : s[i] = s[j] => i = j) =>
              \A i, j \in 1 .. Len(Only(s, S)) : Only(s, S)[i] = Only(s, S)[j] => i = j
<1> DEFINE Rec(g) == g = [i \in 0 .. Len(s) |->
                       IF i = 0 THEN <<>> ELSE IF s[i] \in S THEN Append(g[i - 1], s[i]) ELSE g[i - 1]]
           kept == CHOOSE g : Rec(g)
<1>1. \A i \in 0 .. Len(s) :
         kept[i] = IF i = 0 THEN <<>> ELSE IF s[i] \in S THEN Append(kept[i - 1], s[i]) ELSE kept[i - 1]
  <2>1. \E g : Rec(g)
    BY OnlyExists
  <2>2. Rec(kept)
    <3> HIDE DEF Rec
    <3> QED
      BY <2>1
  <2> HIDE DEF kept
  <2> QED
    BY <2>2
<1>2. Only(s, S) = kept[Len(s)]
  BY DEF Only
<1> HIDE DEF kept
<1> DEFINE Kept(n, k) ==
             /\ k \in Seq(A) /\ Len(k) <= n
             /\ \A i \in 1 .. Len(k) : k[i] \in S /\ \E j \in 1 .. n : s[j] = k[i]
             /\ \A j \in 1 .. n : s[j] \in S => \E i \in 1 .. Len(k) : k[i] = s[j]
             /\ (\A i, j \in 1 .. Len(s) : s[i] = s[j] => i = j) =>
                  \A i, j \in 1 .. Len(k) : k[i] = k[j] => i = j
           Q(n) == n <= Len(s) => Kept(n, kept[n])
           T == {n \in Nat : Q(n)}
<1> Len(s) \in Nat
  OBVIOUS
<1>3. 0 \in T
  <2>1. kept[0] = <<>>
    BY <1>1
  <2>2. <<>> \in Seq(A) /\ Len(<<>>) = 0
    OBVIOUS
  <2>3. Q(0)
    BY <2>1, <2>2
  <2> HIDE DEF Q
  <2> QED
    BY <2>3
<1>4. ASSUME NEW n \in T PROVE n + 1 \in T
  <2>1. n \in Nat /\ Q(n)
    <3> HIDE DEF Q
    <3> QED
      OBVIOUS
  <2> SUFFICES ASSUME n + 1 <= Len(s) PROVE Kept(n + 1, kept[n + 1])
    <3>1. Q(n + 1)
      OBVIOUS
    <3> HIDE DEF Q
    <3> QED
      BY <2>1, <3>1
  <2> HIDE DEF T
  <2>2. Kept(n, kept[n]) /\ n + 1 \in 1 .. Len(s) /\ s[n + 1] \in A /\ Len(s) \in Nat
    <3>1. n <= Len(s) /\ n + 1 \in 1 .. Len(s)
      BY <2>1
    <3>2. Kept(n, kept[n])
      <4> HIDE DEF Kept
      <4> QED
        BY <2>1, <3>1
    <3>3. s[n + 1] \in A
      BY <3>1
    <3> HIDE DEF Kept
    <3> QED
      BY <3>1, <3>2, <3>3
  <2>3. kept[n + 1] = IF s[n + 1] \in S THEN Append(kept[n], s[n + 1]) ELSE kept[n]
    <3>1. n + 1 \in 0 .. Len(s) /\ n + 1 # 0 /\ (n + 1) - 1 = n
      BY <2>1, <2>2
    <3> QED
      BY <1>1, <3>1
  <2> DEFINE k == kept[n]
             x == s[n + 1]
  <2> HIDE DEF k
  <2>4. CASE x \notin S
    <3>1. kept[n + 1] = k
      BY <2>3, <2>4 DEF k
    <3>2. Kept(n, k)
      BY <2>2 DEF k
    <3> QED
      BY <2>1, <2>4, <3>1, <3>2
  <2>5. CASE x \in S
    <3> DEFINE l == Append(k, x)
    <3>1. kept[n + 1] = l
      BY <2>3, <2>5 DEF k
    <3>2. Kept(n, k)
      BY <2>2 DEF k
    <3>3. l \in Seq(A) /\ Len(l) = Len(k) + 1 /\ Len(k) \in Nat
          /\ l[Len(k) + 1] = x /\ \A i \in 1 .. Len(k) : l[i] = k[i]
      BY <2>2, <3>2
    <3> HIDE DEF l
    <3>4. \A i \in 1 .. Len(l) : l[i] \in S /\ \E j \in 1 .. (n + 1) : s[j] = l[i]
      <4> SUFFICES ASSUME NEW i \in 1 .. Len(l) PROVE l[i] \in S /\ \E j \in 1 .. (n + 1) : s[j] = l[i]
        OBVIOUS
      <4>1. CASE i = Len(k) + 1
        BY <2>1, <2>5, <3>3, <4>1
      <4>2. CASE i # Len(k) + 1
        <5>1. i \in 1 .. Len(k) /\ l[i] = k[i]
          BY <3>3, <4>2
        <5>2. PICK j \in 1 .. n : s[j] = k[i]
          BY <3>2, <5>1
        <5> QED
          BY <2>1, <3>2, <5>1, <5>2
      <4> QED
        BY <4>1, <4>2
    <3>5. \A j \in 1 .. (n + 1) : s[j] \in S => \E i \in 1 .. Len(l) : l[i] = s[j]
      <4> SUFFICES ASSUME NEW j \in 1 .. (n + 1), s[j] \in S PROVE \E i \in 1 .. Len(l) : l[i] = s[j]
        OBVIOUS
      <4>1. CASE j = n + 1
        BY <3>3, <4>1
      <4>2. CASE j # n + 1
        <5>1. j \in 1 .. n
          BY <2>1, <4>2
        <5>2. PICK i \in 1 .. Len(k) : k[i] = s[j]
          BY <3>2, <5>1
        <5> QED
          BY <3>3, <5>2
      <4> QED
        BY <4>1, <4>2
    <3>6. ASSUME \A i, j \in 1 .. Len(s) : s[i] = s[j] => i = j
          PROVE  \A i, j \in 1 .. Len(l) : l[i] = l[j] => i = j
      <4>1. ASSUME NEW i \in 1 .. Len(k) PROVE l[i] # x
        <5>1. PICK j \in 1 .. n : s[j] = k[i]
          BY <3>2
        <5>2. j \in 1 .. Len(s) /\ j # n + 1
          BY <2>1, <2>2
        <5> QED
          BY <2>2, <3>3, <3>6, <5>1, <5>2
      <4>2. \A i, j \in 1 .. Len(k) : l[i] = l[j] => i = j
        BY <3>2, <3>3, <3>6
      <4>3. \A i \in 1 .. Len(l) : i \in 1 .. Len(k) \/ (i = Len(k) + 1 /\ l[i] = x)
        BY <3>3
      <4> QED
        BY <4>1, <4>2, <4>3
    <3>7. Len(l) <= n + 1
      BY <2>1, <3>2, <3>3
    <3> QED
      BY <3>1, <3>3, <3>4, <3>5, <3>6, <3>7
  <2> QED
    BY <2>4, <2>5
<1>5. Kept(Len(s), kept[Len(s)])
  <2>1. T \in SUBSET Nat
    OBVIOUS
  <2>2. T = Nat
    <3> HIDE DEF T
    <3> QED
      BY <1>3, <1>4, <2>1, Induction
  <2>3. Q(Len(s))
    <3> HIDE DEF Q
    <3> QED
      BY <2>2
  <2> HIDE DEF Kept
  <2> QED
    BY <2>3
<1> QED
  BY <1>2, <1>5

(***************************************************************************)
(* The view of one result.                                                 *)
(***************************************************************************)

\* Files were made of results, and so was the one behind the view.
FilesAreMade ==
    /\ \A r \in Results : sv.files[r] # None => made[r] # None
    /\ sv.backing # None => sv.files[sv.backing] # None

\* Every file but the one behind what view s shows has the last chart of its
\* result, m being the results as last edited.
OthersAreSaved(s, m) ==
    \A r \in Results :
        s.files[r] # None /\ (s.data # None => s.data.id # r) => s.files[r].chart = m[r].chart

FilesAreOwn(s) == \A r \in Results : s.files[r] # None => s.files[r].id = r

\* What the view shows belongs to the file behind it, and has the last chart.
ShowsItsFile(s, m) ==
    s.data # None => s.backing = s.data.id /\ s.data.chart = m[s.data.id].chart

\* With nothing shown, what the panel has of the file behind the view, and what is
\* to be shown of it, has the last chart.
PanelIsCurrent ==
    sv.data = None /\ sv.backing # None =>
        /\ panel # None /\ panel.id = sv.backing => panel.chart = made[sv.backing].chart
        /\ \A w \in waiting : w.data.id = sv.backing => w.data.chart = made[sv.backing].chart

ViewHolds ==
    ~borrowed =>
        OthersAreSaved(sv, made) /\ FilesAreOwn(sv) /\ ShowsItsFile(sv, made) /\ PanelIsCurrent

SingletonInd == SingletonTypeOK /\ FilesAreMade /\ ViewHolds

LEMMA SingletonIndInit == SingletonInit => SingletonInd
<1> USE SingletonAssumption, DataAssumption
<1> SUFFICES ASSUME SingletonInit PROVE SingletonInd
  OBVIOUS
<1>1. SingletonTypeOK
  <2>1. sv \in View /\ ~sv.open /\ ~sv.drawing /\ ~sv.writing
    BY DEF SingletonInit, View
  <2>2. edits \in 0 .. MaxEdits
    BY DEF SingletonInit
  <2> QED
    BY <2>1, <2>2 DEF SingletonInit, SingletonTypeOK
<1> QED
  BY <1>1 DEF SingletonInit, SingletonInd, FilesAreMade, ViewHolds, OthersAreSaved, FilesAreOwn,
              ShowsItsFile, PanelIsCurrent
-----------------------------------------------------------------------------
\* A view keeps its form: what SingletonTypeOK says of it.
Formed(s) == s \in View /\ (s.open => s.data # None) /\ (s.drawing \/ s.writing => s.open)

LEMMA FlushFacts ==
  ASSUME NEW s, Formed(s)
  PROVE  /\ Formed(Flush(s))
         /\ Flush(s).data = s.data /\ Flush(s).backing = s.backing /\ Flush(s).open = s.open
         /\ Flush(s).mode = s.mode /\ Flush(s).tied = s.tied /\ Flush(s).drawing = s.drawing
         /\ ~Flush(s).writing
         /\ \A r \in Results :
              Flush(s).files[r] = IF r = s.backing /\ s.backing # None /\ s.data # None
                                  THEN s.data ELSE s.files[r]
<1>1. s \in View /\ s.backing \in Results \union {None} /\ s.data \in Data \union {None}
      /\ s.files \in [Results -> Data \union {None}]
  BY DEF Formed, View
<1> DEFINE f == IF s.backing # None /\ s.data # None
                THEN [s.files EXCEPT ![s.backing] = s.data] ELSE s.files
<1>2. f \in [Results -> Data \union {None}]
      /\ \A r \in Results : f[r] = IF r = s.backing /\ s.backing # None /\ s.data # None
                                   THEN s.data ELSE s.files[r]
  BY <1>1
<1>3. Flush(s) = [s EXCEPT !.writing = FALSE, !.files = f]
  BY DEF Flush
<1> HIDE DEF f
<1>4. Flush(s) \in View
  BY <1>1, <1>2, <1>3 DEF View
<1>5. /\ Flush(s).data = s.data /\ Flush(s).backing = s.backing /\ Flush(s).open = s.open
      /\ Flush(s).mode = s.mode /\ Flush(s).tied = s.tied /\ Flush(s).drawing = s.drawing
      /\ Flush(s).writing = FALSE /\ Flush(s).files = f
  BY <1>1, <1>3 DEF View
<1> QED
  BY <1>2, <1>4, <1>5 DEF Formed

LEMMA DisposeFacts ==
  ASSUME NEW s, Formed(s)
  PROVE  /\ Formed(Dispose(s))
         /\ ~s.open => Dispose(s) = s
         /\ s.open => /\ ~Dispose(s).open /\ Dispose(s).data = None /\ Dispose(s).backing = None
                      /\ Dispose(s).files = Flush(s).files
<1>1. CASE ~s.open
  BY <1>1 DEF Dispose
<1>2. CASE s.open
  <2>1. Formed(Flush(s))
    BY FlushFacts
  <2>2. Dispose(s) = [Flush(s) EXCEPT !.open = FALSE, !.data = None, !.backing = None, !.drawing = FALSE]
    BY <1>2 DEF Dispose
  <2> DEFINE t == Flush(s)
  <2>3. t \in View /\ Formed(t) /\ ~t.writing
    BY <2>1, FlushFacts DEF Formed
  <2>4. Dispose(s) = [t EXCEPT !.open = FALSE, !.data = None, !.backing = None, !.drawing = FALSE]
    BY <2>2
  <2> HIDE DEF t
  <2>5. /\ Dispose(s) \in View
        /\ Dispose(s).open = FALSE /\ Dispose(s).data = None /\ Dispose(s).backing = None
        /\ Dispose(s).drawing = FALSE /\ Dispose(s).writing = t.writing /\ Dispose(s).files = t.files
    BY <2>3, <2>4 DEF View
  <2>6. Dispose(s).files = Flush(s).files
    BY <2>5 DEF t
  <2> QED
    BY <1>2, <2>3, <2>5, <2>6 DEF Formed
<1> QED
  BY <1>1, <1>2

LEMMA SetBackingFacts ==
  ASSUME NEW s, Formed(s), NEW b \in Results
  PROVE  /\ Formed(SetBacking(s, b))
         /\ SetBacking(s, b).data = s.data /\ SetBacking(s, b).backing = b
         /\ SetBacking(s, b).files = Flush(s).files
<1> DEFINE t == Flush(s)
<1>1. Formed(t) /\ t \in View /\ t.data = s.data
  BY FlushFacts DEF Formed
<1>2. SetBacking(s, b) = [t EXCEPT !.backing = b]
  BY DEF SetBacking
<1> HIDE DEF t
<1>3. /\ SetBacking(s, b) \in View /\ SetBacking(s, b).data = t.data /\ SetBacking(s, b).backing = b
      /\ SetBacking(s, b).files = t.files /\ SetBacking(s, b).open = t.open
      /\ SetBacking(s, b).drawing = t.drawing /\ SetBacking(s, b).writing = t.writing
  BY <1>1, <1>2 DEF View
<1>4. t.files = Flush(s).files
  BY DEF t
<1> QED
  BY <1>1, <1>3, <1>4 DEF Formed

\* A display replaces the data, and closes the view for a result without tables.
LEMMA ShowFacts ==
  ASSUME NEW s, Formed(s), NEW d \in Data, NEW m \in {"chart", "data", "all"}
  PROVE  /\ Formed(Show(s, d, m))
         /\ \/ /\ Show(s, d, m).data = d /\ Show(s, d, m).backing = s.backing
               /\ Show(s, d, m).files = s.files
            \/ /\ s.open /\ Show(s, d, m).data = None /\ Show(s, d, m).backing = None
               /\ \A r \in Results :
                    Show(s, d, m).files[r] = IF r = s.backing /\ s.backing # None THEN d ELSE s.files[r]
<1> USE DataAssumption
<1> DEFINE t == [s EXCEPT !.data = d]
           u == [s EXCEPT !.data = d, !.open = TRUE, !.mode = m, !.tied = TRUE]
<1>1. s \in View /\ d # None
  BY DEF Formed
<1>2. /\ t \in View /\ t.data = d /\ t.backing = s.backing /\ t.files = s.files /\ t.open = s.open
      /\ t.drawing = s.drawing /\ t.writing = s.writing
  BY <1>1 DEF View
<1>3. Formed(t)
  BY <1>1, <1>2 DEF Formed
<1>4. /\ u \in View /\ u.data = d /\ u.backing = s.backing /\ u.files = s.files /\ u.open = TRUE
  BY <1>1 DEF View
<1>5. Show(s, d, m) = IF d.id \in Empty THEN Dispose(t) ELSE u
  BY DEF Show
<1> HIDE DEF t, u
<1>6. CASE d.id \notin Empty
  BY <1>1, <1>4, <1>5, <1>6 DEF Formed
<1>7. CASE d.id \in Empty /\ ~s.open
  <2>1. Show(s, d, m) = t
    BY <1>2, <1>3, <1>5, <1>7, DisposeFacts
  <2> QED
    BY <1>2, <1>3, <2>1
<1>8. CASE d.id \in Empty /\ s.open
  <2>1. Show(s, d, m) = Dispose(t)
    BY <1>5, <1>8
  <2>2. /\ Formed(Dispose(t)) /\ Dispose(t).data = None /\ Dispose(t).backing = None
        /\ Dispose(t).files = Flush(t).files
    BY <1>2, <1>3, <1>8, DisposeFacts
  <2>3. \A r \in Results :
            Flush(t).files[r] = IF r = s.backing /\ s.backing # None THEN d ELSE s.files[r]
    BY <1>1, <1>2, <1>3, FlushFacts
  <2> QED
    BY <1>8, <2>1, <2>2, <2>3
<1> QED
  BY <1>6, <1>7, <1>8

-----------------------------------------------------------------------------
Holds(s, m) == OthersAreSaved(s, m) /\ FilesAreOwn(s) /\ ShowsItsFile(s, m)

\* Every file has the last chart of its own result.
AllSaved(s, m) ==
    \A r \in Results : s.files[r] # None => s.files[r].id = r /\ s.files[r].chart = m[r].chart

FilesMade(s, m) ==
    /\ \A r \in Results : s.files[r] # None => m[r] # None
    /\ s.backing # None => s.files[s.backing] # None

\* What is pending is written: then every file is as its result.
LEMMA FlushSaves ==
  ASSUME NEW s, NEW m, Formed(s), Holds(s, m)
  PROVE  AllSaved(Flush(s), m)
<1> SUFFICES ASSUME NEW r \in Results, Flush(s).files[r] # None
             PROVE  Flush(s).files[r].id = r /\ Flush(s).files[r].chart = m[r].chart
  BY DEF AllSaved
<1>1. Flush(s).files[r] = IF r = s.backing /\ s.backing # None /\ s.data # None
                          THEN s.data ELSE s.files[r]
  BY FlushFacts
<1>2. CASE s.data # None
  <2>1. s.backing = s.data.id /\ s.data.chart = m[s.data.id].chart
    BY <1>2 DEF Holds, ShowsItsFile
  <2>2. CASE r = s.backing
    BY <1>1, <1>2, <2>1, <2>2, SingletonAssumption
  <2>3. CASE r # s.backing
    BY <1>1, <1>2, <2>1, <2>3 DEF Holds, OthersAreSaved, FilesAreOwn
  <2> QED
    BY <2>2, <2>3
<1>3. CASE s.data = None
  BY <1>1, <1>3 DEF Holds, OthersAreSaved, FilesAreOwn
<1> QED
  BY <1>2, <1>3

LEMMA FlushMade ==
  ASSUME NEW s, NEW m, Formed(s), FilesMade(s, m)
  PROVE  FilesMade(Flush(s), m)
<1>1. /\ Flush(s).backing = s.backing
      /\ \A r \in Results :
              Flush(s).files[r] = IF r = s.backing /\ s.backing # None /\ s.data # None
                                  THEN s.data ELSE s.files[r]
  BY FlushFacts
<1>2. s.backing \in Results \union {None}
  BY DEF Formed, View
<1> QED
  BY <1>1, <1>2 DEF FilesMade

LEMMA DisposeHolds ==
  ASSUME NEW s, NEW m, Formed(s), Holds(s, m)
  PROVE  Holds(Dispose(s), m)
<1>1. CASE ~s.open
  BY <1>1, DisposeFacts
<1>2. CASE s.open
  <2>1. Dispose(s).data = None /\ Dispose(s).files = Flush(s).files
    BY <1>2, DisposeFacts
  <2> QED
    BY <2>1, FlushSaves DEF Holds, OthersAreSaved, FilesAreOwn, ShowsItsFile, AllSaved
<1> QED
  BY <1>1, <1>2

LEMMA DisposeMade ==
  ASSUME NEW s, NEW m, Formed(s), FilesMade(s, m)
  PROVE  FilesMade(Dispose(s), m)
<1>1. CASE ~s.open
  BY <1>1, DisposeFacts
<1>2. CASE s.open
  <2>1. Dispose(s).backing = None /\ Dispose(s).files = Flush(s).files
    BY <1>2, DisposeFacts
  <2> QED
    BY <2>1, FlushMade DEF FilesMade
<1> QED
  BY <1>1, <1>2

\* A result is shown as it is in the file behind the view, when every file is saved.
LEMMA ShowHolds ==
  ASSUME NEW s, NEW m, Formed(s), AllSaved(s, m), NEW d \in Data, NEW mode \in {"chart", "data", "all"},
         s.backing = d.id, d.chart = m[d.id].chart
  PROVE  /\ Holds(Show(s, d, mode), m)
         /\ Show(s, d, mode).data # None \/ Show(s, d, mode).backing = None
<1> USE DataAssumption
<1>1. d # None
  OBVIOUS
<1>2. CASE /\ Show(s, d, mode).data = d /\ Show(s, d, mode).backing = s.backing
           /\ Show(s, d, mode).files = s.files
  BY <1>1, <1>2 DEF Holds, OthersAreSaved, FilesAreOwn, ShowsItsFile, AllSaved
<1>3. CASE /\ Show(s, d, mode).data = None /\ Show(s, d, mode).backing = None
           /\ \A r \in Results :
                Show(s, d, mode).files[r] = IF r = s.backing /\ s.backing # None THEN d ELSE s.files[r]
  BY <1>1, <1>3 DEF Holds, OthersAreSaved, FilesAreOwn, ShowsItsFile, AllSaved
<1> QED
  BY <1>2, <1>3, ShowFacts

LEMMA ShowMade ==
  ASSUME NEW s, NEW m, Formed(s), FilesMade(s, m), NEW d \in Data, NEW mode \in {"chart", "data", "all"}
  PROVE  FilesMade(Show(s, d, mode), m)
<1> USE DataAssumption
<1>1. s.backing \in Results \union {None} /\ d # None
  BY DEF Formed, View
<1>2. CASE /\ Show(s, d, mode).data = d /\ Show(s, d, mode).backing = s.backing
           /\ Show(s, d, mode).files = s.files
  BY <1>2 DEF FilesMade
<1>3. CASE /\ Show(s, d, mode).data = None /\ Show(s, d, mode).backing = None
           /\ \A r \in Results :
                Show(s, d, mode).files[r] = IF r = s.backing /\ s.backing # None THEN d ELSE s.files[r]
  BY <1>1, <1>3 DEF FilesMade
<1> QED
  BY <1>2, <1>3, ShowFacts
-----------------------------------------------------------------------------
\* A result is displayed in the view, or in the panel first.
LEMMA DisplayTyped ==
  ASSUME NEW s, Formed(s), NEW d \in Data, SingletonTypeOK, Display(s, d)
  PROVE  /\ Formed(sv') /\ panel' \in Data \union {None}
         /\ waiting' \in SUBSET [data: Data, next: {"show", "dispose"}]
<1>1. CASE sv' = Beside(s, d) /\ UNCHANGED <<panel, waiting>>
  <2>1. Formed(sv')
    BY <1>1, ShowFacts DEF Beside
  <2> QED
    BY <1>1, <2>1 DEF SingletonTypeOK
<1>2. CASE \E inline \in BOOLEAN :
        /\ sv' = s
        /\ panel' = IF d.id \in Empty THEN None ELSE d
        /\ waiting' = waiting \union
             {[data |-> d, next |-> IF d.chart # NoChart /\ ~inline THEN "show" ELSE "dispose"]}
  BY <1>2 DEF SingletonTypeOK
<1> QED
  BY <1>1, <1>2 DEF Display

LEMMA DisplayMade ==
  ASSUME NEW s, NEW m, Formed(s), FilesMade(s, m), NEW d \in Data, Display(s, d)
  PROVE  FilesMade(sv', m)
<1>1. CASE sv' = Beside(s, d)
  BY <1>1, ShowMade DEF Beside
<1>2. CASE sv' = s
  BY <1>2
<1> QED
  BY <1>1, <1>2 DEF Display

LEMMA DisplayHolds ==
  ASSUME NEW s, NEW m, Formed(s), AllSaved(s, m), NEW d \in Data, Display(s, d), waiting = {},
         s.backing = d.id, d.chart = m[d.id].chart,
         made' = m, waiting' # {} => s.data = None
  PROVE  Holds(sv', made') /\ PanelIsCurrent'
<1>1. CASE sv' = Beside(s, d) /\ UNCHANGED <<panel, waiting>>
  BY <1>1, ShowHolds DEF Beside, PanelIsCurrent
<1>2. CASE \E inline \in BOOLEAN :
        /\ sv' = s
        /\ panel' = IF d.id \in Empty THEN None ELSE d
        /\ waiting' = waiting \union
             {[data |-> d, next |-> IF d.chart # NoChart /\ ~inline THEN "show" ELSE "dispose"]}
  <2>1. sv' = s /\ s.data = None /\ panel' \in {None, d} /\ \A w \in waiting' : w.data = d
    BY <1>2
  <2>2. Holds(s, m)
    BY <2>1 DEF AllSaved, Holds, OthersAreSaved, FilesAreOwn, ShowsItsFile
  <2>3. PanelIsCurrent'
    BY <2>1 DEF PanelIsCurrent
  <2> QED
    BY <2>1, <2>2, <2>3
<1> QED
  BY <1>1, <1>2 DEF Display

-----------------------------------------------------------------------------
LEMMA SingletonTypes ==
  ASSUME SingletonTypeOK
  PROVE  /\ Formed(sv) /\ sv \in View /\ sv.data \in Data \union {None}
         /\ sv.backing \in Results \union {None} /\ sv.files \in [Results -> Data \union {None}]
         /\ panel \in Data \union {None} /\ made \in [Results -> Data \union {None}]
         /\ edits \in 0 .. MaxEdits /\ borrowed \in BOOLEAN
         /\ waiting \subseteq [data: Data, next: {"show", "dispose"}]
  BY DEF SingletonTypeOK, View, Formed

LEMMA FreshIsData == \A r \in Results : Fresh(r) \in Data /\ Fresh(r).id = r
  BY SingletonAssumption DEF Fresh, Data, NoChart

\* A query's result goes to the history, its file behind the view, and is displayed.
LEMMA SingletonIndRun ==
  ASSUME SingletonInd, NEW r \in Results, Run(r)
  PROVE  SingletonInd'
<1> USE SingletonAssumption, DataAssumption
<1> DEFINE x == [sv EXCEPT !.files[r] = Fresh(r)]
           s == SetBacking(x, r)
           d == Fresh(r)
<1>1. /\ made[r] = None /\ waiting = {} /\ made' = [made EXCEPT ![r] = d]
      /\ Display(s, d) /\ borrowed' = (borrowed \/ (waiting' # {} /\ sv.data # None)) /\ UNCHANGED edits
  BY DEF Run
<1>2. SingletonTypeOK /\ FilesMade(sv, made) /\ Formed(sv) /\ sv \in View
  BY SingletonTypes DEF SingletonInd, FilesAreMade, FilesMade
<1>3. d \in Data /\ d.id = r /\ d # None /\ made \in [Results -> Data \union {None}]
  BY <1>2, FreshIsData, SingletonTypes
<1>4. made' \in [Results -> Data \union {None}] /\ made'[r] = d
      /\ \A q \in Results : q # r => made'[q] = made[q]
  BY <1>1, <1>3
<1>5. sv.files[r] = None /\ sv.backing # r
  BY <1>1, <1>2 DEF FilesMade
<1>6. /\ x \in View /\ x.data = sv.data /\ x.backing = sv.backing /\ x.open = sv.open
      /\ x.drawing = sv.drawing /\ x.writing = sv.writing /\ x.files = [sv.files EXCEPT ![r] = d]
  <2>1. sv.files \in [Results -> Data \union {None}]
    BY <1>2 DEF View
  <2>2. [sv.files EXCEPT ![r] = d] \in [Results -> Data \union {None}]
    BY <1>3, <2>1
  <2>3. x = [sv EXCEPT !.files = [sv.files EXCEPT ![r] = d]]
    BY <1>2 DEF View
  <2> HIDE DEF x, d
  <2> QED
    BY <1>2, <2>2, <2>3 DEF View
<1>7. x.files \in [Results -> Data \union {None}] /\ x.files[r] = d
      /\ \A q \in Results : q # r => x.files[q] = sv.files[q]
  BY <1>2, <1>3, <1>6 DEF View
<1> HIDE DEF x, d
<1>8. Formed(x)
  BY <1>2, <1>6 DEF Formed
<1>9. FilesMade(x, made')
  BY <1>2, <1>3, <1>4, <1>5, <1>6, <1>7, SingletonTypes DEF FilesMade
<1>10. /\ Formed(s) /\ s.data = x.data /\ s.backing = r /\ s.files = Flush(x).files
  BY <1>8, SetBackingFacts
<1>11. FilesMade(s, made')
  <2>1. FilesMade(Flush(x), made')
    BY <1>8, <1>9, FlushMade
  <2>2. Flush(x).files[r] = IF r = x.backing /\ x.backing # None /\ x.data # None THEN x.data ELSE x.files[r]
    BY <1>8, FlushFacts
  <2> QED
    BY <1>3, <1>5, <1>6, <1>7, <1>10, <2>1, <2>2 DEF FilesMade
<1> HIDE DEF s
<1>12. SingletonTypeOK'
  <2>1. Formed(sv') /\ panel' \in Data \union {None}
        /\ waiting' \in SUBSET [data: Data, next: {"show", "dispose"}]
    BY <1>1, <1>2, <1>3, <1>10, DisplayTyped
  <2> QED
    BY <1>1, <1>2, <1>4, <2>1 DEF SingletonTypeOK, Formed
<1>13. FilesAreMade'
  <2>1. FilesMade(sv', made')
    BY <1>1, <1>3, <1>10, <1>11, DisplayMade
  <2> QED
    BY <2>1 DEF FilesMade, FilesAreMade
<1>14. ASSUME ~borrowed' PROVE Holds(sv', made') /\ PanelIsCurrent'
  <2>1. ~borrowed /\ (waiting' # {} => sv.data = None)
    BY <1>1, <1>14
  <2>2. Holds(sv, made)
    BY <2>1 DEF SingletonInd, ViewHolds, Holds
  <2>3. sv.data # None => sv.data.id # r /\ sv.data.id \in Results
    BY <1>2, <1>5, <2>2 DEF Holds, ShowsItsFile, View, Data
  <2>4. Holds(x, made')
    BY <1>3, <1>4, <1>6, <1>7, <2>2, <2>3 DEF Holds, OthersAreSaved, FilesAreOwn, ShowsItsFile
  <2>5. AllSaved(Flush(x), made')
    BY <1>8, <2>4, FlushSaves
  <2>6. AllSaved(s, made')
    BY <1>10, <2>5 DEF AllSaved
  <2>7. d.chart = made'[d.id].chart /\ s.backing = d.id /\ s.data = sv.data
    BY <1>3, <1>4, <1>6, <1>10
  <2> QED
    BY <1>1, <1>3, <1>10, <2>1, <2>6, <2>7, DisplayHolds
<1> QED
  BY <1>12, <1>13, <1>14 DEF SingletonInd, ViewHolds, Holds


\* A history item's file becomes the one behind the view; it was read before.
LEMMA SingletonIndOpen ==
  ASSUME SingletonInd, NEW r \in Results, OpenHistory(r)
  PROVE  SingletonInd'
<1> USE SingletonAssumption, DataAssumption
<1> DEFINE s == SetBacking(sv, r)
           d == sv.files[r]
<1>1. /\ d # None /\ waiting = {} /\ Display(s, d) /\ UNCHANGED <<made, edits>>
      /\ borrowed' = (borrowed \/ Unwritten(r) \/ (waiting' # {} /\ sv.data # None))
  BY DEF OpenHistory
<1>2. SingletonTypeOK /\ FilesMade(sv, made) /\ Formed(sv) /\ d \in Data
  BY <1>1, SingletonTypes DEF SingletonInd, FilesAreMade, FilesMade
<1>3. Formed(s) /\ s.data = sv.data /\ s.backing = r /\ s.files = Flush(sv).files
  BY <1>2, SetBackingFacts
<1>4. Flush(sv).files[r] = IF r = sv.backing /\ sv.backing # None /\ sv.data # None
                           THEN sv.data ELSE sv.files[r]
  BY <1>2, FlushFacts
<1>5. FilesMade(s, made)
  <2>1. FilesMade(Flush(sv), made)
    BY <1>2, FlushMade
  <2> QED
    BY <1>1, <1>3, <1>4, <2>1 DEF FilesMade
<1>6. Unwritten(r) \/ sv.backing # r \/ sv.data = None \/ sv.files[r] = sv.data
  BY DEF Unwritten
<1> HIDE DEF s, d
<1>7. SingletonTypeOK'
  <2>1. Formed(sv') /\ panel' \in Data \union {None}
        /\ waiting' \in SUBSET [data: Data, next: {"show", "dispose"}]
    BY <1>1, <1>2, <1>3, DisplayTyped
  <2>2. borrowed' \in BOOLEAN
    BY <1>1
  <2> QED
    BY <1>1, <1>2, <2>1, <2>2 DEF SingletonTypeOK, Formed
<1>8. FilesAreMade'
  <2>1. FilesMade(sv', made')
    BY <1>1, <1>2, <1>3, <1>5, DisplayMade
  <2> QED
    BY <2>1 DEF FilesMade, FilesAreMade
<1>9. ASSUME ~borrowed' PROVE Holds(sv', made') /\ PanelIsCurrent'
  <2>1. ~borrowed /\ ~Unwritten(r) /\ (waiting' # {} => s.data = None)
    BY <1>1, <1>3, <1>9
  <2>2. Holds(sv, made)
    BY <2>1 DEF SingletonInd, ViewHolds, Holds
  <2>3. AllSaved(Flush(sv), made)
    BY <1>2, <2>2, FlushSaves
  <2>4. AllSaved(s, made)
    BY <1>3, <2>3 DEF AllSaved
  <2>5. Flush(sv).files[r] = d
    BY <1>4, <1>6, <2>1 DEF d
  <2>6. d.id = r /\ d.chart = made[r].chart
    BY <1>1, <2>3, <2>5 DEF AllSaved
  <2> QED
    BY <1>1, <1>2, <1>3, <2>1, <2>4, <2>6, DisplayHolds
<1> QED
  BY <1>7, <1>8, <1>9 DEF SingletonInd, ViewHolds, Holds

\* A CodeLens displays a file's result, without the file being set.
LEMMA SingletonIndLens ==
  ASSUME SingletonInd, NEW r \in Results, ShowFromLens(r)
  PROVE  SingletonInd'
<1> USE SingletonAssumption, DataAssumption
<1> DEFINE d == sv.files[r]
<1>1. /\ d # None /\ waiting = {} /\ Display(sv, d) /\ UNCHANGED <<made, edits>>
      /\ borrowed' = (borrowed \/ Unwritten(r) \/ sv.backing # r)
  BY DEF ShowFromLens
<1>2. SingletonTypeOK /\ FilesMade(sv, made) /\ Formed(sv) /\ d \in Data
  BY <1>1, SingletonTypes DEF SingletonInd, FilesAreMade, FilesMade
<1>3. Unwritten(r) \/ sv.backing # r \/ sv.data = None \/ d = sv.data
  BY DEF Unwritten
<1>4. Display(sv, d) => \/ sv' = Beside(sv, d) /\ UNCHANGED <<panel, waiting>>
                        \/ /\ sv' = sv /\ panel' \in {None, d}
                           /\ \A w \in waiting' : w \in waiting \/ w.data = d
  BY DEF Display
<1> HIDE DEF d
<1>5. SingletonTypeOK'
  <2>1. Formed(sv') /\ panel' \in Data \union {None}
        /\ waiting' \in SUBSET [data: Data, next: {"show", "dispose"}]
    BY <1>1, <1>2, DisplayTyped
  <2>2. borrowed' \in BOOLEAN
    BY <1>1
  <2> QED
    BY <1>1, <1>2, <2>1, <2>2 DEF SingletonTypeOK, Formed
<1>6. FilesAreMade'
  <2>1. FilesMade(sv', made')
    BY <1>1, <1>2, DisplayMade
  <2> QED
    BY <2>1 DEF FilesMade, FilesAreMade
<1>7. ASSUME ~borrowed' PROVE Holds(sv', made') /\ PanelIsCurrent'
  <2>1. ~borrowed /\ ~Unwritten(r) /\ sv.backing = r
    BY <1>1, <1>7
  <2>2. Holds(sv, made)
    BY <2>1 DEF SingletonInd, ViewHolds, Holds
  <2>3. AllSaved(sv, made)
    <3> SUFFICES ASSUME NEW q \in Results, sv.files[q] # None
                 PROVE  sv.files[q].id = q /\ sv.files[q].chart = made[q].chart
      BY DEF AllSaved
    <3>1. CASE sv.data # None /\ sv.data.id = q
      BY <1>3, <2>1, <2>2, <3>1 DEF d, Holds, FilesAreOwn, ShowsItsFile
    <3>2. CASE ~(sv.data # None /\ sv.data.id = q)
      BY <2>2, <3>2 DEF Holds, OthersAreSaved, FilesAreOwn
    <3> QED
      BY <3>1, <3>2
  <2>4. d.id = r /\ d.chart = made[r].chart
    BY <1>1, <2>3 DEF d, AllSaved
  <2>5. CASE sv' = Beside(sv, d) /\ UNCHANGED <<panel, waiting>>
    BY <1>1, <1>2, <2>1, <2>3, <2>4, <2>5, ShowHolds DEF Beside, PanelIsCurrent
  <2>6. CASE /\ sv' = sv /\ panel' \in {None, d}
             /\ \A w \in waiting' : w \in waiting \/ w.data = d
    <3>1. PanelIsCurrent'
      BY <1>1, <2>1, <2>4, <2>6 DEF PanelIsCurrent
    <3> QED
      BY <1>1, <2>2, <2>6, <3>1
  <2> QED
    BY <1>1, <1>4, <2>5, <2>6
<1> QED
  BY <1>5, <1>6, <1>7 DEF SingletonInd, ViewHolds, Holds

\* What is displayed next ends a wait for the panel.
LEMMA SingletonIndResume ==
  ASSUME SingletonInd, NEW w \in waiting, Resume(w)
  PROVE  SingletonInd'
<1> USE SingletonAssumption, DataAssumption
<1>1. /\ waiting' = waiting \ {w}
      /\ sv' = IF w.next = "show" THEN Show(sv, w.data, "chart") ELSE Dispose(sv)
      /\ borrowed' = (borrowed \/ (w.next = "show" /\ (sv.data # None \/ sv.backing # w.data.id)))
      /\ UNCHANGED <<panel, made, edits>>
  BY DEF Resume
<1>2. SingletonTypeOK /\ FilesMade(sv, made) /\ Formed(sv) /\ w.data \in Data
  BY SingletonTypes DEF SingletonInd, FilesAreMade, FilesMade
<1>3. Formed(sv')
  BY <1>1, <1>2, ShowFacts, DisposeFacts
<1>4. SingletonTypeOK'
  <2>1. borrowed' \in BOOLEAN
    BY <1>1, <1>2 DEF SingletonTypeOK
  <2> QED
    BY <1>1, <1>2, <1>3, <2>1 DEF SingletonTypeOK, Formed
<1>5. FilesAreMade'
  <2>1. FilesMade(sv', made')
    BY <1>1, <1>2, ShowMade, DisposeMade
  <2> QED
    BY <2>1 DEF FilesMade, FilesAreMade
<1>6. ASSUME ~borrowed' PROVE Holds(sv', made') /\ PanelIsCurrent'
  <2>1. ~borrowed /\ (w.next = "show" => sv.data = None /\ sv.backing = w.data.id)
    BY <1>1, <1>6
  <2>2. Holds(sv, made) /\ PanelIsCurrent
    BY <2>1 DEF SingletonInd, ViewHolds, Holds
  <2>3. CASE w.next = "show"
    <3>1. AllSaved(sv, made)
      BY <2>1, <2>2, <2>3 DEF Holds, OthersAreSaved, FilesAreOwn, AllSaved
    <3>2. w.data.id \in Results
      BY <1>2 DEF Data
    <3>3. w.data.chart = made[w.data.id].chart
      BY <2>1, <2>2, <2>3, <3>2 DEF PanelIsCurrent
    <3>4. Holds(sv', made) /\ (sv'.data # None \/ sv'.backing = None)
      BY <1>1, <1>2, <2>1, <2>3, <3>1, <3>3, ShowHolds
    <3> QED
      BY <1>1, <3>4 DEF PanelIsCurrent
  <2>4. CASE w.next # "show"
    <3>1. Holds(sv', made)
      BY <1>1, <1>2, <2>2, <2>4, DisposeHolds
    <3>2. sv' = sv \/ sv'.backing = None
      BY <1>1, <1>2, <2>4, DisposeFacts
    <3>3. PanelIsCurrent'
      BY <1>1, <2>2, <3>2 DEF PanelIsCurrent
    <3> QED
      BY <1>1, <3>1, <3>3
  <2> QED
    BY <2>3, <2>4
<1> QED
  BY <1>4, <1>5, <1>6 DEF SingletonInd, ViewHolds, Holds

\* Copilot shows a result of its own: whatever the view held is excused.
LEMMA SingletonIndChat ==
  ASSUME SingletonInd, NEW r \in Results, ShowFromChat(r)
  PROVE  SingletonInd'
<1>1. sv' = Show(sv, Fresh(r), "all") /\ borrowed' = TRUE /\ UNCHANGED <<panel, waiting, made, edits>>
  BY DEF ShowFromChat
<1>2. SingletonTypeOK /\ FilesMade(sv, made) /\ Formed(sv) /\ Fresh(r) \in Data
  BY SingletonTypes, FreshIsData DEF SingletonInd, FilesAreMade, FilesMade
<1>3. Formed(sv') /\ FilesMade(sv', made)
  BY <1>1, <1>2, ShowFacts, ShowMade
<1> QED
  BY <1>1, <1>2, <1>3 DEF SingletonInd, SingletonTypeOK, Formed, FilesAreMade, FilesMade, ViewHolds


\* The panel's result is shown with a chart, of the default type if it had none.
LEMMA SingletonIndChart ==
  ASSUME SingletonInd, ChartFromPanel
  PROVE  SingletonInd'
<1> USE SingletonAssumption, DataAssumption
<1> DEFINE d == IF panel.chart = NoChart THEN [panel EXCEPT !.chart = 0] ELSE panel
<1>1. /\ panel # None /\ sv' = Show(sv, d, "chart")
      /\ made' = IF made[d.id] = None THEN made ELSE [made EXCEPT ![d.id] = d]
      /\ borrowed' = (borrowed \/ sv.data # None \/ sv.backing # d.id)
      /\ UNCHANGED <<panel, waiting, edits>>
  BY DEF ChartFromPanel
<1>2. SingletonTypeOK /\ FilesMade(sv, made) /\ Formed(sv) /\ panel \in Data
      /\ made \in [Results -> Data \union {None}]
  BY <1>1, SingletonTypes DEF SingletonInd, FilesAreMade, FilesMade
<1>3. d \in Data /\ d.id = panel.id /\ d.id \in Results /\ d # None
      /\ (panel.chart # NoChart => d = panel)
  BY <1>2 DEF Data
<1> HIDE DEF d
<1>4. made' \in [Results -> Data \union {None}]
      /\ \A r \in Results : made'[r] = IF r = d.id /\ made[r] # None THEN d ELSE made[r]
  BY <1>1, <1>2, <1>3
<1>5. Formed(sv')
  BY <1>1, <1>2, <1>3, ShowFacts
<1>6. SingletonTypeOK'
  <2>1. borrowed' \in BOOLEAN
    BY <1>1
  <2> QED
    BY <1>1, <1>2, <1>4, <1>5, <2>1 DEF SingletonTypeOK, Formed
<1>7. FilesAreMade'
  <2>1. FilesMade(sv', made)
    BY <1>1, <1>2, <1>3, ShowMade
  <2> QED
    BY <1>3, <1>4, <2>1 DEF FilesMade, FilesAreMade
<1>8. ASSUME ~borrowed' PROVE Holds(sv', made') /\ PanelIsCurrent'
  <2>1. ~borrowed /\ sv.data = None /\ sv.backing = d.id /\ ~sv.open
    BY <1>1, <1>2, <1>8 DEF Formed
  <2>2. Holds(sv, made)
    BY <2>1 DEF SingletonInd, ViewHolds, Holds
  <2>3. sv'.data = d /\ sv'.backing = d.id /\ sv'.files = sv.files
    BY <1>1, <1>2, <1>3, <2>1, ShowFacts
  <2>4. made'[d.id] = d
    BY <1>2, <1>3, <1>4, <2>1 DEF FilesMade
  <2>5. Holds(sv', made')
    BY <1>3, <1>4, <2>1, <2>2, <2>3, <2>4 DEF Holds, OthersAreSaved, FilesAreOwn, ShowsItsFile
  <2> QED
    BY <1>3, <2>3, <2>5 DEF PanelIsCurrent
<1> QED
  BY <1>6, <1>7, <1>8 DEF SingletonInd, ViewHolds, Holds

\* The view is closed: what is pending is written.
LEMMA SingletonIndClose ==
  ASSUME SingletonInd, CloseView
  PROVE  SingletonInd'
<1>1. sv.open /\ sv' = Dispose(sv) /\ UNCHANGED <<panel, waiting, made, edits, borrowed>>
  BY DEF CloseView
<1>2. SingletonTypeOK /\ FilesMade(sv, made) /\ Formed(sv)
  BY SingletonTypes DEF SingletonInd, FilesAreMade, FilesMade
<1>3. Formed(sv') /\ FilesMade(sv', made) /\ sv'.backing = None
  BY <1>1, <1>2, DisposeFacts, DisposeMade
<1>4. SingletonTypeOK' /\ FilesAreMade'
  BY <1>1, <1>2, <1>3 DEF SingletonTypeOK, Formed, FilesAreMade, FilesMade
<1>5. ASSUME ~borrowed' PROVE Holds(sv', made') /\ PanelIsCurrent'
  <2>1. Holds(sv, made)
    BY <1>1, <1>5 DEF SingletonInd, ViewHolds, Holds
  <2> QED
    BY <1>1, <1>2, <1>3, <2>1, DisposeHolds DEF PanelIsCurrent
<1> QED
  BY <1>4, <1>5 DEF SingletonInd, ViewHolds, Holds

\* The view is closed and made anew, with the same result and file.
LEMMA SingletonIndMove ==
  ASSUME SingletonInd, Move
  PROVE  SingletonInd'
<1> USE SingletonAssumption, DataAssumption
<1> DEFINE t == Dispose(sv)
           s == [t EXCEPT !.data = sv.data, !.backing = sv.backing]
<1>1. sv.open /\ sv' = Show(s, sv.data, sv.mode) /\ UNCHANGED <<panel, waiting, made, edits, borrowed>>
  BY DEF Move
<1>2. SingletonTypeOK /\ FilesMade(sv, made) /\ Formed(sv) /\ sv.data \in Data
      /\ sv.mode \in {"chart", "data", "all"} /\ sv.backing \in Results \union {None}
  BY <1>1, SingletonTypes DEF SingletonInd, FilesAreMade, FilesMade, Formed, View
<1>3. Formed(t) /\ ~t.open /\ t.files = Flush(sv).files /\ t \in View
  BY <1>1, <1>2, DisposeFacts DEF Formed
<1> HIDE DEF t
<1>4. /\ s \in View /\ s.data = sv.data /\ s.backing = sv.backing /\ s.files = Flush(sv).files
      /\ ~s.open /\ s.drawing = t.drawing /\ s.writing = t.writing
  BY <1>2, <1>3 DEF View
<1>5. Formed(s)
  BY <1>3, <1>4 DEF Formed
<1> HIDE DEF s
<1>6. FilesMade(s, made)
  <2>1. FilesMade(Flush(sv), made) /\ Flush(sv).backing = sv.backing
    BY <1>2, FlushMade, FlushFacts
  <2> QED
    BY <1>4, <2>1 DEF FilesMade
<1>7. Formed(sv') /\ FilesMade(sv', made)
  BY <1>1, <1>2, <1>5, <1>6, ShowFacts, ShowMade
<1>8. SingletonTypeOK' /\ FilesAreMade'
  BY <1>1, <1>2, <1>7 DEF SingletonTypeOK, Formed, FilesAreMade, FilesMade
<1>9. ASSUME ~borrowed' PROVE Holds(sv', made') /\ PanelIsCurrent'
  <2>1. Holds(sv, made)
    BY <1>1, <1>9 DEF SingletonInd, ViewHolds, Holds
  <2>2. AllSaved(Flush(sv), made)
    BY <1>2, <2>1, FlushSaves
  <2>3. AllSaved(s, made)
    BY <1>4, <2>2 DEF AllSaved
  <2>4. s.backing = sv.data.id /\ sv.data.chart = made[sv.data.id].chart
    BY <1>2, <1>4, <2>1 DEF Holds, ShowsItsFile
  <2>5. Holds(sv', made) /\ (sv'.data # None \/ sv'.backing = None)
    BY <1>1, <1>2, <1>5, <2>3, <2>4, ShowHolds
  <2> QED
    BY <1>1, <2>5 DEF PanelIsCurrent
<1> QED
  BY <1>8, <1>9 DEF SingletonInd, ViewHolds, Holds

\* The timer writes what is pending.
LEMMA SingletonIndWrite ==
  ASSUME SingletonInd, WriteBack
  PROVE  SingletonInd'
<1>1. sv.writing /\ sv' = Flush(sv) /\ UNCHANGED <<panel, waiting, made, edits, borrowed>>
  BY DEF WriteBack
<1>2. SingletonTypeOK /\ FilesMade(sv, made) /\ Formed(sv) /\ sv.open /\ sv.data # None
  BY <1>1, SingletonTypes DEF SingletonInd, FilesAreMade, FilesMade, Formed
<1>3. Formed(sv') /\ FilesMade(sv', made) /\ sv'.data = sv.data /\ sv'.backing = sv.backing
  BY <1>1, <1>2, FlushFacts, FlushMade
<1>4. SingletonTypeOK' /\ FilesAreMade'
  BY <1>1, <1>2, <1>3 DEF SingletonTypeOK, Formed, FilesAreMade, FilesMade
<1>5. ASSUME ~borrowed' PROVE Holds(sv', made') /\ PanelIsCurrent'
  <2>1. Holds(sv, made)
    BY <1>1, <1>5 DEF SingletonInd, ViewHolds, Holds
  <2>2. AllSaved(sv', made)
    BY <1>1, <1>2, <2>1, FlushSaves
  <2>3. Holds(sv', made)
    BY <1>3, <2>1, <2>2 DEF Holds, OthersAreSaved, FilesAreOwn, ShowsItsFile, AllSaved
  <2> QED
    BY <1>1, <1>2, <1>3, <2>3 DEF PanelIsCurrent
<1> QED
  BY <1>4, <1>5 DEF SingletonInd, ViewHolds, Holds

-----------------------------------------------------------------------------
\* What is shown is changed, and the result with it.
LEMMA EditHolds ==
  ASSUME NEW s, NEW m, Holds(s, m), NEW t, NEW n, s.data # None, t.data # None,
         t.data.id = s.data.id, t.files = s.files, t.backing = s.backing,
         t.data.chart = n[t.data.id].chart, \A r \in Results \ {t.data.id} : n[r] = m[r]
  PROVE  Holds(t, n)
BY DEF Holds, OthersAreSaved, FilesAreOwn, ShowsItsFile

LEMMA WithOptionsFacts ==
  ASSUME NEW s, Formed(s), s.data # None, NEW c \in {NoChart} \union (0 .. MaxEdits)
  PROVE  /\ Formed(WithOptions(s, c))
         /\ WithOptions(s, c).data \in Data /\ WithOptions(s, c).data.id = s.data.id
         /\ WithOptions(s, c).data.chart = c
         /\ WithOptions(s, c).files = s.files /\ WithOptions(s, c).backing = s.backing
         /\ WithOptions(s, c).open = s.open /\ WithOptions(s, c).drawing = s.drawing
         /\ WithOptions(s, c).writing = s.writing /\ WithOptions(s, c).mode = s.mode
<1> USE DataAssumption
<1> DEFINE d == [s.data EXCEPT !.chart = c]
           b == s.tied /\ s.data.layout > 0
<1>1. s \in View /\ s.data \in Data
  BY DEF Formed, View
<1>2. d \in Data /\ d.id = s.data.id /\ d.chart = c /\ b \in BOOLEAN
  BY <1>1 DEF Data
<1>3. WithOptions(s, c) = [s EXCEPT !.data = d, !.tied = b]
  BY <1>1 DEF WithOptions, View
<1> HIDE DEF d, b
<1>4. /\ WithOptions(s, c) \in View /\ WithOptions(s, c).data = d
      /\ WithOptions(s, c).files = s.files /\ WithOptions(s, c).backing = s.backing
      /\ WithOptions(s, c).open = s.open /\ WithOptions(s, c).drawing = s.drawing
      /\ WithOptions(s, c).writing = s.writing /\ WithOptions(s, c).mode = s.mode
  BY <1>1, <1>2, <1>3 DEF View
<1>5. d # None
  BY <1>2
<1> QED
  BY <1>2, <1>4, <1>5 DEF d, Formed

\* The last edit of a result.
LEMMA MadeChart ==
  ASSUME SingletonTypeOK, NEW i \in Results, made[i] # None, NEW c \in {NoChart} \union (0 .. MaxEdits)
  PROVE  /\ [made EXCEPT ![i].chart = c] \in [Results -> Data \union {None}]
         /\ [made EXCEPT ![i].chart = c][i].chart = c /\ [made EXCEPT ![i].chart = c][i] # None
         /\ \A r \in Results \ {i} : [made EXCEPT ![i].chart = c][r] = made[r]
<1> USE DataAssumption
<1> DEFINE d == [made[i] EXCEPT !.chart = c]
<1>1. made \in [Results -> Data \union {None}]
  BY SingletonTypes
<1>2. d \in Data /\ d.chart = c /\ d # None
  BY <1>1 DEF Data
<1>3. [made EXCEPT ![i].chart = c] = [made EXCEPT ![i] = d]
  BY <1>1
<1> HIDE DEF d
<1> QED
  BY <1>1, <1>2, <1>3

\* An edit of what is shown keeps the invariant: t is the view after it.
LEMMA SingletonIndEdit ==
  ASSUME SingletonInd, sv.data # None, NEW t, Formed(t), t.data # None, t.data.id = sv.data.id,
         t.files = sv.files, t.backing = sv.backing,
         edits' \in 0 .. MaxEdits, made' \in [Results -> Data \union {None}],
         made[sv.data.id] = None => made' = made,
         made[sv.data.id] # None =>
            /\ made'[sv.data.id] # None
            /\ ~borrowed => t.data.chart = made'[sv.data.id].chart
            /\ \A r \in Results \ {sv.data.id} : made'[r] = made[r],
         sv' = t \/ sv' = Dispose(t),
         UNCHANGED <<panel, waiting, borrowed>>
  PROVE  SingletonInd'
<1>1. SingletonTypeOK /\ FilesMade(sv, made) /\ Formed(sv) /\ sv.data.id \in Results
  <2>1. sv.data \in Data
    BY SingletonTypes DEF SingletonInd
  <2> QED
    BY <2>1, SingletonTypes DEF SingletonInd, FilesAreMade, FilesMade, Data
<1>2. FilesMade(t, made')
  BY <1>1 DEF FilesMade
<1>3. Formed(sv') /\ FilesMade(sv', made') /\ (sv'.data # None \/ sv'.backing = None)
  BY <1>1, <1>2, DisposeFacts, DisposeMade
<1>4. SingletonTypeOK' /\ FilesAreMade'
  BY <1>1, <1>3 DEF SingletonTypeOK, Formed, FilesAreMade, FilesMade
<1>5. ASSUME ~borrowed' PROVE Holds(sv', made') /\ PanelIsCurrent'
  <2>1. ~borrowed /\ Holds(sv, made)
    BY <1>5 DEF SingletonInd, ViewHolds, Holds
  <2>2. sv.backing = sv.data.id
    BY <2>1 DEF Holds, ShowsItsFile
  <2>3. made[sv.data.id] # None
    BY <1>1, <2>2, SingletonAssumption DEF FilesMade
  <2>4. Holds(t, made')
    BY <2>1, <2>3, EditHolds
  <2>5. Holds(sv', made')
    BY <2>4, DisposeHolds
  <2> QED
    BY <1>3, <2>5 DEF PanelIsCurrent
<1> QED
  BY <1>4, <1>5 DEF SingletonInd, ViewHolds, Holds

LEMMA SingletonIndOptions ==
  ASSUME SingletonInd, ChangeOptions
  PROVE  SingletonInd'
<1> USE SingletonAssumption, DataAssumption
<1> DEFINE o == WithOptions(sv, edits')
           t == [o EXCEPT !.drawing = TRUE, !.writing = @ \/ sv.backing # None]
<1>1. /\ sv.open /\ edits < MaxEdits /\ edits' = edits + 1 /\ sv' = t
      /\ made' = IF made[sv.data.id] = None THEN made
                 ELSE [made EXCEPT ![sv.data.id].chart = edits']
      /\ UNCHANGED <<panel, waiting, borrowed>>
  BY DEF ChangeOptions
<1>2. SingletonTypeOK /\ Formed(sv) /\ sv.data # None /\ edits' \in 0 .. MaxEdits
      /\ sv.data.id \in Results
  <2>1. SingletonTypeOK /\ Formed(sv) /\ sv.data # None /\ edits \in 0 .. MaxEdits /\ sv.data \in Data
    BY <1>1, SingletonTypes DEF SingletonInd, Formed
  <2> QED
    BY <1>1, <2>1 DEF Data
<1>3. /\ Formed(o) /\ o \in View /\ o.data \in Data /\ o.data.id = sv.data.id /\ o.data.chart = edits'
      /\ o.files = sv.files /\ o.backing = sv.backing /\ o.open
  <2>1. edits' \in {NoChart} \union (0 .. MaxEdits)
    BY <1>2
  <2>2. /\ Formed(o) /\ o.data \in Data /\ o.data.id = sv.data.id /\ o.data.chart = edits'
        /\ o.files = sv.files /\ o.backing = sv.backing /\ o.open = sv.open
    BY <1>2, <2>1, WithOptionsFacts
  <2> QED
    BY <1>1, <2>2 DEF Formed
<1> HIDE DEF o
<1>4. /\ t \in View /\ t.data = o.data /\ t.files = o.files /\ t.backing = o.backing /\ t.open = o.open
  BY <1>3 DEF View
<1>5. Formed(t) /\ t.data # None
  BY <1>3, <1>4 DEF Formed
<1> HIDE DEF t
<1>6. made' \in [Results -> Data \union {None}]
  BY <1>1, <1>2, MadeChart, SingletonTypes
<1>7. made[sv.data.id] # None =>
        /\ made'[sv.data.id] # None /\ made'[sv.data.id].chart = edits'
        /\ \A r \in Results \ {sv.data.id} : made'[r] = made[r]
  BY <1>1, <1>2, MadeChart
<1> QED
  BY <1>1, <1>2, <1>3, <1>4, <1>5, <1>6, <1>7, SingletonIndEdit

LEMMA SingletonIndRemove ==
  ASSUME SingletonInd, RemoveChart
  PROVE  SingletonInd'
<1> USE SingletonAssumption, DataAssumption
<1> DEFINE o == WithOptions(sv, NoChart)
           t == [o EXCEPT !.writing = sv.backing # None \/ @]
<1>1. /\ sv.open /\ (sv' = t \/ sv' = Dispose(t))
      /\ made' = IF made[sv.data.id] = None THEN made
                 ELSE [made EXCEPT ![sv.data.id].chart = NoChart]
      /\ UNCHANGED <<panel, waiting, edits, borrowed>>
  BY DEF RemoveChart
<1>2. SingletonTypeOK /\ Formed(sv) /\ sv.data # None /\ edits' \in 0 .. MaxEdits
      /\ sv.data.id \in Results
  <2>1. SingletonTypeOK /\ Formed(sv) /\ sv.data # None /\ edits \in 0 .. MaxEdits /\ sv.data \in Data
    BY <1>1, SingletonTypes DEF SingletonInd, Formed
  <2> QED
    BY <1>1, <2>1 DEF Data
<1>3. /\ Formed(o) /\ o \in View /\ o.data \in Data /\ o.data.id = sv.data.id /\ o.data.chart = NoChart
      /\ o.files = sv.files /\ o.backing = sv.backing /\ o.open
  <2>1. NoChart \in {NoChart} \union (0 .. MaxEdits)
    OBVIOUS
  <2> QED
    BY <1>1, <1>2, <2>1, WithOptionsFacts DEF Formed
<1> HIDE DEF o
<1>4. /\ t \in View /\ t.data = o.data /\ t.files = o.files /\ t.backing = o.backing /\ t.open = o.open
  BY <1>3 DEF View
<1>5. Formed(t) /\ t.data # None
  BY <1>3, <1>4 DEF Formed
<1> HIDE DEF t
<1>6. made' \in [Results -> Data \union {None}]
  BY <1>1, <1>2, MadeChart, SingletonTypes
<1>7. made[sv.data.id] # None =>
        /\ made'[sv.data.id] # None /\ made'[sv.data.id].chart = NoChart
        /\ \A r \in Results \ {sv.data.id} : made'[r] = made[r]
  BY <1>1, <1>2, MadeChart
<1> QED
  BY <1>1, <1>2, <1>3, <1>4, <1>5, <1>6, <1>7, SingletonIndEdit

LEMMA SingletonIndRedraw ==
  ASSUME SingletonInd, Redraw
  PROVE  SingletonInd'
<1> USE SingletonAssumption, DataAssumption
<1> DEFINE v == [sv EXCEPT !.drawing = FALSE]
           t == IF v.data.chart = NoChart THEN v ELSE WithOptions(v, v.data.chart)
<1>1. sv.drawing /\ sv' = t /\ UNCHANGED <<panel, waiting, made, edits, borrowed>>
  BY DEF Redraw
<1>2. SingletonTypeOK /\ Formed(sv) /\ sv \in View /\ sv.data \in Data /\ edits' \in 0 .. MaxEdits
      /\ made \in [Results -> Data \union {None}]
  BY <1>1, SingletonTypes DEF SingletonInd, Formed
<1>3. /\ v \in View /\ v.data = sv.data /\ v.files = sv.files /\ v.backing = sv.backing
      /\ v.open = sv.open /\ v.writing = sv.writing
  BY <1>2 DEF View
<1>4. Formed(v) /\ sv.data # None
  BY <1>1, <1>2, <1>3 DEF Formed
<1> HIDE DEF v
<1>5. v.data.chart \in {NoChart} \union (0 .. MaxEdits) /\ v.data # None
  BY <1>2, <1>3, <1>4 DEF Data
<1>6. /\ Formed(t) /\ t.data # None /\ t.data.id = sv.data.id /\ t.data.chart = sv.data.chart
      /\ t.files = sv.files /\ t.backing = sv.backing
  <2>1. CASE v.data.chart = NoChart
    BY <1>3, <1>4, <2>1
  <2>2. CASE v.data.chart # NoChart
    <3> DEFINE x == v.data.chart
    <3>1. t = WithOptions(v, x)
      BY <2>2
    <3>2. x \in {NoChart} \union (0 .. MaxEdits) /\ x = sv.data.chart
      BY <1>3, <1>5
    <3> HIDE DEF t, x
    <3>3. LET o == WithOptions(v, x) IN
          /\ Formed(o) /\ o.data \in Data /\ o.data.id = v.data.id /\ o.data.chart = x
          /\ o.files = v.files /\ o.backing = v.backing
      BY <1>4, <1>5, <3>2, WithOptionsFacts
    <3>4. /\ Formed(t) /\ t.data \in Data /\ t.data.id = v.data.id /\ t.data.chart = x
          /\ t.files = v.files /\ t.backing = v.backing
      BY <3>1, <3>3
    <3> QED
      BY <1>3, <3>2, <3>4
  <2> QED
    BY <2>1, <2>2
<1> HIDE DEF t
<1>7. ~borrowed => (made[sv.data.id] # None => t.data.chart = made[sv.data.id].chart)
  BY <1>4, <1>6 DEF SingletonInd, ViewHolds, ShowsItsFile
<1> QED
  BY <1>1, <1>2, <1>4, <1>6, <1>7, SingletonIndEdit

LEMMA SingletonIndLayout ==
  ASSUME SingletonInd, ChangeLayout
  PROVE  SingletonInd'
<1> USE SingletonAssumption, DataAssumption
<1> DEFINE d == [sv.data EXCEPT !.layout = IF sv.tied THEN edits' ELSE @]
           b == sv.writing \/ sv.backing # None
           t == [sv EXCEPT !.data = d, !.writing = b]
           n == [made[sv.data.id] EXCEPT !.layout = edits']
<1>1. /\ sv.open /\ edits < MaxEdits /\ edits' = edits + 1
      /\ sv' = [sv EXCEPT !.data.layout = IF sv.tied THEN edits' ELSE @,
                          !.writing = @ \/ sv.backing # None]
      /\ made' = IF made[sv.data.id] = None THEN made
                 ELSE [made EXCEPT ![sv.data.id].layout = edits']
      /\ UNCHANGED <<panel, waiting, borrowed>>
  BY DEF ChangeLayout
<1>2. SingletonTypeOK /\ Formed(sv) /\ sv \in View /\ sv.data \in Data /\ edits \in 0 .. MaxEdits
      /\ made \in [Results -> Data \union {None}] /\ sv.data # None
  BY <1>1, SingletonTypes DEF SingletonInd, Formed
<1>3. edits' \in 0 .. MaxEdits
  BY <1>1, <1>2
<1>4. sv' = t
  BY <1>1, <1>2 DEF View
<1>5. d \in Data /\ d.id = sv.data.id /\ d.chart = sv.data.chart /\ d.id \in Results /\ b \in BOOLEAN
  BY <1>2, <1>3 DEF Data, View
<1>6. made[d.id] # None => n \in Data /\ n.chart = made[d.id].chart /\ n # None
  BY <1>2, <1>3, <1>5 DEF Data
<1>7. made' = IF made[d.id] = None THEN made ELSE [made EXCEPT ![d.id] = n]
  BY <1>1, <1>2, <1>5
<1> HIDE DEF d, b, n
<1>8. /\ t \in View /\ t.data = d /\ t.files = sv.files /\ t.backing = sv.backing /\ t.open = sv.open
      /\ t.drawing = sv.drawing
  BY <1>2, <1>5 DEF View
<1>9. Formed(t) /\ t.data # None
  BY <1>1, <1>5, <1>8 DEF Formed
<1> HIDE DEF t
<1>10. /\ made' \in [Results -> Data \union {None}]
       /\ made[d.id] # None => /\ made'[d.id] = n
                               /\ \A r \in Results \ {d.id} : made'[r] = made[r]
  BY <1>2, <1>5, <1>6, <1>7
<1>11. ~borrowed => sv.data.chart = made[d.id].chart
  BY <1>2, <1>5 DEF SingletonInd, ViewHolds, ShowsItsFile
<1>12. made[sv.data.id] # None =>
         /\ made'[sv.data.id] # None
         /\ ~borrowed => t.data.chart = made'[sv.data.id].chart
         /\ \A r \in Results \ {sv.data.id} : made'[r] = made[r]
  BY <1>5, <1>6, <1>8, <1>10, <1>11
<1>13. /\ UNCHANGED <<panel, waiting, borrowed>>
       /\ made[sv.data.id] = None => made' = made
  BY <1>1
<1> QED
  BY <1>2, <1>3, <1>4, <1>5, <1>8, <1>9, <1>10, <1>12, <1>13, SingletonIndEdit

LEMMA SingletonIndNext == SingletonInd /\ [SingletonNext]_singletonVars => SingletonInd'
<1> SUFFICES ASSUME SingletonInd, [SingletonNext]_singletonVars PROVE SingletonInd'
  OBVIOUS
<1>1. CASE UNCHANGED singletonVars
  BY <1>1 DEF singletonVars, SingletonInd, SingletonTypeOK, FilesAreMade, ViewHolds, OthersAreSaved,
              FilesAreOwn, ShowsItsFile, PanelIsCurrent
<1> QED
  BY <1>1, SingletonIndRun, SingletonIndOpen, SingletonIndLens, SingletonIndChat, SingletonIndResume,
     SingletonIndChart, SingletonIndClose, SingletonIndMove, SingletonIndOptions, SingletonIndRedraw,
     SingletonIndLayout, SingletonIndWrite, SingletonIndRemove DEF SingletonNext

\* No result is written to the history file of another, and a chart's edits are in its
\* file once another result is shown, whatever is displayed, edited, moved and closed
\* in whatever order (flushSingletonWriteBack before every change of result or file),
\* unless a display did without its file (see borrowed).
THEOREM FilesHoldTheirResults == SingletonSpec => []FilesAreSound
<1>1. SingletonInd => FilesAreSound
  BY DEF SingletonInd, FilesAreSound, ViewHolds, OthersAreSaved, FilesAreOwn, UnborrowedFilesHold,
         FileHoldsItsResult, ChartEditsAreSaved
<1> QED
  BY <1>1, SingletonIndInit, SingletonIndNext, PTL DEF SingletonSpec


(***************************************************************************)
(* The history's index and files.                                          *)
(***************************************************************************)

\* What a call under way has at each point.
CallFits(x) ==
    x # None =>
        /\ Len(x.seen) <= MaxEntries
        /\ x.op = "add" => x.name # None /\ x.at \in {"write", "read", "put"}
        /\ x.op = "delete" => x.name # None /\ x.at \in {"unlink", "put"} /\ x.left = <<>>
        /\ x.op = "clear" => x.name = None /\ x.at = "put"

CallsFit == \A c \in Calls : CallFits(calls[c])

\* The index is idx, the files are fs, in what is stated of a call or of both.
Indexed(n, idx) == \E i \in 1 .. Len(idx) : idx[i] = n

Adds(x) == x # None /\ x.op = "add"
HasWritten(x) == Adds(x) /\ x.at \in {"read", "put"}

\* Call x has deleted the file of the index's entry i, and has yet to write the index.
Lacks(x, i, idx) ==
    /\ x # None /\ x.at = "put"
    /\ x.op = "add" => x.left = <<>> /\ i = MaxEntries
    /\ x.op = "delete" => x.name = idx[i]
    /\ x.op = "clear" => \A k \in 1 .. Len(x.left) : x.left[k] # idx[i]

NamedOnce == \A i, j \in 1 .. Len(index) : index[i] = index[j] => i = j

\* A result that is being added has a name of its own.
NewNames ==
    \A c \in Calls : Adds(calls[c]) =>
        /\ ~Indexed(calls[c].name, index)
        /\ \A d \in Calls \ {c} : calls[d] # None => calls[d].name # calls[c].name
        /\ HasWritten(calls[c]) => calls[c].name \in files

\* What is in the files only is being added, what is in the index only is being taken out.
FilesAreIndexed ==
    \A n \in files : Indexed(n, index) \/ \E c \in Calls : HasWritten(calls[c]) /\ calls[c].name = n
IndexIsFiled ==
    \A i \in 1 .. Len(index) : index[i] \notin files => \E c \in Calls : Lacks(calls[c], i, index)

\* What call x is to write to the index, and to delete before, is of the index as it is.
PutFits(x, idx, fs) ==
    x # None /\ x.at = "put" =>
        /\ x.seen = idx
        /\ x.op = "delete" => x.name \notin fs
        /\ x.op = "add" =>
              IF x.left = <<>> THEN Len(idx) = MaxEntries => idx[MaxEntries] \notin fs
              ELSE Len(idx) = MaxEntries /\ x.left = <<idx[MaxEntries]>>
        /\ x.op = "clear" =>
              /\ \A i \in 1 .. Len(idx) :
                    idx[i] \in fs => \E k \in 1 .. Len(x.left) : x.left[k] = idx[i]
              /\ \A k \in 1 .. Len(x.left) : Indexed(x.left[k], idx)
              /\ \A k, l \in 1 .. Len(x.left) : x.left[k] = x.left[l] => k = l
PutsFit == \A c \in Calls : PutFits(calls[c], index, files)

HistoryFits ==
    ~crossed => NamedOnce /\ NewNames /\ FilesAreIndexed /\ IndexIsFiled /\ PutsFit

HistoryInd == HistoryTypeOK /\ IndexIsBounded /\ CallsFit /\ HistoryFits

LEMMA HistoryIndInit == HistoryInit => HistoryInd
<1> SUFFICES ASSUME HistoryInit PROVE HistoryInd
  OBVIOUS
<1>1. index = <<>> /\ files = {} /\ calls = [c \in Calls |-> None] /\ newest = None
      /\ listed = {} /\ crossed = FALSE /\ crashes = 0
  BY DEF HistoryInit
<1>2. Len(index) = 0 /\ index \in Seq(Names)
  BY <1>1
<1>3. HistoryTypeOK
  <2>1. crashes \in 0 .. MaxCrashes
    BY <1>1, HistoryAssumption
  <2> QED
    BY <1>1, <1>2, <2>1 DEF HistoryTypeOK
<1>4. IndexIsBounded
  BY <1>2, HistoryAssumption DEF IndexIsBounded
<1>5. CallsFit /\ NewNames /\ PutsFit
  BY <1>1 DEF CallsFit, CallFits, NewNames, Adds, PutsFit, PutFits
<1>6. NamedOnce /\ FilesAreIndexed /\ IndexIsFiled
  BY <1>1, <1>2 DEF NamedOnce, FilesAreIndexed, IndexIsFiled
<1> QED
  BY <1>3, <1>4, <1>5, <1>6 DEF HistoryInd, HistoryFits
-----------------------------------------------------------------------------
LEMMA HistoryTypes ==
  ASSUME HistoryTypeOK
  PROVE  /\ index \in Seq(Names) /\ Len(index) \in Nat /\ \A i \in 1 .. Len(index) : index[i] \in Names
         /\ files \subseteq Names /\ calls \in [Calls -> HistoryCall \union {None}]
         /\ newest \in Names \union {None} /\ listed \subseteq Names /\ crossed \in BOOLEAN
         /\ crashes \in 0 .. MaxCrashes
         /\ \A n : n \in ToSet(index) <=> Indexed(n, index)
  BY DEF HistoryTypeOK, ToSet, Indexed

LEMMA CallTypes ==
  ASSUME NEW x \in HistoryCall
  PROVE  /\ x.op \in {"add", "delete", "clear"} /\ x.host \in Hosts /\ x.name \in Names \union {None}
         /\ x.at \in {"write", "read", "put", "unlink"}
         /\ x.seen \in Seq(Names) /\ Len(x.seen) \in Nat /\ x.left \in Seq(Names) /\ Len(x.left) \in Nat
         /\ x # None
  BY CallAssumption DEF HistoryCall

\* A call goes on, without a change of the index: type and form.
LEMMA CallGoesOn ==
  ASSUME HistoryInd, NEW c \in Calls, NEW y \in HistoryCall \union {None},
         calls' = [calls EXCEPT ![c] = y], CallFits(y), UNCHANGED <<index, crashes>>,
         files' \subseteq Names, newest' \in Names \union {None}, listed' \subseteq Names,
         crossed' \in BOOLEAN
  PROVE  /\ HistoryTypeOK' /\ IndexIsBounded' /\ CallsFit'
         /\ calls'[c] = y /\ \A d \in Calls \ {c} : calls'[d] = calls[d]
<1>1. calls \in [Calls -> HistoryCall \union {None}] /\ HistoryTypeOK
  BY HistoryTypes DEF HistoryInd
<1>2. calls' \in [Calls -> HistoryCall \union {None}]
      /\ calls'[c] = y /\ \A d \in Calls \ {c} : calls'[d] = calls[d]
  BY <1>1
<1>3. HistoryTypeOK'
  BY <1>1, <1>2 DEF HistoryTypeOK
<1>4. IndexIsBounded' /\ CallsFit'
  BY <1>2 DEF HistoryInd, IndexIsBounded, CallsFit
<1> QED
  BY <1>2, <1>3, <1>4


\* A result is being added, under a name nothing else has or the last one given.
LEMMA HistoryIndAdd ==
  ASSUME HistoryInd, NEW c \in Calls, NEW h \in Hosts, Add(c, h)
  PROVE  HistoryInd'
<1> USE HistoryAssumption
<1>1. PICK n \in Names :
        /\ \/ n \notin files \union ToSet(index) /\ \A d \in Calls : calls[d] # None => calls[d].name # n
           \/ n = newest
        /\ newest' = n /\ crossed' = (crossed \/ n = newest)
        /\ Begins(c, "add", h, n, "write")
  BY DEF Add
<1>2. UNCHANGED <<index, files, listed, crashes>>
  BY DEF Add
<1> DEFINE y == [op |-> "add", host |-> h, name |-> n, at |-> "write", seen |-> <<>>, left |-> <<>>]
<1>3. calls[c] = None /\ calls' = [calls EXCEPT ![c] = y]
  BY <1>1 DEF Begins
<1>4. /\ y.op = "add" /\ y.name = n /\ y.at = "write" /\ y.seen = <<>> /\ y.left = <<>>
      /\ y \in HistoryCall
  BY DEF HistoryCall
<1>5. y # None
  BY <1>4, CallTypes
<1> HIDE DEF y
<1>6. CallFits(y)
  <2>1. Len(<<>>) <= MaxEntries /\ n # None
    OBVIOUS
  <2> QED
    BY <1>4, <2>1 DEF CallFits
<1>7. HistoryTypeOK
  BY DEF HistoryInd
<1>8. /\ HistoryTypeOK' /\ IndexIsBounded' /\ CallsFit'
      /\ calls'[c] = y /\ \A d \in Calls \ {c} : calls'[d] = calls[d]
  <2>1. files' \subseteq Names /\ newest' \in Names \union {None} /\ listed' \subseteq Names
        /\ crossed' \in BOOLEAN
    BY <1>1, <1>2, <1>7, HistoryTypes
  <2>2. y \in HistoryCall \union {None} /\ UNCHANGED <<index, crashes>>
    BY <1>2, <1>4
  <2> QED
    BY <1>3, <1>6, <2>1, <2>2, CallGoesOn
<1>9. ASSUME ~crossed' PROVE NamedOnce' /\ NewNames' /\ FilesAreIndexed' /\ IndexIsFiled' /\ PutsFit'
  <2>1. /\ ~crossed /\ n \notin files /\ ~Indexed(n, index)
        /\ \A d \in Calls : calls[d] # None => calls[d].name # n
    BY <1>1, <1>7, <1>9, HistoryTypes
  <2>2. NamedOnce /\ NewNames /\ FilesAreIndexed /\ IndexIsFiled /\ PutsFit
    BY <2>1 DEF HistoryInd, HistoryFits
  <2>3. index' = index /\ files' = files
    BY <1>2
  <2>4. NamedOnce'
    BY <2>2, <2>3 DEF NamedOnce
  <2>5. NewNames'
    BY <1>4, <1>5, <1>8, <2>1, <2>2, <2>3 DEF NewNames, Adds, HasWritten, Indexed
  <2>6. FilesAreIndexed'
    BY <1>3, <1>8, <2>2, <2>3 DEF FilesAreIndexed, HasWritten, Adds, Indexed
  <2>7. IndexIsFiled'
    BY <1>3, <1>8, <2>2, <2>3 DEF IndexIsFiled, Lacks
  <2>8. PutsFit'
    BY <1>4, <1>8, <2>2, <2>3, SMTT(30) DEF PutsFit, PutFits, Indexed
  <2> QED
    BY <2>4, <2>5, <2>6, <2>7, <2>8
<1> QED
  BY <1>8, <1>9 DEF HistoryInd, HistoryFits

\* Its file is written.
LEMMA HistoryIndWritten ==
  ASSUME HistoryInd, NEW c \in Calls, Written(c)
  PROVE  HistoryInd'
<1> USE HistoryAssumption
<1> DEFINE x == calls[c]
           y == [x EXCEPT !.at = "read"]
<1>1. /\ x # None /\ x.at = "write" /\ files' = files \union {x.name}
      /\ calls' = [calls EXCEPT ![c].at = "read"]
      /\ UNCHANGED <<index, newest, listed, crossed, crashes>>
  BY DEF Written, Ready
<1>2. HistoryTypeOK /\ x \in HistoryCall /\ CallFits(x)
  BY <1>1, HistoryTypes DEF HistoryInd, CallsFit
<1>3. /\ y.op = x.op /\ y.name = x.name /\ y.at = "read" /\ y.seen = x.seen /\ y.left = x.left
      /\ y \in HistoryCall
  BY <1>2 DEF HistoryCall
<1>4. calls' = [calls EXCEPT ![c] = y]
  BY <1>1
<1>5. y # None /\ x.op = "add" /\ x.name \in Names
  BY <1>1, <1>2, <1>3, CallTypes DEF CallFits
<1> HIDE DEF y
<1>6. CallFits(y)
  BY <1>1, <1>2, <1>3, <1>5 DEF CallFits
<1>7. /\ HistoryTypeOK' /\ IndexIsBounded' /\ CallsFit'
      /\ calls'[c] = y /\ \A d \in Calls \ {c} : calls'[d] = calls[d]
  <2>1. files' \subseteq Names /\ newest' \in Names \union {None} /\ listed' \subseteq Names
        /\ crossed' \in BOOLEAN /\ UNCHANGED <<index, crashes>> /\ y \in HistoryCall \union {None}
    BY <1>1, <1>2, <1>3, <1>5, HistoryTypes
  <2> QED
    BY <1>4, <1>6, <2>1, CallGoesOn
<1>8. ASSUME ~crossed' PROVE NamedOnce' /\ NewNames' /\ FilesAreIndexed' /\ IndexIsFiled' /\ PutsFit'
  <2>1. NamedOnce /\ NewNames /\ FilesAreIndexed /\ IndexIsFiled /\ PutsFit
    BY <1>1, <1>8 DEF HistoryInd, HistoryFits
  <2>2. index' = index /\ files' = files \union {x.name}
    BY <1>1
  <2>3. ~Indexed(x.name, index) /\ \A d \in Calls \ {c} : calls[d] # None => calls[d].name # x.name
    BY <1>1, <1>5, <2>1 DEF NewNames, Adds
  <2>4. NamedOnce'
    BY <2>1, <2>2 DEF NamedOnce
  <2>5. NewNames'
    BY <1>1, <1>3, <1>5, <1>7, <2>1, <2>2 DEF NewNames, Adds, HasWritten, Indexed
  <2>6. FilesAreIndexed'
    <3>1. HasWritten(y)
      BY <1>3, <1>5 DEF HasWritten, Adds
    <3> SUFFICES ASSUME NEW n \in files'
                 PROVE  Indexed(n, index') \/ \E d \in Calls : HasWritten(calls'[d]) /\ calls'[d].name = n
      BY DEF FilesAreIndexed, Indexed, HasWritten, Adds
    <3>2. CASE n = x.name
      BY <1>3, <1>7, <3>1, <3>2
    <3>3. CASE n # x.name
      BY <1>1, <1>7, <2>1, <2>2, <3>3 DEF FilesAreIndexed, Indexed, HasWritten, Adds
    <3> QED
      BY <3>2, <3>3
  <2>7. IndexIsFiled'
    <3> SUFFICES ASSUME NEW i \in 1 .. Len(index), index[i] \notin files'
                 PROVE  \E d \in Calls : Lacks(calls'[d], i, index')
      BY <2>2 DEF IndexIsFiled, Lacks
    <3>1. PICK d \in Calls : Lacks(calls[d], i, index)
      BY <2>1, <2>2 DEF IndexIsFiled
    <3>2. d # c
      BY <1>1, <3>1 DEF Lacks
    <3> QED
      BY <1>7, <2>2, <3>1, <3>2 DEF Lacks
  <2>8. PutsFit'
    <3> SUFFICES ASSUME NEW d \in Calls PROVE PutFits(calls'[d], index', files')
      BY DEF PutsFit, PutFits, Indexed
    <3>1. CASE d = c
      BY <1>3, <1>7, <3>1 DEF PutFits
    <3>2. CASE d # c
      <4>1. calls'[d] = calls[d] /\ PutFits(calls[d], index, files) /\ (calls[d] # None => calls[d].name # x.name)
        BY <1>7, <2>1, <2>3, <3>2 DEF PutsFit
      <4>2. \A i \in 1 .. Len(index) : index[i] \in files' => index[i] \in files
        BY <2>2, <2>3 DEF Indexed
      <4>3. Len(index) = MaxEntries => MaxEntries \in 1 .. Len(index)
        BY <1>2, HistoryTypes
      <4> QED
        BY <2>2, <4>1, <4>2, <4>3 DEF PutFits, Indexed
    <3> QED
      BY <3>1, <3>2
  <2> QED
    BY <2>4, <2>5, <2>6, <2>7, <2>8
<1> QED
  BY <1>7, <1>8 DEF HistoryInd, HistoryFits


\* A call goes on: it takes nothing from the files that the index does not name.
LEMMA CallKeeps ==
  ASSUME NamedOnce, NewNames, FilesAreIndexed, PutsFit, NEW c \in Calls, NEW y,
         calls'[c] = y, \A d \in Calls \ {c} : calls'[d] = calls[d],
         calls[c] # None, y # None, y.op = calls[c].op, y.name = calls[c].name,
         HasWritten(calls[c]) <=> HasWritten(y), index' = index,
         files' \subseteq files, \A n \in files \ files' : Indexed(n, index)
  PROVE  /\ NamedOnce' /\ NewNames' /\ FilesAreIndexed'
         /\ \A d \in Calls \ {c} : PutFits(calls'[d], index', files')
<1>1. NamedOnce'
  BY DEF NamedOnce
<1>2. NewNames'
  <2> SUFFICES ASSUME NEW d \in Calls, Adds(calls'[d])
               PROVE  /\ ~Indexed(calls'[d].name, index')
                      /\ \A e \in Calls \ {d} : calls'[e] # None => calls'[e].name # calls'[d].name
                      /\ HasWritten(calls'[d]) => calls'[d].name \in files'
    BY DEF NewNames
  <2>1. /\ Adds(calls[d]) /\ calls'[d].name = calls[d].name
        /\ HasWritten(calls'[d]) <=> HasWritten(calls[d])
    BY DEF Adds
  <2>2. \A e \in Calls : calls'[e] # None => calls[e] # None /\ calls'[e].name = calls[e].name
    OBVIOUS
  <2>3. /\ ~Indexed(calls[d].name, index)
        /\ \A e \in Calls \ {d} : calls[e] # None => calls[e].name # calls[d].name
        /\ HasWritten(calls[d]) => calls[d].name \in files
    BY <2>1 DEF NewNames
  <2>4. HasWritten(calls[d]) => calls[d].name \in files'
    BY <2>3
  <2> QED
    BY <2>1, <2>2, <2>3, <2>4
<1>3. FilesAreIndexed'
  <2> SUFFICES ASSUME NEW n \in files'
               PROVE  Indexed(n, index') \/ \E d \in Calls : HasWritten(calls'[d]) /\ calls'[d].name = n
    BY DEF FilesAreIndexed
  <2>1. Indexed(n, index) \/ \E d \in Calls : HasWritten(calls[d]) /\ calls[d].name = n
    BY DEF FilesAreIndexed
  <2> QED
    BY <2>1
<1>4. ASSUME NEW d \in Calls \ {c} PROVE PutFits(calls'[d], index', files')
  <2>1. PutFits(calls[d], index, files) /\ calls'[d] = calls[d]
    BY DEF PutsFit
  <2> QED
    BY <2>1 DEF PutFits
<1> QED
  BY <1>1, <1>2, <1>3, <1>4

\* The entry put in front of a list: what is cut off, and what is left.
LEMMA Trimmed ==
  ASSUME NEW s \in Seq(Names), NEW n \in Names, Len(s) <= MaxEntries
  PROVE  LET t == SubSeq(<<n>> \o s, MaxEntries + 1, Len(s) + 1)
         IN  t \in Seq(Names) /\ (IF Len(s) = MaxEntries THEN t = <<s[MaxEntries]>> ELSE t = <<>>)
<1> USE HistoryAssumption
<1> DEFINE w == <<n>> \o s
           t == SubSeq(w, MaxEntries + 1, Len(s) + 1)
<1>1. w \in Seq(Names) /\ Len(w) = Len(s) + 1 /\ Len(s) \in Nat /\ \A i \in 2 .. Len(w) : w[i] = s[i - 1]
  OBVIOUS
<1> HIDE DEF w
<1>2. t = [i \in 1 .. (Len(s) + 1 - MaxEntries) |-> w[MaxEntries + i]]
  BY <1>1
<1>3. CASE Len(s) = MaxEntries
  <2>1. t = [i \in 1 .. 1 |-> w[MaxEntries + i]]
    BY <1>1, <1>2, <1>3
  <2>2. w[MaxEntries + 1] = s[MaxEntries] /\ s[MaxEntries] \in Names
    BY <1>1, <1>3
  <2>3. t = <<s[MaxEntries]>>
    <3> DEFINE a == s[MaxEntries]
    <3>1. \A i \in 1 .. 1 : w[MaxEntries + i] = a
      BY <2>2
    <3>2. t = [i \in 1 .. 1 |-> a]
      BY <2>1, <3>1
    <3>3. <<a>> = [i \in 1 .. 1 |-> a]
      <4> HIDE DEF a
      <4> QED
        OBVIOUS
    <3> QED
      BY <3>2, <3>3
  <2> QED
    BY <1>3, <2>2, <2>3 DEF w
<1>4. CASE Len(s) # MaxEntries
  <2>1. 1 .. (Len(s) + 1 - MaxEntries) = {}
    BY <1>1, <1>4
  <2>2. t = <<>>
    BY <1>2, <2>1
  <2> QED
    BY <1>4, <2>2 DEF w
<1> QED
  BY <1>3, <1>4

\* An addition reads the index, to write it.
LEMMA HistoryIndRead ==
  ASSUME HistoryInd, NEW c \in Calls, Read(c)
  PROVE  HistoryInd'
<1> USE HistoryAssumption
<1> DEFINE x == calls[c]
           t == SubSeq(<<x.name>> \o index, MaxEntries + 1, Len(index) + 1)
           y == [x EXCEPT !.at = "put", !.seen = index, !.left = t]
<1>1. /\ x # None /\ x.at = "read" /\ x.op = "add"
      /\ calls' = [calls EXCEPT ![c].at = "put", ![c].seen = index, ![c].left = t]
      /\ UNCHANGED <<index, files, newest, listed, crossed, crashes>>
  BY DEF Read, Ready
<1>2. HistoryTypeOK /\ x \in HistoryCall /\ CallFits(x) /\ index \in Seq(Names) /\ Len(index) <= MaxEntries
  BY <1>1, HistoryTypes DEF HistoryInd, CallsFit, IndexIsBounded
<1>3. x.name \in Names /\ x.name # None
  BY <1>1, <1>2, CallTypes DEF CallFits
<1>4. t \in Seq(Names) /\ (IF Len(index) = MaxEntries THEN t = <<index[MaxEntries]>> ELSE t = <<>>)
  BY <1>2, <1>3, Trimmed
<1>5. calls' = [calls EXCEPT ![c] = y]
  BY <1>1
<1> HIDE DEF t
<1>6. /\ y.op = x.op /\ y.name = x.name /\ y.at = "put" /\ y.seen = index /\ y.left = t
      /\ y \in HistoryCall
  BY <1>2, <1>4 DEF HistoryCall
<1>7. y # None
  BY <1>6, CallTypes
<1> HIDE DEF y
<1>8. CallFits(y)
  BY <1>1, <1>2, <1>3, <1>6 DEF CallFits
<1>9. /\ HistoryTypeOK' /\ IndexIsBounded' /\ CallsFit'
      /\ calls'[c] = y /\ \A d \in Calls \ {c} : calls'[d] = calls[d]
  <2>1. files' \subseteq Names /\ newest' \in Names \union {None} /\ listed' \subseteq Names
        /\ crossed' \in BOOLEAN /\ UNCHANGED <<index, crashes>> /\ y \in HistoryCall \union {None}
    BY <1>1, <1>2, <1>6, HistoryTypes
  <2> QED
    BY <1>5, <1>8, <2>1, CallGoesOn
<1>10. ASSUME ~crossed' PROVE NamedOnce' /\ NewNames' /\ FilesAreIndexed' /\ IndexIsFiled' /\ PutsFit'
  <2>1. NamedOnce /\ NewNames /\ FilesAreIndexed /\ IndexIsFiled /\ PutsFit
    BY <1>1, <1>10 DEF HistoryInd, HistoryFits
  <2>2. HasWritten(x) <=> HasWritten(y)
    BY <1>1, <1>6, <1>7 DEF HasWritten, Adds
  <2>3. /\ NamedOnce' /\ NewNames' /\ FilesAreIndexed'
        /\ \A d \in Calls \ {c} : PutFits(calls'[d], index', files')
    <3>1. index' = index /\ files' = files
      BY <1>1
    <3> HIDE DEF x
    <3> QED
      BY <1>1, <1>6, <1>7, <1>9, <2>1, <2>2, <3>1, CallKeeps DEF x
  <2>4. PutFits(calls'[c], index', files')
    <3>1. t = <<>> => Len(index) # MaxEntries
      BY <1>4
    <3>2. t # <<>> => Len(index) = MaxEntries /\ t = <<index[MaxEntries]>>
      BY <1>4
    <3> QED
      BY <1>1, <1>6, <1>9, <3>1, <3>2 DEF PutFits
  <2>5. IndexIsFiled'
    <3> SUFFICES ASSUME NEW i \in 1 .. Len(index), index[i] \notin files
                 PROVE  \E d \in Calls : Lacks(calls'[d], i, index)
      BY <1>1 DEF IndexIsFiled
    <3>1. PICK d \in Calls : Lacks(calls[d], i, index)
      BY <2>1 DEF IndexIsFiled
    <3>2. d # c
      BY <1>1, <3>1 DEF Lacks
    <3> QED
      BY <1>9, <3>1, <3>2
  <2>6. PutsFit'
    BY <2>3, <2>4 DEF PutsFit
  <2> QED
    BY <2>3, <2>5, <2>6
<1> QED
  BY <1>9, <1>10 DEF HistoryInd, HistoryFits


\* One of the files trimmed, or cleared, is deleted: it is the index's.
LEMMA HistoryIndUnlink ==
  ASSUME HistoryInd, NEW c \in Calls, Unlink(c)
  PROVE  HistoryInd'
<1> USE HistoryAssumption
<1> DEFINE x == calls[c]
           n == Head(x.left)
           y == [x EXCEPT !.left = Tail(x.left)]
<1>1. /\ x # None /\ x.at = "put" /\ x.left # <<>>
      /\ files' = files \ {n} /\ listed' = listed \ {n}
      /\ calls' = [calls EXCEPT ![c].left = Tail(@)]
      /\ UNCHANGED <<index, newest, crossed, crashes>>
  BY DEF Unlink, Ready
<1>2. HistoryTypeOK /\ x \in HistoryCall /\ CallFits(x) /\ index \in Seq(Names) /\ Len(index) <= MaxEntries
  BY <1>1, HistoryTypes DEF HistoryInd, CallsFit, IndexIsBounded
<1>3. /\ x.left \in Seq(Names) /\ Tail(x.left) \in Seq(Names) /\ Len(x.left) \in Nat \ {0} /\ n = x.left[1]
      /\ Len(Tail(x.left)) = Len(x.left) - 1
      /\ \A k \in 1 .. Len(Tail(x.left)) : Tail(x.left)[k] = x.left[k + 1]
  <2>1. x.left \in Seq(Names)
    BY <1>2, CallTypes
  <2> HIDE DEF x
  <2> QED
    BY <1>1, <2>1
<1>4. calls' = [calls EXCEPT ![c] = y]
  BY <1>1
<1>5. /\ y.op = x.op /\ y.name = x.name /\ y.at = "put" /\ y.seen = x.seen /\ y.left = Tail(x.left)
      /\ y \in HistoryCall
  BY <1>1, <1>2, <1>3 DEF HistoryCall
<1>6. y # None
  BY <1>5, CallTypes
<1> HIDE DEF y, n
<1>7. CallFits(y) /\ x.op \in {"add", "clear"}
  BY <1>1, <1>2, <1>5, CallTypes DEF CallFits
<1>8. /\ HistoryTypeOK' /\ IndexIsBounded' /\ CallsFit'
      /\ calls'[c] = y /\ \A d \in Calls \ {c} : calls'[d] = calls[d]
  <2>1. files' \subseteq Names /\ newest' \in Names \union {None} /\ listed' \subseteq Names
        /\ crossed' \in BOOLEAN /\ UNCHANGED <<index, crashes>> /\ y \in HistoryCall \union {None}
    BY <1>1, <1>2, <1>5, HistoryTypes
  <2> QED
    BY <1>4, <1>7, <2>1, CallGoesOn
<1>9. ASSUME ~crossed' PROVE NamedOnce' /\ NewNames' /\ FilesAreIndexed' /\ IndexIsFiled' /\ PutsFit'
  <2>1. NamedOnce /\ NewNames /\ FilesAreIndexed /\ IndexIsFiled /\ PutsFit
    BY <1>1, <1>9 DEF HistoryInd, HistoryFits
  <2>2. PutFits(x, index, files)
    BY <2>1 DEF PutsFit
  <2>3. HasWritten(x) <=> HasWritten(y)
    BY <1>1, <1>5, <1>6 DEF HasWritten, Adds
  <2>4. x.op = "add" => /\ Len(index) = MaxEntries /\ x.left = <<index[MaxEntries]>> /\ n = index[MaxEntries]
                        /\ Tail(x.left) = <<>>
    <3> SUFFICES ASSUME x.op = "add"
                 PROVE  /\ Len(index) = MaxEntries /\ x.left = <<index[MaxEntries]>> /\ n = index[MaxEntries]
                        /\ Tail(x.left) = <<>>
      OBVIOUS
    <3>1. Len(index) = MaxEntries /\ x.left = <<index[MaxEntries]>>
      BY <1>1, <2>2 DEF PutFits
    <3>2. n = index[MaxEntries] /\ Tail(x.left) = <<>>
      BY <3>1 DEF n
    <3> QED
      BY <3>1, <3>2
  <2>5. x.op = "clear" =>
              /\ \A i \in 1 .. Len(index) :
                    index[i] \in files => \E k \in 1 .. Len(x.left) : x.left[k] = index[i]
              /\ \A k \in 1 .. Len(x.left) : Indexed(x.left[k], index)
              /\ \A k, l \in 1 .. Len(x.left) : x.left[k] = x.left[l] => k = l
    BY <1>1, <2>2 DEF PutFits
  <2>6. Indexed(n, index)
    <3>1. CASE x.op = "add"
      BY <1>2, <2>4, <3>1 DEF Indexed
    <3>2. CASE x.op = "clear"
      BY <1>3, <2>5, <3>2
    <3> QED
      BY <1>7, <3>1, <3>2
  <2>7. /\ NamedOnce' /\ NewNames' /\ FilesAreIndexed'
        /\ \A d \in Calls \ {c} : PutFits(calls'[d], index', files')
    <3>1. index' = index /\ files' \subseteq files /\ \A m \in files \ files' : Indexed(m, index)
      BY <1>1, <2>6
    <3> HIDE DEF x
    <3> QED
      BY <1>1, <1>5, <1>6, <1>8, <2>1, <2>3, <3>1, CallKeeps DEF x
  <2>8. PutFits(y, index, files')
    <3>1. CASE x.op = "add"
      BY <1>1, <1>5, <2>2, <2>4, <3>1 DEF PutFits
    <3>2. CASE x.op = "clear"
      <4>1. ASSUME NEW i \in 1 .. Len(index), index[i] \in files'
            PROVE  \E k \in 1 .. Len(y.left) : y.left[k] = index[i]
        <5>1. PICK k \in 1 .. Len(x.left) : x.left[k] = index[i]
          BY <1>1, <2>5, <3>2, <4>1
        <5>2. k # 1
          BY <1>1, <1>3, <4>1, <5>1
        <5>3. k - 1 \in 1 .. Len(Tail(x.left)) /\ Tail(x.left)[k - 1] = x.left[k]
          BY <1>3, <5>2
        <5> QED
          BY <1>5, <5>1, <5>3
      <4>2. \A k \in 1 .. Len(y.left) : Indexed(y.left[k], index)
        BY <1>3, <1>5, <2>5, <3>2
      <4>3. \A k, l \in 1 .. Len(y.left) : y.left[k] = y.left[l] => k = l
        BY <1>3, <1>5, <2>5, <3>2
      <4>4. x.seen = index
        BY <1>1, <2>2 DEF PutFits
      <4> QED
        BY <1>5, <3>2, <4>1, <4>2, <4>3, <4>4 DEF PutFits
    <3> QED
      BY <1>7, <3>1, <3>2
  <2>9. IndexIsFiled'
    <3> SUFFICES ASSUME NEW i \in 1 .. Len(index), index[i] \notin files'
                 PROVE  \E d \in Calls : Lacks(calls'[d], i, index)
      BY <1>1 DEF IndexIsFiled
    <3>1. CASE index[i] \notin files
      <4>1. PICK d \in Calls : Lacks(calls[d], i, index)
        BY <2>1, <3>1 DEF IndexIsFiled
      <4>2. CASE d = c
        <5>1. x.op = "clear" /\ \A k \in 1 .. Len(x.left) : x.left[k] # index[i]
          BY <1>1, <1>7, <4>1, <4>2 DEF Lacks
        <5>2. \A k \in 1 .. Len(y.left) : y.left[k] # index[i]
          <6> SUFFICES ASSUME NEW k \in 1 .. Len(Tail(x.left)) PROVE Tail(x.left)[k] # index[i]
            BY <1>5
          <6>1. k + 1 \in 1 .. Len(x.left) /\ Tail(x.left)[k] = x.left[k + 1]
            BY <1>3
          <6> QED
            BY <5>1, <6>1
        <5> QED
          BY <1>5, <1>6, <1>8, <5>1, <5>2 DEF Lacks
      <4>3. CASE d # c
        BY <1>8, <4>1, <4>3
      <4> QED
        BY <4>2, <4>3
    <3>2. CASE index[i] \in files
      <4>1. index[i] = n
        BY <1>1, <3>2
      <4>2. CASE x.op = "add"
        <5>1. i = MaxEntries
          BY <1>2, <2>1, <2>4, <4>1, <4>2 DEF NamedOnce
        <5> QED
          BY <1>5, <1>6, <1>8, <2>4, <4>2, <5>1 DEF Lacks
      <4>3. CASE x.op = "clear"
        <5>1. \A k \in 1 .. Len(y.left) : y.left[k] # index[i]
          BY <1>3, <1>5, <2>5, <4>1, <4>3
        <5> QED
          BY <1>5, <1>6, <1>8, <4>3, <5>1 DEF Lacks
      <4> QED
        BY <1>7, <4>2, <4>3
    <3> QED
      BY <3>1, <3>2
  <2>10. PutsFit'
    BY <1>1, <1>8, <2>7, <2>8 DEF PutsFit
  <2> QED
    BY <2>7, <2>9, <2>10
<1> QED
  BY <1>8, <1>9 DEF HistoryInd, HistoryFits

\* An entry of the panel is to be deleted.
LEMMA HistoryIndDelete ==
  ASSUME HistoryInd, NEW c \in Calls, NEW h \in Hosts, Delete(c, h)
  PROVE  HistoryInd'
<1> USE HistoryAssumption
<1>1. PICK n \in ToSet(index) : Begins(c, "delete", h, n, "unlink")
  BY DEF Delete
<1>2. UNCHANGED <<index, files, newest, listed, crossed, crashes>>
  BY DEF Delete
<1> DEFINE y == [op |-> "delete", host |-> h, name |-> n, at |-> "unlink", seen |-> <<>>, left |-> <<>>]
<1>3. calls[c] = None /\ calls' = [calls EXCEPT ![c] = y]
  BY <1>1 DEF Begins
<1>4. HistoryTypeOK
  BY DEF HistoryInd
<1>5. n \in Names /\ Indexed(n, index)
  BY <1>4, HistoryTypes DEF Indexed
<1>6. /\ y.op = "delete" /\ y.name = n /\ y.at = "unlink" /\ y.seen = <<>> /\ y.left = <<>>
      /\ y \in HistoryCall
  BY <1>5 DEF HistoryCall
<1>7. y # None
  BY <1>6, CallTypes
<1> HIDE DEF y
<1>8. CallFits(y)
  <2>1. Len(<<>>) <= MaxEntries /\ n # None
    BY <1>5
  <2> QED
    BY <1>6, <2>1 DEF CallFits
<1>9. /\ HistoryTypeOK' /\ IndexIsBounded' /\ CallsFit'
      /\ calls'[c] = y /\ \A d \in Calls \ {c} : calls'[d] = calls[d]
  <2>1. files' \subseteq Names /\ newest' \in Names \union {None} /\ listed' \subseteq Names
        /\ crossed' \in BOOLEAN
    BY <1>2, <1>4, HistoryTypes
  <2>2. y \in HistoryCall \union {None} /\ UNCHANGED <<index, crashes>>
    BY <1>2, <1>6
  <2> QED
    BY <1>3, <1>8, <2>1, <2>2, CallGoesOn
<1>10. ASSUME ~crossed' PROVE NamedOnce' /\ NewNames' /\ FilesAreIndexed' /\ IndexIsFiled' /\ PutsFit'
  <2>1. NamedOnce /\ NewNames /\ FilesAreIndexed /\ IndexIsFiled /\ PutsFit
    BY <1>2, <1>10 DEF HistoryInd, HistoryFits
  <2>2. NamedOnce'
    BY <1>2, <2>1 DEF NamedOnce
  <2>3. NewNames'
    BY <1>2, <1>5, <1>6, <1>9, <2>1 DEF NewNames, Adds, HasWritten
  <2>4. FilesAreIndexed'
    BY <1>2, <1>3, <1>9, <2>1 DEF FilesAreIndexed, HasWritten, Adds
  <2>5. IndexIsFiled'
    BY <1>2, <1>3, <1>9, <2>1 DEF IndexIsFiled, Lacks
  <2>6. PutsFit'
    <3>1. PutFits(y, index, files)
      BY <1>6 DEF PutFits
    <3> QED
      BY <1>2, <1>9, <2>1, <3>1 DEF PutsFit
  <2> QED
    BY <2>2, <2>3, <2>4, <2>5, <2>6
<1> QED
  BY <1>9, <1>10 DEF HistoryInd, HistoryFits

\* The file of an entry is deleted, which no addition has written.
LEMMA HistoryIndDeleted ==
  ASSUME HistoryInd, NEW c \in Calls, Deleted(c)
  PROVE  HistoryInd'
<1> USE HistoryAssumption
<1> DEFINE x == calls[c]
           y == [x EXCEPT !.at = "put", !.seen = index]
<1>1. /\ x # None /\ x.at = "unlink"
      /\ files' = files \ {x.name} /\ listed' = listed \ {x.name}
      /\ calls' = [calls EXCEPT ![c].at = "put", ![c].seen = index]
      /\ UNCHANGED <<index, newest, crossed, crashes>>
  BY DEF Deleted, Ready
<1>2. HistoryTypeOK /\ x \in HistoryCall /\ CallFits(x) /\ index \in Seq(Names) /\ Len(index) <= MaxEntries
  BY <1>1, HistoryTypes DEF HistoryInd, CallsFit, IndexIsBounded
<1>3. x.op = "delete" /\ x.left = <<>> /\ x.name # None
  BY <1>1, <1>2, CallTypes DEF CallFits
<1>4. calls' = [calls EXCEPT ![c] = y]
  BY <1>1
<1>5. /\ y.op = "delete" /\ y.name = x.name /\ y.at = "put" /\ y.seen = index /\ y.left = <<>>
      /\ y \in HistoryCall
  BY <1>2, <1>3 DEF HistoryCall
<1>6. y # None
  BY <1>5, CallTypes
<1> HIDE DEF y
<1>7. CallFits(y)
  BY <1>2, <1>3, <1>5 DEF CallFits
<1>8. /\ HistoryTypeOK' /\ IndexIsBounded' /\ CallsFit'
      /\ calls'[c] = y /\ \A d \in Calls \ {c} : calls'[d] = calls[d]
  <2>1. files' \subseteq Names /\ newest' \in Names \union {None} /\ listed' \subseteq Names
        /\ crossed' \in BOOLEAN /\ UNCHANGED <<index, crashes>> /\ y \in HistoryCall \union {None}
    BY <1>1, <1>2, <1>5, HistoryTypes
  <2> QED
    BY <1>4, <1>7, <2>1, CallGoesOn
<1>9. ASSUME ~crossed' PROVE NamedOnce' /\ NewNames' /\ FilesAreIndexed' /\ IndexIsFiled' /\ PutsFit'
  <2>1. NamedOnce /\ NewNames /\ FilesAreIndexed /\ IndexIsFiled /\ PutsFit
    BY <1>1, <1>9 DEF HistoryInd, HistoryFits
  <2>2. HasWritten(x) <=> HasWritten(y)
    BY <1>3, <1>5 DEF HasWritten, Adds
  <2>3. x.name \in files => Indexed(x.name, index)
    <3>1. \A d \in Calls : HasWritten(calls[d]) => calls[d].name # x.name
      BY <1>1, <1>3, <2>1 DEF NewNames, HasWritten, Adds
    <3> QED
      BY <2>1, <3>1 DEF FilesAreIndexed
  <2>4. /\ NamedOnce' /\ NewNames' /\ FilesAreIndexed'
        /\ \A d \in Calls \ {c} : PutFits(calls'[d], index', files')
    <3>1. index' = index /\ files' \subseteq files /\ \A m \in files \ files' : Indexed(m, index)
      BY <1>1, <2>3
    <3> HIDE DEF x
    <3> QED
      BY <1>1, <1>3, <1>5, <1>6, <1>8, <2>1, <2>2, <3>1, CallKeeps DEF x
  <2>5. PutFits(y, index, files')
    BY <1>1, <1>5 DEF PutFits
  <2>6. IndexIsFiled'
    <3> SUFFICES ASSUME NEW i \in 1 .. Len(index), index[i] \notin files'
                 PROVE  \E d \in Calls : Lacks(calls'[d], i, index)
      BY <1>1 DEF IndexIsFiled
    <3>1. CASE index[i] \notin files
      <4>1. PICK d \in Calls : Lacks(calls[d], i, index)
        BY <2>1, <3>1 DEF IndexIsFiled
      <4>2. d # c
        BY <1>1, <4>1 DEF Lacks
      <4> QED
        BY <1>8, <4>1, <4>2
    <3>2. CASE index[i] \in files
      <4>1. x.name = index[i]
        BY <1>1, <3>2
      <4> QED
        BY <1>5, <1>6, <1>8, <4>1 DEF Lacks
    <3> QED
      BY <3>1, <3>2
  <2>7. PutsFit'
    BY <1>1, <1>8, <2>4, <2>5 DEF PutsFit
  <2> QED
    BY <2>4, <2>6, <2>7
<1> QED
  BY <1>8, <1>9 DEF HistoryInd, HistoryFits


\* The history is to be cleared.
LEMMA HistoryIndClear ==
  ASSUME HistoryInd, NEW c \in Calls, NEW h \in Hosts, Clear(c, h)
  PROVE  HistoryInd'
<1> USE HistoryAssumption
<1> DEFINE y == [op |-> "clear", host |-> h, name |-> None, at |-> "put", seen |-> index, left |-> index]
<1>1. calls[c] = None /\ calls' = [calls EXCEPT ![c] = y]
      /\ UNCHANGED <<index, files, newest, listed, crossed, crashes>>
  BY DEF Clear
<1>2. HistoryTypeOK /\ index \in Seq(Names) /\ Len(index) <= MaxEntries
  BY HistoryTypes DEF HistoryInd, IndexIsBounded
<1>3. /\ y.op = "clear" /\ y.name = None /\ y.at = "put" /\ y.seen = index /\ y.left = index
      /\ y \in HistoryCall
  BY <1>2 DEF HistoryCall
<1>4. y # None
  BY <1>3, CallTypes
<1> HIDE DEF y
<1>5. CallFits(y)
  BY <1>2, <1>3 DEF CallFits
<1>6. /\ HistoryTypeOK' /\ IndexIsBounded' /\ CallsFit'
      /\ calls'[c] = y /\ \A d \in Calls \ {c} : calls'[d] = calls[d]
  <2>1. files' \subseteq Names /\ newest' \in Names \union {None} /\ listed' \subseteq Names
        /\ crossed' \in BOOLEAN
    BY <1>1, <1>2, HistoryTypes
  <2>2. y \in HistoryCall \union {None} /\ UNCHANGED <<index, crashes>>
    BY <1>1, <1>3
  <2> QED
    BY <1>1, <1>5, <2>1, <2>2, CallGoesOn
<1>7. ASSUME ~crossed' PROVE NamedOnce' /\ NewNames' /\ FilesAreIndexed' /\ IndexIsFiled' /\ PutsFit'
  <2>1. NamedOnce /\ NewNames /\ FilesAreIndexed /\ IndexIsFiled /\ PutsFit
    BY <1>1, <1>7 DEF HistoryInd, HistoryFits
  <2>2. NamedOnce'
    BY <1>1, <2>1 DEF NamedOnce
  <2>3. NewNames'
    <3>1. \A d \in Calls : Adds(calls[d]) => calls[d].name # None
      BY DEF HistoryInd, CallsFit, CallFits, Adds
    <3> QED
      BY <1>1, <1>3, <1>6, <2>1, <3>1 DEF NewNames, Adds, HasWritten
  <2>4. FilesAreIndexed'
    BY <1>1, <1>6, <2>1 DEF FilesAreIndexed, HasWritten, Adds
  <2>5. IndexIsFiled'
    BY <1>1, <1>6, <2>1 DEF IndexIsFiled, Lacks
  <2>6. PutsFit'
    <3>1. PutFits(y, index, files)
      BY <1>3, <2>1 DEF PutFits, NamedOnce, Indexed
    <3> QED
      BY <1>1, <1>6, <2>1, <3>1 DEF PutsFit
  <2> QED
    BY <2>2, <2>3, <2>4, <2>5, <2>6
<1> QED
  BY <1>6, <1>7 DEF HistoryInd, HistoryFits

\* A call that has done what it says of the new index ends well, alone.
LEMMA CallEnds ==
  ASSUME NewNames, FilesAreIndexed, NEW c \in Calls, calls[c] # None, files' = files,
         calls'[c] = None, \A d \in Calls \ {c} : calls'[d] = calls[d],
         \A d \in Calls \ {c} : calls[d] # None => calls[d].at # "put",
         \A n : Indexed(n, index') => n \in files /\ (Indexed(n, index) \/ (Adds(calls[c]) /\ n = calls[c].name)),
         \A n \in files : Indexed(n, index) => Indexed(n, index'),
         Adds(calls[c]) => Indexed(calls[c].name, index')
  PROVE  NewNames' /\ FilesAreIndexed' /\ IndexIsFiled' /\ PutsFit'
<1>1. NewNames'
  <2> SUFFICES ASSUME NEW d \in Calls, Adds(calls'[d])
               PROVE  /\ ~Indexed(calls'[d].name, index')
                      /\ \A e \in Calls \ {d} : calls'[e] # None => calls'[e].name # calls'[d].name
                      /\ HasWritten(calls'[d]) => calls'[d].name \in files'
    BY DEF NewNames
  <2>1. d # c /\ calls'[d] = calls[d]
    BY DEF Adds
  <2>2. /\ ~Indexed(calls[d].name, index)
        /\ \A e \in Calls \ {d} : calls[e] # None => calls[e].name # calls[d].name
        /\ HasWritten(calls[d]) => calls[d].name \in files
    BY <2>1 DEF NewNames
  <2>3. ~Indexed(calls[d].name, index')
    BY <2>1, <2>2
  <2>4. \A e \in Calls \ {d} : calls'[e] # None => calls[e] # None /\ calls'[e].name = calls[e].name
    OBVIOUS
  <2> QED
    BY <2>1, <2>2, <2>3, <2>4
<1>2. FilesAreIndexed'
  <2> SUFFICES ASSUME NEW n \in files
               PROVE  Indexed(n, index') \/ \E d \in Calls : HasWritten(calls'[d]) /\ calls'[d].name = n
    BY DEF FilesAreIndexed
  <2>1. CASE Indexed(n, index)
    BY <2>1
  <2>2. CASE ~Indexed(n, index)
    <3>1. PICK d \in Calls : HasWritten(calls[d]) /\ calls[d].name = n
      BY <2>2 DEF FilesAreIndexed
    <3>2. CASE d = c
      BY <3>1, <3>2 DEF HasWritten
    <3>3. CASE d # c
      BY <3>1, <3>3
    <3> QED
      BY <3>2, <3>3
  <2> QED
    BY <2>1, <2>2
<1>3. IndexIsFiled'
  BY DEF IndexIsFiled, Indexed
<1>4. PutsFit'
  BY DEF PutsFit, PutFits
<1> QED
  BY <1>1, <1>2, <1>3, <1>4

\* The entry in front of the index read, cut to the maximum.
LEMMA PutInFront ==
  ASSUME NEW s \in Seq(Names), NEW n \in Names, Len(s) <= MaxEntries
  PROVE  LET t == SubSeq(<<n>> \o s, 1, Min({MaxEntries, Len(s) + 1}))
         IN  /\ t \in Seq(Names)
             /\ Len(t) = (IF Len(s) = MaxEntries THEN MaxEntries ELSE Len(s) + 1)
             /\ t[1] = n /\ \A i \in 2 .. Len(t) : t[i] = s[i - 1]
<1> USE HistoryAssumption
<1> DEFINE w == <<n>> \o s
           m == IF Len(s) = MaxEntries THEN MaxEntries ELSE Len(s) + 1
           t == SubSeq(w, 1, m)
<1>1. w \in Seq(Names) /\ Len(w) = Len(s) + 1 /\ Len(s) \in Nat /\ w[1] = n
      /\ \A i \in 2 .. Len(w) : w[i] = s[i - 1]
  OBVIOUS
<1>2. Min({MaxEntries, Len(s) + 1}) = m
  <2>1. m \in {MaxEntries, Len(s) + 1} /\ \A k \in {MaxEntries, Len(s) + 1} : m <= k
    BY <1>1
  <2> HIDE DEF m
  <2>2. \A k \in {MaxEntries, Len(s) + 1} : (\A l \in {MaxEntries, Len(s) + 1} : k <= l) => k = m
    BY <1>1, <2>1
  <2> QED
    BY <2>1, <2>2 DEF Min
<1>3. m \in 1 .. Len(w)
  BY <1>1
<1> HIDE DEF w, m
<1>4. t \in Seq(Names) /\ Len(t) = m /\ \A i \in 1 .. m : t[i] = w[i]
  BY <1>1, <1>3
<1>5. t[1] = n /\ \A i \in 2 .. Len(t) : t[i] = s[i - 1]
  BY <1>1, <1>3, <1>4
<1> HIDE DEF t
<1> QED
  BY <1>2, <1>4, <1>5 DEF w, m, t

\* A call ends with the writing of the index.
LEMMA HistoryIndPut ==
  ASSUME HistoryInd, NEW c \in Calls, Put(c)
  PROVE  HistoryInd'
<1> USE HistoryAssumption
<1> DEFINE x == calls[c]
<1>1. /\ x # None /\ x.at = "put" /\ x.left = <<>> /\ index' = NewIndex(c)
      /\ crossed' = (crossed \/ \E d \in Calls \ {c} : calls[d] # None /\ calls[d].at = "put")
      /\ calls' = [calls EXCEPT ![c] = None]
      /\ UNCHANGED <<files, newest, crashes>>
  BY DEF Put
<1>2. HistoryTypeOK /\ x \in HistoryCall /\ CallFits(x)
  BY <1>1, HistoryTypes DEF HistoryInd, CallsFit
<1>3. x.op \in {"add", "delete", "clear"} /\ x.seen \in Seq(Names) /\ Len(x.seen) \in Nat
      /\ Len(x.seen) <= MaxEntries /\ x.name \in Names \union {None}
      /\ (x.op = "add" => x.name \in Names) /\ listed' \subseteq Names
  <2>1. x.op \in {"add", "delete", "clear"} /\ x.seen \in Seq(Names) /\ Len(x.seen) \in Nat
        /\ Len(x.seen) <= MaxEntries /\ x.name \in Names \union {None}
        /\ (x.op = "add" => x.name \in Names)
    BY <1>1, <1>2, CallTypes DEF CallFits
  <2>2. listed' \subseteq Names
    <3>1. listed' = CASE x.op = "add" -> listed \union {x.name}
                      [] x.op = "delete" -> listed
                      [] x.op = "clear" -> {}
      BY DEF Put
    <3>2. listed \subseteq Names
      BY <1>2, HistoryTypes
    <3> QED
      BY <2>1, <3>1, <3>2
  <2> QED
    BY <2>1, <2>2
<1>4. calls'[c] = None /\ (\A d \in Calls \ {c} : calls'[d] = calls[d])
      /\ calls' \in [Calls -> HistoryCall \union {None}]
  BY <1>1, <1>2, HistoryTypes
<1>5. x.op = "add" => index' = SubSeq(<<x.name>> \o x.seen, 1, Min({MaxEntries, Len(x.seen) + 1}))
  BY <1>1 DEF NewIndex
<1>6. x.op = "delete" => index' = Only(x.seen, Names \ {x.name})
  BY <1>1 DEF NewIndex
<1>7. x.op = "clear" => index' = <<>>
  BY <1>1 DEF NewIndex
<1>8. x.op = "add" =>
        /\ index' \in Seq(Names)
        /\ Len(index') = (IF Len(x.seen) = MaxEntries THEN MaxEntries ELSE Len(x.seen) + 1)
        /\ index'[1] = x.name /\ \A i \in 2 .. Len(index') : index'[i] = x.seen[i - 1]
  <2> DEFINE s == x.seen
             n == x.name
             u == SubSeq(<<n>> \o s, 1, Min({MaxEntries, Len(s) + 1}))
  <2> SUFFICES ASSUME x.op = "add"
               PROVE  /\ u \in Seq(Names)
                      /\ Len(u) = (IF Len(s) = MaxEntries THEN MaxEntries ELSE Len(s) + 1)
                      /\ u[1] = n /\ \A i \in 2 .. Len(u) : u[i] = s[i - 1]
    BY <1>5
  <2>1. s \in Seq(Names) /\ n \in Names /\ Len(s) <= MaxEntries
    BY <1>3
  <2> HIDE DEF s, n
  <2> QED
    BY <2>1, PutInFront
<1>9. x.op = "delete" =>
        /\ index' \in Seq(Names) /\ Len(index') <= Len(x.seen)
        /\ \A i \in 1 .. Len(index') : index'[i] \in Names \ {x.name}
                                       /\ \E j \in 1 .. Len(x.seen) : x.seen[j] = index'[i]
        /\ \A j \in 1 .. Len(x.seen) :
              x.seen[j] \in Names \ {x.name} => \E i \in 1 .. Len(index') : index'[i] = x.seen[j]
        /\ (\A i, j \in 1 .. Len(x.seen) : x.seen[i] = x.seen[j] => i = j) =>
              \A i, j \in 1 .. Len(index') : index'[i] = index'[j] => i = j
  <2> DEFINE s == x.seen
             S == Names \ {x.name}
  <2>1. s \in Seq(Names)
    BY <1>3
  <2>2. x.op = "delete" => index' = Only(s, S)
    BY <1>6
  <2> HIDE DEF x, s, S
  <2>3. /\ Only(s, S) \in Seq(Names) /\ Len(Only(s, S)) <= Len(s)
        /\ \A i \in 1 .. Len(Only(s, S)) : Only(s, S)[i] \in S /\ \E j \in 1 .. Len(s) : s[j] = Only(s, S)[i]
        /\ \A j \in 1 .. Len(s) : s[j] \in S => \E i \in 1 .. Len(Only(s, S)) : Only(s, S)[i] = s[j]
        /\ (\A i, j \in 1 .. Len(s) : s[i] = s[j] => i = j) =>
             \A i, j \in 1 .. Len(Only(s, S)) : Only(s, S)[i] = Only(s, S)[j] => i = j
    BY <2>1, OnlyFacts
  <2>4. x.op = "delete" =>
        /\ index' \in Seq(Names) /\ Len(index') <= Len(s)
        /\ \A i \in 1 .. Len(index') : index'[i] \in S /\ \E j \in 1 .. Len(s) : s[j] = index'[i]
        /\ \A j \in 1 .. Len(s) : s[j] \in S => \E i \in 1 .. Len(index') : index'[i] = s[j]
        /\ (\A i, j \in 1 .. Len(s) : s[i] = s[j] => i = j) =>
             \A i, j \in 1 .. Len(index') : index'[i] = index'[j] => i = j
    BY <2>2, <2>3
  <2> QED
    BY <2>4 DEF s, S
<1>10. index' \in Seq(Names) /\ Len(index') <= MaxEntries
  <2>1. CASE x.op = "add"
    BY <1>3, <1>8, <2>1
  <2>2. CASE x.op = "delete"
    <3>1. index' \in Seq(Names) /\ Len(index') \in Nat /\ Len(index') <= Len(x.seen)
      BY <1>9, <2>2
    <3> QED
      BY <1>3, <3>1
  <2>3. CASE x.op = "clear"
    <3>1. index' = <<>> /\ <<>> \in Seq(Names) /\ Len(<<>>) = 0
      BY <1>7, <2>3
    <3> QED
      BY <3>1
  <2> QED
    BY <1>3, <2>1, <2>2, <2>3
<1>11. HistoryTypeOK' /\ IndexIsBounded' /\ CallsFit'
  <2>1. HistoryTypeOK'
    BY <1>1, <1>2, <1>3, <1>4, <1>10 DEF HistoryTypeOK
  <2>2. CallsFit'
    BY <1>4 DEF HistoryInd, CallsFit, CallFits
  <2> QED
    BY <1>10, <2>1, <2>2 DEF IndexIsBounded
<1>12. ASSUME ~crossed' PROVE NamedOnce' /\ NewNames' /\ FilesAreIndexed' /\ IndexIsFiled' /\ PutsFit'
  <2>1. /\ NamedOnce /\ NewNames /\ FilesAreIndexed /\ IndexIsFiled /\ PutsFit
        /\ \A d \in Calls \ {c} : calls[d] # None => calls[d].at # "put"
    BY <1>1, <1>12 DEF HistoryInd, HistoryFits
  <2>2. PutFits(x, index, files) /\ x.seen = index
    BY <1>1, <2>1 DEF PutsFit, PutFits
  <2>3. \A i \in 1 .. Len(index) : index[i] \notin files => Lacks(x, i, index)
    <3> SUFFICES ASSUME NEW i \in 1 .. Len(index), index[i] \notin files PROVE Lacks(x, i, index)
      OBVIOUS
    <3>1. PICK d \in Calls : Lacks(calls[d], i, index)
      BY <2>1 DEF IndexIsFiled
    <3>2. d = c
      BY <2>1, <3>1 DEF Lacks
    <3> QED
      BY <3>1, <3>2
  <2>4. NamedOnce'
    <3>1. CASE x.op = "add"
      <4>1. ~Indexed(x.name, index)
        BY <1>1, <2>1, <3>1 DEF NewNames, Adds
      <4>2. SUFFICES ASSUME NEW i \in 1 .. Len(index'), NEW j \in 1 .. Len(index'), index'[i] = index'[j]
                     PROVE  i = j
        BY DEF NamedOnce
      <4>3. \A k \in 2 .. Len(index') : index'[k] = index[k - 1] /\ k - 1 \in 1 .. Len(index)
        BY <1>3, <1>8, <2>2, <3>1
      <4>4. \A k \in 2 .. Len(index') : index'[k] # index'[1]
        BY <1>8, <3>1, <4>1, <4>3 DEF Indexed
      <4>5. i = 1 <=> j = 1
        BY <4>2, <4>4
      <4> QED
        BY <2>1, <4>2, <4>3, <4>5 DEF NamedOnce
    <3>2. CASE x.op = "delete"
      BY <1>9, <2>1, <2>2, <3>2 DEF NamedOnce
    <3>3. CASE x.op = "clear"
      <4>1. Len(index') = 0
        BY <1>7, <3>3
      <4> QED
        BY <4>1 DEF NamedOnce
    <3> QED
      BY <1>3, <3>1, <3>2, <3>3
  <2>5. ASSUME NEW n, Indexed(n, index')
        PROVE  n \in files /\ (Indexed(n, index) \/ (Adds(x) /\ n = x.name))
    <3>1. PICK i \in 1 .. Len(index') : index'[i] = n
      BY <2>5 DEF Indexed
    <3>2. CASE x.op = "add"
      <4>1. CASE i = 1
        <5>1. HasWritten(x) /\ Adds(x)
          BY <1>1, <3>2 DEF HasWritten, Adds
        <5>2. n = x.name /\ n \in files
          BY <1>8, <2>1, <3>1, <3>2, <4>1, <5>1 DEF NewNames
        <5> QED
          BY <5>1, <5>2
      <4>2. CASE i # 1
        <5>1. n = index[i - 1] /\ i - 1 \in 1 .. Len(index) /\ i - 1 # MaxEntries
          BY <1>3, <1>8, <2>2, <3>1, <3>2, <4>2
        <5> QED
          BY <2>3, <3>2, <5>1 DEF Lacks, Indexed
      <4> QED
        BY <4>1, <4>2
    <3>3. CASE x.op = "delete"
      <4>1. PICK j \in 1 .. Len(index) : index[j] = n /\ n # x.name
        BY <1>9, <2>2, <3>1, <3>3
      <4> QED
        BY <2>3, <3>3, <4>1 DEF Lacks, Indexed
    <3>4. CASE x.op = "clear"
      BY <1>7, <3>1, <3>4
    <3> QED
      BY <1>3, <3>2, <3>3, <3>4
  <2>6. ASSUME NEW n \in files, Indexed(n, index) PROVE Indexed(n, index')
    <3>1. PICK j \in 1 .. Len(index) : index[j] = n
      BY <2>6 DEF Indexed
    <3>2. CASE x.op = "add"
      <4>1. Len(index) = MaxEntries => j # MaxEntries
        BY <1>1, <2>2, <3>1, <3>2 DEF PutFits
      <4>2. j + 1 \in 2 .. Len(index') /\ (j + 1) - 1 = j
        BY <1>3, <1>8, <2>2, <3>2, <4>1
      <4>3. index'[j + 1] = n
        BY <1>8, <2>2, <3>1, <3>2, <4>2
      <4> QED
        BY <4>2, <4>3 DEF Indexed
    <3>3. CASE x.op = "delete"
      <4>1. n # x.name /\ n \in Names
        BY <1>1, <1>2, <2>2, <3>3, HistoryTypes DEF PutFits
      <4> QED
        BY <1>9, <2>2, <3>1, <3>3, <4>1 DEF Indexed
    <3>4. CASE x.op = "clear"
      BY <1>1, <2>2, <3>1, <3>4 DEF PutFits
    <3> QED
      BY <1>3, <3>2, <3>3, <3>4
  <2>7. Adds(x) => Indexed(x.name, index')
    BY <1>3, <1>8 DEF Adds, Indexed
  <2>8. files' = files
    BY <1>1
  <2> HIDE DEF x
  <2>9. NewNames' /\ FilesAreIndexed' /\ IndexIsFiled' /\ PutsFit'
    BY <1>1, <1>4, <2>1, <2>5, <2>6, <2>7, <2>8, CallEnds DEF x
  <2> QED
    BY <2>4, <2>9
<1> QED
  BY <1>11, <1>12 DEF HistoryInd, HistoryFits

\* A chart is saved to a file of the history.
LEMMA HistoryIndWriteFile ==
  ASSUME HistoryInd, NEW n \in Names, WriteFile(n)
  PROVE  HistoryInd'
<1>1. files' = files \union {n} /\ crossed' = (crossed \/ n \notin files)
      /\ UNCHANGED <<index, calls, newest, listed, crashes>>
  BY DEF WriteFile
<1>2. HistoryTypeOK' /\ IndexIsBounded' /\ CallsFit'
  <2>1. HistoryTypeOK'
    BY <1>1 DEF HistoryInd, HistoryTypeOK
  <2> QED
    BY <1>1, <2>1 DEF HistoryInd, IndexIsBounded, CallsFit
<1>3. ASSUME ~crossed' PROVE NamedOnce' /\ NewNames' /\ FilesAreIndexed' /\ IndexIsFiled' /\ PutsFit'
  <2>1. files' = files /\ NamedOnce /\ NewNames /\ FilesAreIndexed /\ IndexIsFiled /\ PutsFit
    BY <1>1, <1>3 DEF HistoryInd, HistoryFits
  <2> QED
    BY <1>1, <2>1 DEF NamedOnce, NewNames, FilesAreIndexed, IndexIsFiled, PutsFit
<1> QED
  BY <1>2, <1>3 DEF HistoryInd, HistoryFits

\* A window dies: with nothing of it under way, nothing is lost.
LEMMA HistoryIndCrash ==
  ASSUME HistoryInd, NEW h \in Hosts, Crash(h)
  PROVE  HistoryInd'
<1> USE HistoryAssumption
<1>1. /\ crashes < MaxCrashes /\ crashes' = crashes + 1 /\ crossed' = (crossed \/ calls' # calls)
      /\ calls' = [c \in Calls |-> IF calls[c] # None /\ calls[c].host = h THEN None ELSE calls[c]]
      /\ UNCHANGED <<files, newest, listed>>
  BY DEF Crash
<1>2. index' \in {index, <<>>}
      /\ (index' # index => \E c \in Calls : calls[c] # None /\ calls[c].host = h)
  BY DEF Crash
<1>3. HistoryTypeOK' /\ IndexIsBounded' /\ CallsFit'
  <2>1. HistoryTypeOK
    BY DEF HistoryInd
  <2>2. calls' \in [Calls -> HistoryCall \union {None}] /\ crashes' \in 0 .. MaxCrashes
    BY <1>1, <2>1, HistoryTypes
  <2>3. index' \in Seq(Names) /\ Len(index') <= MaxEntries
    <3>1. index \in Seq(Names) /\ Len(index) <= MaxEntries /\ <<>> \in Seq(Names) /\ Len(<<>>) <= MaxEntries
      BY <2>1, HistoryTypes DEF HistoryInd, IndexIsBounded
    <3> QED
      BY <1>2, <3>1
  <2>4. HistoryTypeOK'
    BY <1>1, <2>1, <2>2, <2>3 DEF HistoryTypeOK
  <2>5. CallsFit'
    BY <1>1 DEF HistoryInd, CallsFit, CallFits
  <2> QED
    BY <2>3, <2>4, <2>5 DEF IndexIsBounded
<1>4. ASSUME ~crossed' PROVE NamedOnce' /\ NewNames' /\ FilesAreIndexed' /\ IndexIsFiled' /\ PutsFit'
  <2>1. calls' = calls /\ ~crossed
    BY <1>1, <1>4
  <2>2. \A c \in Calls : ~(calls[c] # None /\ calls[c].host = h)
    BY <1>1, <2>1
  <2>3. index' = index
    BY <1>2, <2>2
  <2>4. NamedOnce /\ NewNames /\ FilesAreIndexed /\ IndexIsFiled /\ PutsFit
    BY <2>1 DEF HistoryInd, HistoryFits
  <2> QED
    BY <1>1, <2>1, <2>3, <2>4 DEF NamedOnce, NewNames, FilesAreIndexed, IndexIsFiled, PutsFit
<1> QED
  BY <1>3, <1>4 DEF HistoryInd, HistoryFits

LEMMA HistoryIndNext == HistoryInd /\ [HistoryNext]_historyVars => HistoryInd'
<1> SUFFICES ASSUME HistoryInd, [HistoryNext]_historyVars PROVE HistoryInd'
  OBVIOUS
<1>1. CASE UNCHANGED historyVars
  BY <1>1 DEF historyVars, HistoryInd, HistoryTypeOK, IndexIsBounded, CallsFit, HistoryFits,
              NamedOnce, NewNames, FilesAreIndexed, IndexIsFiled, PutsFit
<1>2. CASE HistoryNext
  BY <1>2, HistoryIndAdd, HistoryIndDelete, HistoryIndClear, HistoryIndWritten, HistoryIndRead,
     HistoryIndUnlink, HistoryIndPut, HistoryIndDeleted, HistoryIndWriteFile, HistoryIndCrash DEF HistoryNext
<1> QED
  BY <1>1, <1>2

\* The index of the history never names more results than the maximum, and when
\* nothing is under way it names the files there are, no more and no fewer
\* (trimming, deleting and clearing in historyManager.ts), for any number of
\* windows, calls under way and results.
THEOREM IndexAndFilesAgree == HistorySpec => []HistoryIsSound
<1>1. HistoryInd => HistoryIsSound
  <2> SUFFICES ASSUME HistoryInd, Quiet, ~crossed PROVE ToSet(index) = files
    BY DEF HistoryInd, HistoryIsSound, IndexMatchesFiles
  <2>1. HistoryTypeOK /\ FilesAreIndexed /\ IndexIsFiled
    BY DEF HistoryInd, HistoryFits
  <2>2. \A n \in files : Indexed(n, index)
    BY <2>1 DEF FilesAreIndexed, HasWritten, Adds, Quiet
  <2>3. \A n : Indexed(n, index) => n \in files
    BY <2>1 DEF IndexIsFiled, Lacks, Indexed, Quiet
  <2> QED
    BY <2>1, <2>2, <2>3, HistoryTypes
<1> QED
  BY <1>1, HistoryIndInit, HistoryIndNext, PTL DEF HistorySpec


(***************************************************************************)
(* Documents of results.                                                   *)
(***************************************************************************)

\* A self edit of queue q that changes the text and has not yet: ap, if the
\* first has been applied.
Unapplied(q, ap) == \E i \in 1 .. Len(q) : q[i].op \in {"options", "layout"} /\ (i = 1 => ~ap)

\* What a tab holds that changes one thing at a time: text tx, result st, the result
\* tb of its tables, versions md last made, queue q.
TabFits(tx, st, tb, md, q, ap) ==
    /\ md.layout = 0 => st.id = md.id /\ st.layout = 0
    /\ md.chart = 0 => tb = md
    /\ \A i \in 1 .. Len(q) :
          /\ q[i].op = "options" => i = 1 /\ md.chart > 0 /\ q[i].new = md /\ (~ap => q[i].base = tx)
          /\ q[i].op = "layout" => md.chart = 0
    /\ tx = md \/ Unapplied(q, ap)

TabIsFit(d) ==
    ~docCrossed[d] /\ ~mixed[d] =>
        TabFits(text[d], docState[d], docTables[d], docMade[d], queue[d], applied[d])

\* With no self edit queued none is applied, and with none to come the file is the text.
IdleIsSaved(d) == queue[d] = <<>> => ~applied[d] /\ (~timer[d] => disk[d] = text[d])

QueuesAreTyped == queue \in [Docs -> Seq(SelfEdit)] /\ depth \in [Docs -> Nat]

DocumentInd ==
    /\ DocumentTypeOK /\ QueuesAreTyped /\ RendersComeFromOutside
    /\ \A d \in Docs : IdleIsSaved(d) /\ TabIsFit(d)

LEMMA DocumentIndInit == DocumentInit => DocumentInd
<1> SUFFICES ASSUME DocumentInit PROVE DocumentInd
  OBVIOUS
<1> USE DocumentAssumption
<1>1. \A d \in Docs : Opened(d) \in Saved
  BY DEF Opened, Saved, Version
<1>2. /\ text = [d \in Docs |-> Opened(d)] /\ disk = text /\ docState = text /\ docTables = text
      /\ docMade = text
      /\ same = [d \in Docs |-> TRUE] /\ timer = [d \in Docs |-> FALSE]
      /\ applied = [d \in Docs |-> FALSE]
      /\ queue = [d \in Docs |-> <<>>] /\ depth = [d \in Docs |-> 0]
      /\ rerun = [d \in Docs |-> None]
      /\ renders = [d \in Docs |-> 0] /\ outside = renders /\ docEdits = 0
      /\ docCrossed = [d \in Docs |-> FALSE] /\ mixed = docCrossed
  BY DEF DocumentInit
<1>3. QueuesAreTyped
  BY <1>2 DEF QueuesAreTyped
<1>4. DocumentTypeOK
  <2>1. text \in [Docs -> Saved] /\ docEdits \in 0 .. MaxDocEdits
    BY <1>1, <1>2
  <2>2. \A d \in Docs : Len(queue[d]) = 0
    BY <1>2
  <2> QED
    BY <1>2, <2>1, <2>2 DEF DocumentTypeOK
<1>5. RendersComeFromOutside
  BY <1>2 DEF RendersComeFromOutside
<1>6. ASSUME NEW d \in Docs PROVE IdleIsSaved(d) /\ TabIsFit(d)
  <2>1. /\ text[d] = Opened(d) /\ docState[d] = Opened(d) /\ docTables[d] = Opened(d)
        /\ docMade[d] = Opened(d) /\ disk[d] = Opened(d) /\ Len(queue[d]) = 0 /\ ~applied[d]
    BY <1>2
  <2> QED
    BY <2>1 DEF IdleIsSaved, TabIsFit, TabFits, Opened
<1> QED
  BY <1>3, <1>4, <1>5, <1>6 DEF DocumentInd
-----------------------------------------------------------------------------
LEMMA DocumentTypes ==
  ASSUME DocumentInd
  PROVE  /\ text \in [Docs -> Saved \union {Torn}] /\ disk \in [Docs -> Saved \union {Torn}]
         /\ docState \in [Docs -> Saved] /\ docTables \in [Docs -> Saved] /\ docMade \in [Docs -> Saved]
         /\ queue \in [Docs -> Seq(SelfEdit)] /\ depth \in [Docs -> Nat]
         /\ \A d \in Docs : depth[d] = Len(queue[d]) /\ Len(queue[d]) \in Nat
         /\ same \in [Docs -> BOOLEAN] /\ applied \in [Docs -> BOOLEAN] /\ timer \in [Docs -> BOOLEAN]
         /\ rerun \in [Docs -> Version \union {None}]
         /\ renders \in [Docs -> Nat] /\ outside \in [Docs -> Nat] /\ docEdits \in 0 .. MaxDocEdits
         /\ docCrossed \in [Docs -> BOOLEAN] /\ mixed \in [Docs -> BOOLEAN]
  BY DEF DocumentInd, DocumentTypeOK, QueuesAreTyped

\* The type of the documents follows from that of each part.
LEMMA DocumentTyped ==
  ASSUME text' \in [Docs -> Saved \union {Torn}], disk' \in [Docs -> Saved \union {Torn}],
         docState' \in [Docs -> Saved], docTables' \in [Docs -> Saved], docMade' \in [Docs -> Saved],
         queue' \in [Docs -> Seq(SelfEdit)], depth' \in [Docs -> Nat],
         \A d \in Docs : depth'[d] = Len(queue'[d]),
         same' \in [Docs -> BOOLEAN], applied' \in [Docs -> BOOLEAN], timer' \in [Docs -> BOOLEAN],
         rerun' \in [Docs -> Version \union {None}],
         renders' \in [Docs -> Nat], outside' \in [Docs -> Nat], docEdits' \in 0 .. MaxDocEdits,
         docCrossed' \in [Docs -> BOOLEAN], mixed' \in [Docs -> BOOLEAN]
  PROVE  DocumentTypeOK' /\ QueuesAreTyped'
<1>1. \A d \in Docs : \A i \in 1 .. Len(queue'[d]) : queue'[d][i] \in SelfEdit
  OBVIOUS
<1> QED
  BY <1>1 DEF DocumentTypeOK, QueuesAreTyped

LEMMA SavedFacts ==
  /\ Torn \notin Saved
  /\ \A t \in Saved : t.id \in Docs /\ t.chart \in Nat /\ t.layout \in Nat
  /\ \A t \in Saved, n \in Version : /\ [t EXCEPT !.chart = n] \in Saved /\ [t EXCEPT !.layout = n] \in Saved
                                     /\ [t EXCEPT !.chart = n].chart = n /\ [t EXCEPT !.layout = n].layout = n
                                     /\ [t EXCEPT !.chart = n].layout = t.layout
                                     /\ [t EXCEPT !.chart = n].id = t.id
                                     /\ [t EXCEPT !.layout = n].chart = t.chart
  /\ \A d \in Docs, n \in Version : [id |-> d, chart |-> n, layout |-> 0] \in Saved
<1> USE DocumentAssumption
<1>1. Torn \notin Saved
  BY DEF Torn, Saved
<1>2. 0 \in Version
  BY DEF Version
<1> QED
  BY <1>1, <1>2 DEF Saved, Version

LEMMA SameSaved ==
  ASSUME NEW t \in Saved, NEW u \in Saved, t.id = u.id, t.chart = u.chart, t.layout = u.layout
  PROVE  t = u
  BY DEF Saved

LEMMA SelfEditFacts ==
  ASSUME NEW w \in SelfEdit
  PROVE  /\ w.op \in {"options", "layout", "save"}
         /\ w.op = "options" => w.new \in Saved /\ w.base \in Saved \union {Torn}
  BY DEF SelfEdit

\* What the change listener leaves.
LEMMA ChangedFacts ==
  ASSUME DocumentInd, NEW d \in Docs, NEW t \in Saved \union {Torn}, NEW s \in [Docs -> Saved],
         Changed(d, t, s)
  PROVE  /\ docState' \in [Docs -> Saved] /\ docTables' \in [Docs -> Saved]
         /\ same' \in [Docs -> BOOLEAN] /\ renders' \in [Docs -> Nat]
         /\ \A e \in Docs \ {d} : docState'[e] = s[e] /\ docTables'[e] = docTables[e] /\ renders'[e] = renders[e]
         /\ renders'[d] <= renders[d] + 1
         /\ depth[d] > 0 => docState' = s /\ docTables' = docTables /\ renders' = renders
         /\ depth[d] = 0 /\ t \in Saved => docState'[d] = t /\ docTables'[d] = t
<1> USE DocumentTypes, SavedFacts
<1>1. CASE depth[d] > 0 \/ t = Torn
  <2>1. docState' = s /\ UNCHANGED <<docTables, same, renders>>
    BY <1>1 DEF Changed
  <2> QED
    BY <1>1, <2>1
<1>2. CASE ~(depth[d] > 0 \/ t = Torn)
  <2>1. /\ docState' = [s EXCEPT ![d] = t] /\ docTables' = [docTables EXCEPT ![d] = t]
        /\ same' = [same EXCEPT ![d] = TRUE]
        /\ renders' = [renders EXCEPT ![d] = @ + 1]
    BY <1>2 DEF Changed
  <2>2. t \in Saved /\ renders[d] + 1 \in Nat
    BY <1>2
  <2> QED
    BY <1>2, <2>1, <2>2
<1> QED
  BY <1>1, <1>2

\* A self edit is queued.
LEMMA RunFacts ==
  ASSUME DocumentInd, NEW d \in Docs, NEW w \in SelfEdit, RunSelfEdit(d, w)
  PROVE  /\ queue' \in [Docs -> Seq(SelfEdit)] /\ depth' \in [Docs -> Nat]
         /\ \A e \in Docs : depth'[e] = Len(queue'[e])
         /\ queue'[d] = Append(queue[d], w) /\ queue'[d] # <<>>
         /\ \A e \in Docs \ {d} : queue'[e] = queue[e]
<1>1. /\ queue' = [queue EXCEPT ![d] = Append(queue[d], w)]
      /\ depth' = [depth EXCEPT ![d] = depth[d] + 1]
  BY DEF RunSelfEdit
<1>2. /\ queue[d] \in Seq(SelfEdit) /\ depth[d] = Len(queue[d]) /\ depth[d] \in Nat
      /\ queue \in [Docs -> Seq(SelfEdit)] /\ depth \in [Docs -> Nat]
      /\ \A e \in Docs : depth[e] = Len(queue[e])
  BY DocumentTypes
<1>3. Append(queue[d], w) \in Seq(SelfEdit) /\ Len(Append(queue[d], w)) = Len(queue[d]) + 1
      /\ Append(queue[d], w) # <<>>
  <2> DEFINE q == queue[d]
  <2>1. q \in Seq(SelfEdit)
    BY <1>2
  <2> HIDE DEF q
  <2>2. Append(q, w) \in Seq(SelfEdit) /\ Len(Append(q, w)) = Len(q) + 1 /\ Len(q) \in Nat
    BY <2>1
  <2>3. Append(q, w) # <<>>
    BY <2>2
  <2> QED
    BY <2>2, <2>3 DEF q
<1> QED
  BY <1>1, <1>2, <1>3

\* A tab that no part of has changed.
LEMMA TabStays ==
  ASSUME NEW e \in Docs, IdleIsSaved(e), TabIsFit(e), text'[e] = text[e], disk'[e] = disk[e],
         docState'[e] = docState[e], docTables'[e] = docTables[e], docMade'[e] = docMade[e],
         queue'[e] = queue[e], applied'[e] = applied[e], timer'[e] = timer[e],
         docCrossed'[e] = docCrossed[e], mixed'[e] = mixed[e]
  PROVE  IdleIsSaved(e)' /\ TabIsFit(e)'
  BY DEF IdleIsSaved, TabIsFit

LEMMA TabSaves ==
  ASSUME NEW q \in Seq(SelfEdit), NEW w \in SelfEdit, w.op = "save", NEW tx, NEW st, NEW tb, NEW md,
         NEW ap, TabFits(tx, st, tb, md, q, ap)
  PROVE  TabFits(tx, st, tb, md, Append(q, w), ap)
<1> DEFINE r == Append(q, w)
<1>1. Len(r) = Len(q) + 1 /\ Len(q) \in Nat /\ r[Len(q) + 1] = w /\ \A i \in 1 .. Len(q) : r[i] = q[i]
  OBVIOUS
<1> HIDE DEF r
<1>2. \A i \in 1 .. Len(r) :
        (i \in 1 .. Len(q) /\ r[i] = q[i]) \/ r[i].op = "save"
  BY <1>1
<1>3. Unapplied(q, ap) => Unapplied(r, ap)
  BY <1>1 DEF Unapplied
<1>4. TabFits(tx, st, tb, md, r, ap)
  BY <1>1, <1>2, <1>3 DEF TabFits
<1> QED
  BY <1>4 DEF r

LEMMA TabOptions ==
  ASSUME NEW w \in SelfEdit, w.op = "options", NEW tx, NEW st, NEW tb, NEW md \in Saved,
         md.chart > 0, w.new = md, w.base = tx, st = md
  PROVE  TabFits(tx, st, tb, md, Append(<<>>, w), FALSE)
<1> DEFINE r == Append(<<>>, w)
<1>1. Len(r) = 1 /\ r[1] = w
  OBVIOUS
<1> HIDE DEF r
<1>2. md.chart # 0
  BY SavedFacts
<1>3. TabFits(tx, st, tb, md, r, FALSE)
  BY <1>1, <1>2 DEF TabFits, Unapplied
<1> QED
  BY <1>3 DEF r

LEMMA TabLayout ==
  ASSUME NEW q \in Seq(SelfEdit), NEW w \in SelfEdit, w.op = "layout", NEW tx, NEW st, NEW tb, NEW md \in Saved,
         NEW ap, TabFits(tx, st, tb, md, q, ap), md.chart = 0, q = <<>> => ~ap,
         NEW st2, NEW n \in Version \ {0}
  PROVE  TabFits(tx, st2, [tb EXCEPT !.layout = n], [md EXCEPT !.layout = n], Append(q, w), ap)
<1> DEFINE r == Append(q, w)
           m == [md EXCEPT !.layout = n]
<1>1. Len(r) = Len(q) + 1 /\ Len(q) \in Nat /\ r[Len(q) + 1] = w /\ \A i \in 1 .. Len(q) : r[i] = q[i]
  OBVIOUS
<1>2. m.chart = 0 /\ m.layout # 0
  BY SavedFacts
<1>3. [tb EXCEPT !.layout = n] = m
  BY DEF TabFits
<1>4. q = <<>> <=> Len(q) = 0
  OBVIOUS
<1> HIDE DEF r, m
<1>5. \A i \in 1 .. Len(r) : (i \in 1 .. Len(q) /\ r[i] = q[i]) \/ r[i].op = "layout"
  BY <1>1
<1>6. Unapplied(r, ap)
  BY <1>1, <1>4 DEF Unapplied
<1>7. \A i \in 1 .. Len(q) : q[i].op # "options"
  BY SavedFacts DEF TabFits
<1>8. TabFits(tx, st2, m, m, r, ap)
  BY <1>1, <1>2, <1>5, <1>6, <1>7 DEF TabFits
<1> QED
  BY <1>3, <1>8 DEF r, m


\* The first self edit reaches the text.
LEMMA TabApply ==
  ASSUME NEW q \in Seq(SelfEdit), q # <<>>, NEW tx, NEW st, NEW tb, NEW md,
         TabFits(tx, st, tb, md, q, FALSE), NEW t,
         q[1].op = "options" /\ tx = q[1].base => t = q[1].new,
         q[1].op = "layout" => t = tb,
         q[1].op = "save" => t = tx
  PROVE  TabFits(t, st, tb, md, q, TRUE)
<1>1. Len(q) \in Nat \ {0} /\ q[1] \in SelfEdit
  OBVIOUS
<1>2. q[1].op \in {"options", "layout", "save"}
  BY <1>1, SelfEditFacts
<1>3. CASE q[1].op \in {"options", "layout"}
  <2>1. t = md
    BY <1>1, <1>3 DEF TabFits
  <2> QED
    BY <2>1 DEF TabFits
<1>4. CASE q[1].op = "save"
  <2>1. Unapplied(q, FALSE) => Unapplied(q, TRUE)
    BY <1>4 DEF Unapplied
  <2> QED
    BY <1>1, <1>4, <2>1 DEF TabFits
<1> QED
  BY <1>2, <1>3, <1>4

\* The first self edit ends.
LEMMA TabEnds ==
  ASSUME NEW q \in Seq(SelfEdit), q # <<>>, NEW tx, NEW st, NEW tb, NEW md,
         TabFits(tx, st, tb, md, q, TRUE)
  PROVE  TabFits(tx, st, tb, md, Tail(q), FALSE)
<1> DEFINE r == Tail(q)
<1>1. Len(q) \in Nat \ {0} /\ Len(r) = Len(q) - 1 /\ \A i \in 1 .. Len(r) : r[i] = q[i + 1]
  OBVIOUS
<1> HIDE DEF r
<1>2. \A i \in 1 .. Len(r) : i + 1 \in 1 .. Len(q) /\ i + 1 # 1 /\ r[i] = q[i + 1]
  BY <1>1
<1>3. Unapplied(q, TRUE) => Unapplied(r, FALSE)
  <2> SUFFICES ASSUME NEW i \in 1 .. Len(q), q[i].op \in {"options", "layout"}, i # 1
               PROVE  Unapplied(r, FALSE)
    BY DEF Unapplied
  <2>1. i - 1 \in 1 .. Len(r) /\ r[i - 1] = q[i]
    BY <1>1
  <2> QED
    BY <2>1 DEF Unapplied
<1>4. TabFits(tx, st, tb, md, r, FALSE)
  BY <1>2, <1>3 DEF TabFits
<1> QED
  BY <1>4 DEF r
-----------------------------------------------------------------------------
\* The chart's options are changed in the tab.
LEMMA DocumentIndOptions ==
  ASSUME DocumentInd, NEW d \in Docs, EditOptions(d)
  PROVE  DocumentInd'
<1> USE DocumentAssumption, DocumentTypes
<1> DEFINE new == [docState[d] EXCEPT !.chart = docEdits']
           w == [op |-> "options", new |-> new, base |-> text[d]]
<1>1. /\ docEdits < MaxDocEdits /\ docEdits' = docEdits + 1
      /\ docState' = [docState EXCEPT ![d] = new]
      /\ same' = [same EXCEPT ![d] = @ /\ docTables[d].layout > 0]
      /\ RunSelfEdit(d, w)
      /\ docMade' = [docMade EXCEPT ![d].chart = docEdits']
      /\ mixed' = [mixed EXCEPT ![d] = @ \/ docMade[d].layout > 0]
      /\ docCrossed' = [docCrossed EXCEPT ![d] = @ \/ queue[d] # <<>> \/ rerun[d] # None]
      /\ UNCHANGED <<text, disk, docTables, applied, timer, rerun, renders, outside>>
  BY DEF EditOptions
<1>2. docEdits' \in Version \ {0} /\ docEdits' \in Nat
  BY <1>1 DEF Version
<1>3. new \in Saved /\ new.id = docState[d].id /\ new.chart = docEdits' /\ new.layout = docState[d].layout
  BY <1>2, SavedFacts, ZenonT(40)
<1>4. w \in SelfEdit /\ w.op = "options" /\ w.new = new /\ w.base = text[d]
  BY <1>3 DEF SelfEdit
<1> HIDE DEF new, w
<1>5. /\ queue' \in [Docs -> Seq(SelfEdit)] /\ depth' \in [Docs -> Nat]
      /\ \A e \in Docs : depth'[e] = Len(queue'[e])
      /\ queue'[d] = Append(queue[d], w) /\ queue'[d] # <<>>
      /\ \A e \in Docs \ {d} : queue'[e] = queue[e]
  BY <1>1, <1>4, RunFacts
<1>6. /\ docMade'[d] = [docMade[d] EXCEPT !.chart = docEdits'] /\ docMade'[d] \in Saved
      /\ docMade'[d].chart = docEdits' /\ docMade'[d].layout = docMade[d].layout /\ docMade'[d].id = docMade[d].id
      /\ docMade' \in [Docs -> Saved]
  <2>1. docMade'[d] = [docMade[d] EXCEPT !.chart = docEdits'] /\ docMade[d] \in Saved
    BY <1>1
  <2>2. [docMade[d] EXCEPT !.chart = docEdits'] \in Saved
    BY <1>2, <2>1, SavedFacts
  <2>3. docMade' \in [Docs -> Saved]
    BY <1>1, <2>2
  <2> QED
    BY <1>2, <2>1, <2>2, <2>3, SavedFacts
<1>7. DocumentTypeOK' /\ QueuesAreTyped'
  <2>1. docState' \in [Docs -> Saved] /\ docEdits' \in 0 .. MaxDocEdits
    BY <1>1, <1>3
  <2>2. same' \in [Docs -> BOOLEAN] /\ mixed' \in [Docs -> BOOLEAN] /\ docCrossed' \in [Docs -> BOOLEAN]
    BY <1>1
  <2> QED
    BY <1>1, <1>5, <1>6, <2>1, <2>2, DocumentTyped
<1>8. RendersComeFromOutside'
  BY <1>1 DEF DocumentInd, RendersComeFromOutside
<1>9. ASSUME NEW e \in Docs PROVE IdleIsSaved(e)' /\ TabIsFit(e)'
  <2>1. IdleIsSaved(e) /\ TabIsFit(e)
    BY DEF DocumentInd
  <2>2. CASE e # d
    <3>1. /\ text'[e] = text[e] /\ disk'[e] = disk[e] /\ docTables'[e] = docTables[e]
          /\ applied'[e] = applied[e] /\ timer'[e] = timer[e] /\ queue'[e] = queue[e]
      BY <1>1, <1>5, <2>2
    <3>2. /\ docState'[e] = docState[e] /\ docMade'[e] = docMade[e]
          /\ docCrossed'[e] = docCrossed[e] /\ mixed'[e] = mixed[e]
      BY <1>1, <2>2
    <3> QED
      BY <2>1, <3>1, <3>2, TabStays
  <2>3. CASE e = d
    <3>1. IdleIsSaved(d)'
      BY <1>5 DEF IdleIsSaved
    <3>2. ASSUME ~docCrossed'[d], ~mixed'[d]
          PROVE  TabFits(text'[d], docState'[d], docTables'[d], docMade'[d], queue'[d], applied'[d])
      <4>1. ~docCrossed[d] /\ ~mixed[d] /\ queue[d] = <<>> /\ ~(docMade[d].layout > 0)
        BY <1>1, <3>2
      <4>2. docMade[d].layout = 0
        BY <4>1, SavedFacts
      <4>3. docState[d].id = docMade[d].id /\ docState[d].layout = 0
        BY <2>1, <2>3, <4>1, <4>2 DEF TabIsFit, TabFits
      <4>4. new = docMade'[d]
        <5> DEFINE m == docMade'[d]
        <5>1. new \in Saved /\ m \in Saved
          BY <1>3, <1>6
        <5>2. new.id = m.id /\ new.chart = m.chart /\ new.layout = m.layout
          BY <1>3, <1>6, <4>2, <4>3
        <5> HIDE DEF m
        <5>3. new = m
          BY <5>1, <5>2, SameSaved
        <5> QED
          BY <5>3 DEF m
      <4>5. applied'[d] = FALSE
        BY <1>1, <2>1, <2>3, <4>1 DEF IdleIsSaved
      <4>6. docState'[d] = docMade'[d] /\ text'[d] = text[d] /\ docTables'[d] = docTables[d]
        BY <1>1, <4>4
      <4>7. docMade'[d].chart > 0 /\ docMade'[d] \in Saved
        BY <1>2, <1>6
      <4>8. TabFits(text[d], docMade'[d], docTables[d], docMade'[d], Append(<<>>, w), FALSE)
        BY <1>4, <4>4, <4>7, TabOptions
      <4> QED
        BY <1>5, <4>1, <4>5, <4>6, <4>8
    <3> QED
      BY <2>3, <3>1, <3>2 DEF TabIsFit
  <2> QED
    BY <2>2, <2>3
<1> QED
  BY <1>7, <1>8, <1>9 DEF DocumentInd

\* A table's layout is changed in the tab.
LEMMA DocumentIndLayout ==
  ASSUME DocumentInd, NEW d \in Docs, EditLayout(d)
  PROVE  DocumentInd'
<1> USE DocumentAssumption, DocumentTypes
<1> DEFINE w == [op |-> "layout"]
<1>1. /\ docEdits < MaxDocEdits /\ docEdits' = docEdits + 1
      /\ docTables' = [docTables EXCEPT ![d].layout = docEdits']
      /\ docState' = IF same[d] THEN [docState EXCEPT ![d].layout = docEdits'] ELSE docState
      /\ RunSelfEdit(d, w)
      /\ docMade' = [docMade EXCEPT ![d].layout = docEdits']
      /\ mixed' = [mixed EXCEPT ![d] = @ \/ docMade[d].chart > 0]
      /\ docCrossed' = [docCrossed EXCEPT ![d] = @ \/ rerun[d] # None]
      /\ UNCHANGED <<text, disk, same, applied, timer, rerun, renders, outside>>
  BY DEF EditLayout
<1>2. docEdits' \in Version \ {0} /\ docEdits' \in Nat
  BY <1>1 DEF Version
<1>3. w \in SelfEdit /\ w.op = "layout"
  BY DEF SelfEdit
<1> HIDE DEF w
<1>4. /\ queue' \in [Docs -> Seq(SelfEdit)] /\ depth' \in [Docs -> Nat]
      /\ \A e \in Docs : depth'[e] = Len(queue'[e])
      /\ queue'[d] = Append(queue[d], w) /\ queue'[d] # <<>>
      /\ \A e \in Docs \ {d} : queue'[e] = queue[e]
  BY <1>1, <1>3, RunFacts
<1>5. \A t \in Saved : [t EXCEPT !.layout = docEdits'] \in Saved
  BY <1>2, SavedFacts
<1>6. docMade' \in [Docs -> Saved] /\ docTables' \in [Docs -> Saved] /\ docState' \in [Docs -> Saved]
  <2>1. docMade' \in [Docs -> Saved]
    BY <1>1, <1>5
  <2>2. docTables' \in [Docs -> Saved]
    BY <1>1, <1>5
  <2>3. docState' \in [Docs -> Saved]
    BY <1>1, <1>5
  <2> QED
    BY <2>1, <2>2, <2>3
<1>7. DocumentTypeOK' /\ QueuesAreTyped'
  <2>1. mixed' \in [Docs -> BOOLEAN] /\ docCrossed' \in [Docs -> BOOLEAN] /\ docEdits' \in 0 .. MaxDocEdits
    BY <1>1
  <2> QED
    BY <1>1, <1>4, <1>6, <2>1, DocumentTyped
<1>8. RendersComeFromOutside'
  BY <1>1 DEF DocumentInd, RendersComeFromOutside
<1>9. ASSUME NEW e \in Docs PROVE IdleIsSaved(e)' /\ TabIsFit(e)'
  <2>1. IdleIsSaved(e) /\ TabIsFit(e)
    BY DEF DocumentInd
  <2>2. CASE e # d
    <3>1. /\ text'[e] = text[e] /\ disk'[e] = disk[e] /\ docTables'[e] = docTables[e]
          /\ applied'[e] = applied[e] /\ timer'[e] = timer[e] /\ queue'[e] = queue[e]
      BY <1>1, <1>4, <2>2
    <3>2. /\ docState'[e] = docState[e] /\ docMade'[e] = docMade[e]
          /\ docCrossed'[e] = docCrossed[e] /\ mixed'[e] = mixed[e]
      BY <1>1, <2>2
    <3> QED
      BY <2>1, <3>1, <3>2, TabStays
  <2>3. CASE e = d
    <3>1. IdleIsSaved(d)'
      BY <1>4 DEF IdleIsSaved
    <3>2. ASSUME ~docCrossed'[d], ~mixed'[d]
          PROVE  TabFits(text'[d], docState'[d], docTables'[d], docMade'[d], queue'[d], applied'[d])
      <4>1. ~docCrossed[d] /\ ~mixed[d] /\ ~(docMade[d].chart > 0)
        BY <1>1, <3>2
      <4>2. docMade[d].chart = 0
        BY <4>1, SavedFacts
      <4>3. TabFits(text[d], docState[d], docTables[d], docMade[d], queue[d], applied[d])
        BY <2>1, <2>3, <4>1 DEF TabIsFit
      <4>4. queue[d] = <<>> => ~applied[d]
        BY <2>1, <2>3 DEF IdleIsSaved
      <4>5. TabFits(text[d], docState'[d], [docTables[d] EXCEPT !.layout = docEdits'],
                    [docMade[d] EXCEPT !.layout = docEdits'], Append(queue[d], w), applied[d])
        BY <1>2, <1>3, <4>2, <4>3, <4>4, TabLayout
      <4>6. /\ text'[d] = text[d] /\ applied'[d] = applied[d]
            /\ docTables'[d] = [docTables[d] EXCEPT !.layout = docEdits']
            /\ docMade'[d] = [docMade[d] EXCEPT !.layout = docEdits']
        BY <1>1
      <4> QED
        BY <1>4, <4>5, <4>6
    <3> QED
      BY <2>3, <3>1, <3>2 DEF TabIsFit
  <2> QED
    BY <2>2, <2>3
<1> QED
  BY <1>7, <1>8, <1>9 DEF DocumentInd

\* The timer of the redraw queues a save.
LEMMA DocumentIndTimer ==
  ASSUME DocumentInd, NEW d \in Docs, DocTimerFires(d)
  PROVE  DocumentInd'
<1> USE DocumentAssumption, DocumentTypes
<1> DEFINE w == [op |-> "save"]
<1>1. /\ timer' = [timer EXCEPT ![d] = FALSE] /\ RunSelfEdit(d, w)
      /\ UNCHANGED <<text, disk, docState, docTables, same, applied, rerun, renders, outside,
                     docMade, docCrossed, mixed, docEdits>>
  BY DEF DocTimerFires
<1>2. w \in SelfEdit /\ w.op = "save"
  BY DEF SelfEdit
<1> HIDE DEF w
<1>3. /\ queue' \in [Docs -> Seq(SelfEdit)] /\ depth' \in [Docs -> Nat]
      /\ \A e \in Docs : depth'[e] = Len(queue'[e])
      /\ queue'[d] = Append(queue[d], w) /\ queue'[d] # <<>>
      /\ \A e \in Docs \ {d} : queue'[e] = queue[e]
  BY <1>1, <1>2, RunFacts
<1>4. DocumentTypeOK' /\ QueuesAreTyped'
  <2>1. timer' \in [Docs -> BOOLEAN]
    BY <1>1
  <2> QED
    BY <1>1, <1>3, <2>1, DocumentTyped
<1>5. RendersComeFromOutside'
  BY <1>1 DEF DocumentInd, RendersComeFromOutside
<1>6. ASSUME NEW e \in Docs PROVE IdleIsSaved(e)' /\ TabIsFit(e)'
  <2>1. IdleIsSaved(e) /\ TabIsFit(e)
    BY DEF DocumentInd
  <2>2. CASE e # d
    <3>1. queue'[e] = queue[e] /\ timer'[e] = timer[e]
      BY <1>1, <1>3, <2>2
    <3> QED
      BY <1>1, <2>1, <3>1, TabStays
  <2>3. CASE e = d
    <3>1. IdleIsSaved(d)'
      BY <1>3 DEF IdleIsSaved
    <3>2. ASSUME ~docCrossed[d], ~mixed[d]
          PROVE  TabFits(text[d], docState[d], docTables[d], docMade[d], queue'[d], applied[d])
      <4>1. TabFits(text[d], docState[d], docTables[d], docMade[d], queue[d], applied[d])
        BY <2>1, <2>3, <3>2 DEF TabIsFit
      <4>2. TabFits(text[d], docState[d], docTables[d], docMade[d], Append(queue[d], w), applied[d])
        BY <1>2, <4>1, TabSaves
      <4> QED
        BY <1>3, <4>2
    <3> QED
      BY <1>1, <2>3, <3>1, <3>2 DEF TabIsFit
  <2> QED
    BY <2>2, <2>3
<1> QED
  BY <1>4, <1>5, <1>6 DEF DocumentInd


\* The first self edit reaches the text: nothing is rendered.
LEMMA DocumentIndApply ==
  ASSUME DocumentInd, NEW d \in Docs, Apply(d)
  PROVE  DocumentInd'
<1> USE DocumentAssumption, DocumentTypes
<1> DEFINE q == queue[d]
           w == Head(q)
<1>1. /\ q # <<>> /\ ~applied[d] /\ applied' = [applied EXCEPT ![d] = TRUE]
      /\ UNCHANGED <<disk, queue, depth, timer, rerun, outside, docMade, docCrossed, mixed, docEdits>>
  BY DEF Apply
<1>2. PICK t \in CASE w.op = "options" -> Replaced(text[d], w.base, w.new)
                  [] w.op = "layout" -> {docTables[d]}
                  [] w.op = "save" -> {text[d]} :
        /\ text' = [text EXCEPT ![d] = t]
        /\ IF t = text[d] THEN UNCHANGED <<docState, docTables, same, renders>> ELSE Changed(d, t, docState)
  BY DEF Apply
<1>3. q \in Seq(SelfEdit) /\ Len(q) \in Nat \ {0} /\ w = q[1] /\ w \in SelfEdit /\ depth[d] > 0
  <2>1. q \in Seq(SelfEdit) /\ depth[d] = Len(q)
    BY DEF q
  <2> HIDE DEF q
  <2> QED
    BY <1>1, <2>1
<1> HIDE DEF q, w
<1>4. w.op \in {"options", "layout", "save"}
      /\ (w.op = "options" => w.new \in Saved /\ w.base \in Saved \union {Torn})
  BY <1>3, SelfEditFacts
<1>5. /\ t \in Saved \union {Torn}
      /\ w.op = "options" /\ text[d] = w.base => t = w.new
      /\ w.op = "layout" => t = docTables[d]
      /\ w.op = "save" => t = text[d]
  <2>1. CASE w.op = "options"
    BY <1>2, <1>4, <2>1 DEF Replaced
  <2>2. CASE w.op = "layout"
    BY <1>2, <2>2
  <2>3. CASE w.op = "save"
    BY <1>2, <2>3
  <2> QED
    BY <1>4, <2>1, <2>2, <2>3
<1>6. docState' = docState /\ docTables' = docTables /\ renders' = renders /\ same' \in [Docs -> BOOLEAN]
  <2>1. CASE t = text[d]
    BY <1>2, <2>1
  <2>2. CASE t # text[d]
    BY <1>2, <1>3, <1>5, <2>2, ChangedFacts
  <2> QED
    BY <2>1, <2>2
<1>7. text' \in [Docs -> Saved \union {Torn}] /\ text'[d] = t /\ applied' \in [Docs -> BOOLEAN]
      /\ applied'[d] = TRUE /\ \A e \in Docs \ {d} : text'[e] = text[e] /\ applied'[e] = applied[e]
  BY <1>1, <1>2, <1>5
<1>8. DocumentTypeOK' /\ QueuesAreTyped'
  BY <1>1, <1>6, <1>7, DocumentTyped
<1>9. RendersComeFromOutside'
  BY <1>1, <1>6 DEF DocumentInd, RendersComeFromOutside
<1>10. ASSUME NEW e \in Docs PROVE IdleIsSaved(e)' /\ TabIsFit(e)'
  <2>1. IdleIsSaved(e) /\ TabIsFit(e)
    BY DEF DocumentInd
  <2>2. CASE e # d
    BY <1>1, <1>6, <1>7, <2>1, <2>2, TabStays
  <2>3. CASE e = d
    <3>1. IdleIsSaved(d)'
      BY <1>1 DEF IdleIsSaved, q
    <3>2. ASSUME ~docCrossed[d], ~mixed[d]
          PROVE  TabFits(t, docState[d], docTables[d], docMade[d], q, TRUE)
      <4>1. TabFits(text[d], docState[d], docTables[d], docMade[d], q, FALSE)
        BY <1>1, <2>1, <2>3, <3>2 DEF TabIsFit, q
      <4> QED
        BY <1>1, <1>3, <1>5, <4>1, TabApply
    <3> QED
      BY <1>1, <1>6, <1>7, <2>3, <3>1, <3>2 DEF TabIsFit, q
  <2> QED
    BY <2>2, <2>3
<1> QED
  BY <1>8, <1>9, <1>10 DEF DocumentInd

\* The first self edit ends.
LEMMA DocumentIndEnd ==
  ASSUME DocumentInd, NEW d \in Docs, End(d)
  PROVE  DocumentInd'
<1> USE DocumentAssumption, DocumentTypes
<1> DEFINE q == queue[d]
           w == Head(q)
<1>1. /\ q # <<>> /\ applied[d]
      /\ disk' = IF SavesFile(w) THEN [disk EXCEPT ![d] = text[d]] ELSE disk
      /\ timer' = [timer EXCEPT ![d] = @ \/ w.op = "options"]
      /\ queue' = [queue EXCEPT ![d] = Tail(q)]
      /\ applied' = [applied EXCEPT ![d] = FALSE]
      /\ depth' = [depth EXCEPT ![d] = depth[d] - 1]
      /\ UNCHANGED <<text, docState, docTables, same, rerun, renders, outside, docMade, docCrossed, mixed, docEdits>>
  BY DEF End
<1>2. q \in Seq(SelfEdit) /\ depth[d] = Len(q)
  BY DEF q
<1> HIDE DEF q
<1>3. /\ Len(q) \in Nat \ {0} /\ w \in SelfEdit
      /\ Tail(q) \in Seq(SelfEdit) /\ Len(Tail(q)) = Len(q) - 1
  BY <1>1, <1>2
<1> HIDE DEF w
<1>4. w.op \in {"options", "layout", "save"}
  BY <1>3, SelfEditFacts
<1>5. DocumentTypeOK' /\ QueuesAreTyped'
  <2>1. queue' \in [Docs -> Seq(SelfEdit)] /\ depth' \in [Docs -> Nat]
        /\ \A e \in Docs : depth'[e] = Len(queue'[e])
    BY <1>1, <1>2, <1>3
  <2>2. disk' \in [Docs -> Saved \union {Torn}]
    BY <1>1
  <2>3. timer' \in [Docs -> BOOLEAN] /\ applied' \in [Docs -> BOOLEAN]
    BY <1>1
  <2> QED
    BY <1>1, <2>1, <2>2, <2>3, DocumentTyped
<1>6. RendersComeFromOutside'
  BY <1>1 DEF DocumentInd, RendersComeFromOutside
<1>7. ASSUME NEW e \in Docs PROVE IdleIsSaved(e)' /\ TabIsFit(e)'
  <2>1. IdleIsSaved(e) /\ TabIsFit(e)
    BY DEF DocumentInd
  <2>2. CASE e # d
    <3>1. disk'[e] = disk[e] /\ timer'[e] = timer[e] /\ queue'[e] = queue[e] /\ applied'[e] = applied[e]
      BY <1>1, <2>2
    <3> QED
      BY <1>1, <2>1, <3>1, TabStays
  <2>3. CASE e = d
    <3>1. queue'[d] = Tail(q) /\ applied'[d] = FALSE
      BY <1>1
    <3>2. ~timer'[d] => disk'[d] = text[d]
      <4>1. timer'[d] = (timer[d] \/ w.op = "options")
        BY <1>1
      <4>2. w.op # "options" => SavesFile(w)
        BY <1>4 DEF SavesFile
      <4> QED
        BY <1>1, <4>1, <4>2
    <3>3. IdleIsSaved(d)'
      BY <1>1, <3>1, <3>2 DEF IdleIsSaved
    <3>4. ASSUME ~docCrossed[d], ~mixed[d]
          PROVE  TabFits(text[d], docState[d], docTables[d], docMade[d], Tail(q), FALSE)
      <4>1. TabFits(text[d], docState[d], docTables[d], docMade[d], q, TRUE)
        BY <1>1, <2>1, <2>3, <3>4 DEF TabIsFit, q
      <4> QED
        BY <1>1, <1>2, <4>1, TabEnds
    <3> QED
      BY <1>1, <2>3, <3>1, <3>3, <3>4 DEF TabIsFit
  <2> QED
    BY <2>2, <2>3
<1> QED
  BY <1>5, <1>6, <1>7 DEF DocumentInd
-----------------------------------------------------------------------------
\* The text of d becomes t, with tab e's result set before, and mixed by x.
LEMMA DocumentIndOverwrite ==
  ASSUME DocumentInd, NEW d \in Docs, NEW t \in Saved, NEW s \in [Docs -> Saved], Overwrite(d, t, s),
         \A e \in Docs \ {d} : s[e].id = docState[e].id /\ s[e].layout = docState[e].layout,
         mixed' \in [Docs -> BOOLEAN], \A e \in Docs \ {d} : mixed'[e] = mixed[e],
         rerun' \in [Docs -> Version \union {None}],
         UNCHANGED <<queue, applied, depth, timer, docEdits>>
  PROVE  DocumentInd'
<1> USE DocumentAssumption, DocumentTypes
<1>1. /\ text' = [text EXCEPT ![d] = t] /\ disk' = [disk EXCEPT ![d] = t]
      /\ docMade' = [docMade EXCEPT ![d] = t]
      /\ outside' = [outside EXCEPT ![d] = outside[d] + 1]
      /\ docCrossed' = [docCrossed EXCEPT ![d] = @ \/ queue[d] # <<>> \/ timer[d]]
      /\ Changed(d, t, s)
  BY DEF Overwrite
<1>2. /\ docState' \in [Docs -> Saved] /\ docTables' \in [Docs -> Saved]
      /\ same' \in [Docs -> BOOLEAN] /\ renders' \in [Docs -> Nat]
      /\ \A e \in Docs \ {d} : docState'[e] = s[e] /\ docTables'[e] = docTables[e] /\ renders'[e] = renders[e]
      /\ renders'[d] <= renders[d] + 1
      /\ depth[d] = 0 => docState'[d] = t /\ docTables'[d] = t
  BY <1>1, ChangedFacts
<1>3. DocumentTypeOK' /\ QueuesAreTyped'
  <2>1. /\ text' \in [Docs -> Saved \union {Torn}] /\ disk' \in [Docs -> Saved \union {Torn}]
        /\ docMade' \in [Docs -> Saved]
    BY <1>1
  <2>2. outside' \in [Docs -> Nat] /\ docCrossed' \in [Docs -> BOOLEAN]
    BY <1>1
  <2> QED
    BY <1>2, <2>1, <2>2, DocumentTyped
<1>4. RendersComeFromOutside'
  <2> SUFFICES ASSUME NEW e \in Docs PROVE renders'[e] <= outside'[e]
    BY DEF RendersComeFromOutside
  <2>1. renders[e] <= outside[e] /\ renders[e] \in Nat /\ outside[e] \in Nat /\ renders'[e] \in Nat
    BY <1>2 DEF DocumentInd, RendersComeFromOutside
  <2>2. outside'[e] = IF e = d THEN outside[e] + 1 ELSE outside[e]
    BY <1>1
  <2> QED
    BY <1>2, <2>1, <2>2
<1>5. ASSUME NEW e \in Docs PROVE IdleIsSaved(e)' /\ TabIsFit(e)'
  <2>1. IdleIsSaved(e) /\ TabIsFit(e)
    BY DEF DocumentInd
  <2>2. CASE e # d
    <3>1. /\ text'[e] = text[e] /\ disk'[e] = disk[e] /\ docMade'[e] = docMade[e]
          /\ docCrossed'[e] = docCrossed[e] /\ mixed'[e] = mixed[e] /\ docTables'[e] = docTables[e]
          /\ docState'[e].id = docState[e].id /\ docState'[e].layout = docState[e].layout
      BY <1>1, <1>2, <2>2
    <3>2. IdleIsSaved(e)'
      BY <2>1, <3>1 DEF IdleIsSaved
    <3>3. TabIsFit(e)'
      BY <2>1, <3>1 DEF TabIsFit, TabFits
    <3> QED
      BY <3>2, <3>3
  <2>3. CASE e = d
    <3>1. text'[d] = t /\ disk'[d] = t /\ docMade'[d] = t
          /\ docCrossed'[d] = (docCrossed[d] \/ queue[d] # <<>> \/ timer[d])
      BY <1>1
    <3>2. IdleIsSaved(d)'
      BY <2>1, <2>3, <3>1 DEF IdleIsSaved
    <3>3. ASSUME ~docCrossed'[d]
          PROVE  TabFits(text'[d], docState'[d], docTables'[d], docMade'[d], queue'[d], applied'[d])
      <4>1. queue'[d] = <<>> /\ Len(<<>>) = 0
        BY <3>1, <3>3
      <4>2. depth[d] = 0
        BY <4>1
      <4>3. docState'[d] = t /\ docTables'[d] = t
        BY <1>2, <4>2
      <4> QED
        BY <3>1, <4>1, <4>3 DEF TabFits
    <3> QED
      BY <2>3, <3>2, <3>3 DEF TabIsFit
  <2> QED
    BY <2>2, <2>3
<1> QED
  BY <1>3, <1>4, <1>5 DEF DocumentInd

LEMMA DocumentIndStartRerun ==
  ASSUME DocumentInd, NEW d \in Docs, StartRerun(d)
  PROVE  DocumentInd'
<1> USE DocumentAssumption, DocumentTypes
<1>1. /\ rerun' = [rerun EXCEPT ![d] = docState[d].chart]
      /\ UNCHANGED <<text, disk, docState, docTables, same, queue, applied, depth, timer, renders,
                     outside, docMade, docCrossed, mixed, docEdits>>
  BY DEF StartRerun
<1>2. docState[d].chart \in Version
  <2>1. docState[d] \in Saved
    OBVIOUS
  <2> QED
    BY <2>1 DEF Saved
<1>3. rerun' \in [Docs -> Version \union {None}]
  BY <1>1, <1>2
<1>4. DocumentTypeOK' /\ QueuesAreTyped'
  BY <1>1, <1>3, DocumentTyped
<1>5. RendersComeFromOutside' /\ \A e \in Docs : IdleIsSaved(e)' /\ TabIsFit(e)'
  BY <1>1 DEF DocumentInd, RendersComeFromOutside, IdleIsSaved, TabIsFit
<1> QED
  BY <1>4, <1>5 DEF DocumentInd

LEMMA DocumentIndRerun ==
  ASSUME DocumentInd, NEW d \in Docs, Rerun(d)
  PROVE  DocumentInd'
<1> USE DocumentAssumption, DocumentTypes
<1> DEFINE t == [id |-> d, chart |-> rerun[d], layout |-> 0]
<1>1. rerun[d] # None /\ rerun' = [rerun EXCEPT ![d] = None] /\ UNCHANGED <<queue, applied, depth, timer, docEdits>>
  BY DEF Rerun
<1>2. rerun' \in [Docs -> Version \union {None}] /\ rerun[d] \in Version
  BY <1>1
<1>3. CASE Overwrite(d, t, docState) /\ mixed' = [mixed EXCEPT ![d] = FALSE]
  <2>1. t \in Saved
    BY <1>2, SavedFacts
  <2>2. mixed' \in [Docs -> BOOLEAN] /\ \A e \in Docs \ {d} : mixed'[e] = mixed[e]
    BY <1>3
  <2> HIDE DEF t
  <2> QED
    BY <1>1, <1>2, <1>3, <2>1, <2>2, DocumentIndOverwrite
<1>4. CASE UNCHANGED <<text, disk, docState, docTables, same, renders, outside, docMade, docCrossed, mixed>>
  <2>1. DocumentTypeOK' /\ QueuesAreTyped'
    BY <1>1, <1>2, <1>4, DocumentTyped
  <2>2. RendersComeFromOutside' /\ \A e \in Docs : IdleIsSaved(e)' /\ TabIsFit(e)'
    BY <1>1, <1>4 DEF DocumentInd, RendersComeFromOutside, IdleIsSaved, TabIsFit
  <2> QED
    BY <2>1, <2>2 DEF DocumentInd
<1> QED
  BY <1>3, <1>4 DEF Rerun

LEMMA DocumentIndOutside ==
  ASSUME DocumentInd, NEW d \in Docs, EditOutside(d)
  PROVE  DocumentInd'
<1> USE DocumentAssumption, DocumentTypes
<1>1. PICK c \in {0, docState[d].chart} : Overwrite(d, [id |-> d, chart |-> c, layout |-> 0], docState)
  BY DEF EditOutside
<1>2. mixed' = [mixed EXCEPT ![d] = FALSE] /\ UNCHANGED <<queue, applied, depth, timer, rerun, docEdits>>
  BY DEF EditOutside
<1> DEFINE t == [id |-> d, chart |-> c, layout |-> 0]
<1>3. t \in Saved
  <2>1. docState[d] \in Saved /\ 0 \in Version
    BY DEF Version
  <2>2. c \in Version
    BY <2>1 DEF Saved
  <2> QED
    BY <2>2, SavedFacts
<1>4. mixed' \in [Docs -> BOOLEAN] /\ \A e \in Docs \ {d} : mixed'[e] = mixed[e]
  BY <1>2
<1>5. Overwrite(d, t, docState) /\ rerun' \in [Docs -> Version \union {None}]
  BY <1>1, <1>2
<1> HIDE DEF t
<1> QED
  BY <1>2, <1>3, <1>4, <1>5, DocumentIndOverwrite

\* The chart is removed, of a document that need not be the tab's.
LEMMA DocumentIndRemove ==
  ASSUME DocumentInd, NEW d \in Docs, RemoveDocChart(d)
  PROVE  DocumentInd'
<1> USE DocumentAssumption, DocumentTypes
<1> DEFINE new == [docState[d] EXCEPT !.chart = 0]
           s == [docState EXCEPT ![d] = new]
<1>1. PICK t \in Docs : Overwrite(t, new, s) /\ mixed' = [mixed EXCEPT ![t] = TRUE]
  BY DEF RemoveDocChart
<1>2. UNCHANGED <<queue, applied, depth, timer, rerun, docEdits>>
  BY DEF RemoveDocChart
<1>3. new \in Saved /\ new.id = docState[d].id /\ new.layout = docState[d].layout
  <2>1. docState[d] \in Saved /\ 0 \in Version
    BY DEF Version
  <2> QED
    BY <2>1, SavedFacts
<1> HIDE DEF new
<1>4. s \in [Docs -> Saved] /\ \A e \in Docs : s[e].id = docState[e].id /\ s[e].layout = docState[e].layout
  BY <1>3
<1>5. mixed' \in [Docs -> BOOLEAN] /\ \A e \in Docs \ {t} : mixed'[e] = mixed[e]
  BY <1>1
<1>6. Overwrite(t, new, s) /\ rerun' \in [Docs -> Version \union {None}]
  BY <1>1, <1>2
<1> HIDE DEF s
<1> QED
  BY <1>2, <1>3, <1>4, <1>5, <1>6, DocumentIndOverwrite

\* Every tab is rendered anew.
LEMMA DocumentIndTheme ==
  ASSUME DocumentInd, NEW d \in Docs, ThemeChanges(d)
  PROVE  DocumentInd'
<1> USE DocumentAssumption, DocumentTypes
<1>1. /\ text[d] # Torn
      /\ docState' = [docState EXCEPT ![d] = text[d]] /\ docTables' = [docTables EXCEPT ![d] = text[d]]
      /\ same' = [same EXCEPT ![d] = TRUE]
      /\ renders' = [renders EXCEPT ![d] = renders[d] + 1] /\ outside' = [outside EXCEPT ![d] = outside[d] + 1]
      /\ docCrossed' = [docCrossed EXCEPT ![d] = @ \/ queue[d] # <<>>]
      /\ UNCHANGED <<text, disk, queue, applied, depth, timer, rerun, docMade, mixed, docEdits>>
  BY DEF ThemeChanges
<1>2. text[d] \in Saved
  BY <1>1
<1>3. DocumentTypeOK' /\ QueuesAreTyped'
  <2>1. docState' \in [Docs -> Saved] /\ docTables' \in [Docs -> Saved]
    BY <1>1, <1>2
  <2>2. same' \in [Docs -> BOOLEAN] /\ docCrossed' \in [Docs -> BOOLEAN]
    BY <1>1
  <2>3. renders' \in [Docs -> Nat] /\ outside' \in [Docs -> Nat]
    BY <1>1
  <2> QED
    BY <1>1, <2>1, <2>2, <2>3, DocumentTyped
<1>4. RendersComeFromOutside'
  BY <1>1 DEF DocumentInd, RendersComeFromOutside
<1>5. ASSUME NEW e \in Docs PROVE IdleIsSaved(e)' /\ TabIsFit(e)'
  <2>1. IdleIsSaved(e) /\ TabIsFit(e)
    BY DEF DocumentInd
  <2>2. CASE e # d
    BY <1>1, <2>1, <2>2, TabStays
  <2>3. CASE e = d
    <3>1. IdleIsSaved(d)'
      BY <1>1, <2>1, <2>3 DEF IdleIsSaved
    <3>2. ASSUME ~docCrossed'[d], ~mixed[d]
          PROVE  TabFits(text[d], docState'[d], docTables'[d], docMade[d], queue[d], applied[d])
      <4>1. docState'[d] = text[d] /\ docTables'[d] = text[d] /\ queue[d] = <<>> /\ ~docCrossed[d]
        BY <1>1, <3>2
      <4>2. TabFits(text[d], docState[d], docTables[d], docMade[d], queue[d], applied[d])
        BY <2>1, <2>3, <3>2, <4>1 DEF TabIsFit
      <4>3. Len(queue[d]) = 0
        BY <4>1
      <4>4. text[d] = docMade[d]
        BY <4>2, <4>3 DEF TabFits, Unapplied
      <4> QED
        BY <4>1, <4>3, <4>4 DEF TabFits
    <3> QED
      BY <1>1, <2>3, <3>1, <3>2 DEF TabIsFit
  <2> QED
    BY <2>2, <2>3
<1> QED
  BY <1>3, <1>4, <1>5 DEF DocumentInd

LEMMA DocumentIndNext == DocumentInd /\ [DocumentNext]_documentVars => DocumentInd'
<1> SUFFICES ASSUME DocumentInd, [DocumentNext]_documentVars PROVE DocumentInd'
  OBVIOUS
<1>1. CASE UNCHANGED documentVars
  BY <1>1 DEF documentVars, DocumentInd, DocumentTypeOK, QueuesAreTyped, RendersComeFromOutside,
              IdleIsSaved, TabIsFit
<1>2. CASE DocumentNext
  BY <1>2, DocumentIndOptions, DocumentIndLayout, DocumentIndApply, DocumentIndEnd, DocumentIndTimer,
     DocumentIndStartRerun, DocumentIndRerun, DocumentIndOutside, DocumentIndRemove, DocumentIndTheme
     DEF DocumentNext
<1> QED
  BY <1>1, <1>2

\* In the tabs of saved results (the self edits of resultsViewer.ts) no self edit
\* causes a rendering, once nothing is pending the file holds the text, and edits
\* made one after the other survive, for any number of documents and edits.
THEOREM EditsOfDocumentsHold == DocumentSpec => []DocumentsAreSound
<1>1. DocumentInd => DocumentsAreSound
  <2> SUFFICES ASSUME DocumentInd PROVE SettledIsSaved /\ EditsSurvive
    BY DEF DocumentInd, DocumentsAreSound
  <2>1. SettledIsSaved
    BY DEF DocumentInd, SettledIsSaved, Settled, IdleIsSaved
  <2>2. EditsSurvive
    <3> SUFFICES ASSUME NEW d \in Docs, Settled(d), ~docCrossed[d], ~mixed[d] PROVE text[d] = docMade[d]
      BY DEF EditsSurvive
    <3>1. TabFits(text[d], docState[d], docTables[d], docMade[d], queue[d], applied[d])
      BY DEF DocumentInd, TabIsFit
    <3>2. Len(queue[d]) = 0
      BY DEF Settled
    <3> QED
      BY <3>1, <3>2 DEF TabFits, Unapplied
  <2> QED
    BY <2>1, <2>2
<1> QED
  BY <1>1, DocumentIndInit, DocumentIndNext, PTL DEF DocumentSpec


(***************************************************************************)
(* Scratch pads.                                                           *)
(***************************************************************************)

\* What a command under way has at each point, imp having been imported.
FlowFits(x, imp) ==
    x # None =>
        /\ x.op \in {"rename", "delete"} <=> x.at \in {"closing", "closed"}
        /\ x.op = "rename" => x.to \in PadNames
        /\ IF x.op = "import" THEN x.text \in imp ELSE x.text = Blank
FlowsFit == \A f \in Flows : FlowFits(flows[f], imported)

\* Only what was typed is unsaved.
EditorsFit == \A n \in PadNames : Dirty(n) => editors[n].text = Typed

Writes(x) == x # None /\ x.at = "writing"

\* In what follows po is the order, pf the pads, fl the commands, ed the editors,
\* im and dr the texts imported and dropped.

\* What the order names is there, and what is to be listed.
Listed(po, pf, fl) ==
    /\ \A i, j \in 1 .. Len(po) : po[i] = po[j] => i = j
    /\ \A i \in 1 .. Len(po) : po[i] \in DOMAIN pf
    /\ \A f \in Flows : fl[f] # None /\ fl[f].at = "written" => fl[f].name \in DOMAIN pf

\* An editor's pad is there; one whose tab was closed to let it go has no editor.
Shut(pf, ed, fl) ==
    /\ \A n \in PadNames : ed[n] # None => n \in DOMAIN pf
    /\ \A f \in Flows : fl[f] # None /\ fl[f].at = "closed" => ed[fl[f].name] = None

\* What two commands write to one pad is the same, and no import is written to a
\* pad there is, nor over one.
WriteOnce(pf, fl) ==
    /\ \A f, g \in Flows : Writes(fl[f]) /\ Writes(fl[g]) =>
          /\ fl[f].name = fl[g].name => fl[f].text = fl[g].text
          /\ fl[f].text = fl[g].text /\ fl[f].text \in Imports => f = g
    /\ \A f \in Flows : Writes(fl[f]) /\ fl[f].name \in DOMAIN pf =>
          fl[f].text \notin Imports /\ pf[fl[f].name] \notin Imports

\* An editor has the import its pad has, or the user has replaced it.
TextsFollow(pf, ed, dr) ==
    \A n \in DOMAIN pf : pf[n] \in Imports /\ ed[n] # None =>
        IF ed[n].dirty THEN pf[n] \in dr ELSE ed[n].text = pf[n]

\* An import is in a pad or about to be.
ImportsStay(pf, fl, im, dr) ==
    \A t \in im \ dr :
        \/ \E n \in DOMAIN pf : pf[n] = t
        \/ \E f \in Flows : Writes(fl[f]) /\ fl[f].text = t

PadsInd ==
    /\ PadsTypeOK /\ IsFiniteSet(Pads) /\ FlowsFit /\ EditorsFit /\ EditsAreScheduled
    /\ ~clash => Listed(padOrder, padFiles, flows)
    /\ ~refused => Shut(padFiles, editors, flows)
    /\ ~clash /\ ~refused => /\ WriteOnce(padFiles, flows) /\ TextsFollow(padFiles, editors, dropped)
                             /\ ImportsStay(padFiles, flows, imported, dropped)

\* One list after another that has nothing of it.
LEMMA Joined ==
  ASSUME NEW A, NEW s \in Seq(A), NEW t \in Seq(A)
  PROVE  /\ s \o t \in Seq(A)
         /\ \A i \in 1 .. Len(s \o t) : (\E j \in 1 .. Len(s) : (s \o t)[i] = s[j])
                                        \/ \E j \in 1 .. Len(t) : (s \o t)[i] = t[j]
         /\ /\ \A i, j \in 1 .. Len(s) : s[i] = s[j] => i = j
            /\ \A i, j \in 1 .. Len(t) : t[i] = t[j] => i = j
            /\ \A i \in 1 .. Len(s), j \in 1 .. Len(t) : s[i] # t[j]
            => \A i, j \in 1 .. Len(s \o t) : (s \o t)[i] = (s \o t)[j] => i = j
<1> DEFINE u == s \o t
           m == Len(s)
           n == Len(t)
<1>1. u \in Seq(A) /\ Len(u) = m + n /\ m \in Nat /\ n \in Nat
      /\ \A i \in 1 .. Len(u) : u[i] = IF i <= m THEN s[i] ELSE t[i - m]
  OBVIOUS
<1> HIDE DEF u, m, n
<1>2. ASSUME NEW i \in 1 .. Len(u)
      PROVE  IF i <= m THEN i \in 1 .. m /\ u[i] = s[i] ELSE i - m \in 1 .. n /\ u[i] = t[i - m]
  BY <1>1
<1>3. \A i \in 1 .. Len(u) : (\E j \in 1 .. m : u[i] = s[j]) \/ \E j \in 1 .. n : u[i] = t[j]
  BY <1>2
<1>4. ASSUME \A i, j \in 1 .. m : s[i] = s[j] => i = j,
             \A i, j \in 1 .. n : t[i] = t[j] => i = j,
             \A i \in 1 .. m, j \in 1 .. n : s[i] # t[j],
             NEW i \in 1 .. Len(u), NEW j \in 1 .. Len(u), u[i] = u[j]
      PROVE  i = j
  <2>1. CASE i <= m /\ j <= m
    BY <1>2, <1>4, <2>1
  <2>2. CASE ~(i <= m) /\ ~(j <= m)
    <3>1. i - m = j - m
      BY <1>2, <1>4, <2>2
    <3> QED
      BY <1>1, <3>1
  <2>3. CASE i <= m /\ ~(j <= m)
    BY <1>2, <1>4, <2>3
  <2>4. CASE ~(i <= m) /\ j <= m
    BY <1>2, <1>4, <2>4
  <2> QED
    BY <2>1, <2>2, <2>3, <2>4
<1> QED
  BY <1>1, <1>3, <1>4 DEF u, m, n

NamesDiffer(s) == \A i, j \in 1 .. Len(s) : s[i] = s[j] => i = j
Disjoint(s, t) == \A i \in 1 .. Len(s), j \in 1 .. Len(t) : s[i] # t[j]

LEMMA JoinedDiffer ==
  ASSUME NEW A, NEW s \in Seq(A), NEW t \in Seq(A), NamesDiffer(s), NamesDiffer(t), Disjoint(s, t)
  PROVE  NamesDiffer(s \o t)
BY Joined DEF NamesDiffer, Disjoint

Distinct(s) == \A k, l \in 1 .. Len(s) : s[k] = s[l] => k = l
DrawnFrom(u, s) == \A k \in 1 .. Len(u) : \E l \in 1 .. Len(s) : u[k] = s[l]

\* An element taken out of a list and put back elsewhere.
LEMMA Moved ==
  ASSUME NEW A, NEW s \in Seq(A), NEW i \in 1 .. Len(s), NEW j \in 1 .. Len(s),
         NEW u, u = InsertAt(RemoveAt(s, i), j, s[i])
  PROVE  u \in Seq(A) /\ DrawnFrom(u, s) /\ (Distinct(s) => Distinct(u))
<1> DEFINE t == RemoveAt(s, i)
           n == Len(s)
<1>1. n \in Nat /\ i \in 1 .. n /\ j \in 1 .. n
  OBVIOUS
<1>2. t \in Seq(A) /\ Len(t) = n - 1 /\ \A k \in 1 .. (n - 1) : t[k] = IF k < i THEN s[k] ELSE s[k + 1]
  <2> DEFINE a == SubSeq(s, 1, i - 1)
             b == SubSeq(s, i + 1, Len(s))
  <2>1. a \in Seq(A) /\ Len(a) = i - 1 /\ \A k \in 1 .. (i - 1) : a[k] = s[k]
    OBVIOUS
  <2>2. b \in Seq(A) /\ Len(b) = n - i /\ \A k \in 1 .. (n - i) : b[k] = s[i + k]
    OBVIOUS
  <2>3. t = a \o b
    BY DEF RemoveAt
  <2> HIDE DEF a, b, n, t
  <2>4. t \in Seq(A) /\ Len(t) = Len(a) + Len(b)
        /\ \A k \in 1 .. Len(t) : t[k] = IF k <= Len(a) THEN a[k] ELSE b[k - Len(a)]
    <3>1. /\ a \o b \in Seq(A) /\ Len(a \o b) = Len(a) + Len(b)
          /\ \A k \in 1 .. Len(a \o b) : (a \o b)[k] = IF k <= Len(a) THEN a[k] ELSE b[k - Len(a)]
      BY <2>1, <2>2, Concatenated
    <3> QED
      BY <2>3, <3>1
  <2>5. Len(t) = n - 1
    BY <1>1, <2>1, <2>2, <2>4
  <2>6. ASSUME NEW k \in 1 .. (n - 1) PROVE t[k] = IF k < i THEN s[k] ELSE s[k + 1]
    <3>1. CASE k < i
      <4>1. k \in 1 .. (i - 1) /\ k <= Len(a) /\ k \in 1 .. Len(t)
        BY <1>1, <2>1, <2>5, <3>1
      <4> QED
        BY <2>1, <2>4, <3>1, <4>1
    <3>2. CASE ~(k < i)
      <4>1. k - (i - 1) \in 1 .. (n - i) /\ ~(k <= Len(a)) /\ k \in 1 .. Len(t) /\ i + (k - (i - 1)) = k + 1
        BY <1>1, <2>1, <2>5, <3>2
      <4>2. t[k] = b[k - (i - 1)]
        BY <2>1, <2>4, <4>1
      <4> QED
        BY <2>2, <3>2, <4>1, <4>2
    <3> QED
      BY <3>1, <3>2
  <2> QED
    BY <2>4, <2>5, <2>6
<1>3. u \in Seq(A) /\ Len(u) = n
      /\ \A k \in 1 .. n : u[k] = IF k < j THEN t[k] ELSE IF k = j THEN s[i] ELSE t[k - 1]
  <2> DEFINE a == SubSeq(t, 1, j - 1)
             b == SubSeq(t, j, Len(t))
             x == s[i]
  <2>0. x \in A
    OBVIOUS
  <2> HIDE DEF t
  <2>1. a \in Seq(A) /\ Len(a) = j - 1 /\ \A k \in 1 .. (j - 1) : a[k] = t[k]
    BY <1>1, <1>2
  <2>2. b \in Seq(A) /\ Len(b) = n - j /\ \A k \in 1 .. (n - j) : b[k] = t[(j - 1) + k]
    BY <1>1, <1>2
  <2>3. u = a \o <<x>> \o b
    BY DEF InsertAt, t
  <2> HIDE DEF a, b, x, n
  <2>4. /\ (a \o <<x>>) \in Seq(A) /\ Len(a \o <<x>>) = j
        /\ \A k \in 1 .. j : (a \o <<x>>)[k] = IF k < j THEN a[k] ELSE x
    BY <1>1, <2>0, <2>1
  <2> DEFINE c == a \o <<x>>
  <2>5. c \in Seq(A) /\ Len(c) = j /\ (\A k \in 1 .. j : c[k] = IF k < j THEN a[k] ELSE x) /\ u = c \o b
    BY <2>3, <2>4
  <2> HIDE DEF c
  <2>6. u \in Seq(A) /\ Len(u) = Len(c) + Len(b)
        /\ \A k \in 1 .. Len(u) : u[k] = IF k <= Len(c) THEN c[k] ELSE b[k - Len(c)]
    <3>1. /\ c \o b \in Seq(A) /\ Len(c \o b) = Len(c) + Len(b)
          /\ \A k \in 1 .. Len(c \o b) : (c \o b)[k] = IF k <= Len(c) THEN c[k] ELSE b[k - Len(c)]
      BY <2>2, <2>5, Concatenated
    <3> QED
      BY <2>5, <3>1
  <2>7. Len(u) = n
    BY <1>1, <2>2, <2>5, <2>6
  <2>8. ASSUME NEW k \in 1 .. n PROVE u[k] = IF k < j THEN t[k] ELSE IF k = j THEN x ELSE t[k - 1]
    <3>1. CASE k <= j
      <4>1. u[k] = c[k] /\ k \in 1 .. j
        BY <1>1, <2>5, <2>6, <2>7, <3>1
      <4>2. k < j => k \in 1 .. (j - 1)
        BY <1>1, <3>1
      <4> QED
        BY <1>1, <2>1, <2>5, <3>1, <4>1, <4>2
    <3>2. CASE ~(k <= j)
      <4>1. k - j \in 1 .. (n - j) /\ (j - 1) + (k - j) = k - 1 /\ ~(k < j) /\ k # j
        BY <1>1, <3>2
      <4>2. u[k] = b[k - j]
        BY <2>5, <2>6, <2>7, <3>2
      <4> QED
        BY <2>2, <4>1, <4>2
    <3> QED
      BY <3>1, <3>2
  <2> QED
    BY <2>6, <2>7, <2>8 DEF x
<1> DEFINE p(k) == IF k = j THEN i
                   ELSE IF k < j THEN (IF k < i THEN k ELSE k + 1)
                   ELSE IF k - 1 < i THEN k - 1 ELSE k
<1> HIDE DEF t, n
<1>4. ASSUME NEW k \in 1 .. n PROVE p(k) \in 1 .. n /\ u[k] = s[p(k)]
  <2>1. CASE k = j
    BY <1>1, <1>3, <2>1
  <2>2. CASE k < j
    <3>1. k \in 1 .. (n - 1) /\ k # j
      BY <1>1, <2>2
    <3>2. p(k) = IF k < i THEN k ELSE k + 1
      BY <2>2, <3>1
    <3>3. p(k) \in 1 .. n /\ t[k] = s[p(k)]
      BY <1>1, <1>2, <3>1, <3>2
    <3> QED
      BY <1>3, <2>2, <3>3
  <2>3. CASE k > j
    <3>1. k - 1 \in 1 .. (n - 1) /\ (k - 1) + 1 = k /\ ~(k < j) /\ k # j
      BY <1>1, <2>3
    <3>2. p(k) = IF k - 1 < i THEN k - 1 ELSE k
      BY <3>1
    <3>3. t[k - 1] = s[p(k)] /\ p(k) \in 1 .. n
      BY <1>1, <1>2, <3>1, <3>2
    <3> QED
      BY <1>3, <3>1, <3>3
  <2> QED
    BY <1>1, <2>1, <2>2, <2>3
<1>5. \A k, l \in 1 .. n : p(k) = p(l) => k = l
  BY <1>1
<1> HIDE DEF p
<1>6. (\A k, l \in 1 .. n : s[k] = s[l] => k = l) => \A k, l \in 1 .. n : u[k] = u[l] => k = l
  BY <1>4, <1>5
<1> QED
  BY <1>3, <1>4, <1>6 DEF n, DrawnFrom, Distinct

-----------------------------------------------------------------------------
LEMMA PadsConstants == Blank # Typed /\ Blank # None /\ Typed # None /\ Blank \notin Imports /\ Typed \notin Imports
                       /\ None \notin Imports /\ None \notin Texts
<1> DEFINE q == <<None, Blank, Typed>>
<1>1. IsInjective(q) /\ DOMAIN q = 1 .. 3 /\ q[1] = None /\ q[2] = Blank /\ q[3] = Typed
  BY PadsAssumption
<1> HIDE DEF q
<1>2. Blank # Typed /\ Blank # None /\ Typed # None
  BY <1>1 DEF IsInjective
<1> QED
  BY <1>2, PadsAssumption DEF Texts

LEMMA PadsTypes ==
  ASSUME PadsInd
  PROVE  /\ Pads \subseteq PadNames /\ padFiles \in [Pads -> Texts] /\ IsFiniteSet(Pads)
         /\ padOrder \in Seq(PadNames) /\ Len(padOrder) \in Nat /\ saveTimers \subseteq PadNames
         /\ editors \in [PadNames -> Editor \union {None}]
         /\ flows \in [Flows -> Flow \union {None}]
         /\ imported \subseteq Imports /\ dropped \subseteq Imports /\ clash \in BOOLEAN /\ refused \in BOOLEAN
  BY DEF PadsInd, PadsTypeOK

LEMMA PadsTyped ==
  ASSUME DOMAIN padFiles' \subseteq PadNames, padFiles' \in [DOMAIN padFiles' -> Texts],
         padOrder' \in Seq(PadNames), saveTimers' \subseteq PadNames,
         editors' \in [PadNames -> Editor \union {None}],
         flows' \in [Flows -> Flow \union {None}],
         imported' \subseteq Imports, dropped' \subseteq Imports, clash' \in BOOLEAN, refused' \in BOOLEAN
  PROVE  PadsTypeOK'
  BY DEF PadsTypeOK, Pads

LEMMA FlowTypes ==
  ASSUME NEW x \in Flow
  PROVE  /\ x.op \in {"create", "import", "rename", "delete"} /\ x.name \in PadNames
         /\ x.to \in PadNames \union {None} /\ x.text \in Texts
         /\ x.at \in {"named", "writing", "written", "closing", "closed"} /\ x # None
  BY PadRecordAssumption DEF Flow

LEMMA EditorTypes ==
  ASSUME NEW e \in Editor
  PROVE  e.text \in Texts /\ e.dirty \in BOOLEAN /\ e # None
  BY PadRecordAssumption DEF Editor

LEMMA PadsIndInit == PadsInit => PadsInd
<1> SUFFICES ASSUME PadsInit PROVE PadsInd
  OBVIOUS
<1> DEFINE a == <<AutoName, 1>>
<1>1. a \in PadNames
  BY PadsAssumption DEF PadNames
<1>2. /\ padFiles = [n \in {a} |-> Blank] /\ padOrder = <<a>>
      /\ editors = [n \in PadNames |-> None] /\ saveTimers = {}
      /\ flows = [f \in Flows |-> None]
      /\ imported = {} /\ dropped = {} /\ clash = FALSE /\ refused = FALSE
  BY DEF PadsInit
<1> HIDE DEF a
<1>3. Pads = {a} /\ padFiles \in [Pads -> Texts] /\ Blank \in Texts
  BY <1>2 DEF Pads, Texts
<1>4. padOrder \in Seq(PadNames) /\ Len(padOrder) = 1 /\ padOrder[1] = a
  BY <1>1, <1>2
<1>5. PadsTypeOK
  BY <1>1, <1>2, <1>3, <1>4 DEF PadsTypeOK
<1>6. IsFiniteSet(Pads)
  BY <1>3, FS_Singleton
<1>7. FlowsFit /\ EditorsFit /\ EditsAreScheduled
  BY <1>2 DEF FlowsFit, FlowFits, EditorsFit, EditsAreScheduled, Dirty
<1>8. Listed(padOrder, padFiles, flows)
  BY <1>2, <1>3, <1>4 DEF Listed, Pads
<1>9. /\ Shut(padFiles, editors, flows) /\ WriteOnce(padFiles, flows)
      /\ TextsFollow(padFiles, editors, dropped) /\ ImportsStay(padFiles, flows, imported, dropped)
  BY <1>1, <1>2, <1>3 DEF Shut, WriteOnce, TextsFollow, ImportsStay, Writes, Pads
<1> QED
  BY <1>5, <1>6, <1>7, <1>8, <1>9 DEF PadsInd
-----------------------------------------------------------------------------
\* What the order is once it has been reconciled with the files.
LEMMA ReconciledFacts ==
  ASSUME PadsInd
  PROVE  Reconciled \in Seq(PadNames) /\ (~clash => Listed(Reconciled, padFiles, flows))
<1> USE PadsTypes
<1>1. CASE Pads = {}
  BY <1>1 DEF Reconciled, PadsInd
<1>2. CASE Pads # {}
  <2> DEFINE s == Only(padOrder, Pads)
             R == Pads \ ToSet(padOrder)
             t == SetToSeq(R)
  <2>1. /\ s \in Seq(PadNames) /\ \A i \in 1 .. Len(s) : s[i] \in Pads /\ \E j \in 1 .. Len(padOrder) : padOrder[j] = s[i]
        /\ (\A i, j \in 1 .. Len(padOrder) : padOrder[i] = padOrder[j] => i = j) =>
              \A i, j \in 1 .. Len(s) : s[i] = s[j] => i = j
    BY OnlyFacts
  <2>2. R \subseteq Pads /\ IsFiniteSet(R)
    BY FS_Subset
  <2> HIDE DEF s, R
  <2>3. t \in Seq(R) /\ \A i, j \in 1 .. Len(t) : t[i] = t[j] => i = j
    BY <2>2, SetInSequence
  <2> HIDE DEF t
  <2>4. t \in Seq(PadNames) /\ \A i \in 1 .. Len(t) : t[i] \in R
    BY <2>2, <2>3
  <2>5. \A i \in 1 .. Len(s), j \in 1 .. Len(t) : s[i] # t[j]
    <3>1. \A i \in 1 .. Len(s) : s[i] \notin R
      BY <2>1 DEF R, ToSet
    <3> QED
      BY <2>4, <3>1
  <2> DEFINE u == s \o t
  <2>6. /\ u \in Seq(PadNames)
        /\ \A i \in 1 .. Len(u) : (\E j \in 1 .. Len(s) : u[i] = s[j]) \/ \E j \in 1 .. Len(t) : u[i] = t[j]
        /\ (\A i, j \in 1 .. Len(s) : s[i] = s[j] => i = j) => \A i, j \in 1 .. Len(u) : u[i] = u[j] => i = j
    <3>1. s \in Seq(PadNames) /\ t \in Seq(PadNames)
      BY <2>1, <2>4
    <3>2. /\ u \in Seq(PadNames)
          /\ \A i \in 1 .. Len(u) : (\E j \in 1 .. Len(s) : u[i] = s[j]) \/ \E j \in 1 .. Len(t) : u[i] = t[j]
      BY <3>1, Joined
    <3>3. ASSUME \A i, j \in 1 .. Len(s) : s[i] = s[j] => i = j
          PROVE  \A i, j \in 1 .. Len(u) : u[i] = u[j] => i = j
      <4>1. NamesDiffer(s) /\ NamesDiffer(t) /\ Disjoint(s, t)
        BY <2>3, <2>5, <3>3 DEF NamesDiffer, Disjoint
      <4>2. NamesDiffer(s \o t)
        BY <3>1, <4>1, JoinedDiffer
      <4> QED
        BY <4>2 DEF NamesDiffer
    <3> QED
      BY <3>2, <3>3
  <2>7. Reconciled = u
    BY <1>2 DEF Reconciled, ReconcileOrder, s, t, R
  <2> HIDE DEF u
  <2>8. \A i \in 1 .. Len(u) : u[i] \in Pads
    BY <2>1, <2>2, <2>4, <2>6
  <2>9. ~clash => Listed(u, padFiles, flows)
    <3> SUFFICES ASSUME Listed(padOrder, padFiles, flows) PROVE Listed(u, padFiles, flows)
      BY DEF PadsInd
    <3> QED
      BY <2>1, <2>6, <2>8 DEF Listed, Pads
  <2> QED
    BY <2>6, <2>7, <2>9
<1> QED
  BY <1>1, <1>2

\* Only the order changes.
LEMMA OrderChanges ==
  ASSUME PadsInd, padOrder' \in Seq(PadNames), ~clash => Listed(padOrder', padFiles, flows),
         UNCHANGED <<padFiles, editors, saveTimers, flows, imported, dropped, clash, refused>>
  PROVE  PadsInd'
<1>1. PadsTypeOK'
  BY DEF PadsInd, PadsTypeOK, Pads
<1>2. IsFiniteSet(Pads)' /\ FlowsFit' /\ EditorsFit' /\ EditsAreScheduled'
  BY DEF PadsInd, Pads, FlowsFit, EditorsFit, EditsAreScheduled, Dirty
<1> QED
  BY <1>1, <1>2 DEF PadsInd

LEMMA PadsIndList == ASSUME PadsInd, ListPads PROVE PadsInd'
  BY ReconciledFacts, OrderChanges DEF ListPads, padHistory

LEMMA PadsIndDrop ==
  ASSUME PadsInd, NEW i \in DOMAIN padOrder, NEW j \in DOMAIN padOrder, DropPad(i, j)
  PROVE  PadsInd'
<1>1. /\ padOrder' = InsertAt(RemoveAt(padOrder, i), j, padOrder[i])
      /\ UNCHANGED <<padFiles, editors, saveTimers, flows, imported, dropped, clash, refused>>
  BY DEF DropPad, padHistory
<1>2. padOrder \in Seq(PadNames) /\ i \in 1 .. Len(padOrder) /\ j \in 1 .. Len(padOrder)
  BY PadsTypes
<1>3. /\ padOrder' \in Seq(PadNames)
      /\ \A k \in 1 .. Len(padOrder') : \E l \in 1 .. Len(padOrder) : padOrder'[k] = padOrder[l]
      /\ (\A k, l \in 1 .. Len(padOrder) : padOrder[k] = padOrder[l] => k = l) =>
           \A k, l \in 1 .. Len(padOrder') : padOrder'[k] = padOrder'[l] => k = l
  <2> DEFINE s == padOrder
             u == padOrder'
  <2>1. s \in Seq(PadNames) /\ i \in 1 .. Len(s) /\ j \in 1 .. Len(s) /\ u = InsertAt(RemoveAt(s, i), j, s[i])
    BY <1>1, <1>2
  <2> HIDE DEF s, u
  <2>2. u \in Seq(PadNames) /\ DrawnFrom(u, s) /\ (Distinct(s) => Distinct(u))
    BY <2>1, Moved
  <2> QED
    BY <2>2 DEF s, u, DrawnFrom, Distinct
<1>4. ~clash => Listed(padOrder', padFiles, flows)
  <2> SUFFICES ASSUME Listed(padOrder, padFiles, flows) PROVE Listed(padOrder', padFiles, flows)
    BY DEF PadsInd
  <2> QED
    BY <1>3 DEF Listed
<1> QED
  BY <1>1, <1>3, <1>4, OrderChanges
-----------------------------------------------------------------------------
\* A command goes on or ends, and is not one that is writing.
LEMMA QuietFlow ==
  ASSUME NEW fl, NEW g, NEW f \in Flows, \A h \in Flows \ {f} : g[h] = fl[h], ~Writes(g[f]),
         NEW po, NEW pf, NEW ed, NEW im, NEW dr
  PROVE  /\ Listed(po, pf, fl) /\ (g[f] # None /\ g[f].at = "written" => g[f].name \in DOMAIN pf) => Listed(po, pf, g)
         /\ Shut(pf, ed, fl) /\ (g[f] # None /\ g[f].at = "closed" => ed[g[f].name] = None) => Shut(pf, ed, g)
         /\ WriteOnce(pf, fl) => WriteOnce(pf, g)
         /\ ImportsStay(pf, fl, im, dr) /\ ~Writes(fl[f]) => ImportsStay(pf, g, im, dr)
<1>1. \A h \in Flows : Writes(g[h]) => h # f /\ g[h] = fl[h]
  OBVIOUS
<1>2. Listed(po, pf, fl) /\ (g[f] # None /\ g[f].at = "written" => g[f].name \in DOMAIN pf) => Listed(po, pf, g)
  BY DEF Listed
<1>3. Shut(pf, ed, fl) /\ (g[f] # None /\ g[f].at = "closed" => ed[g[f].name] = None) => Shut(pf, ed, g)
  BY DEF Shut
<1>4. WriteOnce(pf, fl) => WriteOnce(pf, g)
  <2> HIDE DEF Writes
  <2> QED
    BY <1>1 DEF WriteOnce
<1>5. ImportsStay(pf, fl, im, dr) /\ ~Writes(fl[f]) => ImportsStay(pf, g, im, dr)
  BY DEF ImportsStay
<1> QED
  BY <1>2, <1>3, <1>4, <1>5

LEMMA FlowSet ==
  ASSUME PadsInd, NEW f \in Flows, NEW y \in Flow \union {None}, flows' = [flows EXCEPT ![f] = y],
         FlowFits(y, imported'), imported \subseteq imported'
  PROVE  /\ flows' \in [Flows -> Flow \union {None}] /\ flows'[f] = y
         /\ \A h \in Flows \ {f} : flows'[h] = flows[h]
         /\ FlowsFit'
<1>1. flows' \in [Flows -> Flow \union {None}] /\ flows'[f] = y /\ \A h \in Flows \ {f} : flows'[h] = flows[h]
  BY PadsTypes
<1>2. FlowsFit'
  <2> SUFFICES ASSUME NEW h \in Flows PROVE FlowFits(flows'[h], imported')
    BY DEF FlowsFit
  <2>1. CASE h = f
    BY <1>1, <2>1
  <2>2. CASE h # f
    <3>1. FlowFits(flows[h], imported)
      BY DEF PadsInd, FlowsFit
    <3> QED
      BY <1>1, <2>2, <3>1 DEF FlowFits
  <2> QED
    BY <2>1, <2>2
<1> QED
  BY <1>1, <1>2

LEMMA FlowGoesOn ==
  ASSUME PadsInd, NEW f \in Flows, NEW y \in Flow \union {None}, flows' = [flows EXCEPT ![f] = y],
         FlowFits(y, imported), ~Writes(y), ~Writes(flows[f]),
         y # None /\ y.at = "written" => y.name \in Pads,
         y # None /\ y.at = "closed" /\ ~refused => editors[y.name] = None,
         padOrder' \in Seq(PadNames), ~clash => Listed(padOrder', padFiles, flows),
         clash' \in BOOLEAN, clash => clash',
         UNCHANGED <<padFiles, editors, saveTimers, imported, dropped, refused>>
  PROVE  PadsInd'
<1>1. /\ flows' \in [Flows -> Flow \union {None}] /\ flows'[f] = y
      /\ \A h \in Flows \ {f} : flows'[h] = flows[h]
  BY FlowSet
<1>2. FlowsFit'
  BY FlowSet
<1>3. PadsTypeOK'
  BY <1>1 DEF PadsInd, PadsTypeOK, Pads
<1>4. IsFiniteSet(Pads)' /\ EditorsFit' /\ EditsAreScheduled'
  BY DEF PadsInd, Pads, EditorsFit, EditsAreScheduled, Dirty
<1>5. ~clash' => Listed(padOrder', padFiles, flows')
  BY <1>1, QuietFlow DEF Pads
<1>6. ~refused => Shut(padFiles, editors, flows')
  BY <1>1, QuietFlow DEF PadsInd
<1>7. ~clash' /\ ~refused => WriteOnce(padFiles, flows') /\ TextsFollow(padFiles, editors, dropped)
                             /\ ImportsStay(padFiles, flows', imported, dropped)
  BY <1>1, QuietFlow DEF PadsInd
<1> QED
  BY <1>2, <1>3, <1>4, <1>5, <1>6, <1>7 DEF PadsInd

\* The name found for a pad is free.
LEMMA FreeNames ==
  ASSUME NEW b \in Titles \union {AutoName}, FreeNumbers(b) # {}
  PROVE  FreeName(b) \in PadNames /\ FreeName(b) \notin Pads
<1> DEFINE T == FreeNumbers(b)
<1>1. T \in SUBSET Nat
  BY PadsAssumption DEF FreeNumbers
<1>2. Min(T) \in T
  <2>1. \E i \in T : \A j \in T : i <= j
    BY <1>1, LeastNatural
  <2> QED
    BY <2>1 DEF Min
<1> QED
  BY <1>2 DEF FreeName, FreeNumbers, PadNames

\* A command begins to write.
LEMMA FlowBegins ==
  ASSUME PadsInd, NEW f \in Flows, NEW y \in Flow, flows' = [flows EXCEPT ![f] = y],
         y.at = "writing", FlowFits(y, imported'), ~Writes(flows[f]), y.name \notin Pads,
         clash' = (clash \/ Writing(y.name, y.text)),
         y.text \notin imported, imported' = imported \union ({y.text} \cap Imports),
         padOrder' \in Seq(PadNames), ~clash => Listed(padOrder', padFiles, flows),
         UNCHANGED <<padFiles, editors, saveTimers, dropped, refused>>
  PROVE  PadsInd'
<1>1. y \in Flow \union {None} /\ imported \subseteq imported' /\ imported' \subseteq Imports
      /\ y # None /\ Writes(y)
  BY PadsTypes, FlowTypes DEF Writes
<1>2. /\ flows' \in [Flows -> Flow \union {None}] /\ flows'[f] = y
      /\ \A h \in Flows \ {f} : flows'[h] = flows[h]
      /\ FlowsFit'
  BY <1>1, FlowSet
<1>3. PadsTypeOK'
  BY <1>1, <1>2 DEF PadsInd, PadsTypeOK, Pads
<1>4. IsFiniteSet(Pads)' /\ EditorsFit' /\ EditsAreScheduled'
  BY DEF PadsInd, Pads, EditorsFit, EditsAreScheduled, Dirty
<1>5. ~clash' => Listed(padOrder', padFiles, flows')
  BY <1>2 DEF Listed
<1>6. ~refused => Shut(padFiles, editors, flows')
  BY <1>2 DEF PadsInd, Shut
<1>7. ~clash' /\ ~refused => WriteOnce(padFiles, flows')
  <2> SUFFICES ASSUME ~clash', ~refused PROVE WriteOnce(padFiles, flows')
    OBVIOUS
  <2>1. WriteOnce(padFiles, flows)
    BY DEF PadsInd
  <2>2. ASSUME NEW g \in Flows, g # f, Writes(flows[g])
        PROVE  /\ flows[g].name = y.name => flows[g].text = y.text
               /\ ~(flows[g].text = y.text /\ y.text \in Imports)
    <3>1. flows[g].name = y.name => flows[g].text = y.text
      BY <2>2 DEF Writing, Writes
    <3>2. flows[g] \in Flow /\ FlowFits(flows[g], imported)
      BY <2>2, PadsTypes DEF PadsInd, FlowsFit, Writes
    <3>3. flows[g].text \in imported \/ flows[g].text = Blank
      BY <2>2, <3>2 DEF FlowFits, Writes
    <3> QED
      BY <3>1, <3>3, PadsConstants
  <2> HIDE DEF Writes
  <2>3. \A g, h \in Flows : Writes(flows'[g]) /\ Writes(flows'[h]) =>
          /\ flows'[g].name = flows'[h].name => flows'[g].text = flows'[h].text
          /\ flows'[g].text = flows'[h].text /\ flows'[g].text \in Imports => g = h
    BY <1>2, <2>1, <2>2 DEF WriteOnce
  <2>4. \A g \in Flows : Writes(flows'[g]) /\ flows'[g].name \in DOMAIN padFiles =>
          flows'[g].text \notin Imports /\ padFiles[flows'[g].name] \notin Imports
    BY <1>2, <2>1 DEF WriteOnce, Pads
  <2> QED
    BY <2>3, <2>4 DEF WriteOnce
<1>8. ~clash' /\ ~refused => ImportsStay(padFiles, flows', imported', dropped)
  <2> HIDE DEF Writes
  <2> QED
    BY <1>1, <1>2 DEF ImportsStay, PadsInd
<1> QED
  BY <1>2, <1>3, <1>4, <1>5, <1>6, <1>7, <1>8 DEF PadsInd

LEMMA PadsIndCreate == ASSUME PadsInd, NEW f \in Flows, CreatePad(f) PROVE PadsInd'
<1> DEFINE n == FreeName(AutoName)
           y == [op |-> "create", name |-> n, to |-> None, text |-> Blank, at |-> "named"]
<1>1. n \in PadNames
  BY FreeNames DEF CreatePad
<1>2. /\ flows[f] = None /\ flows' = [flows EXCEPT ![f] = y] /\ padOrder' = Reconciled
      /\ UNCHANGED <<padFiles, editors, saveTimers, imported, dropped, clash, refused>>
  BY DEF CreatePad, StartFlow, padHistory
<1> HIDE DEF n
<1>3. /\ y \in Flow \union {None} /\ FlowFits(y, imported) /\ ~Writes(y)
      /\ ~(y # None /\ y.at \in {"written", "closed"})
  BY <1>1 DEF Flow, FlowFits, Writes, Texts
<1>4. ~Writes(flows[f]) /\ clash' \in BOOLEAN
  BY <1>2, PadsTypes DEF Writes
<1>5. padOrder' \in Seq(PadNames) /\ (~clash => Listed(padOrder', padFiles, flows))
  BY <1>2, ReconciledFacts
<1> HIDE DEF y
<1> QED
  BY <1>2, <1>3, <1>4, <1>5, FlowGoesOn

LEMMA PadsIndCreateFile == ASSUME PadsInd, NEW f \in Flows, CreateFile(f) PROVE PadsInd'
<1> DEFINE x == flows[f]
           y == [x EXCEPT !.at = IF LeavesFile(x.name) THEN "written" ELSE "writing"]
<1>1. x \in Flow /\ x.op = "create" /\ x.at = "named" /\ FlowFits(x, imported) /\ x # None
  BY PadsTypes DEF CreateFile, FlowAt, PadsInd, FlowsFit
<1>2. /\ flows' = [flows EXCEPT ![f] = y] /\ clash' = (clash \/ Writing(x.name, Blank))
      /\ UNCHANGED <<padFiles, padOrder, editors, saveTimers, imported, dropped, refused>>
  BY PadsTypes DEF CreateFile, Stage
<1>3. x.text = Blank /\ ~Writes(x)
  BY <1>1 DEF FlowFits, Writes
<1> HIDE DEF x
<1>4. /\ y \in Flow /\ y.op = "create" /\ y.name = x.name /\ y.text = Blank /\ y # None
      /\ y.at = IF x.name \in Pads THEN "written" ELSE "writing"
  <2>1. y \in Flow
    BY <1>1 DEF Flow
  <2> QED
    BY <1>1, <1>3, <2>1, FlowTypes DEF Flow, LeavesFile
<1> HIDE DEF y
<1>5. FlowFits(y, imported)
  BY <1>4 DEF FlowFits
<1>6. padOrder' \in Seq(PadNames) /\ (~clash => Listed(padOrder', padFiles, flows))
  BY <1>2, PadsTypes DEF PadsInd
<1>7. ~Writes(flows[f])
  BY <1>3 DEF x
<1>8. CASE x.name \in Pads
  <2>1. ~Writes(y) /\ clash' \in BOOLEAN /\ (clash => clash')
    BY <1>2, <1>4, <1>8, PadsTypes DEF Writes, Writing
  <2> QED
    BY <1>2, <1>4, <1>5, <1>6, <1>7, <1>8, <2>1, FlowGoesOn
<1>9. CASE x.name \notin Pads
  <2>1. /\ y.at = "writing" /\ y.name \notin Pads /\ y.text \notin imported
        /\ imported' = imported \union ({y.text} \cap Imports) /\ FlowFits(y, imported')
        /\ clash' = (clash \/ Writing(y.name, y.text))
    BY <1>2, <1>4, <1>5, <1>9, PadsConstants, PadsTypes
  <2> QED
    BY <1>2, <1>4, <1>6, <1>7, <2>1, FlowBegins
<1> QED
  BY <1>8, <1>9

LEMMA PadsIndImport ==
  ASSUME PadsInd, NEW f \in Flows, NEW b \in Titles \union {AutoName}, NEW t \in Imports, ImportPad(f, b, t)
  PROVE  PadsInd'
<1> DEFINE n == FreeName(b)
           y == [op |-> "import", name |-> n, to |-> None, text |-> t, at |-> "writing"]
<1>1. n \in PadNames /\ n \notin Pads
  BY FreeNames DEF ImportPad
<1>2. /\ t \notin imported /\ flows[f] = None /\ flows' = [flows EXCEPT ![f] = y]
      /\ clash' = (clash \/ Writing(n, t)) /\ imported' = imported \union {t} /\ padOrder' = Reconciled
      /\ UNCHANGED <<padFiles, editors, saveTimers, dropped, refused>>
  BY DEF ImportPad, StartFlow
<1> HIDE DEF n
<1>3. y \in Flow /\ y.op = "import" /\ y.name = n /\ y.text = t /\ y.at = "writing"
  BY <1>1 DEF Flow, Texts
<1> HIDE DEF y
<1>4. /\ FlowFits(y, imported') /\ y.name \notin Pads /\ y.text \notin imported
      /\ imported' = imported \union ({y.text} \cap Imports)
      /\ clash' = (clash \/ Writing(y.name, y.text))
  BY <1>1, <1>2, <1>3 DEF FlowFits
<1>5. padOrder' \in Seq(PadNames) /\ (~clash => Listed(padOrder', padFiles, flows))
  BY <1>2, ReconciledFacts
<1>6. ~Writes(flows[f])
  BY <1>2 DEF Writes
<1> QED
  BY <1>2, <1>3, <1>4, <1>5, <1>6, FlowBegins

LEMMA PadsIndDelete ==
  ASSUME PadsInd, NEW f \in Flows, NEW n \in PadNames, DeletePad(f, n)
  PROVE  PadsInd'
<1> DEFINE y == [op |-> "delete", name |-> n, to |-> None, text |-> Blank, at |-> "closing"]
<1>1. /\ flows[f] = None /\ flows' = [flows EXCEPT ![f] = y]
      /\ UNCHANGED <<padFiles, padOrder, editors, saveTimers, imported, dropped, clash, refused>>
  BY DEF DeletePad, StartFlow, padHistory
<1>2. /\ y \in Flow \union {None} /\ FlowFits(y, imported) /\ ~Writes(y)
      /\ ~(y # None /\ y.at \in {"written", "closed"})
  BY DEF Flow, FlowFits, Writes, Texts
<1>3. ~Writes(flows[f]) /\ clash' \in BOOLEAN
  BY <1>1, PadsTypes DEF Writes
<1>4. padOrder' \in Seq(PadNames) /\ (~clash => Listed(padOrder', padFiles, flows))
  BY <1>1, PadsTypes DEF PadsInd
<1> HIDE DEF y
<1> QED
  BY <1>1, <1>2, <1>3, <1>4, FlowGoesOn

\* The pads pf once n has the text tx.
PadsOf(pf, n, tx) == [m \in DOMAIN pf \union {n} |-> IF m = n THEN tx ELSE pf[m]]

LEMMA PutTypes ==
  ASSUME PadsInd, NEW n \in PadNames, NEW tx \in Texts, padFiles' = PadsOf(padFiles, n, tx)
  PROVE  /\ DOMAIN padFiles' \subseteq PadNames /\ padFiles' \in [DOMAIN padFiles' -> Texts]
         /\ IsFiniteSet(Pads)'
<1>1. DOMAIN padFiles' = Pads \union {n}
  BY DEF PadsOf, Pads
<1>2. padFiles' \in [Pads \union {n} -> Texts]
  BY PadsTypes DEF PadsOf, Pads
<1>3. IsFiniteSet(Pads \union {n})
  BY PadsTypes, FS_AddElement
<1> QED
  BY <1>1, <1>2, <1>3, PadsTypes DEF Pads

\* A pad is saved with text that is no import: it had no import left to lose.
LEMMA SaveKeeps ==
  ASSUME NEW pf, NEW n, NEW tx, tx \notin Imports, NEW q, q = PadsOf(pf, n, tx),
         NEW po, NEW fl, NEW im, im \subseteq Imports, NEW dr, NEW ed, NEW ed2,
         \A m \in PadNames \ {n} : ed2[m] = ed[m], DOMAIN pf \subseteq PadNames
  PROVE  /\ Listed(po, pf, fl) => Listed(po, q, fl)
         /\ n \in DOMAIN pf /\ WriteOnce(pf, fl) => WriteOnce(q, fl)
         /\ TextsFollow(pf, ed, dr) => TextsFollow(q, ed2, dr)
         /\ n \in DOMAIN pf /\ (pf[n] \in Imports => pf[n] \in dr) /\ ImportsStay(pf, fl, im, dr)
              => ImportsStay(q, fl, im, dr)
<1>1. /\ DOMAIN q = DOMAIN pf \union {n} /\ q[n] = tx
      /\ \A m \in DOMAIN pf \ {n} : q[m] = pf[m]
  BY DEF PadsOf
<1>2. Listed(po, pf, fl) => Listed(po, q, fl)
  BY <1>1 DEF Listed
<1>3. n \in DOMAIN pf /\ WriteOnce(pf, fl) => WriteOnce(q, fl)
  BY <1>1 DEF WriteOnce
<1>4. TextsFollow(pf, ed, dr) => TextsFollow(q, ed2, dr)
  BY <1>1 DEF TextsFollow
<1>5. n \in DOMAIN pf /\ (pf[n] \in Imports => pf[n] \in dr) /\ ImportsStay(pf, fl, im, dr)
        => ImportsStay(q, fl, im, dr)
  <2> SUFFICES ASSUME n \in DOMAIN pf, pf[n] \in Imports => pf[n] \in dr, ImportsStay(pf, fl, im, dr),
                      NEW t \in im \ dr
               PROVE  \/ \E m \in DOMAIN q : q[m] = t
                      \/ \E f \in Flows : Writes(fl[f]) /\ fl[f].text = t
    BY DEF ImportsStay
  <2>1. CASE \E m \in DOMAIN pf : pf[m] = t
    BY <1>1, <2>1
  <2>2. CASE \E f \in Flows : Writes(fl[f]) /\ fl[f].text = t
    BY <2>2
  <2> HIDE DEF Writes
  <2> QED
    BY <2>1, <2>2 DEF ImportsStay
<1> QED
  BY <1>2, <1>3, <1>4, <1>5

\* What a dirty pad's editor holds was typed, and the import under it was replaced.
LEMMA DirtyFacts ==
  ASSUME PadsInd, NEW n \in PadNames, Dirty(n)
  PROVE  /\ editors[n] \in Editor /\ editors[n].text = Typed /\ editors[n].dirty /\ editors[n] # None
         /\ Typed \in Texts /\ Typed \notin Imports
         /\ ~refused => n \in Pads
         /\ ~clash /\ ~refused /\ padFiles[n] \in Imports => padFiles[n] \in dropped
<1>1. /\ editors[n] \in Editor /\ editors[n].text = Typed /\ editors[n].dirty /\ editors[n] # None
  BY PadsTypes DEF Dirty, PadsInd, EditorsFit
<1>2. ~refused => n \in Pads
  BY <1>1 DEF PadsInd, Shut, Pads
<1>3. ~clash /\ ~refused /\ padFiles[n] \in Imports => padFiles[n] \in dropped
  BY <1>1, <1>2 DEF PadsInd, TextsFollow, Pads
<1> QED
  BY <1>1, <1>2, <1>3, PadsConstants DEF Texts

\* An editor's state changes.
LEMMA EditorSet ==
  ASSUME PadsInd, NEW n \in PadNames, NEW e \in Editor \union {None}, editors' = [editors EXCEPT ![n] = e]
  PROVE  /\ editors' \in [PadNames -> Editor \union {None}] /\ editors'[n] = e
         /\ \A m \in PadNames \ {n} : editors'[m] = editors[m]
  BY PadsTypes

LEMMA PadsIndWrite == ASSUME PadsInd, NEW f \in Flows, WritePad(f) PROVE PadsInd'
<1> DEFINE x == flows[f]
           y == [x EXCEPT !.at = "written"]
           n == x.name
<1>1. x \in Flow /\ x.at = "writing" /\ FlowFits(x, imported) /\ x # None /\ Writes(x)
  BY PadsTypes DEF WritePad, PadsInd, FlowsFit, Writes
<1>2. /\ flows' = [flows EXCEPT ![f] = y] /\ padFiles' = PadsOf(padFiles, n, x.text)
      /\ UNCHANGED <<padOrder, editors, saveTimers, imported, dropped, clash, refused>>
  BY PadsTypes DEF WritePad, Stage, padHistory, PutPad, PadsOf, Pads
<1> HIDE DEF x
<1>3. n \in PadNames /\ x.text \in Texts /\ x.op \in {"create", "import"}
  BY <1>1, FlowTypes DEF FlowFits
<1>4. y \in Flow \union {None} /\ y.at = "written" /\ y.name = n /\ y # None /\ FlowFits(y, imported) /\ ~Writes(y)
  <2>1. y \in Flow
    BY <1>1 DEF Flow
  <2>2. y.at = "written" /\ y.name = n /\ y.op = x.op /\ y.text = x.text
    BY <1>1 DEF Flow
  <2> HIDE DEF y
  <2> QED
    BY <1>1, <1>3, <2>1, <2>2, FlowTypes DEF FlowFits, Writes
<1> HIDE DEF y, n
<1>5. /\ flows' \in [Flows -> Flow \union {None}] /\ flows'[f] = y
      /\ \A h \in Flows \ {f} : flows'[h] = flows[h]
      /\ FlowsFit'
  <2>1. FlowFits(y, imported') /\ imported \subseteq imported'
    BY <1>2, <1>4
  <2> QED
    BY <1>2, <1>4, <2>1, FlowSet
<1>6. /\ DOMAIN padFiles' \subseteq PadNames /\ padFiles' \in [DOMAIN padFiles' -> Texts]
      /\ IsFiniteSet(Pads)'
  BY <1>2, <1>3, PutTypes
<1>7. /\ DOMAIN padFiles' = DOMAIN padFiles \union {n} /\ padFiles'[n] = x.text
      /\ \A m \in DOMAIN padFiles \ {n} : padFiles'[m] = padFiles[m]
  BY <1>2 DEF PadsOf
<1>8. PadsTypeOK'
  <2>1. padOrder' \in Seq(PadNames) /\ saveTimers' \subseteq PadNames
        /\ editors' \in [PadNames -> Editor \union {None}]
        /\ imported' \subseteq Imports /\ dropped' \subseteq Imports /\ clash' \in BOOLEAN /\ refused' \in BOOLEAN
    BY <1>2, PadsTypes
  <2> QED
    BY <1>5, <1>6, <2>1, PadsTyped
<1>9. EditorsFit' /\ EditsAreScheduled'
  BY <1>2 DEF PadsInd, EditorsFit, EditsAreScheduled, Dirty
<1>10. ~clash => Listed(padOrder, padFiles', flows')
  BY <1>4, <1>5, <1>7 DEF PadsInd, Listed
<1>11. ~refused => Shut(padFiles', editors, flows')
  BY <1>4, <1>5, <1>7 DEF PadsInd, Shut
<1>12. ~clash /\ ~refused =>
         WriteOnce(padFiles', flows') /\ TextsFollow(padFiles', editors, dropped)
         /\ ImportsStay(padFiles', flows', imported, dropped)
  <2> SUFFICES ASSUME ~clash, ~refused
               PROVE  WriteOnce(padFiles', flows') /\ TextsFollow(padFiles', editors, dropped)
                      /\ ImportsStay(padFiles', flows', imported, dropped)
    OBVIOUS
  <2>1. /\ Shut(padFiles, editors, flows) /\ WriteOnce(padFiles, flows) /\ TextsFollow(padFiles, editors, dropped)
        /\ ImportsStay(padFiles, flows, imported, dropped) /\ imported \subseteq Imports
    BY PadsTypes DEF PadsInd
  <2>2. Writes(flows[f]) /\ flows[f] = x /\ flows[f].name = n
    BY <1>1 DEF x, n
  <2>3. n \in DOMAIN padFiles => x.text \notin Imports /\ padFiles[n] \notin Imports
    BY <2>1, <2>2 DEF WriteOnce
  <2>4. \A g \in Flows : Writes(flows'[g]) => g # f /\ flows'[g] = flows[g]
    BY <1>4, <1>5
  <2> HIDE DEF Writes
  <2>5. WriteOnce(padFiles', flows')
    <3>1. ASSUME NEW g \in Flows, Writes(flows[g]), g # f, flows[g].name \in DOMAIN padFiles'
          PROVE  flows[g].text \notin Imports /\ padFiles'[flows[g].name] \notin Imports
      <4>1. CASE flows[g].name = n
        <5>1. flows[g].text = x.text /\ x.text \notin Imports
          BY <2>1, <2>2, <3>1, <4>1 DEF WriteOnce
        <5> QED
          BY <1>7, <4>1, <5>1
      <4>2. CASE flows[g].name # n
        BY <1>7, <2>1, <3>1, <4>2 DEF WriteOnce
      <4> QED
        BY <4>1, <4>2
    <3> QED
      BY <2>1, <2>4, <3>1 DEF WriteOnce
  <2>6. TextsFollow(padFiles', editors, dropped)
    <3>1. x.text \in Imports => editors[n] = None
      BY <1>3, <2>1, <2>3 DEF Shut, n
    <3> QED
      BY <1>7, <2>1, <3>1 DEF TextsFollow
  <2>7. ImportsStay(padFiles', flows', imported, dropped)
    <3> SUFFICES ASSUME NEW t \in imported \ dropped
                 PROVE  \/ \E m \in DOMAIN padFiles' : padFiles'[m] = t
                        \/ \E g \in Flows : Writes(flows'[g]) /\ flows'[g].text = t
      BY DEF ImportsStay
    <3>1. CASE \E m \in DOMAIN padFiles : padFiles[m] = t
      BY <1>7, <2>1, <2>3, <3>1
    <3>2. CASE \E g \in Flows : Writes(flows[g]) /\ flows[g].text = t
      <4>1. PICK g \in Flows : Writes(flows[g]) /\ flows[g].text = t
        BY <3>2
      <4>2. CASE g = f
        BY <1>7, <2>2, <4>1, <4>2
      <4>3. CASE g # f
        BY <1>5, <4>1, <4>3
      <4> QED
        BY <4>2, <4>3
    <3> QED
      BY <2>1, <3>1, <3>2 DEF ImportsStay
  <2> QED
    BY <2>5, <2>6, <2>7
<1> QED
  BY <1>2, <1>5, <1>6, <1>8, <1>9, <1>10, <1>11, <1>12 DEF PadsInd

LEMMA PadsIndListNew == ASSUME PadsInd, NEW f \in Flows, ListNew(f) PROVE PadsInd'
<1> DEFINE n == flows[f].name
           s == padOrder
           u == padOrder'
<1>1. flows[f] \in Flow /\ flows[f].at = "written" /\ flows[f] # None /\ n \in PadNames /\ ~Writes(flows[f])
  BY PadsTypes, FlowTypes DEF ListNew, Writes
<1>2. /\ u = (IF n \in ToSet(s) THEN s ELSE Append(s, n)) /\ flows' = [flows EXCEPT ![f] = None]
      /\ UNCHANGED <<padFiles, editors, saveTimers, imported, dropped, clash, refused>>
  BY DEF ListNew, FlowEnds, padHistory, Appended
<1>3. s \in Seq(PadNames) /\ (~clash => Distinct(s) /\ n \in Pads /\ \A k \in 1 .. Len(s) : s[k] \in Pads)
  BY <1>1, PadsTypes DEF PadsInd, Listed, Distinct, Pads
<1> HIDE DEF n, s, u
<1>4. CASE n \in ToSet(s)
  <2>1. u \in Seq(PadNames) /\ (~clash => Listed(u, padFiles, flows))
    BY <1>2, <1>4, PadsTypes DEF s, PadsInd
  <2>2. FlowFits(None, imported) /\ ~Writes(None) /\ None \in Flow \union {None} /\ clash' \in BOOLEAN
    BY <1>2, PadsTypes DEF FlowFits, Writes
  <2> QED
    BY <1>1, <1>2, <2>1, <2>2, FlowGoesOn DEF u
<1>5. CASE n \notin ToSet(s)
  <2>1. /\ u \in Seq(PadNames) /\ Len(u) = Len(s) + 1 /\ u[Len(s) + 1] = n /\ Len(s) \in Nat
        /\ \A k \in 1 .. Len(s) : u[k] = s[k]
    BY <1>1, <1>2, <1>3, <1>5
  <2>2. \A k \in 1 .. Len(s) : s[k] # n
    BY <1>5 DEF ToSet
  <2>3. Distinct(s) => Distinct(u)
    BY <2>1, <2>2 DEF Distinct
  <2>4. (\A k \in 1 .. Len(s) : s[k] \in Pads) /\ n \in Pads => \A k \in 1 .. Len(u) : u[k] \in Pads
    BY <2>1
  <2>5. ~clash => Listed(u, padFiles, flows)
    BY <1>3, <2>3, <2>4 DEF Listed, Distinct, PadsInd, Pads
  <2>6. FlowFits(None, imported) /\ ~Writes(None) /\ None \in Flow \union {None} /\ clash' \in BOOLEAN
    BY <1>2, PadsTypes DEF FlowFits, Writes
  <2> QED
    BY <1>1, <1>2, <2>1, <2>5, <2>6, FlowGoesOn DEF u
<1> QED
  BY <1>4, <1>5

LEMMA PadsIndOpen == ASSUME PadsInd, NEW n \in PadNames, OpenPad(n) PROVE PadsInd'
<1> DEFINE e == [text |-> padFiles[n], dirty |-> FALSE]
<1>1. /\ n \in Pads /\ editors' = [editors EXCEPT ![n] = e] /\ refused' = (refused \/ Going(n))
      /\ UNCHANGED <<padFiles, padOrder, saveTimers, flows, imported, dropped, clash>>
  BY DEF OpenPad
<1>2. e \in Editor /\ e.text = padFiles[n] /\ ~e.dirty
  BY <1>1, PadsTypes DEF Editor
<1> HIDE DEF e
<1>3. /\ editors' \in [PadNames -> Editor \union {None}] /\ editors'[n] = e
      /\ \A m \in PadNames \ {n} : editors'[m] = editors[m]
  BY <1>1, <1>2, EditorSet
<1>4. PadsTypeOK'
  <2>1. refused' \in BOOLEAN
    BY <1>1, PadsTypes DEF Going
  <2> QED
    BY <1>1, <1>3, <2>1 DEF PadsInd, PadsTypeOK, Pads
<1>5. IsFiniteSet(Pads)' /\ FlowsFit' /\ EditorsFit' /\ EditsAreScheduled'
  BY <1>1, <1>2, <1>3 DEF PadsInd, Pads, FlowsFit, EditorsFit, EditsAreScheduled, Dirty
<1>6. ~refused' => Shut(padFiles, editors', flows)
  <2> SUFFICES ASSUME ~refused' PROVE Shut(padFiles, editors', flows)
    OBVIOUS
  <2>1. ~refused /\ ~Going(n) /\ Shut(padFiles, editors, flows)
    BY <1>1 DEF PadsInd
  <2>2. ASSUME NEW g \in Flows, flows[g] # None, flows[g].at = "closed"
        PROVE  flows[g].name \in PadNames /\ flows[g].name # n
    <3>1. FlowFits(flows[g], imported) /\ flows[g] \in Flow
      BY <2>2, PadsTypes DEF PadsInd, FlowsFit
    <3>2. flows[g].op \in {"rename", "delete"}
      BY <2>2, <3>1 DEF FlowFits
    <3> QED
      BY <2>1, <2>2, <3>1, <3>2, FlowTypes DEF Going
  <2> QED
    BY <1>1, <1>3, <2>1, <2>2 DEF Shut, Pads
<1>7. ~clash /\ ~refused => TextsFollow(padFiles, editors', dropped)
  BY <1>2, <1>3, PadsTypes DEF PadsInd, TextsFollow, Pads
<1> QED
  BY <1>1, <1>4, <1>5, <1>6, <1>7 DEF PadsInd

LEMMA PadsIndLeave == ASSUME PadsInd, NEW n \in PadNames, LeavePad(n) PROVE PadsInd'
<1>1. /\ editors' = [editors EXCEPT ![n] = None]
      /\ UNCHANGED <<padFiles, padOrder, saveTimers, flows, imported, dropped, clash, refused>>
  BY DEF LeavePad, padHistory
<1>2. /\ editors' \in [PadNames -> Editor \union {None}] /\ editors'[n] = None
      /\ \A m \in PadNames \ {n} : editors'[m] = editors[m]
  BY <1>1, EditorSet
<1>3. PadsTypeOK'
  BY <1>1, <1>2 DEF PadsInd, PadsTypeOK, Pads
<1>4. IsFiniteSet(Pads)' /\ FlowsFit' /\ EditorsFit' /\ EditsAreScheduled'
  BY <1>1, <1>2 DEF PadsInd, Pads, FlowsFit, EditorsFit, EditsAreScheduled, Dirty
<1>5. ~refused => Shut(padFiles, editors', flows)
  BY <1>2, PadsTypes, FlowTypes DEF PadsInd, Shut
<1>6. ~clash /\ ~refused => TextsFollow(padFiles, editors', dropped)
  BY <1>2, PadsTypes DEF PadsInd, TextsFollow, Pads
<1> QED
  BY <1>1, <1>3, <1>4, <1>5, <1>6 DEF PadsInd

\* What the user replaces or deletes is dropped.
LEMMA DroppingFacts ==
  ASSUME PadsInd, NEW tx
  PROVE  /\ Dropping(tx) \subseteq Imports /\ dropped \subseteq Dropping(tx)
         /\ tx \in Imports => tx \in Dropping(tx)
  BY PadsTypes DEF Dropping

LEMMA PadsIndType == ASSUME PadsInd, NEW n \in PadNames, TypePad(n) PROVE PadsInd'
<1> DEFINE e == [text |-> Typed, dirty |-> TRUE]
<1>1. /\ editors[n] # None /\ editors' = [editors EXCEPT ![n] = e]
      /\ dropped' = Dropping(editors[n].text) /\ saveTimers' = saveTimers \union {n}
      /\ UNCHANGED <<padFiles, padOrder, flows, imported, clash, refused>>
  BY DEF TypePad, AutoSaveSet
<1>2. e \in Editor /\ e.text = Typed /\ e.dirty /\ e # None
  <2>1. e \in Editor /\ e.text = Typed /\ e.dirty
    BY DEF Editor, Texts
  <2> QED
    BY <2>1, EditorTypes
<1> HIDE DEF e
<1>3. /\ editors' \in [PadNames -> Editor \union {None}] /\ editors'[n] = e
      /\ \A m \in PadNames \ {n} : editors'[m] = editors[m]
  BY <1>1, <1>2, EditorSet
<1>4. /\ dropped' \subseteq Imports /\ dropped \subseteq dropped'
      /\ editors[n].text \in Imports => editors[n].text \in dropped'
  BY <1>1, DroppingFacts
<1>5. PadsTypeOK'
  <2>1. saveTimers' \subseteq PadNames
    BY <1>1, PadsTypes
  <2> QED
    BY <1>1, <1>3, <1>4, <2>1 DEF PadsInd, PadsTypeOK, Pads
<1>6. IsFiniteSet(Pads)' /\ FlowsFit' /\ EditorsFit' /\ EditsAreScheduled'
  BY <1>1, <1>2, <1>3 DEF PadsInd, Pads, FlowsFit, EditorsFit, EditsAreScheduled, Dirty
<1>7. ~refused => Shut(padFiles, editors', flows)
  <2> SUFFICES ASSUME Shut(padFiles, editors, flows) PROVE Shut(padFiles, editors', flows)
    BY DEF PadsInd
  <2>1. \A g \in Flows : flows[g] # None /\ flows[g].at = "closed" => flows[g].name # n /\ flows[g].name \in PadNames
    BY <1>1, PadsTypes, FlowTypes DEF Shut
  <2> QED
    BY <1>1, <1>3, <2>1 DEF Shut
<1>8. ~clash /\ ~refused => TextsFollow(padFiles, editors', dropped')
  <2> SUFFICES ASSUME TextsFollow(padFiles, editors, dropped),
                      NEW m \in DOMAIN padFiles, padFiles[m] \in Imports, editors'[m] # None
               PROVE  IF editors'[m].dirty THEN padFiles[m] \in dropped' ELSE editors'[m].text = padFiles[m]
    BY DEF PadsInd, TextsFollow
  <2>1. CASE m = n
    BY <1>1, <1>2, <1>3, <1>4, <2>1 DEF TextsFollow
  <2>2. CASE m # n
    BY <1>3, <1>4, <2>2, PadsTypes DEF TextsFollow, Pads
  <2> QED
    BY <2>1, <2>2
<1>9. ~clash /\ ~refused => ImportsStay(padFiles, flows, imported, dropped')
  BY <1>4 DEF PadsInd, ImportsStay
<1> QED
  BY <1>1, <1>5, <1>6, <1>7, <1>8, <1>9 DEF PadsInd

\* A dirty pad is saved.
LEMMA SaveFacts ==
  ASSUME PadsInd, NEW n \in PadNames, Dirty(n), SavePad(n)
  PROVE  /\ padFiles' = PadsOf(padFiles, n, Typed)
         /\ editors' \in [PadNames -> Editor \union {None}]
         /\ editors'[n] # None /\ ~editors'[n].dirty
         /\ \A m \in PadNames \ {n} : editors'[m] = editors[m]
         /\ DOMAIN padFiles' \subseteq PadNames /\ padFiles' \in [DOMAIN padFiles' -> Texts]
         /\ IsFiniteSet(Pads)' /\ EditorsFit'
<1>1. editors[n] \in Editor /\ editors[n].text = Typed /\ editors[n] # None /\ Typed \in Texts
  BY DirtyFacts
<1>2. padFiles' = PadsOf(padFiles, n, Typed)
  BY <1>1 DEF SavePad, PutPad, PadsOf, Pads
<1> DEFINE e == [editors[n] EXCEPT !.dirty = FALSE]
<1>3. editors' = [editors EXCEPT ![n] = e]
  BY PadsTypes DEF SavePad
<1>4. e \in Editor /\ ~e.dirty
  BY <1>1 DEF Editor
<1>5. e # None
  BY <1>4, EditorTypes
<1> HIDE DEF e
<1>6. /\ editors' \in [PadNames -> Editor \union {None}] /\ editors'[n] = e
      /\ \A m \in PadNames \ {n} : editors'[m] = editors[m]
  BY <1>3, <1>4, EditorSet
<1>7. /\ DOMAIN padFiles' \subseteq PadNames /\ padFiles' \in [DOMAIN padFiles' -> Texts]
      /\ IsFiniteSet(Pads)'
  BY <1>1, <1>2, PutTypes
<1>8. EditorsFit'
  BY <1>4, <1>6 DEF PadsInd, EditorsFit, Dirty
<1> QED
  BY <1>2, <1>4, <1>5, <1>6, <1>7, <1>8

\* What the saved pad's parts of the invariant are, whatever commands go on.
LEMMA SavedKeeps ==
  ASSUME PadsInd, NEW n \in PadNames, Dirty(n), NEW q, q = PadsOf(padFiles, n, Typed),
         NEW ed2, \A m \in PadNames \ {n} : ed2[m] = editors[m]
  PROVE  /\ ~clash => Listed(padOrder, q, flows)
         /\ \A m \in PadNames : m \in DOMAIN q <=> m \in Pads \/ m = n
         /\ ~clash /\ ~refused => WriteOnce(q, flows) /\ TextsFollow(q, ed2, dropped)
                                  /\ ImportsStay(q, flows, imported, dropped)
<1>1. /\ Typed \notin Imports /\ (~refused => n \in DOMAIN padFiles)
      /\ ~clash /\ ~refused /\ padFiles[n] \in Imports => padFiles[n] \in dropped
  BY DirtyFacts DEF Pads
<1>2. imported \subseteq Imports /\ DOMAIN padFiles \subseteq PadNames
  BY PadsTypes DEF Pads
<1> DEFINE tx == Typed
<1>3. q = PadsOf(padFiles, n, tx) /\ tx \notin Imports
  BY <1>1
<1> HIDE DEF tx
<1>4. /\ Listed(padOrder, padFiles, flows) => Listed(padOrder, q, flows)
      /\ n \in DOMAIN padFiles /\ WriteOnce(padFiles, flows) => WriteOnce(q, flows)
      /\ TextsFollow(padFiles, editors, dropped) => TextsFollow(q, ed2, dropped)
      /\ n \in DOMAIN padFiles /\ (padFiles[n] \in Imports => padFiles[n] \in dropped)
         /\ ImportsStay(padFiles, flows, imported, dropped) => ImportsStay(q, flows, imported, dropped)
  BY <1>2, <1>3, SaveKeeps
<1>5. \A m \in PadNames : m \in DOMAIN q <=> m \in Pads \/ m = n
  BY DEF PadsOf, Pads
<1> QED
  BY <1>1, <1>4, <1>5 DEF PadsInd

LEMMA PadsIndSave == ASSUME PadsInd, NEW n \in PadNames, AutoSave(n) PROVE PadsInd'
<1>1. /\ saveTimers' = saveTimers \ {n}
      /\ UNCHANGED <<padOrder, flows, imported, dropped, clash, refused>>
  BY DEF AutoSave, padHistory
<1>2. FlowsFit' /\ saveTimers' \subseteq PadNames
  BY <1>1, PadsTypes DEF PadsInd, FlowsFit
<1>3. CASE ~Dirty(n)
  <2>1. UNCHANGED <<padFiles, editors>>
    BY <1>3 DEF AutoSave
  <2>2. PadsTypeOK'
    BY <1>1, <1>2, <2>1 DEF PadsInd, PadsTypeOK, Pads
  <2>3. IsFiniteSet(Pads)' /\ EditorsFit' /\ EditsAreScheduled'
    BY <1>1, <1>3, <2>1 DEF PadsInd, Pads, EditorsFit, EditsAreScheduled, Dirty
  <2> QED
    BY <1>1, <1>2, <2>1, <2>2, <2>3 DEF PadsInd
<1>4. CASE Dirty(n)
  <2>1. SavePad(n)
    BY <1>4 DEF AutoSave
  <2>2. /\ padFiles' = PadsOf(padFiles, n, Typed)
        /\ editors' \in [PadNames -> Editor \union {None}]
        /\ editors'[n] # None /\ ~editors'[n].dirty
        /\ \A m \in PadNames \ {n} : editors'[m] = editors[m]
        /\ DOMAIN padFiles' \subseteq PadNames /\ padFiles' \in [DOMAIN padFiles' -> Texts]
        /\ IsFiniteSet(Pads)' /\ EditorsFit'
    BY <1>4, <2>1, SaveFacts
  <2>3. PadsTypeOK'
    <3>1. padOrder' \in Seq(PadNames) /\ flows' \in [Flows -> Flow \union {None}]
          /\ imported' \subseteq Imports /\ dropped' \subseteq Imports /\ clash' \in BOOLEAN /\ refused' \in BOOLEAN
      BY <1>1, PadsTypes
    <3> QED
      BY <1>2, <2>2, <3>1, PadsTyped
  <2>4. EditsAreScheduled'
    BY <1>1, <2>2 DEF PadsInd, EditsAreScheduled, Dirty
  <2>5. /\ ~clash => Listed(padOrder, padFiles', flows)
        /\ \A m \in PadNames : m \in DOMAIN padFiles' <=> m \in Pads \/ m = n
        /\ ~clash /\ ~refused => WriteOnce(padFiles', flows) /\ TextsFollow(padFiles', editors', dropped)
                                 /\ ImportsStay(padFiles', flows, imported, dropped)
    <3> DEFINE q == padFiles'
               ed2 == editors'
    <3>1. q = PadsOf(padFiles, n, Typed) /\ \A m \in PadNames \ {n} : ed2[m] = editors[m]
      BY <2>2
    <3> HIDE DEF q, ed2
    <3>2. /\ ~clash => Listed(padOrder, q, flows)
          /\ \A m \in PadNames : m \in DOMAIN q <=> m \in Pads \/ m = n
          /\ ~clash /\ ~refused => WriteOnce(q, flows) /\ TextsFollow(q, ed2, dropped)
                                   /\ ImportsStay(q, flows, imported, dropped)
      BY <1>4, <3>1, SavedKeeps
    <3> QED
      BY <3>2 DEF q, ed2
  <2>6. ~refused => Shut(padFiles', editors', flows)
    <3> SUFFICES ASSUME Shut(padFiles, editors, flows) PROVE Shut(padFiles', editors', flows)
      BY DEF PadsInd
    <3>1. \A g \in Flows : flows[g] # None /\ flows[g].at = "closed" => flows[g].name # n /\ flows[g].name \in PadNames
      BY <1>4, PadsTypes, FlowTypes DEF Shut, Dirty
    <3> QED
      BY <2>2, <2>5, <3>1 DEF Shut, Pads
  <2> QED
    BY <1>1, <1>2, <2>2, <2>3, <2>4, <2>5, <2>6 DEF PadsInd
<1> QED
  BY <1>3, <1>4

\* A dirty pad is saved, or its tab closed saving it, and a command goes on.
LEMMA SavedFlow ==
  ASSUME PadsInd, NEW n \in PadNames, Dirty(n), padFiles' = PadsOf(padFiles, n, Typed),
         editors' \in [PadNames -> Editor \union {None}], EditorsFit', EditsAreScheduled',
         \A m \in PadNames \ {n} : editors'[m] = editors[m],
         NEW f \in Flows, NEW y \in Flow, flows' = [flows EXCEPT ![f] = y], FlowFits(y, imported),
         y.at \in {"closing", "closed"}, y.at = "closed" => editors'[y.name] = None, ~Writes(flows[f]),
         padOrder' \in Seq(PadNames), ~clash => Listed(padOrder', padFiles, flows),
         UNCHANGED <<saveTimers, imported, dropped, clash, refused>>
  PROVE  PadsInd'
<1> DEFINE q == padFiles'
           ed2 == editors'
           g == flows'
           po == padOrder'
<1>1. /\ flows' \in [Flows -> Flow \union {None}] /\ flows'[f] = y
      /\ \A h \in Flows \ {f} : flows'[h] = flows[h]
      /\ FlowsFit'
  BY FlowSet
<1>2. y # None /\ y.at # "written" /\ ~Writes(y)
  BY FlowTypes DEF Writes
<1>3. /\ DOMAIN padFiles' \subseteq PadNames /\ padFiles' \in [DOMAIN padFiles' -> Texts]
      /\ IsFiniteSet(Pads)'
  BY DirtyFacts, PutTypes
<1>4. PadsTypeOK'
  <2>1. saveTimers' \subseteq PadNames /\ imported' \subseteq Imports /\ dropped' \subseteq Imports
        /\ clash' \in BOOLEAN /\ refused' \in BOOLEAN
    BY PadsTypes
  <2> QED
    BY <1>1, <1>3, <2>1, PadsTyped
<1>5. q = PadsOf(padFiles, n, Typed) /\ (\A m \in PadNames \ {n} : ed2[m] = editors[m])
      /\ g[f] = y /\ (\A h \in Flows \ {f} : g[h] = flows[h])
      /\ (~clash => Listed(po, padFiles, flows)) /\ (y.at = "closed" => ed2[y.name] = None)
  BY <1>1
<1> HIDE DEF q, ed2, g, po
<1>6. /\ \A m \in PadNames : m \in DOMAIN q <=> m \in Pads \/ m = n
      /\ ~clash /\ ~refused => WriteOnce(q, flows) /\ TextsFollow(q, ed2, dropped)
                               /\ ImportsStay(q, flows, imported, dropped)
  BY <1>5, SavedKeeps
<1>7. ~clash => Listed(po, q, flows)
  <2> SUFFICES ASSUME Listed(po, padFiles, flows) PROVE Listed(po, q, flows)
    BY <1>5
  <2>1. \A m \in DOMAIN padFiles : m \in DOMAIN q
    BY <1>5 DEF PadsOf
  <2> QED
    BY <2>1 DEF Listed
<1>8. ~refused => Shut(q, ed2, flows)
  <2> SUFFICES ASSUME Shut(padFiles, editors, flows) PROVE Shut(q, ed2, flows)
    BY DEF PadsInd
  <2>1. \A h \in Flows : flows[h] # None /\ flows[h].at = "closed" => flows[h].name # n /\ flows[h].name \in PadNames
    BY PadsTypes, FlowTypes DEF Shut, Dirty
  <2> QED
    BY <1>5, <1>6, <2>1 DEF Shut, Pads
<1>9. ~Writes(g[f]) /\ ~(g[f] # None /\ g[f].at = "written")
      /\ (g[f] # None /\ g[f].at = "closed" => ed2[g[f].name] = None)
  BY <1>2, <1>5
<1>10. /\ ~clash => Listed(po, q, g)
       /\ ~refused => Shut(q, ed2, g)
       /\ ~clash /\ ~refused => WriteOnce(q, g) /\ TextsFollow(q, ed2, dropped)
                                /\ ImportsStay(q, g, imported, dropped)
  BY <1>5, <1>6, <1>7, <1>8, <1>9, QuietFlow
<1> QED
  BY <1>1, <1>3, <1>4, <1>10 DEF PadsInd, q, ed2, g, po

LEMMA PadsIndRename ==
  ASSUME PadsInd, NEW f \in Flows, NEW n \in PadNames, NEW to \in PadNames, RenamePad(f, n, to)
  PROVE  PadsInd'
<1> DEFINE y == [op |-> "rename", name |-> n, to |-> to, text |-> Blank, at |-> "closing"]
<1>1. /\ flows[f] = None /\ flows' = [flows EXCEPT ![f] = y] /\ padOrder' = Reconciled
      /\ UNCHANGED <<saveTimers, imported, dropped, clash, refused>>
  BY DEF RenamePad, StartFlow, padHistory
<1>2. y \in Flow /\ FlowFits(y, imported) /\ y.at = "closing" /\ ~Writes(y)
  BY DEF Flow, FlowFits, Writes, Texts
<1>3. ~Writes(flows[f]) /\ clash' \in BOOLEAN
  BY <1>1, PadsTypes DEF Writes
<1>4. padOrder' \in Seq(PadNames) /\ (~clash => Listed(padOrder', padFiles, flows))
  BY <1>1, ReconciledFacts
<1> HIDE DEF y
<1>5. CASE ~Dirty(n)
  <2>1. UNCHANGED <<padFiles, editors>>
    BY <1>5 DEF RenamePad
  <2> QED
    BY <1>1, <1>2, <1>3, <1>4, <2>1, FlowGoesOn
<1>6. CASE Dirty(n)
  <2>1. SavePad(n)
    BY <1>6 DEF RenamePad
  <2>2. /\ padFiles' = PadsOf(padFiles, n, Typed)
        /\ editors' \in [PadNames -> Editor \union {None}] /\ ~editors'[n].dirty
        /\ \A m \in PadNames \ {n} : editors'[m] = editors[m]
        /\ EditorsFit'
    BY <1>6, <2>1, SaveFacts
  <2>3. EditsAreScheduled'
    BY <1>1, <2>2 DEF PadsInd, EditsAreScheduled, Dirty
  <2> QED
    BY <1>1, <1>2, <1>3, <1>4, <1>6, <2>2, <2>3, SavedFlow
<1> QED
  BY <1>5, <1>6

LEMMA PadsIndClose == ASSUME PadsInd, NEW f \in Flows, CloseTab(f) PROVE PadsInd'
<1> DEFINE x == flows[f]
           n == x.name
           y == [x EXCEPT !.at = "closed"]
<1>1. x \in Flow /\ x.at = "closing" /\ FlowFits(x, imported) /\ x # None
  BY PadsTypes DEF CloseTab, PadsInd, FlowsFit
<1>2. /\ flows' = [flows EXCEPT ![f] = y]
      /\ UNCHANGED <<padOrder, saveTimers, imported, dropped, clash>>
  BY PadsTypes DEF CloseTab, Stage
<1>3. Closes(f) /\ ~Writes(x) /\ n \in PadNames
  BY <1>1, FlowTypes DEF FlowFits, Closes, Writes
<1>4. \/ editors[n] = None /\ UNCHANGED <<padFiles, editors, refused>>
      \/ /\ editors' = [editors EXCEPT ![n] = None] /\ UNCHANGED refused
         /\ padFiles' = padFiles \/ (Dirty(n) /\ padFiles' = PadsOf(padFiles, n, editors[n].text))
      \/ refused' = TRUE /\ UNCHANGED <<padFiles, editors>>
  BY <1>3 DEF CloseTab, PutPad, PadsOf, Pads
<1> HIDE DEF x
<1>5. /\ y \in Flow /\ y.at = "closed" /\ y.name = n /\ y # None /\ ~Writes(y) /\ FlowFits(y, imported)
  <2>1. y \in Flow /\ y.at = "closed" /\ y.name = n /\ y.op = x.op /\ y.to = x.to /\ y.text = x.text
    BY <1>1 DEF Flow
  <2> HIDE DEF y
  <2> QED
    BY <1>1, <2>1, FlowTypes DEF FlowFits, Writes
<1>6. ~Writes(flows[f])
  BY <1>3 DEF x
<1> HIDE DEF y, n
<1>7. padOrder' \in Seq(PadNames) /\ (~clash => Listed(padOrder', padFiles, flows)) /\ clash' \in BOOLEAN
  BY <1>2, PadsTypes DEF PadsInd
<1>8. CASE editors[n] = None /\ UNCHANGED <<padFiles, editors, refused>>
  BY <1>2, <1>5, <1>6, <1>7, <1>8, FlowGoesOn
<1>9. /\ flows' \in [Flows -> Flow \union {None}] /\ flows'[f] = y
      /\ \A h \in Flows \ {f} : flows'[h] = flows[h]
      /\ FlowsFit'
  <2>1. FlowFits(y, imported') /\ imported \subseteq imported' /\ y \in Flow \union {None}
    BY <1>2, <1>5
  <2> QED
    BY <1>2, <2>1, FlowSet
<1>10. CASE editors' = [editors EXCEPT ![n] = None] /\ UNCHANGED <<padFiles, refused>>
  <2>1. /\ editors' \in [PadNames -> Editor \union {None}] /\ editors'[n] = None
        /\ \A m \in PadNames \ {n} : editors'[m] = editors[m]
    BY <1>3, <1>10, EditorSet
  <2>2. PadsTypeOK'
    BY <1>2, <1>9, <1>10, <2>1 DEF PadsInd, PadsTypeOK, Pads
  <2>3. IsFiniteSet(Pads)' /\ EditorsFit' /\ EditsAreScheduled'
    BY <1>2, <1>10, <2>1 DEF PadsInd, Pads, EditorsFit, EditsAreScheduled, Dirty
  <2>4. ~clash => Listed(padOrder, padFiles, flows')
    BY <1>5, <1>9 DEF PadsInd, Listed
  <2>5. ~refused => Shut(padFiles, editors', flows')
    <3> SUFFICES ASSUME Shut(padFiles, editors, flows) PROVE Shut(padFiles, editors', flows')
      BY DEF PadsInd
    <3>1. \A h \in Flows : flows[h] # None => flows[h].name \in PadNames
      BY PadsTypes, FlowTypes
    <3> QED
      BY <1>5, <1>9, <2>1, <3>1 DEF Shut
  <2>6. ~clash /\ ~refused => WriteOnce(padFiles, flows') /\ ImportsStay(padFiles, flows', imported, dropped)
    BY <1>5, <1>6, <1>9, QuietFlow DEF PadsInd
  <2>7. ~clash /\ ~refused => TextsFollow(padFiles, editors', dropped)
    BY <2>1, PadsTypes DEF PadsInd, TextsFollow, Pads
  <2> QED
    BY <1>2, <1>9, <1>10, <2>2, <2>3, <2>4, <2>5, <2>6, <2>7 DEF PadsInd
<1>11. CASE /\ editors' = [editors EXCEPT ![n] = None] /\ UNCHANGED refused
            /\ Dirty(n) /\ padFiles' = PadsOf(padFiles, n, editors[n].text)
  <2>1. /\ editors' \in [PadNames -> Editor \union {None}] /\ editors'[n] = None
        /\ \A m \in PadNames \ {n} : editors'[m] = editors[m]
    BY <1>3, <1>11, EditorSet
  <2>2. padFiles' = PadsOf(padFiles, n, Typed)
    BY <1>3, <1>11, DirtyFacts
  <2>3. EditorsFit' /\ EditsAreScheduled'
    BY <1>2, <2>1 DEF PadsInd, EditorsFit, EditsAreScheduled, Dirty
  <2>4. editors'[y.name] = None
    BY <1>5, <2>1
  <2> QED
    BY <1>2, <1>3, <1>5, <1>6, <1>7, <1>11, <2>1, <2>2, <2>3, <2>4, SavedFlow
<1>12. CASE refused' = TRUE /\ UNCHANGED <<padFiles, editors>>
  <2>1. PadsTypeOK'
    BY <1>2, <1>9, <1>12 DEF PadsInd, PadsTypeOK, Pads
  <2>2. IsFiniteSet(Pads)' /\ EditorsFit' /\ EditsAreScheduled'
    BY <1>2, <1>12 DEF PadsInd, Pads, EditorsFit, EditsAreScheduled, Dirty
  <2>3. ~clash => Listed(padOrder, padFiles, flows')
    BY <1>5, <1>9 DEF PadsInd, Listed
  <2> QED
    BY <1>2, <1>9, <1>12, <2>1, <2>2, <2>3 DEF PadsInd
<1> QED
  BY <1>4, <1>8, <1>10, <1>11, <1>12

LEMMA PadsIndClear == ASSUME PadsInd, NEW n \in PadNames, ClearPad(n) PROVE PadsInd'
<1> DEFINE q == padFiles'
           tx == Blank
<1>1. /\ n \in Pads /\ editors[n] # None /\ padFiles' = PadsOf(padFiles, n, Blank)
      /\ dropped' = Dropping(padFiles[n])
      /\ editors' = IF Dirty(n) THEN editors ELSE [editors EXCEPT ![n].text = Blank]
      /\ UNCHANGED <<padOrder, saveTimers, flows, imported, clash, refused>>
  BY DEF ClearPad, PutPad, PadsOf, Pads
<1>2. Blank \in Texts /\ Blank \notin Imports /\ Blank # None /\ editors[n] \in Editor
  BY <1>1, PadsConstants, PadsTypes DEF Texts
<1>3. /\ editors' \in [PadNames -> Editor \union {None}] /\ editors'[n] # None
      /\ \A m \in PadNames \ {n} : editors'[m] = editors[m]
      /\ Dirty(n) => editors'[n] = editors[n]
      /\ ~Dirty(n) => ~editors'[n].dirty
  <2>1. CASE Dirty(n)
    BY <1>1, <2>1, PadsTypes
  <2>2. CASE ~Dirty(n)
    <3> DEFINE e == [editors[n] EXCEPT !.text = Blank]
    <3>1. editors' = [editors EXCEPT ![n] = e]
      BY <1>1, <2>2, PadsTypes
    <3>2. e \in Editor /\ e.dirty = editors[n].dirty
      BY <1>2 DEF Editor
    <3>3. e # None /\ ~e.dirty
      BY <1>1, <2>2, <3>2, EditorTypes DEF Dirty
    <3> HIDE DEF e
    <3>4. /\ editors' \in [PadNames -> Editor \union {None}] /\ editors'[n] = e
          /\ \A m \in PadNames \ {n} : editors'[m] = editors[m]
      BY <3>1, <3>2, EditorSet
    <3> QED
      BY <2>2, <3>3, <3>4
  <2> QED
    BY <2>1, <2>2
<1>4. /\ DOMAIN padFiles' \subseteq PadNames /\ padFiles' \in [DOMAIN padFiles' -> Texts]
      /\ IsFiniteSet(Pads)'
  BY <1>1, <1>2, PutTypes
<1>5. /\ dropped' \subseteq Imports /\ dropped \subseteq dropped'
      /\ padFiles[n] \in Imports => padFiles[n] \in dropped'
  BY <1>1, DroppingFacts
<1>6. PadsTypeOK'
  <2>1. padOrder' \in Seq(PadNames) /\ flows' \in [Flows -> Flow \union {None}] /\ saveTimers' \subseteq PadNames
        /\ imported' \subseteq Imports /\ clash' \in BOOLEAN /\ refused' \in BOOLEAN
    BY <1>1, PadsTypes
  <2> QED
    BY <1>3, <1>4, <1>5, <2>1, PadsTyped
<1>7. FlowsFit' /\ EditorsFit' /\ EditsAreScheduled'
  BY <1>1, <1>3 DEF PadsInd, FlowsFit, EditorsFit, EditsAreScheduled, Dirty
<1>8. q = PadsOf(padFiles, n, tx) /\ tx \notin Imports /\ n \in DOMAIN padFiles
      /\ imported \subseteq Imports /\ DOMAIN padFiles \subseteq PadNames
  BY <1>1, <1>2, PadsTypes DEF Pads
<1> DEFINE ed2 == editors'
           dr2 == dropped'
<1>9. (\A m \in PadNames \ {n} : ed2[m] = editors[m]) /\ (padFiles[n] \in Imports => padFiles[n] \in dr2)
      /\ dropped \subseteq dr2
  BY <1>3, <1>5
<1> HIDE DEF q, tx, ed2, dr2
<1>10. /\ TextsFollow(padFiles, editors, dropped) => TextsFollow(padFiles, editors, dr2)
       /\ ImportsStay(padFiles, flows, imported, dropped) => ImportsStay(padFiles, flows, imported, dr2)
  BY <1>9 DEF TextsFollow, ImportsStay
<1>11. /\ Listed(padOrder, padFiles, flows) => Listed(padOrder, q, flows)
       /\ WriteOnce(padFiles, flows) => WriteOnce(q, flows)
       /\ TextsFollow(padFiles, editors, dr2) => TextsFollow(q, ed2, dr2)
       /\ ImportsStay(padFiles, flows, imported, dr2) => ImportsStay(q, flows, imported, dr2)
  BY <1>8, <1>9, SaveKeeps
<1>12. ~refused => Shut(q, ed2, flows)
  <2> SUFFICES ASSUME Shut(padFiles, editors, flows) PROVE Shut(q, ed2, flows)
    BY DEF PadsInd
  <2>1. \A h \in Flows : flows[h] # None /\ flows[h].at = "closed" => flows[h].name # n /\ flows[h].name \in PadNames
    BY <1>1, PadsTypes, FlowTypes DEF Shut
  <2>2. \A m \in DOMAIN padFiles : m \in DOMAIN q
    BY <1>8 DEF PadsOf
  <2> QED
    BY <1>8, <1>9, <2>1, <2>2 DEF Shut
<1> QED
  BY <1>1, <1>4, <1>6, <1>7, <1>10, <1>11, <1>12 DEF PadsInd, q, ed2, dr2

\* The command that ends was to let its pad go.
LEMMA ClosedFlow ==
  ASSUME PadsInd, NEW f \in Flows, flows[f] # None, flows[f].at = "closed", flows' = [flows EXCEPT ![f] = None],
         imported' = imported
  PROVE  /\ flows[f] \in Flow /\ flows[f].name \in PadNames /\ FlowFits(flows[f], imported) /\ ~Writes(flows[f])
         /\ ~refused => editors[flows[f].name] = None
         /\ flows' \in [Flows -> Flow \union {None}] /\ flows'[f] = None /\ ~Writes(None)
         /\ \A h \in Flows \ {f} : flows'[h] = flows[h]
         /\ FlowsFit'
<1>1. flows[f] \in Flow /\ flows[f].name \in PadNames /\ FlowFits(flows[f], imported) /\ ~Writes(flows[f])
  BY PadsTypes, FlowTypes DEF Writes, PadsInd, FlowsFit
<1>2. ~refused => editors[flows[f].name] = None
  BY DEF PadsInd, Shut
<1>3. FlowFits(None, imported') /\ None \in Flow \union {None} /\ ~Writes(None)
  BY DEF FlowFits, Writes
<1> QED
  BY <1>1, <1>2, <1>3, FlowSet

LEMMA PadsIndDeleteFile == ASSUME PadsInd, NEW f \in Flows, DeleteFile(f) PROVE PadsInd'
<1> DEFINE n == flows[f].name
           S == PadNames \ {n}
           q == padFiles'
           u == padOrder'
           g == flows'
           dr2 == dropped'
<1>1. /\ flows[f] # None /\ flows[f].at = "closed" /\ flows' = [flows EXCEPT ![f] = None]
      /\ UNCHANGED <<editors, saveTimers, imported, refused>>
  BY DEF DeleteFile, FlowAt, FlowEnds
<1>2. /\ n \in PadNames /\ ~Writes(flows[f]) /\ (~refused => editors[n] = None)
      /\ flows' \in [Flows -> Flow \union {None}] /\ flows'[f] = None /\ ~Writes(None)
      /\ \A h \in Flows \ {f} : flows'[h] = flows[h]
      /\ FlowsFit'
  BY <1>1, ClosedFlow
<1>3. CASE n \notin Pads
  <2>1. UNCHANGED <<padFiles, padOrder, dropped, clash>>
    BY <1>3 DEF DeleteFile
  <2>2. FlowFits(None, imported) /\ None \in Flow \union {None}
        /\ padOrder' \in Seq(PadNames) /\ (~clash => Listed(padOrder', padFiles, flows)) /\ clash' \in BOOLEAN
    BY <2>1, PadsTypes DEF FlowFits, PadsInd
  <2> QED
    BY <1>1, <1>2, <2>1, <2>2, FlowGoesOn
<1>4. CASE n \in Pads
  <2>1. /\ padFiles' = [x \in Pads \ {n} |-> padFiles[x]] /\ padOrder' = Only(padOrder, S)
        /\ dropped' = Dropping(padFiles[n]) /\ clash' = (clash \/ Unlisted(n))
    BY <1>4 DEF DeleteFile
  <2>2. /\ DOMAIN q = DOMAIN padFiles \ {n} /\ \A m \in DOMAIN q : q[m] = padFiles[m]
    BY <2>1 DEF Pads
  <2>3. /\ DOMAIN padFiles' \subseteq PadNames /\ padFiles' \in [DOMAIN padFiles' -> Texts]
        /\ IsFiniteSet(Pads)'
    <3>1. IsFiniteSet(Pads \ {n})
      BY PadsTypes, FS_RemoveElement
    <3> QED
      BY <2>1, <3>1, PadsTypes DEF Pads
  <2>4. padOrder \in Seq(PadNames)
    BY PadsTypes
  <2> HIDE DEF S
  <2>5. /\ u \in Seq(PadNames)
        /\ \A i \in 1 .. Len(u) : u[i] \in S /\ \E j \in 1 .. Len(padOrder) : padOrder[j] = u[i]
        /\ Distinct(padOrder) => Distinct(u)
    <3> DEFINE w == Only(padOrder, S)
    <3>1. /\ w \in Seq(PadNames)
          /\ \A i \in 1 .. Len(w) : w[i] \in S /\ \E j \in 1 .. Len(padOrder) : padOrder[j] = w[i]
          /\ (\A i, j \in 1 .. Len(padOrder) : padOrder[i] = padOrder[j] => i = j) =>
               \A i, j \in 1 .. Len(w) : w[i] = w[j] => i = j
      BY <2>4, OnlyFacts
    <3>2. u = w
      BY <2>1
    <3> HIDE DEF u, w
    <3>3. Distinct(padOrder) => Distinct(w)
      BY <3>1 DEF Distinct
    <3> QED
      BY <3>1, <3>2, <3>3
  <2>6. dropped' \subseteq Imports /\ dropped \subseteq dr2 /\ (padFiles[n] \in Imports => padFiles[n] \in dr2)
    BY <2>1, DroppingFacts
  <2>7. PadsTypeOK'
    <3>1. saveTimers' \subseteq PadNames /\ editors' \in [PadNames -> Editor \union {None}]
          /\ imported' \subseteq Imports /\ clash' \in BOOLEAN /\ refused' \in BOOLEAN
      BY <1>1, <2>1, PadsTypes DEF Unlisted
    <3> QED
      BY <1>2, <2>3, <2>5, <2>6, <3>1, PadsTyped
  <2>8. EditorsFit' /\ EditsAreScheduled'
    BY <1>1 DEF PadsInd, EditorsFit, EditsAreScheduled, Dirty
  <2>9. g[f] = None /\ \A h \in Flows \ {f} : g[h] = flows[h]
    BY <1>2
  <2>10. IF Unlisted(n) THEN clash' = TRUE ELSE clash' = clash
    BY <2>1, PadsTypes DEF Unlisted
  <2> HIDE DEF q, u, g, dr2
  <2>11. ~clash' => Listed(u, q, g)
    <3> SUFFICES ASSUME ~clash' PROVE Listed(u, q, g)
      OBVIOUS
    <3>1. ~Unlisted(n) /\ Listed(padOrder, padFiles, flows)
      BY <2>10 DEF PadsInd
    <3>2. Distinct(padOrder)
      BY <3>1 DEF Listed, Distinct
    <3>3. \A i \in 1 .. Len(u) : u[i] \in DOMAIN q
      <4>1. \A i \in 1 .. Len(u) : u[i] # n
        BY <2>5 DEF S
      <4> QED
        BY <2>2, <2>5, <3>1, <4>1 DEF Listed
    <3>4. \A h \in Flows : g[h] # None /\ g[h].at = "written" => g[h].name \in DOMAIN q
      BY <2>2, <2>9, <3>1 DEF Listed, Unlisted
    <3>5. \A i, j \in 1 .. Len(u) : u[i] = u[j] => i = j
      BY <2>5, <3>2 DEF Distinct
    <3> QED
      BY <3>3, <3>4, <3>5 DEF Listed
  <2>12. ~refused => Shut(q, editors, g)
    <3> SUFFICES ASSUME Shut(padFiles, editors, flows), editors[n] = None PROVE Shut(q, editors, g)
      BY <1>2 DEF PadsInd
    <3> QED
      BY <2>2, <2>9 DEF Shut
  <2>13. ~clash /\ ~refused => WriteOnce(q, g)
    <3>1. \A h \in Flows : Writes(g[h]) => Writes(flows[h]) /\ g[h] = flows[h]
      BY <1>2, <2>9
    <3> HIDE DEF Writes
    <3> QED
      BY <2>2, <3>1 DEF WriteOnce, PadsInd
  <2>14. ~clash /\ ~refused => TextsFollow(q, editors, dr2)
    BY <2>2, <2>6 DEF PadsInd, TextsFollow
  <2>15. ~clash /\ ~refused => ImportsStay(q, g, imported, dr2)
    <3> SUFFICES ASSUME ImportsStay(padFiles, flows, imported, dropped), NEW t \in imported \ dr2
                 PROVE  \/ \E m \in DOMAIN q : q[m] = t
                        \/ \E h \in Flows : Writes(g[h]) /\ g[h].text = t
      BY DEF PadsInd, ImportsStay
    <3>1. t \in imported \ dropped /\ t \in Imports
      BY <2>6, PadsTypes
    <3>2. CASE \E m \in DOMAIN padFiles : padFiles[m] = t
      <4>1. PICK m \in DOMAIN padFiles : padFiles[m] = t
        BY <3>2
      <4>2. m # n
        BY <2>6, <3>1, <4>1
      <4> QED
        BY <2>2, <4>1, <4>2
    <3>3. CASE \E h \in Flows : Writes(flows[h]) /\ flows[h].text = t
      <4> HIDE DEF Writes
      <4> QED
        BY <1>2, <2>9, <3>3
    <3> HIDE DEF Writes
    <3> QED
      BY <3>1, <3>2, <3>3 DEF ImportsStay
  <2> QED
    BY <1>1, <1>2, <2>3, <2>7, <2>8, <2>10, <2>11, <2>12, <2>13, <2>14, <2>15 DEF PadsInd, q, u, g, dr2
<1> QED
  BY <1>3, <1>4

LEMMA PadsIndRenameFile == ASSUME PadsInd, NEW f \in Flows, RenameFile(f) PROVE PadsInd'
<1> DEFINE n == flows[f].name
           to == flows[f].to
           q == padFiles'
           s == padOrder
           u == padOrder'
           g == flows'
<1>1. /\ flows[f] # None /\ flows[f].at = "closed" /\ flows[f].op = "rename" /\ flows' = [flows EXCEPT ![f] = None]
      /\ UNCHANGED <<editors, saveTimers, imported, dropped, refused>>
  BY DEF RenameFile, FlowAt, FlowEnds
<1>2. /\ n \in PadNames /\ ~Writes(flows[f]) /\ (~refused => editors[n] = None)
      /\ flows' \in [Flows -> Flow \union {None}] /\ flows'[f] = None /\ ~Writes(None)
      /\ \A h \in Flows \ {f} : flows'[h] = flows[h]
      /\ FlowsFit' /\ FlowFits(flows[f], imported)
  BY <1>1, ClosedFlow
<1>3. to \in PadNames
  BY <1>1, <1>2 DEF FlowFits
<1>4. CASE n \notin Pads
  <2>1. UNCHANGED <<padFiles, padOrder, clash>>
    BY <1>4 DEF RenameFile
  <2>2. FlowFits(None, imported) /\ None \in Flow \union {None}
        /\ padOrder' \in Seq(PadNames) /\ (~clash => Listed(padOrder', padFiles, flows)) /\ clash' \in BOOLEAN
    BY <2>1, PadsTypes DEF FlowFits, PadsInd
  <2> QED
    BY <1>1, <1>2, <2>1, <2>2, FlowGoesOn
<1>5. CASE n \in Pads
  <2>1. /\ padFiles' = [x \in (Pads \ {n}) \union {to} |-> IF x = to THEN padFiles[n] ELSE padFiles[x]]
        /\ padOrder' = Renamed(n, to)
        /\ clash' = (clash \/ to \in Pads \/ Writing(to, None) \/ Unlisted(n))
    BY <1>5 DEF RenameFile
  <2>2. /\ DOMAIN q = (DOMAIN padFiles \ {n}) \union {to} /\ q[to] = padFiles[n]
        /\ \A m \in DOMAIN padFiles \ {n} : m # to => q[m] = padFiles[m]
    BY <2>1 DEF Pads
  <2>3. /\ DOMAIN padFiles' \subseteq PadNames /\ padFiles' \in [DOMAIN padFiles' -> Texts]
        /\ IsFiniteSet(Pads)'
    <3>1. IsFiniteSet((Pads \ {n}) \union {to})
      BY PadsTypes, FS_RemoveElement, FS_AddElement
    <3> QED
      BY <1>3, <1>5, <2>1, <3>1, PadsTypes DEF Pads
  <2>4. s \in Seq(PadNames) /\ Len(s) \in Nat
    BY PadsTypes
  <2>5. u = [i \in 1 .. Len(s) |-> IF s[i] = n THEN to ELSE s[i]]
    BY <2>1, <2>4 DEF Renamed
  <2>6. PadsTypeOK'
    <3>1. saveTimers' \subseteq PadNames /\ editors' \in [PadNames -> Editor \union {None}]
          /\ imported' \subseteq Imports /\ dropped' \subseteq Imports /\ refused' \in BOOLEAN
      BY <1>1, PadsTypes
    <3>2. clash' \in BOOLEAN
      BY <2>1 DEF Writing, Unlisted
    <3>3. padOrder' \in Seq(PadNames)
      <4> HIDE DEF n, to, s
      <4> QED
        BY <1>3, <2>4, <2>5
    <3> QED
      BY <1>2, <2>3, <3>1, <3>2, <3>3, PadsTyped
  <2>7. EditorsFit' /\ EditsAreScheduled'
    BY <1>1 DEF PadsInd, EditorsFit, EditsAreScheduled, Dirty
  <2>8. g[f] = None /\ \A h \in Flows \ {f} : g[h] = flows[h]
    BY <1>2
  <2>9. ~clash' => /\ ~clash /\ to \notin DOMAIN padFiles /\ to # n
                   /\ ~Writing(to, None) /\ ~Unlisted(n)
    BY <1>5, <2>1 DEF Pads
  <2> HIDE DEF n, to, q, s, u, g
  <2>10. ~clash' => Listed(u, q, g)
    <3> SUFFICES ASSUME ~clash' PROVE Listed(u, q, g)
      OBVIOUS
    <3>1. /\ \A i, j \in 1 .. Len(s) : s[i] = s[j] => i = j
          /\ \A i \in 1 .. Len(s) : s[i] \in DOMAIN padFiles
          /\ \A h \in Flows : flows[h] # None /\ flows[h].at = "written" => flows[h].name \in DOMAIN padFiles
      BY <2>9 DEF PadsInd, Listed, s
    <3>2. u \in Seq(PadNames) /\ Len(u) = Len(s) /\ \A i \in 1 .. Len(u) : u[i] = IF s[i] = n THEN to ELSE s[i]
      BY <1>3, <2>4, <2>5
    <3>3. \A i, j \in 1 .. Len(u) : u[i] = u[j] => i = j
      BY <2>9, <3>1, <3>2
    <3>4. \A i \in 1 .. Len(u) : u[i] \in DOMAIN q
      BY <2>2, <3>1, <3>2
    <3>5. \A h \in Flows : g[h] # None /\ g[h].at = "written" => g[h].name \in DOMAIN q
      BY <2>2, <2>8, <2>9, <3>1 DEF Unlisted
    <3> QED
      BY <3>3, <3>4, <3>5 DEF Listed
  <2>11. ~refused => Shut(q, editors, g)
    <3> SUFFICES ASSUME Shut(padFiles, editors, flows), editors[n] = None PROVE Shut(q, editors, g)
      BY <1>2 DEF PadsInd, n
    <3> QED
      BY <2>2, <2>8 DEF Shut
  <2>12. ~clash' /\ ~refused => WriteOnce(q, g)
    <3> SUFFICES ASSUME ~clash', WriteOnce(padFiles, flows) PROVE WriteOnce(q, g)
      BY <2>9 DEF PadsInd
    <3>1. \A h \in Flows : Writes(g[h]) => Writes(flows[h]) /\ g[h] = flows[h]
      BY <1>2, <2>8
    <3>2. \A h \in Flows : Writes(flows[h]) => flows[h].name # to
      <4> SUFFICES ASSUME NEW h \in Flows, Writes(flows[h]), flows[h].name = to PROVE FALSE
        OBVIOUS
      <4>1. flows[h].text # None
        BY PadsTypes, PadsConstants, FlowTypes DEF Writes
      <4> QED
        BY <2>9, <4>1 DEF Writing, Writes
    <3> HIDE DEF Writes
    <3> QED
      BY <2>2, <3>1, <3>2 DEF WriteOnce
  <2>13. ~clash' /\ ~refused => TextsFollow(q, editors, dropped)
    <3> SUFFICES ASSUME ~clash', TextsFollow(padFiles, editors, dropped), Shut(padFiles, editors, flows)
                 PROVE  TextsFollow(q, editors, dropped)
      BY <2>9 DEF PadsInd
    <3>1. editors[to] = None
      BY <1>3, <2>9 DEF Shut, to
    <3> QED
      BY <2>2, <3>1 DEF TextsFollow
  <2>14. ~clash' /\ ~refused => ImportsStay(q, g, imported, dropped)
    <3> SUFFICES ASSUME ~clash', ImportsStay(padFiles, flows, imported, dropped), NEW t \in imported \ dropped
                 PROVE  \/ \E m \in DOMAIN q : q[m] = t
                        \/ \E h \in Flows : Writes(g[h]) /\ g[h].text = t
      BY <2>9 DEF PadsInd, ImportsStay
    <3>1. CASE \E m \in DOMAIN padFiles : padFiles[m] = t
      <4>1. PICK m \in DOMAIN padFiles : padFiles[m] = t
        BY <3>1
      <4>2. CASE m = n
        BY <2>2, <4>1, <4>2
      <4>3. CASE m # n
        BY <2>2, <2>9, <4>1, <4>3
      <4> QED
        BY <4>2, <4>3
    <3>2. CASE \E h \in Flows : Writes(flows[h]) /\ flows[h].text = t
      <4> HIDE DEF Writes
      <4> QED
        BY <1>2, <2>8, <3>2
    <3> HIDE DEF Writes
    <3> QED
      BY <3>1, <3>2 DEF ImportsStay
  <2> QED
    BY <1>1, <1>2, <2>3, <2>6, <2>7, <2>10, <2>11, <2>12, <2>13, <2>14 DEF PadsInd, q, u, g
<1> QED
  BY <1>4, <1>5

LEMMA PadsIndNext == PadsInd /\ [PadsNext]_padVars => PadsInd'
<1> SUFFICES ASSUME PadsInd, [PadsNext]_padVars PROVE PadsInd'
  OBVIOUS
<1>1. CASE UNCHANGED padVars
  <2>1. UNCHANGED <<padFiles, padOrder, editors, saveTimers, flows, imported, dropped, clash, refused>>
    BY <1>1 DEF padVars
  <2>2. padOrder' \in Seq(PadNames) /\ (~clash => Listed(padOrder', padFiles, flows))
    BY <2>1, PadsTypes DEF PadsInd
  <2> QED
    BY <2>1, <2>2, OrderChanges
<1>2. CASE ListPads
  BY <1>2, PadsIndList
<1>3. CASE \E i, j \in DOMAIN padOrder : DropPad(i, j)
  BY <1>3, PadsIndDrop
<1>4. CASE \E n \in PadNames : OpenPad(n) \/ LeavePad(n) \/ TypePad(n) \/ AutoSave(n) \/ ClearPad(n)
  BY <1>4, PadsIndOpen, PadsIndLeave, PadsIndType, PadsIndSave, PadsIndClear
<1>5. ASSUME NEW f \in Flows,
             CreatePad(f) \/ CreateFile(f) \/ WritePad(f) \/ ListNew(f) \/ CloseTab(f) \/ DeleteFile(f) \/ RenameFile(f)
      PROVE  PadsInd'
  BY <1>5, PadsIndCreate, PadsIndCreateFile, PadsIndWrite, PadsIndListNew, PadsIndClose, PadsIndDeleteFile,
     PadsIndRenameFile
<1>6. ASSUME NEW f \in Flows, NEW b \in Titles \union {AutoName}, NEW t \in Imports, ImportPad(f, b, t)
      PROVE  PadsInd'
  BY <1>6, PadsIndImport
<1>7. ASSUME NEW f \in Flows, NEW n \in PadNames, DeletePad(f, n) \/ \E to \in PadNames : RenamePad(f, n, to)
      PROVE  PadsInd'
  BY <1>7, PadsIndDelete, PadsIndRename
<1> QED
  BY <1>1, <1>2, <1>3, <1>4, <1>5, <1>6, <1>7 DEF PadsNext

\* Scratch pads, whatever commands cross: unless two commands took a name the
\* order lists no pad twice, unless a tab was kept or opened no editor is left on
\* a pad that is gone, an imported text is in some pad until the user replaces or
\* deletes it, and unsaved text has its save to come (scratchPadManager.ts and
\* scratchPadPanel.ts).
THEOREM PadsKeepTheirTexts == PadsSpec => []PadsAreSound
<1>1. PadsInd => PadsAreSound
  <2> SUFFICES ASSUME PadsInd PROVE PadsAreSound
    OBVIOUS
  <2>1. PadsTypeOK /\ EditsAreScheduled
    BY DEF PadsInd
  <2>2. OrderNamesOnce
    <3> SUFFICES ASSUME ~clash PROVE IsInjective(padOrder)
      BY DEF OrderNamesOnce
    <3>1. DOMAIN padOrder = 1 .. Len(padOrder)
      BY PadsTypes
    <3> QED
      BY <3>1 DEF PadsInd, Listed, IsInjective
  <2>3. ImportsAreKept
    BY DEF PadsInd, ImportsAreKept, ImportsStay, Writes, Pads
  <2>4. OpenPadsExist
    BY DEF PadsInd, OpenPadsExist, Shut, Pads
  <2> QED
    BY <2>1, <2>2, <2>3, <2>4 DEF PadsAreSound
<1> QED
  BY <1>1, PadsIndInit, PadsIndNext, PTL DEF PadsSpec

=============================================================================
