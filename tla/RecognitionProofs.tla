------------------------- MODULE RecognitionProofs -------------------------
(***************************************************************************)
(* What the readers of an applicant's camera answer: LivenessDetection for *)
(* a clip, Mrz for a passport.  Their loops are recursive functions, over  *)
(* clips and lines of any length.  The library's induction theorems take   *)
(* an operator, which the provers cannot instantiate; Induction takes the  *)
(* set of the numbers that have the property.                              *)
(***************************************************************************)
EXTENDS LivenessDetection, Mrz, WellFoundedInduction, FiniteSetTheorems, SequenceTheorems, TLAPS

-----------------------------------------------------------------------------
(* Induction and loops.                                                    *)

LEMMA Least ==
    ASSUME NEW S, S \subseteq Nat, S # {}
    PROVE  \E x \in S : \A y \in S : x <= y
<1>1. PICK x \in S : \A y \in S : <<y, x>> \notin OpToRel(<, Nat)
  BY WFMin, NatLessThanWellFounded
<1>2. ASSUME NEW y \in S
      PROVE  x <= y
  <2>1. x \in Nat /\ y \in Nat /\ ~(y < x)
    BY <1>1 DEF OpToRel
  <2> QED
    BY <2>1
<1> QED
  BY <1>1, <1>2

LEMMA Induction ==
    ASSUME NEW n \in Nat, NEW S, 0 \in S, \A i \in 1..n : i - 1 \in S => i \in S
    PROVE  \A i \in 0..n : i \in S
<1> SUFFICES ASSUME NEW k \in 0..n, k \notin S
             PROVE  FALSE
  OBVIOUS
<1> DEFINE Bad == {i \in 0..n : i \notin S}
<1>1. Bad \subseteq Nat /\ Bad # {}
  OBVIOUS
<1>2. PICK x \in Bad : \A y \in Bad : x <= y
  <2> HIDE DEF Bad
  <2> QED BY <1>1, Least
<1>3. x \in 1..n /\ x - 1 \in 0..n
  BY <1>2
<1>4. x - 1 \in S
  BY <1>2, <1>3
<1> QED
  BY <1>2, <1>3, <1>4

LEMMA MinIsLeast ==
    ASSUME NEW S, S \subseteq Nat, S # {}
    PROVE  Min(S) \in S /\ \A y \in S : Min(S) <= y
BY Least DEF Min

\* A loop over n rounds, whose round i takes a state of S to Round[i][state].
Loop(n, S, first, Round, f) ==
    /\ f \in [0..n -> S] /\ f[0] = first
    /\ \A i \in 1..n : f[i] = Round[i][f[i - 1]]

LEMMA LoopRuns ==
    ASSUME NEW n \in Nat, NEW S, NEW first \in S, NEW Round \in [1..n -> [S -> S]]
    PROVE  \E f : Loop(n, S, first, Round, f)
<1> DEFINE Run(m, f) ==
               /\ f \in [0..m -> S] /\ f[0] = first
               /\ \A i \in 1..m : f[i] = Round[i][f[i - 1]]
           Ran == {m \in 0..n : \E f : Run(m, f)}
<1>1. 0 \in Ran
  <2> DEFINE g == [i \in 0..0 |-> first]
  <2>1. g \in [0..0 -> S] /\ g[0] = first
    OBVIOUS
  <2>2. \A i \in 1..0 : g[i] = Round[i][g[i - 1]]
    OBVIOUS
  <2> HIDE DEF g
  <2> QED
    BY <2>1, <2>2
<1>2. ASSUME NEW m \in 1..n, m - 1 \in Ran
      PROVE  m \in Ran
  <2>1. PICK f : Run(m - 1, f)
    BY <1>2
  <2> DEFINE last == Round[m][f[m - 1]]
             g == [i \in 0..m |-> IF i < m THEN f[i] ELSE last]
  <2>2. f[m - 1] \in S /\ Round[m] \in [S -> S]
    BY <2>1
  <2>3. last \in S
    BY <2>2
  <2>4. g \in [0..m -> S] /\ g[0] = first /\ g[m] = last
        /\ \A i \in 0..(m - 1) : g[i] = f[i]
    <3> HIDE DEF last
    <3> QED BY <2>1, <2>3
  <2> HIDE DEF g
  <2>5. ASSUME NEW i \in 1..m
        PROVE  g[i] = Round[i][g[i - 1]]
    <3>1. CASE i = m
      BY <3>1, <2>4
    <3>2. CASE i # m
      <4>1. i \in 1..(m - 1) /\ i - 1 \in 0..(m - 1) /\ i \in 0..(m - 1)
        BY <3>2
      <4> QED
        BY <4>1, <2>1, <2>4
    <3> QED
      BY <3>1, <3>2
  <2> HIDE DEF last
  <2> QED
    BY <2>4, <2>5
<1> HIDE DEF Ran
<1>3. \A i \in 0..n : i \in Ran
  BY <1>1, <1>2, Induction
<1>4. n \in Ran
  BY <1>3
<1> QED
  BY <1>4 DEF Ran, Loop

LEMMA LoopType ==
    ASSUME NEW n \in Nat, NEW S, NEW f, f = [i \in 0..n |-> f[i]], f[0] \in S,
           \A i \in 1..n : f[i - 1] \in S => f[i] \in S
    PROVE  f \in [0..n -> S]
<1> DEFINE Typed == {i \in 0..n : f[i] \in S}
<1>1. 0 \in Typed /\ \A i \in 1..n : i - 1 \in Typed => i \in Typed
  OBVIOUS
<1>2. \A i \in 0..n : i \in Typed
  <2> HIDE DEF Typed
  <2> QED BY <1>1, Induction
<1> QED
  BY <1>2

-----------------------------------------------------------------------------
(* The detector.  A list of actions only grows; what one frame adds to it  *)
(* is what the frame shows.                                                *)

DetectorState == [eyeClosed : BOOLEAN, detected : Seq(Actions)]

\* r begins with s.
Grew(s, r) ==
    /\ r \in Seq(Actions) /\ Len(s) <= Len(r)
    /\ \A k \in 1..Len(s) : r[k] = s[k]

LEMMA GrewTwice ==
    ASSUME NEW s \in Seq(Actions), NEW r \in Seq(Actions), NEW q \in Seq(Actions),
           Grew(s, r), Grew(r, q)
    PROVE  Grew(s, q)
BY DEF Grew

\* A frame performs an action, for a detector that has seen a closed eye or not.
Performs(shut, f, a) ==
    CASE a = "turn_left"  -> f.yaw = "left"
      [] a = "turn_right" -> f.yaw = "right"
      [] a = "smile"      -> f.mar = "smile"
      [] a = "blink"      -> shut /\ f.ear = "open"

LEMMA AppendGrows ==
    ASSUME NEW s \in Seq(Actions), NEW a \in Actions
    PROVE  /\ Append(s, a) \in Seq(Actions) /\ Grew(s, Append(s, a))
           /\ Len(Append(s, a)) = Len(s) + 1 /\ Append(s, a)[Len(s) + 1] = a
BY DEF Grew

LEMMA NoteGrows ==
    ASSUME NEW s \in Seq(Actions), NEW a \in Actions
    PROVE  /\ Note(s, a, FALSE) = s
           /\ Note(s, a, TRUE) \in Seq(Actions) /\ Grew(s, Note(s, a, TRUE))
           /\ \A k \in (Len(s) + 1)..Len(Note(s, a, TRUE)) : Note(s, a, TRUE)[k] = a
           /\ Len(Note(s, a, TRUE)) >= 1 /\ Note(s, a, TRUE)[Len(Note(s, a, TRUE))] = a
<1> DEFINE r == Note(s, a, TRUE)
<1>1. Note(s, a, FALSE) = s
  BY DEF Note
<1>2. r = IF NotRepeated(s, a) THEN Append(s, a) ELSE s
  BY DEF Note
<1>3. ~NotRepeated(s, a) => s # <<>> /\ s[Len(s)] = a
  BY DEF NotRepeated, Last
<1> HIDE DEF r
<1>4. /\ r \in Seq(Actions) /\ Grew(s, r)
      /\ \A k \in (Len(s) + 1)..Len(r) : r[k] = a
      /\ Len(r) >= 1 /\ r[Len(r)] = a
  <2>1. CASE NotRepeated(s, a)
    BY <1>2, <2>1, AppendGrows
  <2>2. CASE ~NotRepeated(s, a)
    BY <1>2, <1>3, <2>2 DEF Grew
  <2> QED
    BY <2>1, <2>2
<1> QED
  BY <1>1, <1>4 DEF r

LEMMA LastStays ==
    ASSUME NEW s \in Seq(Actions), NEW r \in Seq(Actions), NEW q \in Seq(Actions), NEW a,
           Grew(s, r), Grew(r, q), Len(r) >= 1, r[Len(r)] = a
    PROVE  \E k \in Len(s)..Len(q) : k >= 1 /\ q[k] = a
<1>1. Len(r) \in Len(s)..Len(q) /\ q[Len(r)] = a
  BY DEF Grew
<1> QED
  BY <1>1

\* One frame: what is added happens in it; what happens in it is added, or is the
\* last that was there before.
LEMMA ObserveStep ==
    ASSUME NEW d \in DetectorState, NEW f \in Frame
    PROVE  LET e == Observe(d, f) IN
           /\ e \in DetectorState
           /\ e.eyeClosed <=> f.ear = "closed" \/ (d.eyeClosed /\ f.ear # "open")
           /\ Grew(d.detected, e.detected)
           /\ \A k \in (Len(d.detected) + 1)..Len(e.detected) :
                  Performs(d.eyeClosed, f, e.detected[k])
           /\ \A a \in Actions : Performs(d.eyeClosed, f, a) =>
                  \E k \in Len(d.detected)..Len(e.detected) : k >= 1 /\ e.detected[k] = a
<1> DEFINE s == d.detected
           blinks == d.eyeClosed /\ f.ear = "open"
           blink == IF blinks THEN Append(s, "blink") ELSE s
           left == Note(blink, "turn_left", f.yaw = "left")
           right == Note(left, "turn_right", f.yaw = "right")
           smile == Note(right, "smile", f.mar = "smile")
           e == Observe(d, f)
<1>1. /\ e = [eyeClosed |-> f.ear = "closed" \/ (d.eyeClosed /\ ~blinks), detected |-> smile]
      /\ e.detected = smile
  BY DEF Observe
<1>2. s \in Seq(Actions) /\ d.eyeClosed \in BOOLEAN
  BY DEF DetectorState
<1>3. {"blink", "turn_left", "turn_right", "smile"} = Actions
  BY DEF Actions
<1>4. /\ blink \in Seq(Actions) /\ Grew(s, blink)
      /\ \A k \in (Len(s) + 1)..Len(blink) : blink[k] = "blink" /\ blinks
      /\ blinks => Len(blink) >= 1 /\ blink[Len(blink)] = "blink"
  BY <1>2, <1>3, AppendGrows DEF Grew
<1> HIDE DEF blink, s
<1>5. /\ left \in Seq(Actions) /\ Grew(blink, left)
      /\ \A k \in (Len(blink) + 1)..Len(left) : left[k] = "turn_left" /\ f.yaw = "left"
      /\ f.yaw = "left" => Len(left) >= 1 /\ left[Len(left)] = "turn_left"
  <2>1. CASE f.yaw = "left"
    <3>1. left = Note(blink, "turn_left", TRUE) /\ "turn_left" \in Actions
      BY <1>3, <2>1
    <3> HIDE DEF left
    <3>2. /\ left \in Seq(Actions) /\ Grew(blink, left)
          /\ \A k \in (Len(blink) + 1)..Len(left) : left[k] = "turn_left"
          /\ Len(left) >= 1 /\ left[Len(left)] = "turn_left"
      BY <3>1, <1>4, NoteGrows
    <3> QED
      BY <2>1, <3>2
  <2>2. CASE f.yaw # "left"
    <3>1. left = Note(blink, "turn_left", FALSE) /\ "turn_left" \in Actions
      BY <1>3, <2>2
    <3> HIDE DEF left
    <3>2. left = blink
      BY <3>1, <1>4, NoteGrows
    <3> QED
      BY <2>2, <3>2, <1>4 DEF Grew
  <2> QED
    BY <2>1, <2>2
<1> HIDE DEF left
<1>6. /\ right \in Seq(Actions) /\ Grew(left, right)
      /\ \A k \in (Len(left) + 1)..Len(right) : right[k] = "turn_right" /\ f.yaw = "right"
      /\ f.yaw = "right" => Len(right) >= 1 /\ right[Len(right)] = "turn_right"
  <2>1. CASE f.yaw = "right"
    <3>1. right = Note(left, "turn_right", TRUE) /\ "turn_right" \in Actions
      BY <1>3, <2>1
    <3> HIDE DEF right
    <3> QED
      BY <2>1, <3>1, <1>5, NoteGrows
  <2>2. CASE f.yaw # "right"
    <3>1. right = Note(left, "turn_right", FALSE) /\ "turn_right" \in Actions
      BY <1>3, <2>2
    <3> HIDE DEF right
    <3>2. right = left
      BY <3>1, <1>5, NoteGrows
    <3> QED
      BY <2>2, <3>2, <1>5 DEF Grew
  <2> QED
    BY <2>1, <2>2
<1> HIDE DEF right
<1>7. /\ smile \in Seq(Actions) /\ Grew(right, smile)
      /\ \A k \in (Len(right) + 1)..Len(smile) : smile[k] = "smile" /\ f.mar = "smile"
      /\ f.mar = "smile" => Len(smile) >= 1 /\ smile[Len(smile)] = "smile"
  <2>1. CASE f.mar = "smile"
    <3>1. smile = Note(right, "smile", TRUE) /\ "smile" \in Actions
      BY <1>3, <2>1
    <3> HIDE DEF smile
    <3> QED
      BY <2>1, <3>1, <1>6, NoteGrows
  <2>2. CASE f.mar # "smile"
    <3>1. smile = Note(right, "smile", FALSE) /\ "smile" \in Actions
      BY <1>3, <2>2
    <3> HIDE DEF smile
    <3>2. smile = right
      BY <3>1, <1>6, NoteGrows
    <3> QED
      BY <2>2, <3>2, <1>6 DEF Grew
  <2> QED
    BY <2>1, <2>2
<1> HIDE DEF smile
<1>8. /\ e \in DetectorState
      /\ e.eyeClosed <=> f.ear = "closed" \/ (d.eyeClosed /\ f.ear # "open")
  <2>1. e.eyeClosed = (f.ear = "closed" \/ (d.eyeClosed /\ ~blinks))
    BY <1>1
  <2>2. e \in DetectorState
    BY <1>1, <1>7 DEF DetectorState
  <2>3. f.ear = "closed" => f.ear # "open"
    OBVIOUS
  <2> QED
    BY <2>1, <2>2, <2>3
<1>9. Grew(s, left) /\ Grew(s, right) /\ Grew(s, smile) /\ Grew(blink, smile) /\ Grew(left, smile)
  BY <1>2, <1>4, <1>5, <1>6, <1>7, GrewTwice DEF s
<1>10. ASSUME NEW k \in (Len(s) + 1)..Len(smile)
       PROVE  Performs(d.eyeClosed, f, smile[k])
  <2>1. CASE k <= Len(blink)
    <3>1. smile[k] = "blink" /\ blinks
      BY <2>1, <1>4, <1>9 DEF Grew
    <3> QED
      BY <3>1 DEF Performs
  <2>2. CASE Len(blink) < k /\ k <= Len(left)
    <3>1. smile[k] = "turn_left" /\ f.yaw = "left"
      BY <2>2, <1>5, <1>9 DEF Grew
    <3> QED
      BY <3>1 DEF Performs
  <2>3. CASE Len(left) < k /\ k <= Len(right)
    <3>1. smile[k] = "turn_right" /\ f.yaw = "right"
      BY <2>3, <1>6, <1>7 DEF Grew
    <3> QED
      BY <3>1 DEF Performs
  <2>4. CASE Len(right) < k
    <3>1. smile[k] = "smile" /\ f.mar = "smile"
      BY <2>4, <1>7
    <3> QED
      BY <3>1 DEF Performs
  <2> QED
    BY <2>1, <2>2, <2>3, <2>4, <1>4, <1>5, <1>6, <1>7
<1>11. ASSUME NEW a \in Actions, Performs(d.eyeClosed, f, a)
       PROVE  \E k \in Len(s)..Len(smile) : k >= 1 /\ smile[k] = a
  <2>1. CASE a = "blink"
    <3>1. blinks
      BY <1>11, <2>1 DEF Performs
    <3> QED
      BY <3>1, <2>1, <1>2, <1>4, <1>7, <1>9, LastStays
  <2>2. CASE a = "turn_left"
    <3>1. f.yaw = "left"
      BY <1>11, <2>2 DEF Performs
    <3> QED
      BY <3>1, <2>2, <1>2, <1>5, <1>7, <1>9, LastStays
  <2>3. CASE a = "turn_right"
    <3>1. f.yaw = "right"
      BY <1>11, <2>3 DEF Performs
    <3> QED
      BY <3>1, <2>3, <1>2, <1>6, <1>7, <1>9, LastStays
  <2>4. CASE a = "smile"
    <3>1. f.mar = "smile"
      BY <1>11, <2>4 DEF Performs
    <3> QED
      BY <3>1, <2>4, <1>7, <1>9 DEF Grew
  <2> QED
    BY <2>1, <2>2, <2>3, <2>4 DEF Actions
<1> QED
  BY <1>1, <1>8, <1>9, <1>10, <1>11 DEF s

LEMMA DetectorRuns ==
    ASSUME NEW frames \in Seq(Frame)
    PROVE  /\ Detector(frames) \in [0..Len(frames) -> DetectorState]
           /\ Detector(frames)[0] = [eyeClosed |-> FALSE, detected |-> <<>>]
           /\ \A i \in 1..Len(frames) :
                  Detector(frames)[i] = Observe(Detector(frames)[i - 1], frames[i])
<1> DEFINE n == Len(frames)
           first == [eyeClosed |-> FALSE, detected |-> <<>>]
           Round == [i \in 1..n |-> [d \in DetectorState |-> Observe(d, frames[i])]]
           IsLoop(f) == f = [i \in 0..n |-> IF i = 0 THEN first ELSE Observe(f[i - 1], frames[i])]
           d == Detector(frames)
<1>1. n \in Nat /\ first \in DetectorState /\ \A i \in 1..n : frames[i] \in Frame
  BY DEF DetectorState
<1>2. Round \in [1..n -> [DetectorState -> DetectorState]]
  BY <1>1, ObserveStep
<1>3. PICK f : Loop(n, DetectorState, first, Round, f)
  <2> HIDE DEF Round, first, n
  <2> QED BY <1>1, <1>2, LoopRuns
<1>4. IsLoop(f)
  <2>1. ASSUME NEW i \in 1..n
        PROVE  f[i] = Observe(f[i - 1], frames[i])
    <3>1. f[i] = Round[i][f[i - 1]] /\ f[i - 1] \in DetectorState
      <4> HIDE DEF Round, first, n
      <4> QED BY <1>1, <1>3 DEF Loop
    <3> QED
      BY <3>1
  <2> HIDE DEF Round, first, n
  <2> QED BY <1>1, <1>3, <2>1 DEF Loop
<1>5. IsLoop(d)
  <2>1. d = CHOOSE g : IsLoop(g)
    BY DEF Detector
  <2> HIDE DEF IsLoop, d
  <2> QED BY <1>4, <2>1
<1>6. /\ d = [i \in 0..n |-> d[i]] /\ d[0] = first
      /\ \A i \in 1..n : d[i] = Observe(d[i - 1], frames[i])
  <2> HIDE DEF d, first, n
  <2>1. d = [i \in 0..n |-> IF i = 0 THEN first ELSE Observe(d[i - 1], frames[i])]
    BY <1>5
  <2>2. d = [i \in 0..n |-> d[i]]
    BY <2>1
  <2>3. \A i \in 0..n : d[i] = IF i = 0 THEN first ELSE Observe(d[i - 1], frames[i])
    BY <2>1
  <2>4. 0 \in 0..n /\ \A i \in 1..n : i \in 0..n /\ i # 0
    BY <1>1
  <2> QED BY <2>2, <2>3, <2>4
<1>7. d \in [0..n -> DetectorState]
  <2>1. ASSUME NEW i \in 1..n, d[i - 1] \in DetectorState
        PROVE  d[i] \in DetectorState
    <3>1. d[i] = Observe(d[i - 1], frames[i]) /\ frames[i] \in Frame
      BY <1>1, <1>6
    <3> HIDE DEF d
    <3> QED
      BY <2>1, <3>1, ObserveStep
  <2> HIDE DEF d, first, n
  <2> QED BY <1>1, <1>6, <2>1, LoopType
<1> QED
  BY <1>6, <1>7

-----------------------------------------------------------------------------
(* The clip and what the detector has made of it.                          *)

After(i) == Detector(clip)[i]
Detected(i) == After(i).detected
Clip == clip \in Seq(Frame)
Timeline == 0..Len(clip)

LEMMA TimelineType ==
    ASSUME Clip, NEW i \in Timeline
    PROVE  /\ After(i) \in DetectorState /\ Detected(i) \in Seq(Actions)
           /\ Len(Detected(i)) \in Nat /\ Len(Detected(0)) = 0 /\ ~After(0).eyeClosed
BY DetectorRuns DEF After, Detected, Clip, Timeline, DetectorState

\* The eye is shut: it was closed, and has not been open since.
Shut(i) ==
    \E j \in 1..i : clip[j].ear = "closed" /\ \A k \in (j + 1)..i : clip[k].ear # "open"

LEMMA FrameStep ==
    ASSUME Clip, NEW p \in 1..Len(clip)
    PROVE  /\ After(p).eyeClosed <=>
                  clip[p].ear = "closed" \/ (After(p - 1).eyeClosed /\ clip[p].ear # "open")
           /\ Grew(Detected(p - 1), Detected(p))
           /\ \A k \in (Len(Detected(p - 1)) + 1)..Len(Detected(p)) :
                  Performs(After(p - 1).eyeClosed, clip[p], Detected(p)[k])
           /\ \A a \in Actions : Performs(After(p - 1).eyeClosed, clip[p], a) =>
                  \E k \in Len(Detected(p - 1))..Len(Detected(p)) : k >= 1 /\ Detected(p)[k] = a
<1>1. After(p) = Observe(After(p - 1), clip[p]) /\ clip[p] \in Frame
  BY DetectorRuns DEF After, Clip
<1>2. p - 1 \in Timeline
  BY DEF Timeline, Clip
<1>3. After(p - 1) \in DetectorState
  BY <1>2, TimelineType
<1> DEFINE d == After(p - 1)
           f == clip[p]
           e == Observe(d, f)
<1>4. d \in DetectorState /\ f \in Frame /\ After(p) = e
  BY <1>1, <1>3
<1> HIDE DEF After, d, f
<1>5. /\ e.eyeClosed <=> f.ear = "closed" \/ (d.eyeClosed /\ f.ear # "open")
      /\ Grew(d.detected, e.detected)
      /\ \A k \in (Len(d.detected) + 1)..Len(e.detected) :
             Performs(d.eyeClosed, f, e.detected[k])
      /\ \A a \in Actions : Performs(d.eyeClosed, f, a) =>
             \E k \in Len(d.detected)..Len(e.detected) : k >= 1 /\ e.detected[k] = a
  BY <1>4, ObserveStep
<1> QED
  BY <1>4, <1>5 DEF Detected, d, f

LEMMA EyeShut ==
    ASSUME Clip
    PROVE  \A i \in Timeline : After(i).eyeClosed <=> Shut(i)
<1> DEFINE S == {i \in Timeline : After(i).eyeClosed <=> Shut(i)}
<1>1. 0 \in S
  BY TimelineType DEF Shut, Timeline, Clip
<1>2. ASSUME NEW i \in 1..Len(clip), i - 1 \in S
      PROVE  i \in S
  <2>1. i \in Timeline /\ i \in Nat
    BY DEF Timeline, Clip
  <2>2. After(i - 1).eyeClosed <=> Shut(i - 1)
    BY <1>2
  <2>3. CASE clip[i].ear = "closed"
    <3>1. Shut(i)
      BY <2>1, <2>3 DEF Shut
    <3> QED
      BY <2>1, <2>3, <3>1, FrameStep
  <2>4. CASE clip[i].ear # "closed"
    <3>1. Shut(i) <=> Shut(i - 1) /\ clip[i].ear # "open"
      BY <2>1, <2>4 DEF Shut
    <3> QED
      BY <2>1, <2>2, <2>4, <3>1, FrameStep
  <2> QED
    BY <2>3, <2>4
<1>3. Len(clip) \in Nat
  BY DEF Clip
<1>4. \A i \in 0..Len(clip) : i \in S
  <2> HIDE DEF S
  <2> QED BY <1>1, <1>2, <1>3, Induction
<1> QED
  BY <1>4 DEF Timeline

\* A frame shows an action exactly if it performs it for the detector.
LEMMA ShowsIsPerforms ==
    ASSUME Clip, NEW p \in 1..Len(clip), NEW a \in Actions
    PROVE  Shows(p, a) <=> Performs(After(p - 1).eyeClosed, clip[p], a)
<1>1. p - 1 \in Timeline
  BY DEF Timeline, Clip
<1>2. After(p - 1).eyeClosed <=> Shut(p - 1)
  BY <1>1, EyeShut
<1>3. CASE a = "blink"
  <2>1. Shut(p - 1) <=> \E j \in 1..(p - 1) :
            clip[j].ear = "closed" /\ \A k \in (j + 1)..(p - 1) : clip[k].ear # "open"
    BY DEF Shut
  <2> QED
    BY <1>2, <1>3, <2>1 DEF Shows, Performs
<1>4. CASE a # "blink"
  BY <1>4 DEF Shows, Performs, Actions
<1> QED
  BY <1>3, <1>4

LEMMA DetectedGrows ==
    ASSUME Clip, NEW p \in Timeline, NEW q \in Timeline, p <= q
    PROVE  Grew(Detected(p), Detected(q))
<1> DEFINE S == {i \in Timeline : p <= i => Grew(Detected(p), Detected(i))}
<1>1. Grew(Detected(p), Detected(p))
  BY TimelineType DEF Grew
<1>2. 0 \in S
  BY <1>1 DEF Timeline, Clip
<1>3. ASSUME NEW i \in 1..Len(clip), i - 1 \in S
      PROVE  i \in S
  <2>1. i \in Timeline /\ i - 1 \in Timeline /\ p \in Nat
    BY DEF Timeline, Clip
  <2>2. CASE p <= i - 1
    <3>1. Grew(Detected(p), Detected(i - 1)) /\ Grew(Detected(i - 1), Detected(i))
      BY <1>3, <2>2, FrameStep
    <3>2. Detected(p) \in Seq(Actions) /\ Detected(i - 1) \in Seq(Actions) /\ Detected(i) \in Seq(Actions)
      BY <2>1, TimelineType
    <3> QED
      BY <2>1, <3>1, <3>2, GrewTwice
  <2>3. CASE ~(p <= i - 1)
    BY <2>1, <2>3, <1>1
  <2> QED
    BY <2>2, <2>3
<1>4. Len(clip) \in Nat
  BY DEF Clip
<1>5. \A i \in 0..Len(clip) : i \in S
  <2> HIDE DEF S
  <2> QED BY <1>2, <1>3, <1>4, Induction
<1> QED
  BY <1>5 DEF Timeline

-----------------------------------------------------------------------------
(* The challenge and the matching of it.                                   *)

LEMMA ChallengeType ==
    ASSUME NEW expected \in Challenges \ {<<>>}
    PROVE  /\ expected \in Seq(Actions) /\ Len(expected) \in 1..4
           /\ \A i, j \in DOMAIN expected : i # j => expected[i] # expected[j]
<1>1. PICK n \in Requested : expected \in Sequences(n)
  BY DEF Challenges
<1> DEFINE length == IF n < 0 THEN Max({0, 4 + n}) ELSE Min({n, 4})
<1>2. length \in 0..4
  <2>1. n \in Int
    BY DetectionAssumption
  <2>2. CASE n < 0
    <3>1. \E x \in {0, 4 + n} : \A y \in {0, 4 + n} : x >= y
      BY <2>1
    <3>2. Max({0, 4 + n}) \in {0, 4 + n} /\ \A y \in {0, 4 + n} : Max({0, 4 + n}) >= y
      BY <3>1 DEF Max
    <3> QED
      BY <2>1, <2>2, <3>2
  <2>3. CASE ~(n < 0)
    <3>1. Min({n, 4}) \in {n, 4} /\ \A y \in {n, 4} : Min({n, 4}) <= y
      BY <2>1, <2>3, MinIsLeast
    <3> QED
      BY <2>1, <2>3, <3>1
  <2> QED
    BY <2>2, <2>3
<1>3. PICK s \in [1..4 -> Actions] : IsInjective(s) /\ expected = SubSeq(s, 1, length)
  BY <1>1 DEF Sequences
<1>4. s \in Seq(Actions) /\ Len(s) = 4
  <2>1. s \in Seq(Actions)
    BY SeqDef
  <2> QED
    BY <2>1, LenProperties
<1> HIDE DEF length
<1>5. /\ expected \in Seq(Actions) /\ Len(expected) = length
      /\ \A i \in 1..length : expected[i] = s[i]
  BY <1>2, <1>3, <1>4
<1>6. expected # <<>>
  OBVIOUS
<1>7. \A i, j \in 1..4 : i # j => s[i] # s[j]
  BY <1>3 DEF IsInjective
<1> QED
  BY <1>2, <1>5, <1>6, <1>7

LEMMA ConsumeFirst ==
    ASSUME NEW detected \in Seq(Actions), NEW at \in Nat, NEW a
    PROVE  /\ Consume(detected, at, a) \in 1..Exhausted(detected)
           /\ Consume(detected, at, a) # Exhausted(detected) =>
                  Consume(detected, at, a) > at /\ detected[Consume(detected, at, a)] = a
           /\ \A j \in DOMAIN detected :
                  j > at /\ detected[j] = a => Consume(detected, at, a) <= j
<1> DEFINE S == {i \in DOMAIN detected : i > at /\ detected[i] = a} \cup {Exhausted(detected)}
           c == Consume(detected, at, a)
<1>1. Exhausted(detected) = Len(detected) + 1 /\ DOMAIN detected = 1..Len(detected)
      /\ Len(detected) \in Nat
  BY DEF Exhausted
<1>2. S \subseteq Nat /\ S # {}
  BY <1>1
<1>3. c = Min(S)
  BY DEF Consume
<1>4. c \in S /\ \A y \in S : c <= y
  <2> HIDE DEF S, c
  <2> QED BY <1>2, <1>3, MinIsLeast
<1> HIDE DEF c
<1> QED
  BY <1>1, <1>4 DEF c

LEMMA IteratorRuns ==
    ASSUME NEW expected \in Seq(Actions), NEW detected \in Seq(Actions)
    PROVE  LET at == Iterator(expected, detected) IN
           /\ at \in [0..Len(expected) -> 0..Exhausted(detected)] /\ at[0] = 0
           /\ \A i \in 1..Len(expected) : at[i] = Consume(detected, at[i - 1], expected[i])
<1> DEFINE n == Len(expected)
           S == 0..Exhausted(detected)
           Round == [i \in 1..n |-> [p \in S |-> Consume(detected, p, expected[i])]]
           IsLoop(f) == f = [i \in 0..n |-> IF i = 0 THEN 0
                                            ELSE Consume(detected, f[i - 1], expected[i])]
           d == Iterator(expected, detected)
<1>1. n \in Nat /\ 0 \in S /\ S \subseteq Nat
  BY DEF Exhausted
<1>2. \A p \in S : \A a : Consume(detected, p, a) \in S
  BY <1>1, ConsumeFirst DEF Exhausted
<1> HIDE DEF S
<1>3. Round \in [1..n -> [S -> S]]
  BY <1>2
<1>4. PICK f : Loop(n, S, 0, Round, f)
  <2> HIDE DEF Round, n
  <2> QED BY <1>1, <1>3, LoopRuns
<1>5. IsLoop(f)
  <2>1. ASSUME NEW i \in 1..n
        PROVE  f[i] = Consume(detected, f[i - 1], expected[i])
    <3>1. f[i] = Round[i][f[i - 1]] /\ f[i - 1] \in S
      <4> HIDE DEF Round, n
      <4> QED BY <1>1, <1>4 DEF Loop
    <3> QED
      BY <3>1
  <2> HIDE DEF Round, n
  <2> QED BY <1>1, <1>4, <2>1 DEF Loop
<1>6. IsLoop(d)
  <2>1. d = CHOOSE g : IsLoop(g)
    BY DEF Iterator
  <2> HIDE DEF IsLoop, d
  <2> QED BY <1>5, <2>1
<1>7. /\ d = [i \in 0..n |-> d[i]] /\ d[0] = 0
      /\ \A i \in 1..n : d[i] = Consume(detected, d[i - 1], expected[i])
  <2> HIDE DEF d, n
  <2>1. d = [i \in 0..n |-> IF i = 0 THEN 0 ELSE Consume(detected, d[i - 1], expected[i])]
    BY <1>6
  <2>2. d = [i \in 0..n |-> d[i]]
    BY <2>1
  <2>3. \A i \in 0..n : d[i] = IF i = 0 THEN 0 ELSE Consume(detected, d[i - 1], expected[i])
    BY <2>1
  <2>4. 0 \in 0..n /\ \A i \in 1..n : i \in 0..n /\ i # 0
    BY <1>1
  <2> QED BY <2>2, <2>3, <2>4
<1>8. d \in [0..n -> S]
  <2> HIDE DEF d, n
  <2>1. /\ d = [i \in 0..n |-> d[i]] /\ d[0] \in S
        /\ \A i \in 1..n : d[i - 1] \in S => d[i] \in S
    BY <1>1, <1>2, <1>7
  <2> QED BY <1>1, <2>1, LoopType
<1> QED
  BY <1>7, <1>8 DEF S

\* Places of detected that show the expected actions, in order.
Embeds(expected, detected, at) ==
    /\ at \in [DOMAIN expected -> DOMAIN detected]
    /\ \A i \in DOMAIN expected : detected[at[i]] = expected[i]
    /\ \A i, j \in DOMAIN expected : i < j => at[i] < at[j]

LEMMA MatchEmbeds ==
    ASSUME NEW expected \in Seq(Actions), NEW detected \in Seq(Actions),
           MatchesInOrder(expected, detected)
    PROVE  \E at : Embeds(expected, detected, at)
<1> DEFINE n == Len(expected)
           X == Exhausted(detected)
           it == Iterator(expected, detected)
<1>1. n \in Nat /\ DOMAIN expected = 1..n /\ DOMAIN detected = 1..(X - 1) /\ X \in Nat
  BY DEF Exhausted
<1>2. /\ it \in [0..n -> 0..X] /\ it[0] = 0 /\ it[n] # X
      /\ \A i \in 1..n : it[i] = Consume(detected, it[i - 1], expected[i])
  BY IteratorRuns DEF MatchesInOrder
<1> HIDE DEF n, X, it
<1>3. ASSUME NEW i \in 1..n
      PROVE  /\ it[i] # X => it[i - 1] < it[i] /\ detected[it[i]] = expected[i]
             /\ it[i] \in 1..X /\ it[i - 1] \in 0..X
  <2>1. it[i - 1] \in 0..X /\ it[i] = Consume(detected, it[i - 1], expected[i])
    BY <1>1, <1>2
  <2> QED
    BY <2>1, <1>1, ConsumeFirst DEF X
<1>4. ASSUME NEW p \in 1..n, it[p] = X
      PROVE  FALSE
  <2> DEFINE S == {i \in 0..n : p <= i => it[i] = X}
  <2>1. 0 \in S
    BY <1>1
  <2>2. ASSUME NEW i \in 1..n, i - 1 \in S
        PROVE  i \in S
    <3>1. CASE p <= i - 1
      <4>1. it[i - 1] = X
        BY <2>2, <3>1
      <4> QED
        BY <4>1, <1>1, <1>3
    <3>2. CASE ~(p <= i - 1)
      BY <1>1, <1>4, <3>2
    <3> QED
      BY <3>1, <3>2
  <2>3. \A i \in 0..n : i \in S
    <3> HIDE DEF S
    <3> QED BY <1>1, <2>1, <2>2, Induction
  <2> QED
    BY <1>1, <1>2, <2>3
<1>5. ASSUME NEW i \in 1..n
      PROVE  /\ it[i] \in DOMAIN detected /\ detected[it[i]] = expected[i]
             /\ it[i - 1] < it[i]
  BY <1>1, <1>3, <1>4
<1>6. ASSUME NEW p \in 1..n, NEW q \in 1..n, p < q
      PROVE  it[p] < it[q]
  <2> DEFINE S == {i \in 0..n : p < i => it[p] < it[i]}
  <2>1. 0 \in S
    BY <1>1
  <2>2. ASSUME NEW i \in 1..n, i - 1 \in S
        PROVE  i \in S
    <3>0. i - 1 \in 0..n /\ i \in 0..n /\ p \in 0..n
      BY <1>1
    <3>4. it[i - 1] \in Nat /\ it[i] \in Nat /\ it[p] \in Nat
      BY <1>1, <1>3, <3>0
    <3>1. it[i - 1] < it[i] /\ it[i - 1] \in Nat /\ it[i] \in Nat /\ it[p] \in Nat
      BY <1>5, <3>4
    <3>2. i - 1 \in 0..n /\ (p < i - 1 => it[p] < it[i - 1])
      BY <2>2
    <3>3. p < i => p < i - 1 \/ p = i - 1
      BY <1>1
    <3> QED
      BY <3>1, <3>2, <3>3
  <2>3. \A i \in 0..n : i \in S
    <3> HIDE DEF S
    <3> QED BY <1>1, <2>1, <2>2, Induction
  <2> QED
    BY <1>1, <1>6, <2>3
<1> DEFINE at == [i \in 1..n |-> it[i]]
<1>7. Embeds(expected, detected, at)
  BY <1>1, <1>5, <1>6 DEF Embeds
<1> QED
  BY <1>7

LEMMA EmbedMatches ==
    ASSUME NEW expected \in Seq(Actions), NEW detected \in Seq(Actions),
           NEW at, Embeds(expected, detected, at)
    PROVE  MatchesInOrder(expected, detected)
<1> DEFINE n == Len(expected)
           X == Exhausted(detected)
           it == Iterator(expected, detected)
<1>1. n \in Nat /\ DOMAIN expected = 1..n /\ DOMAIN detected = 1..(X - 1) /\ X \in Nat /\ X > 0
  BY DEF Exhausted
<1>2. /\ it \in [0..n -> 0..X] /\ it[0] = 0
      /\ \A i \in 1..n : it[i] = Consume(detected, it[i - 1], expected[i])
  BY IteratorRuns
<1> HIDE DEF n, X, it
<1>3. /\ \A i \in 1..n : at[i] \in 1..(X - 1) /\ detected[at[i]] = expected[i]
      /\ \A i, j \in 1..n : i < j => at[i] < at[j]
  BY <1>1 DEF Embeds
<1> DEFINE S == {i \in 0..n : it[i] # X /\ (i > 0 => it[i] <= at[i])}
<1>4. 0 \in S
  BY <1>1, <1>2
<1>5. ASSUME NEW i \in 1..n, i - 1 \in S
      PROVE  i \in S
  <2>1. it[i - 1] < at[i]
    <3>1. CASE i = 1
      BY <3>1, <1>2, <1>3
    <3>2. CASE i # 1
      <4>1. i - 1 \in 1..n /\ it[i - 1] <= at[i - 1] /\ it[i - 1] \in 0..X
        BY <3>2, <1>1, <1>2, <1>5
      <4> QED
        BY <4>1, <1>1, <1>3
    <3> QED
      BY <3>1, <3>2
  <2>2. it[i - 1] \in Nat /\ it[i] = Consume(detected, it[i - 1], expected[i])
    BY <1>1, <1>2
  <2>3. it[i] <= at[i]
    BY <2>1, <2>2, <1>1, <1>3, ConsumeFirst
  <2> QED
    BY <2>3, <1>1, <1>2, <1>3
<1>6. \A i \in 0..n : i \in S
  <2> HIDE DEF S
  <2> QED BY <1>1, <1>4, <1>5, Induction
<1>7. it[n] # X
  BY <1>1, <1>6
<1> QED
  BY <1>7 DEF MatchesInOrder, it, n, X

\* The score adds nothing to the order.
LEMMA LiveIsMatch ==
    ASSUME NEW expected \in Challenges \ {<<>>}, NEW frames, Detect(frames) \in Seq(Actions)
    PROVE  Verdict(expected, frames) = "live" <=> MatchesInOrder(expected, Detect(frames))
<1> DEFINE detected == Detect(frames)
<1>1. expected \in Seq(Actions) /\ Len(expected) \in 1..4 /\ expected # <<>>
  BY ChallengeType
<1>2. Verdict(expected, frames) = "live" <=>
          Score(expected, detected) >= LivenessMinScore /\ MatchesInOrder(expected, detected)
  BY <1>1 DEF Verdict
<1> HIDE DEF detected
<1>3. ASSUME MatchesInOrder(expected, detected)
      PROVE  Score(expected, detected) = 100
  <2>1. PICK at : Embeds(expected, detected, at)
    BY <1>1, <1>3, MatchEmbeds DEF detected
  <2>2. {i \in DOMAIN expected : expected[i] \in Range(detected)} = 1..Len(expected)
    BY <1>1, <2>1 DEF Embeds, Range
  <2>3. Cardinality(1..Len(expected)) = Len(expected)
    BY <1>1, FS_Interval
  <2>4. Score(expected, detected) = (100 * Len(expected)) \div Len(expected)
    BY <1>3, <2>2, <2>3 DEF Score
  <2>5. \A l \in 1..4 : (100 * l) \div l = 100
    OBVIOUS
  <2> QED
    BY <1>1, <2>4, <2>5
<1> QED
  BY <1>2, <1>3, DetectionAssumption DEF detected

-----------------------------------------------------------------------------
(* The verdict and the clip.                                               *)

LEMMA DetectClip ==
    ASSUME Clip
    PROVE  /\ Len(clip) \in Timeline /\ Len(clip) \in Nat
           /\ Detect(clip) = Detected(Len(clip)) /\ Detect(clip) \in Seq(Actions)
<1>1. Len(clip) \in Timeline /\ Len(clip) \in Nat
  BY DEF Clip, Timeline
<1>2. Detect(clip) = Detected(Len(clip))
  BY DEF Detect, Detected, After
<1> QED
  BY <1>1, <1>2, TimelineType

\* Each action detected was added by a frame that shows it.
LEMMA AddedByFrame ==
    ASSUME Clip, NEW k \in 1..Len(Detect(clip))
    PROVE  \E p \in 1..Len(clip) :
               /\ Len(Detected(p - 1)) < k /\ k <= Len(Detected(p))
               /\ Shows(p, Detect(clip)[k])
<1> DEFINE S == {i \in Timeline : k <= Len(Detected(i)) =>
                     \E p \in 1..i : Len(Detected(p - 1)) < k /\ k <= Len(Detected(p))}
           n == Len(clip)
<1>1. 0 \in S
  BY TimelineType DEF Timeline, Clip
<1>2. ASSUME NEW i \in 1..n, i - 1 \in S
      PROVE  i \in S
  <2>1. i \in Timeline /\ i - 1 \in Timeline
    BY DEF Timeline, Clip
  <2>2. Len(Detected(i)) \in Nat /\ Len(Detected(i - 1)) \in Nat
    BY <2>1, TimelineType
  <2>3. CASE k <= Len(Detected(i - 1))
    <3>1. PICK p \in 1..(i - 1) : Len(Detected(p - 1)) < k /\ k <= Len(Detected(p))
      BY <1>2, <2>3
    <3>2. p \in 1..i
      BY <2>1 DEF Timeline
    <3> QED
      BY <2>1, <3>1, <3>2
  <2>4. CASE Len(Detected(i - 1)) < k
    BY <2>1, <2>4 DEF Timeline
  <2> QED
    BY <2>2, <2>3, <2>4
<1>3. \A i \in 0..n : i \in S
  <2>1. n \in Nat
    BY DetectClip
  <2> HIDE DEF S, n
  <2> QED BY <1>1, <1>2, <2>1, Induction
<1>4. n \in S /\ k <= Len(Detected(n))
  BY <1>3, DetectClip
<1>5. PICK p \in 1..n : Len(Detected(p - 1)) < k /\ k <= Len(Detected(p))
  BY <1>4
<1>6. p \in Timeline /\ p - 1 \in Timeline /\ p <= n /\ n \in Timeline
  BY DetectClip DEF Timeline
<1>7. Detected(p) \in Seq(Actions) /\ Len(Detected(p)) \in Nat /\ Len(Detected(p - 1)) \in Nat
  BY <1>6, TimelineType
<1>8. Detected(p)[k] = Detect(clip)[k] /\ Detected(p)[k] \in Actions
  <2>1. Grew(Detected(p), Detected(n))
    BY <1>6, DetectedGrows
  <2> QED
    BY <2>1, <1>5, <1>7, DetectClip DEF Grew
<1>9. Performs(After(p - 1).eyeClosed, clip[p], Detected(p)[k])
  BY <1>5, <1>7, FrameStep
<1>10. Shows(p, Detected(p)[k])
  BY <1>8, <1>9, ShowsIsPerforms
<1> QED
  BY <1>5, <1>8, <1>10

LEMMA LiveStep == Clip => LiveIsPerformed
<1> SUFFICES ASSUME Clip, NEW expected \in Challenges \ {<<>>},
                    Verdict(expected, clip) = "live"
             PROVE  ShownInOrder(expected, FALSE)
  BY DEF LiveIsPerformed
<1> DEFINE detected == Detect(clip)
           n == Len(clip)
<1>1. detected \in Seq(Actions) /\ n \in Nat /\ detected = Detected(n)
  BY DetectClip
<1>2. expected \in Seq(Actions) /\ MatchesInOrder(expected, detected)
  BY <1>1, ChallengeType, LiveIsMatch
<1> HIDE DEF detected
<1>3. PICK at : Embeds(expected, detected, at)
  BY <1>1, <1>2, MatchEmbeds
<1> DEFINE Adds(p, k) == /\ Len(Detected(p - 1)) < k /\ k <= Len(Detected(p))
                         /\ Shows(p, detected[k])
           frame == [i \in DOMAIN expected |-> CHOOSE p \in 1..n : Adds(p, at[i])]
<1>4. ASSUME NEW i \in DOMAIN expected
      PROVE  frame[i] \in 1..n /\ Adds(frame[i], at[i])
  <2>1. at[i] \in 1..Len(detected)
    BY <1>1, <1>3 DEF Embeds
  <2>2. \E p \in 1..n : Adds(p, at[i])
    BY <2>1, AddedByFrame DEF detected
  <2> HIDE DEF Adds
  <2> QED
    BY <2>2
<1> HIDE DEF frame
<1>5. frame \in [DOMAIN expected -> DOMAIN clip]
  <2>1. frame = [i \in DOMAIN expected |-> frame[i]]
    BY DEF frame
  <2>2. DOMAIN clip = 1..n
    BY DEF Clip
  <2> HIDE DEF Adds, n
  <2> QED
    BY <1>4, <2>1, <2>2
<1>6. \A i \in DOMAIN expected : Shows(frame[i], expected[i])
  BY <1>3, <1>4 DEF Embeds
<1>7. ASSUME NEW i \in DOMAIN expected, NEW j \in DOMAIN expected, i < j
      PROVE  frame[i] <= frame[j]
  <2> SUFFICES ASSUME frame[j] < frame[i]
               PROVE  FALSE
    BY <1>1, <1>4
  <2>1. frame[j] \in Timeline /\ frame[i] - 1 \in Timeline /\ frame[j] <= frame[i] - 1
    BY <1>1, <1>4 DEF Timeline
  <2>2. Len(Detected(frame[j])) <= Len(Detected(frame[i] - 1))
    BY <2>1, DetectedGrows DEF Grew
  <2>3. at[i] < at[j] /\ at[i] \in Nat /\ at[j] \in Nat
    BY <1>1, <1>3, <1>7 DEF Embeds
  <2>4. Len(Detected(frame[j])) \in Nat /\ Len(Detected(frame[i] - 1)) \in Nat
    BY <2>1, TimelineType
  <2>5. Len(Detected(frame[i] - 1)) < at[i] /\ at[j] <= Len(Detected(frame[j]))
    BY <1>4
  <2> QED
    BY <2>2, <2>3, <2>4, <2>5
<1> QED
  BY <1>5, <1>6, <1>7 DEF ShownInOrder

\* What a frame shows is in the list that it leaves behind, as far back as the last
\* entry that it found.
LEMMA ShownIsDetected ==
    ASSUME Clip, NEW p \in 1..Len(clip), NEW a \in Actions, Shows(p, a)
    PROVE  \E k \in Len(Detected(p - 1))..Len(Detected(p)) :
               k \in DOMAIN Detect(clip) /\ Detect(clip)[k] = a
<1>1. p \in Timeline /\ p - 1 \in Timeline /\ Len(clip) \in Timeline /\ p <= Len(clip)
  BY DetectClip DEF Timeline
<1>2. PICK k \in Len(Detected(p - 1))..Len(Detected(p)) : k >= 1 /\ Detected(p)[k] = a
  BY FrameStep, ShowsIsPerforms
<1>3. Grew(Detected(p), Detected(Len(clip)))
  BY <1>1, DetectedGrows
<1>4. /\ Detected(p) \in Seq(Actions) /\ Len(Detected(p)) \in Nat /\ Len(Detected(p - 1)) \in Nat
      /\ Detected(Len(clip)) \in Seq(Actions)
  BY <1>1, TimelineType
<1> QED
  BY <1>2, <1>3, <1>4, DetectClip DEF Grew

LEMMA PerformedStep == Clip => PerformedIsLive
<1> SUFFICES ASSUME Clip, NEW expected \in Challenges \ {<<>>}, ShownInOrder(expected, TRUE)
             PROVE  Verdict(expected, clip) = "live"
  BY DEF PerformedIsLive
<1> DEFINE detected == Detect(clip)
           n == Len(clip)
           L(i) == Len(Detected(i))
<1>1. detected \in Seq(Actions) /\ n \in Nat /\ DOMAIN clip = 1..n
  BY DetectClip DEF Clip
<1>2. /\ expected \in Seq(Actions)
      /\ DOMAIN expected = 1..Len(expected) /\ Len(expected) \in Nat
      /\ \A i, j \in DOMAIN expected : i # j => expected[i] # expected[j]
  BY ChallengeType
<1>3. PICK frame \in [DOMAIN expected -> DOMAIN clip] :
          /\ \A i \in DOMAIN expected : Shows(frame[i], expected[i])
          /\ \A i, j \in DOMAIN expected : i < j => frame[i] < frame[j]
  BY DEF ShownInOrder
<1> DEFINE Has(i, k) == k \in DOMAIN detected /\ detected[k] = expected[i]
           at == [i \in DOMAIN expected |->
                      CHOOSE k \in L(frame[i] - 1)..L(frame[i]) : Has(i, k)]
<1>4. ASSUME NEW i \in DOMAIN expected
      PROVE  at[i] \in L(frame[i] - 1)..L(frame[i]) /\ Has(i, at[i])
  <2>1. frame[i] \in 1..n /\ expected[i] \in Actions /\ Shows(frame[i], expected[i])
    BY <1>1, <1>2, <1>3
  <2>2. \E k \in L(frame[i] - 1)..L(frame[i]) : Has(i, k)
    BY <2>1, ShownIsDetected
  <2> HIDE DEF Has, L
  <2> QED
    BY <2>2
<1>5. at = [i \in DOMAIN expected |-> at[i]]
  OBVIOUS
<1> HIDE DEF at
<1>6. at \in [DOMAIN expected -> DOMAIN detected]
  <2> HIDE DEF L, detected
  <2> QED BY <1>4, <1>5
<1>7. ASSUME NEW i \in DOMAIN expected, NEW j \in DOMAIN expected, i < j
      PROVE  at[i] < at[j]
  <2>1. frame[i] \in 1..n /\ frame[j] \in 1..n /\ frame[i] < frame[j]
    BY <1>1, <1>3, <1>7
  <2>2. /\ frame[i] \in Timeline /\ frame[i] - 1 \in Timeline
        /\ frame[j] \in Timeline /\ frame[j] - 1 \in Timeline
        /\ frame[i] <= frame[j] - 1
    BY <2>1, <1>1 DEF Timeline
  <2>3. L(frame[i]) <= L(frame[j] - 1)
    BY <2>2, DetectedGrows DEF Grew
  <2>4. L(frame[i]) \in Nat /\ L(frame[i] - 1) \in Nat /\ L(frame[j]) \in Nat /\ L(frame[j] - 1) \in Nat
    BY <2>2, TimelineType
  <2>5. at[i] # at[j]
    <3>1. expected[i] # expected[j]
      BY <1>2, <1>7
    <3> QED
      BY <3>1, <1>4
  <2>6. at[i] \in L(frame[i] - 1)..L(frame[i]) /\ at[j] \in L(frame[j] - 1)..L(frame[j])
    BY <1>4
  <2> HIDE DEF L
  <2> QED
    BY <2>3, <2>4, <2>5, <2>6
<1>8. Embeds(expected, detected, at)
  BY <1>4, <1>6, <1>7 DEF Embeds
<1>9. MatchesInOrder(expected, detected)
  <2> HIDE DEF detected
  <2> QED BY <1>1, <1>2, <1>8, EmbedMatches
<1> QED
  BY <1>1, <1>9, LiveIsMatch

-----------------------------------------------------------------------------
(* The guide in the browser.                                               *)

GuideState(expected) == [step : 0..Len(expected), eyeClosed : BOOLEAN]

\* The guide minds the eye only while it asks for a blink.
Minds(expected, g) ==
    g.eyeClosed => g.step < Len(expected) /\ expected[g.step + 1] = "blink"

LEMMA GuideStep ==
    ASSUME NEW expected \in Seq(Actions), NEW g \in GuideState(expected), NEW f \in Frame
    PROVE  LET h == Guide(expected, g, f) IN
           /\ h \in GuideState(expected)
           /\ \/ h.step = g.step
              \/ /\ h.step = g.step + 1 /\ g.step < Len(expected)
                 /\ Performs(g.eyeClosed, f, expected[g.step + 1])
           /\ Minds(expected, g) => Minds(expected, h)
           /\ Minds(expected, g) /\ h.eyeClosed =>
                  f.ear = "closed" \/ (g.eyeClosed /\ f.ear # "open")
<1> DEFINE h == Guide(expected, g, f)
           action == expected[g.step + 1]
           performed == Performs(g.eyeClosed, f, action)
<1>1. /\ g.step \in 0..Len(expected) /\ g.eyeClosed \in BOOLEAN /\ Len(expected) \in Nat
      /\ g = [step |-> g.step, eyeClosed |-> g.eyeClosed]
  BY DEF GuideState
<1>2. CASE g.step = Len(expected)
  <2>1. h = g
    BY <1>2 DEF Guide
  <2> HIDE DEF h
  <2>2. Minds(expected, g) => ~g.eyeClosed
    BY <1>1, <1>2 DEF Minds
  <2> QED
    BY <2>1, <2>2 DEF h
<1>3. CASE g.step < Len(expected)
  <2>1. action \in Actions
    BY <1>1, <1>3
  <2> DEFINE does == CASE action = "blink"      -> g.eyeClosed /\ f.ear = "open"
                       [] action = "turn_left"  -> f.yaw = "left"
                       [] action = "turn_right" -> f.yaw = "right"
                       [] action = "smile"      -> f.mar = "smile"
             moved == IF does THEN g.step + 1 ELSE g.step
             shut == ~does /\ (g.eyeClosed \/ (action = "blink" /\ f.ear = "closed"))
  <2>2. h = [step |-> moved, eyeClosed |-> shut]
    <3>1. g.step # Len(expected)
      BY <1>1, <1>3
    <3> QED
      BY <3>1, Zenon DEF Guide
  <2>3. performed \in BOOLEAN /\ (performed <=> does)
    <3>1. CASE action = "blink"
      BY <3>1, <1>1 DEF Performs
    <3>2. CASE action = "turn_left"
      BY <3>2 DEF Performs
    <3>3. CASE action = "turn_right"
      BY <3>3 DEF Performs
    <3>4. CASE action = "smile"
      BY <3>4 DEF Performs
    <3> QED
      BY <2>1, <3>1, <3>2, <3>3, <3>4 DEF Actions
  <2>4. action = "blink" /\ g.eyeClosed /\ f.ear = "open" => performed
    BY DEF Performs
  <2> HIDE DEF performed, does
  <2>5. /\ h.step = IF performed THEN g.step + 1 ELSE g.step
        /\ h.eyeClosed <=> ~performed /\ (g.eyeClosed \/ (action = "blink" /\ f.ear = "closed"))
    <3> HIDE DEF h, action
    <3>1. h.step = moved /\ h.eyeClosed = shut
      <4> HIDE DEF moved, shut
      <4> QED BY <2>2
    <3> QED
      BY <2>3, <3>1
  <2>6. h \in GuideState(expected)
    <3>1. moved \in 0..Len(expected) /\ shut \in BOOLEAN
      BY <1>1, <1>3, <2>3
    <3> HIDE DEF moved, shut, h
    <3> QED
      BY <2>2, <3>1 DEF GuideState
  <2> HIDE DEF h, moved, shut
  <2>7. Minds(expected, g) => Minds(expected, h)
    BY <2>5, <1>3 DEF Minds
  <2>8. Minds(expected, g) /\ h.eyeClosed => f.ear = "closed" \/ (g.eyeClosed /\ f.ear # "open")
    BY <2>4, <2>5, <1>3 DEF Minds
  <2> QED
    BY <1>3, <2>5, <2>6, <2>7, <2>8 DEF h, performed
<1> QED
  BY <1>1, <1>2, <1>3

LEMMA GuidedRuns ==
    ASSUME NEW expected \in Seq(Actions), NEW frames \in Seq(Frame)
    PROVE  LET d == Guided(expected, frames) IN
           /\ d \in [0..Len(frames) -> GuideState(expected)]
           /\ d[0] = [step |-> 0, eyeClosed |-> FALSE]
           /\ \A i \in 1..Len(frames) : d[i] = Guide(expected, d[i - 1], frames[i])
<1> DEFINE n == Len(frames)
           S == GuideState(expected)
           first == [step |-> 0, eyeClosed |-> FALSE]
           Round == [i \in 1..n |-> [g \in S |-> Guide(expected, g, frames[i])]]
           IsLoop(f) == f = [i \in 0..n |-> IF i = 0 THEN first
                                            ELSE Guide(expected, f[i - 1], frames[i])]
           d == Guided(expected, frames)
<1>1. n \in Nat /\ first \in S /\ \A i \in 1..n : frames[i] \in Frame
  BY DEF GuideState
<1>2. \A f \in Frame : \A g \in S : Guide(expected, g, f) \in S
  BY GuideStep
<1> HIDE DEF S
<1>3. Round \in [1..n -> [S -> S]]
  BY <1>1, <1>2
<1>4. PICK f : Loop(n, S, first, Round, f)
  <2> HIDE DEF Round, n, first
  <2> QED BY <1>1, <1>3, LoopRuns
<1>5. IsLoop(f)
  <2>1. ASSUME NEW i \in 1..n
        PROVE  f[i] = Guide(expected, f[i - 1], frames[i])
    <3>1. f[i] = Round[i][f[i - 1]] /\ f[i - 1] \in S
      <4> HIDE DEF Round, first, n
      <4> QED BY <1>1, <1>4 DEF Loop
    <3> QED
      BY <3>1
  <2> HIDE DEF Round, n, first
  <2> QED BY <1>1, <1>4, <2>1 DEF Loop
<1>6. IsLoop(d)
  <2>1. d = CHOOSE g : IsLoop(g)
    BY DEF Guided
  <2> HIDE DEF IsLoop, d
  <2> QED BY <1>5, <2>1
<1>7. /\ d = [i \in 0..n |-> d[i]] /\ d[0] = first
      /\ \A i \in 1..n : d[i] = Guide(expected, d[i - 1], frames[i])
  <2> HIDE DEF d, n, first
  <2>1. d = [i \in 0..n |-> IF i = 0 THEN first ELSE Guide(expected, d[i - 1], frames[i])]
    BY <1>6
  <2>2. d = [i \in 0..n |-> d[i]]
    BY <2>1
  <2>3. \A i \in 0..n : d[i] = IF i = 0 THEN first ELSE Guide(expected, d[i - 1], frames[i])
    BY <2>1
  <2>4. 0 \in 0..n /\ \A i \in 1..n : i \in 0..n /\ i # 0
    BY <1>1
  <2> QED BY <2>2, <2>3, <2>4
<1>8. d \in [0..n -> S]
  <2>1. ASSUME NEW i \in 1..n, d[i - 1] \in S
        PROVE  d[i] \in S
    <3>1. d[i] = Guide(expected, d[i - 1], frames[i]) /\ frames[i] \in Frame
      BY <1>1, <1>7
    <3> HIDE DEF d
    <3> QED BY <2>1, <3>1, <1>2
  <2> HIDE DEF d, n, first
  <2> QED BY <1>1, <1>7, <2>1, LoopType
<1> QED
  BY <1>7, <1>8 DEF S

\* What the guide has ticked off, the clip has shown in order.
LEMMA TickedWasShown ==
    ASSUME Clip, NEW expected \in Seq(Actions)
    PROVE  \A p \in Timeline : \E at \in [1..Guided(expected, clip)[p].step -> 1..p] :
               /\ \A i \in DOMAIN at : Shows(at[i], expected[i])
               /\ \A i, j \in DOMAIN at : i < j => at[i] < at[j]
<1> DEFINE n == Len(clip)
           G(p) == Guided(expected, clip)[p]
           m(p) == G(p).step
           Shown(at, k, p) ==
               /\ at \in [1..k -> 1..p]
               /\ \A i \in 1..k : Shows(at[i], expected[i])
               /\ \A i, j \in 1..k : i < j => at[i] < at[j]
           S == {p \in 0..n : /\ \E at : Shown(at, m(p), p)
                              /\ Minds(expected, G(p))
                              /\ G(p).eyeClosed => Shut(p)}
<1>1. n \in Nat /\ \A p \in 1..n : clip[p] \in Frame
  BY DEF Clip
<1>2. /\ \A p \in 0..n : G(p) \in GuideState(expected) /\ m(p) \in 0..Len(expected)
      /\ m(0) = 0 /\ ~G(0).eyeClosed
      /\ \A p \in 1..n : G(p) = Guide(expected, G(p - 1), clip[p])
  <2> DEFINE d == Guided(expected, clip)
  <2>1. clip \in Seq(Frame)
    BY DEF Clip
  <2>2. /\ d \in [0..n -> GuideState(expected)]
        /\ d[0] = [step |-> 0, eyeClosed |-> FALSE]
        /\ \A i \in 1..n : d[i] = Guide(expected, d[i - 1], clip[i])
    BY <2>1, GuidedRuns
  <2> HIDE DEF d
  <2>3. \A p \in 0..n : d[p] \in GuideState(expected) /\ d[p].step \in 0..Len(expected)
    BY <2>2 DEF GuideState
  <2>4. d[0].step = 0 /\ ~d[0].eyeClosed
    BY <2>2
  <2> QED
    BY <2>2, <2>3, <2>4 DEF d
<1> HIDE DEF G
<1>3. 0 \in S
  <2> DEFINE none == [i \in 1..0 |-> 0]
  <2>1. Shown(none, 0, 0)
    OBVIOUS
  <2> HIDE DEF none, Shown
  <2> QED
    BY <1>1, <1>2, <2>1 DEF Minds
<1>4. ASSUME NEW p \in 1..n, p - 1 \in S
      PROVE  p \in S
  <2>1. /\ p - 1 \in 0..n /\ p \in 0..n /\ p - 1 \in Timeline /\ p \in Nat
        /\ Minds(expected, G(p - 1))
        /\ G(p - 1).eyeClosed => Shut(p - 1)
        /\ G(p - 1) \in GuideState(expected)
        /\ m(p - 1) \in 0..Len(expected)
    <3> HIDE DEF Shown
    <3> QED BY <1>1, <1>2, <1>4 DEF Timeline
  <2>2. PICK at : Shown(at, m(p - 1), p - 1)
    BY <1>4
  <2>3. /\ \/ m(p) = m(p - 1)
           \/ /\ m(p) = m(p - 1) + 1 /\ m(p - 1) < Len(expected)
              /\ Performs(G(p - 1).eyeClosed, clip[p], expected[m(p - 1) + 1])
        /\ Minds(expected, G(p))
        /\ G(p).eyeClosed => clip[p].ear = "closed" \/ (G(p - 1).eyeClosed /\ clip[p].ear # "open")
    <3>1. G(p) = Guide(expected, G(p - 1), clip[p]) /\ clip[p] \in Frame
      BY <1>1, <1>2
    <3> QED
      BY <2>1, <3>1, GuideStep
  <2>4. G(p).eyeClosed => Shut(p)
    BY <2>1, <2>3 DEF Shut
  <2>5. CASE m(p) = m(p - 1)
    <3>1. Shown(at, m(p), p)
      BY <2>1, <2>2, <2>5
    <3> HIDE DEF Shown
    <3> QED
      BY <2>1, <2>3, <2>4, <3>1
  <2>6. CASE m(p) # m(p - 1)
    <3> DEFINE a == expected[m(p - 1) + 1]
               later == [i \in 1..m(p) |-> IF i <= m(p - 1) THEN at[i] ELSE p]
    <3>1. /\ m(p) = m(p - 1) + 1 /\ m(p - 1) < Len(expected)
          /\ Performs(G(p - 1).eyeClosed, clip[p], a) /\ a \in Actions
      BY <2>1, <2>3, <2>6
    <3>2. Performs(After(p - 1).eyeClosed, clip[p], a)
      <4>1. G(p - 1).eyeClosed => After(p - 1).eyeClosed
        BY <2>1, EyeShut
      <4> QED
        BY <3>1, <4>1 DEF Performs, Actions
    <3>3. Shows(p, a)
      BY <3>1, <3>2, ShowsIsPerforms
    <3>4. /\ \A i \in 1..m(p - 1) : later[i] = at[i] /\ at[i] \in 1..(p - 1)
          /\ later[m(p)] = p /\ later \in [1..m(p) -> 1..p]
          /\ \A i \in 1..m(p) : i \in 1..m(p - 1) \/ i = m(p)
      <4>1. m(p - 1) \in Nat /\ m(p) = m(p - 1) + 1 /\ p \in Nat /\ p >= 1
        BY <2>1, <3>1, <1>1
      <4>2. at \in [1..m(p - 1) -> 1..(p - 1)]
        BY <2>2
      <4> HIDE DEF m, Shown, S
      <4>3. \A i \in 1..m(p) : i \in 1..m(p - 1) \/ i = m(p)
        BY <4>1
      <4>4. \A i \in 1..m(p - 1) : i \in 1..m(p) /\ i <= m(p - 1) /\ at[i] \in 1..(p - 1)
        BY <4>1, <4>2
      <4>5. \A i \in 1..m(p - 1) : later[i] = at[i]
        BY <4>4
      <4>6. later[m(p)] = p
        BY <4>1
      <4>7. \A i \in 1..m(p) : (IF i <= m(p - 1) THEN at[i] ELSE p) \in 1..p
        BY <4>1, <4>4
      <4> QED
        BY <4>3, <4>4, <4>5, <4>6, <4>7
    <3> HIDE DEF later
    <3>5. Shown(later, m(p), p)
      <4>1. \A i \in 1..m(p) : Shows(later[i], expected[i])
        BY <2>2, <3>1, <3>3, <3>4
      <4>2. ASSUME NEW i \in 1..m(p), NEW j \in 1..m(p), i < j
            PROVE  later[i] < later[j]
        <5>1. i \in 1..m(p - 1)
          BY <4>2, <2>1, <3>1
        <5>2. CASE j = m(p)
          BY <5>1, <5>2, <2>1, <3>4
        <5>3. CASE j \in 1..m(p - 1)
          BY <5>1, <5>3, <4>2, <2>2, <3>4
        <5> QED
          BY <5>2, <5>3, <3>4
      <4> QED
        BY <3>4, <4>1, <4>2
    <3> HIDE DEF Shown
    <3> QED
      BY <2>1, <2>3, <2>4, <3>5
  <2> QED
    BY <2>5, <2>6
<1>5. \A p \in 0..n : p \in S
  <2> HIDE DEF S
  <2> QED BY <1>1, <1>3, <1>4, Induction
<1>6. ASSUME NEW p \in Timeline
      PROVE  \E at \in [1..m(p) -> 1..p] :
                 /\ \A i \in DOMAIN at : Shows(at[i], expected[i])
                 /\ \A i, j \in DOMAIN at : i < j => at[i] < at[j]
  <2>1. PICK at : Shown(at, m(p), p)
    BY <1>5 DEF Timeline
  <2>2. DOMAIN at = 1..m(p)
    BY <2>1
  <2> QED
    BY <2>1, <2>2
<1> QED
  BY <1>6 DEF G

LEMMA GuidedStep == Clip => GuidedIsLive
<1> SUFFICES ASSUME Clip, NEW expected \in Challenges \ {<<>>}, GuideDone(expected, clip)
             PROVE  Verdict(expected, clip) = "live"
  BY DEF GuidedIsLive
<1>1. expected \in Seq(Actions) /\ DOMAIN expected = 1..Len(expected)
  BY ChallengeType
<1>2. Guided(expected, clip)[Len(clip)].step = Len(expected)
  BY DEF GuideDone
<1>3. PICK at \in [1..Len(expected) -> 1..Len(clip)] :
          /\ \A i \in DOMAIN at : Shows(at[i], expected[i])
          /\ \A i, j \in DOMAIN at : i < j => at[i] < at[j]
  BY <1>1, <1>2, TickedWasShown, DetectClip
<1>4. DOMAIN clip = 1..Len(clip)
  BY DEF Clip
<1>5. ShownInOrder(expected, TRUE)
  BY <1>1, <1>3, <1>4 DEF ShownInOrder
<1> QED
  BY <1>5, PerformedStep DEF PerformedIsLive

-----------------------------------------------------------------------------

LEMMA AlwaysClip == LivenessSpec => []Clip
<1>1. LivenessInit => Clip
  BY DEF LivenessInit, Clip
<1>2. Clip /\ [LivenessNext]_clip => Clip'
  BY DetectionAssumption DEF LivenessNext, Record, Clip
<1> QED
  BY <1>1, <1>2, PTL DEF LivenessSpec

\* Whoever performs the challenge is live, in clips of any length: the detections that
\* _detect suppresses (liveness.py:97-102) are never the ones that the order needs.
THEOREM PerformersAreLive == LivenessSpec => []PerformedIsLive
BY AlwaysClip, PerformedStep, PTL

\* A live clip shows the actions of its challenge in order, whatever the threshold of
\* the score (liveness.py:118-134).
THEOREM OnlyPerformersAreLive == LivenessSpec => []LiveIsPerformed
BY AlwaysClip, LiveStep, PTL

\* Whoever the page has told "All done" (useLiveness.ts:142-158) is live for the
\* server: what the guide ticks off is shown by frames in strict order.
THEOREM GuideIsRight == LivenessSpec => []GuidedIsLive
BY AlwaysClip, GuidedStep, PTL

-----------------------------------------------------------------------------
(* Check digits.                                                           *)

LEMMA WeightIs ==
    ASSUME NEW i \in Nat \ {0}
    PROVE  Weight(i) = IF (i - 1) % 3 = 0 THEN 7 ELSE IF (i - 1) % 3 = 1 THEN 3 ELSE 1
<1>1. (i - 1) % 3 \in 0..2
  OBVIOUS
<1> QED
  BY <1>1 DEF Weight

\* The weights are coprime to 10.
LEMMA WeightTells ==
    ASSUME NEW t \in Int, NEW d \in Int, NEW i \in Nat \ {0}
    PROVE  (t + d * Weight(i)) % 10 = t % 10 <=> d % 10 = 0
<1>1. Weight(i) \in {7, 3, 1}
  BY WeightIs
<1>2. CASE Weight(i) = 7
  <2>1. (t + d * 7) % 10 = t % 10 <=> d % 10 = 0
    OBVIOUS
  <2> QED BY <1>2, <2>1
<1>3. CASE Weight(i) = 3
  <2>1. (t + d * 3) % 10 = t % 10 <=> d % 10 = 0
    OBVIOUS
  <2> QED BY <1>3, <2>1
<1>4. CASE Weight(i) = 1
  BY <1>4
<1> QED
  BY <1>1, <1>2, <1>3, <1>4

\* The weights of neighbours differ by an even number, and by no multiple of 10.
LEMMA NeighboursTell ==
    ASSUME NEW t \in Int, NEW d \in Int, NEW i \in Nat \ {0}
    PROVE  (t + d * Weight(i) - d * Weight(i + 1)) % 10 = t % 10 <=> d % 5 = 0
<1>1. <<Weight(i), Weight(i + 1)>> \in {<<7, 3>>, <<3, 1>>, <<1, 7>>}
  BY WeightIs
<1>2. /\ (t + d * 7 - d * 3) % 10 = t % 10 <=> d % 5 = 0
      /\ (t + d * 3 - d * 1) % 10 = t % 10 <=> d % 5 = 0
      /\ (t + d * 1 - d * 7) % 10 = t % 10 <=> d % 5 = 0
  OBVIOUS
<1> QED
  BY <1>1, <1>2

LEMMA ValueType == \A c \in Chars : ValueOf(c) \in Nat
BY DEF Chars, Illegal, Filler, ValueOf

LEMMA WeightType == \A i \in Nat \ {0} : Weight(i) \in Nat
BY WeightIs

LEMMA TotalsRun ==
    ASSUME NEW n \in Nat, NEW field \in [1..n -> Chars]
    PROVE  LET t == Totals(field) IN
           /\ t \in [0..n -> Int] /\ t[0] = 0
           /\ \A i \in 1..n : t[i] = t[i - 1] + ValueOf(field[i]) * Weight(i)
<1> DEFINE v(i) == ValueOf(field[i]) * Weight(i)
           Round == [i \in 1..n |-> [x \in Int |-> x + v(i)]]
           IsLoop(f) == f = [i \in 0..n |-> IF i = 0 THEN 0 ELSE f[i - 1] + v(i)]
           t == Totals(field)
<1>1. Len(field) = n
  OBVIOUS
<1>2. \A i \in 1..n : v(i) \in Int
  BY ValueType, WeightType
<1> HIDE DEF v
<1>3. Round \in [1..n -> [Int -> Int]]
  BY <1>2
<1>4. PICK f : Loop(n, Int, 0, Round, f)
  <2> HIDE DEF Round
  <2>1. 0 \in Int
    OBVIOUS
  <2> QED BY <1>3, <2>1, LoopRuns
<1>5. IsLoop(f)
  <2>1. ASSUME NEW i \in 1..n
        PROVE  f[i] = f[i - 1] + v(i)
    <3>1. f[i] = Round[i][f[i - 1]] /\ f[i - 1] \in Int
      <4> HIDE DEF Round
      <4> QED BY <1>4 DEF Loop
    <3> QED
      BY <3>1
  <2> HIDE DEF Round
  <2> QED BY <1>4, <2>1 DEF Loop
<1>6. IsLoop(t)
  <2>1. t = CHOOSE g : IsLoop(g)
    BY <1>1, Zenon DEF Totals, v
  <2> HIDE DEF IsLoop, t
  <2> QED BY <1>5, <2>1
<1>7. t = [i \in 0..n |-> t[i]] /\ t[0] = 0 /\ \A i \in 1..n : t[i] = t[i - 1] + v(i)
  <2> HIDE DEF t
  <2>1. t = [i \in 0..n |-> IF i = 0 THEN 0 ELSE t[i - 1] + v(i)]
    BY <1>6
  <2>2. t = [i \in 0..n |-> t[i]]
    BY <2>1
  <2>3. \A i \in 0..n : t[i] = IF i = 0 THEN 0 ELSE t[i - 1] + v(i)
    BY <2>1
  <2>4. 0 \in 0..n /\ \A i \in 1..n : i \in 0..n /\ i # 0
    OBVIOUS
  <2> QED BY <2>2, <2>3, <2>4
<1>8. t \in [0..n -> Int]
  <2> HIDE DEF t
  <2>1. ASSUME NEW i \in 1..n, t[i - 1] \in Int
        PROVE  t[i] \in Int
    <3>1. t[i] = t[i - 1] + v(i) /\ v(i) \in Int
      BY <1>2, <1>7
    <3> QED
      BY <2>1, <3>1
  <2>2. /\ t = [i \in 0..n |-> t[i]] /\ t[0] \in Int
        /\ \A i \in 1..n : t[i - 1] \in Int => t[i] \in Int
    BY <1>7, <2>1
  <2> QED BY <2>2, LoopType
<1> QED
  BY <1>7, <1>8 DEF v

LEMMA TotalOfChanged ==
    ASSUME NEW n \in Nat, NEW s \in [1..n -> Chars], NEW t \in [1..n -> Chars], NEW j \in 1..n,
           \A i \in 1..n : i # j => t[i] = s[i]
    PROVE  Totals(t)[n] = Totals(s)[n] + (ValueOf(t[j]) - ValueOf(s[j])) * Weight(j)
<1> DEFINE S == Totals(s)
           T == Totals(t)
           d == (ValueOf(t[j]) - ValueOf(s[j])) * Weight(j)
           Shifted == {i \in 0..n : T[i] = S[i] + (IF i < j THEN 0 ELSE d)}
           a(i) == ValueOf(s[i]) * Weight(i)
           b(i) == ValueOf(t[i]) * Weight(i)
<1>1. /\ S \in [0..n -> Int] /\ S[0] = 0 /\ \A i \in 1..n : S[i] = S[i - 1] + a(i)
      /\ T \in [0..n -> Int] /\ T[0] = 0 /\ \A i \in 1..n : T[i] = T[i - 1] + b(i)
  BY TotalsRun
<1>2. /\ d \in Int /\ b(j) = a(j) + d
      /\ \A i \in 1..n : a(i) \in Int /\ b(i) \in Int /\ (i # j => b(i) = a(i))
  <2>1. \A i \in 1..n : /\ ValueOf(s[i]) \in Int /\ ValueOf(t[i]) \in Int /\ Weight(i) \in Int
    BY ValueType, WeightType
  <2> QED
    BY <2>1
<1> HIDE DEF S, T, a, b, d
<1>3. 0 \in Shifted
  BY <1>1, <1>2
<1>4. \A i \in 1..n : i - 1 \in Shifted => i \in Shifted
  <2> SUFFICES ASSUME NEW i \in 1..n, i - 1 \in Shifted
               PROVE  i \in Shifted
    OBVIOUS
  <2>1. /\ S[i] = S[i - 1] + a(i) /\ T[i] = T[i - 1] + b(i)
        /\ S[i - 1] \in Int /\ T[i - 1] \in Int /\ a(i) \in Int /\ b(i) \in Int
    BY <1>1, <1>2
  <2>2. CASE i = j
    BY <2>1, <2>2, <1>2
  <2>3. CASE i < j
    <3>1. b(i) = a(i) /\ T[i - 1] = S[i - 1] + 0
      BY <2>3, <1>2
    <3>2. T[i] = S[i] + 0
      BY <2>1, <3>1
    <3> QED
      BY <2>3, <3>2
  <2>4. CASE j < i
    <3>1. b(i) = a(i) /\ T[i - 1] = S[i - 1] + d
      BY <2>4, <1>2
    <3>2. T[i] = S[i] + d
      BY <2>1, <3>1, <1>2
    <3> QED
      BY <2>4, <3>2
  <2> QED
    BY <2>2, <2>3, <2>4
<1>5. n \in Shifted
  <2> HIDE DEF Shifted
  <2> QED BY <1>3, <1>4, Induction
<1> QED
  BY <1>5 DEF S, T, d

LEMMA FunctionIsSeq ==
    ASSUME NEW C, NEW n \in Nat, NEW s \in [1..n -> C]
    PROVE  s \in Seq(C) /\ Len(s) = n
<1>1. s \in Seq(C)
  BY SeqDef
<1> QED
  BY <1>1, LenProperties

\* A text without strays, as a sequence.
LEMMA TextType ==
    ASSUME NEW n \in Nat, NEW s \in Text(n)
    PROVE  /\ s \in [1..n -> Chars] /\ Len(s) = n /\ DOMAIN s = 1..n
           /\ Illegal \notin Range(s)
<1>1. s \in [1..n -> 0..36]
  BY DEF Text, Filler
<1>2. s \in [1..n -> Chars]
  BY <1>1 DEF Chars, Illegal
<1>3. Len(s) = n /\ DOMAIN s = 1..n
  BY <1>1
<1>4. Illegal \notin Range(s)
  <2>1. Range(s) = {s[i] : i \in 1..n}
    BY <1>3 DEF Range
  <2>2. ASSUME NEW i \in 1..n
        PROVE  s[i] # 37
    <3>1. s[i] \in 0..36
      BY <1>1
    <3> QED
      BY <3>1
  <2> QED
    BY <2>1, <2>2 DEF Illegal
<1> QED
  BY <1>2, <1>3, <1>4

LEMMA DigitIs ==
    ASSUME NEW n \in Nat, NEW s \in Text(n)
    PROVE  /\ CheckDigit(s) = Totals(s)[n] % 10 /\ Totals(s)[n] \in Int
           /\ CheckDigit(s) \in 0..9
<1>1. CheckDigit(s) = Totals(s)[n] % 10
  BY TextType DEF CheckDigit
<1>2. Totals(s)[n] \in Int
  BY TextType, TotalsRun
<1> QED
  BY <1>1, <1>2

LEMMA StrayHasNoDigit ==
    ASSUME NEW s, Illegal \in Range(s)
    PROVE  CheckDigit(s) = -1
BY DEF CheckDigit

\* Two values are alike when no check digit tells them apart.
Alike(c, e) == (ValueOf(c) - ValueOf(e)) % 10 = 0

LEMMA ChangeTells ==
    ASSUME NEW n \in Nat, NEW s \in Text(n), NEW t \in Text(n), NEW j \in 1..n,
           \A i \in 1..n : i # j => t[i] = s[i]
    PROVE  CheckDigit(t) = CheckDigit(s) <=> Alike(t[j], s[j])
<1> DEFINE d == ValueOf(t[j]) - ValueOf(s[j])
<1>1. Totals(t)[n] = Totals(s)[n] + d * Weight(j)
  BY TextType, TotalOfChanged
<1>2. d \in Int
  BY TextType, ValueType
<1>3. Totals(s)[n] \in Int
  BY DigitIs
<1> HIDE DEF d
<1>4. Totals(t)[n] % 10 = Totals(s)[n] % 10 <=> d % 10 = 0
  BY <1>1, <1>2, <1>3, WeightTells
<1> QED
  BY <1>4, DigitIs DEF d, Alike

LEMMA SwapTells ==
    ASSUME NEW n \in Nat, NEW s \in Text(n), NEW t \in Text(n), NEW j \in 1..(n - 1),
           t[j] = s[j + 1], t[j + 1] = s[j],
           \A i \in 1..n : i # j /\ i # j + 1 => t[i] = s[i]
    PROVE  CheckDigit(t) = CheckDigit(s) <=> (ValueOf(s[j + 1]) - ValueOf(s[j])) % 5 = 0
<1> DEFINE d == ValueOf(s[j + 1]) - ValueOf(s[j])
           e == ValueOf(s[j]) - ValueOf(s[j + 1])
           half == [s EXCEPT ![j] = s[j + 1]]
<1>1. /\ j \in 1..n /\ j + 1 \in 1..n /\ j # j + 1
      /\ s \in [1..n -> Chars] /\ t \in [1..n -> Chars]
  BY TextType
<1>2. /\ half \in [1..n -> Chars] /\ half[j] = s[j + 1]
      /\ \A i \in 1..n : i # j => half[i] = s[i]
  BY <1>1
<1> HIDE DEF half
<1>3. Totals(half)[n] = Totals(s)[n] + d * Weight(j)
  <2>1. Totals(half)[n] = Totals(s)[n] + (ValueOf(half[j]) - ValueOf(s[j])) * Weight(j)
    BY <1>1, <1>2, TotalOfChanged
  <2> QED
    BY <1>2, <2>1
<1>4. Totals(t)[n] = Totals(half)[n] + e * Weight(j + 1)
  <2>1. \A i \in 1..n : i # j + 1 => t[i] = half[i]
    BY <1>1, <1>2
  <2>2. t[j + 1] = s[j] /\ half[j + 1] = s[j + 1]
    BY <1>1, <1>2
  <2>3. Totals(t)[n] = Totals(half)[n] + (ValueOf(t[j + 1]) - ValueOf(half[j + 1])) * Weight(j + 1)
    BY <1>1, <1>2, <2>1, TotalOfChanged
  <2> QED
    BY <2>2, <2>3
<1>5. d \in Int /\ e = -d /\ Weight(j) \in Int /\ Weight(j + 1) \in Int /\ j \in Nat \ {0}
  <2>1. ValueOf(s[j]) \in Int /\ ValueOf(s[j + 1]) \in Int
    BY <1>1, ValueType
  <2> QED
    BY <1>1, <2>1, WeightType
<1>6. Totals(s)[n] \in Int
  BY DigitIs
<1> HIDE DEF d, e
<1>7. Totals(t)[n] = Totals(s)[n] + d * Weight(j) - d * Weight(j + 1)
  <2>1. e * Weight(j + 1) = -(d * Weight(j + 1))
    BY <1>5
  <2>2. d * Weight(j) \in Int /\ d * Weight(j + 1) \in Int
    BY <1>5
  <2> QED
    BY <1>3, <1>4, <1>6, <2>1, <2>2
<1>8. Totals(t)[n] % 10 = Totals(s)[n] % 10 <=> d % 5 = 0
  <2> DEFINE x == Totals(s)[n]
  <2>1. x \in Int
    BY <1>6
  <2> HIDE DEF x
  <2>2. (x + d * Weight(j) - d * Weight(j + 1)) % 10 = x % 10 <=> d % 5 = 0
    BY <2>1, <1>5, NeighboursTell
  <2> QED
    BY <2>2, <1>7 DEF x
<1> QED
  BY <1>8, DigitIs DEF d

-----------------------------------------------------------------------------
(* Parts of a line.                                                        *)

SecondLine == [1..44 -> Chars]

LEMMA LineType ==
    ASSUME NEW line \in SecondLine
    PROVE  /\ line \in Seq(Chars) /\ Len(line) = 44 /\ \A i \in 1..44 : line[i] \in Chars
<1> DEFINE n == 44
<1>1. n \in Nat /\ line \in [1..n -> Chars]
  BY DEF SecondLine
<1> HIDE DEF n
<1>2. line \in Seq(Chars) /\ Len(line) = n /\ \A i \in 1..n : line[i] \in Chars
  BY <1>1, FunctionIsSeq
<1> QED
  BY <1>2 DEF n

\* The places from first to last are n.
Spans(first, last, n) ==
    /\ first \in 0..43 /\ last \in 0..43 /\ n \in Nat /\ n = last - first + 1

LEMMA PartIs ==
    ASSUME NEW line \in SecondLine, NEW first \in Nat, NEW last \in Nat, NEW n \in Nat,
           Spans(first, last, n)
    PROVE  /\ Part(line, first, last) \in [1..n -> Chars]
           /\ \A j \in 1..n : /\ Part(line, first, last)[j] = line[first + j]
                              /\ first + j \in 1..44 /\ first + j - 1 \in first..last
<1>1. line \in Seq(Chars) /\ Len(line) = 44
  BY LineType
<1>2. first \in 0..43 /\ last \in 0..43 /\ n \in Nat /\ n = last - first + 1
  BY DEF Spans
<1>3. Part(line, first, last) = [j \in 1..n |-> line[first + j]]
  BY <1>1, <1>2 DEF Part
<1>4. ASSUME NEW j \in 1..n
      PROVE  /\ line[first + j] \in Chars
             /\ first + j \in 1..44 /\ first + j - 1 \in first..last
  <2>1. first + j \in 1..44 /\ first + j - 1 \in first..last
    BY <1>2
  <2> QED
    BY <2>1, LineType
<1> QED
  BY <1>3, <1>4

\* The part up to b is followed by the part from d on.
Follows(a, b, d, c) ==
    /\ a \in 0..43 /\ b \in 0..43 /\ d \in 0..43 /\ c \in 0..43
    /\ a <= d /\ d = b + 1 /\ d <= c

LEMMA PartsJoin ==
    ASSUME NEW line \in SecondLine, NEW a \in Nat, NEW b \in Nat, NEW d \in Nat, NEW c \in Nat,
           Follows(a, b, d, c)
    PROVE  Part(line, a, b) \o Part(line, d, c) = Part(line, a, c)
<1> DEFINE m == a + 1
           k == b + 1
           n == c + 1
           l == Len(line)
<1>1. line \in Seq(Chars) /\ l = 44
  BY LineType
<1>2. m \in 1..(l + 1) /\ k \in (m - 1)..l /\ n \in k..l /\ d + 1 = k + 1
  <2>1. m \in 1..45 /\ k \in (m - 1)..44 /\ n \in k..44 /\ d + 1 = k + 1
    BY DEF Follows
  <2> HIDE DEF l, m, k, n
  <2> QED BY <1>1, <2>1
<1>3. SubSeq(line, m, k) \o SubSeq(line, k + 1, n) = SubSeq(line, m, n)
  <2> HIDE DEF m, k, n
  <2> QED BY <1>1, <1>2, ConcatAdjacentSubSeq
<1> QED
  BY <1>2, <1>3 DEF Part

LEMMA Joints ==
    ASSUME NEW line \in SecondLine
    PROVE  /\ Part(line, 0, 8) \o Part(line, 9, 9) = Part(line, 0, 9)
           /\ Part(line, 0, 9) \o Part(line, 10, 12) = Part(line, 0, 12)
           /\ Part(line, 0, 12) \o Part(line, 13, 18) = Part(line, 0, 18)
           /\ Part(line, 0, 18) \o Part(line, 19, 19) = Part(line, 0, 19)
           /\ Part(line, 0, 19) \o Part(line, 20, 20) = Part(line, 0, 20)
           /\ Part(line, 0, 20) \o Part(line, 21, 26) = Part(line, 0, 26)
           /\ Part(line, 0, 26) \o Part(line, 27, 27) = Part(line, 0, 27)
           /\ Part(line, 0, 27) \o Part(line, 28, 41) = Part(line, 0, 41)
           /\ Part(line, 0, 41) \o Part(line, 42, 43) = Part(line, 0, 43)
           /\ Part(line, 42, 42) \o Part(line, 43, 43) = Part(line, 42, 43)
<1>1. Part(line, 0, 8) \o Part(line, 9, 9) = Part(line, 0, 9)
  <2> DEFINE a == 0  b == 8  d == 9  c == 9
  <2>1. Follows(a, b, d, c) /\ a \in Nat /\ b \in Nat /\ c \in Nat /\ d \in Nat
    BY DEF Follows
  <2>2. Part(line, a, b) \o Part(line, d, c) = Part(line, a, c)
    <3> HIDE DEF a, b, d, c
    <3> QED BY <2>1, PartsJoin
  <2> QED
    BY <2>2
<1>2. Part(line, 0, 9) \o Part(line, 10, 12) = Part(line, 0, 12)
  <2> DEFINE a == 0  b == 9  d == 10  c == 12
  <2>1. Follows(a, b, d, c) /\ a \in Nat /\ b \in Nat /\ c \in Nat /\ d \in Nat
    BY DEF Follows
  <2>2. Part(line, a, b) \o Part(line, d, c) = Part(line, a, c)
    <3> HIDE DEF a, b, d, c
    <3> QED BY <2>1, PartsJoin
  <2> QED
    BY <2>2
<1>3. Part(line, 0, 12) \o Part(line, 13, 18) = Part(line, 0, 18)
  <2> DEFINE a == 0  b == 12  d == 13  c == 18
  <2>1. Follows(a, b, d, c) /\ a \in Nat /\ b \in Nat /\ c \in Nat /\ d \in Nat
    BY DEF Follows
  <2>2. Part(line, a, b) \o Part(line, d, c) = Part(line, a, c)
    <3> HIDE DEF a, b, d, c
    <3> QED BY <2>1, PartsJoin
  <2> QED
    BY <2>2
<1>4. Part(line, 0, 18) \o Part(line, 19, 19) = Part(line, 0, 19)
  <2> DEFINE a == 0  b == 18  d == 19  c == 19
  <2>1. Follows(a, b, d, c) /\ a \in Nat /\ b \in Nat /\ c \in Nat /\ d \in Nat
    BY DEF Follows
  <2>2. Part(line, a, b) \o Part(line, d, c) = Part(line, a, c)
    <3> HIDE DEF a, b, d, c
    <3> QED BY <2>1, PartsJoin
  <2> QED
    BY <2>2
<1>5. Part(line, 0, 19) \o Part(line, 20, 20) = Part(line, 0, 20)
  <2> DEFINE a == 0  b == 19  d == 20  c == 20
  <2>1. Follows(a, b, d, c) /\ a \in Nat /\ b \in Nat /\ c \in Nat /\ d \in Nat
    BY DEF Follows
  <2>2. Part(line, a, b) \o Part(line, d, c) = Part(line, a, c)
    <3> HIDE DEF a, b, d, c
    <3> QED BY <2>1, PartsJoin
  <2> QED
    BY <2>2
<1>6. Part(line, 0, 20) \o Part(line, 21, 26) = Part(line, 0, 26)
  <2> DEFINE a == 0  b == 20  d == 21  c == 26
  <2>1. Follows(a, b, d, c) /\ a \in Nat /\ b \in Nat /\ c \in Nat /\ d \in Nat
    BY DEF Follows
  <2>2. Part(line, a, b) \o Part(line, d, c) = Part(line, a, c)
    <3> HIDE DEF a, b, d, c
    <3> QED BY <2>1, PartsJoin
  <2> QED
    BY <2>2
<1>7. Part(line, 0, 26) \o Part(line, 27, 27) = Part(line, 0, 27)
  <2> DEFINE a == 0  b == 26  d == 27  c == 27
  <2>1. Follows(a, b, d, c) /\ a \in Nat /\ b \in Nat /\ c \in Nat /\ d \in Nat
    BY DEF Follows
  <2>2. Part(line, a, b) \o Part(line, d, c) = Part(line, a, c)
    <3> HIDE DEF a, b, d, c
    <3> QED BY <2>1, PartsJoin
  <2> QED
    BY <2>2
<1>8. Part(line, 0, 27) \o Part(line, 28, 41) = Part(line, 0, 41)
  <2> DEFINE a == 0  b == 27  d == 28  c == 41
  <2>1. Follows(a, b, d, c) /\ a \in Nat /\ b \in Nat /\ c \in Nat /\ d \in Nat
    BY DEF Follows
  <2>2. Part(line, a, b) \o Part(line, d, c) = Part(line, a, c)
    <3> HIDE DEF a, b, d, c
    <3> QED BY <2>1, PartsJoin
  <2> QED
    BY <2>2
<1>9. Part(line, 0, 41) \o Part(line, 42, 43) = Part(line, 0, 43)
  <2> DEFINE a == 0  b == 41  d == 42  c == 43
  <2>1. Follows(a, b, d, c) /\ a \in Nat /\ b \in Nat /\ c \in Nat /\ d \in Nat
    BY DEF Follows
  <2>2. Part(line, a, b) \o Part(line, d, c) = Part(line, a, c)
    <3> HIDE DEF a, b, d, c
    <3> QED BY <2>1, PartsJoin
  <2> QED
    BY <2>2
<1>10. Part(line, 42, 42) \o Part(line, 43, 43) = Part(line, 42, 43)
  <2> DEFINE a == 42  b == 42  d == 43  c == 43
  <2>1. Follows(a, b, d, c) /\ a \in Nat /\ b \in Nat /\ c \in Nat /\ d \in Nat
    BY DEF Follows
  <2>2. Part(line, a, b) \o Part(line, d, c) = Part(line, a, c)
    <3> HIDE DEF a, b, d, c
    <3> QED BY <2>1, PartsJoin
  <2> QED
    BY <2>2
<1> QED
  BY <1>1, <1>2, <1>3, <1>4, <1>5, <1>6, <1>7, <1>8, <1>9, <1>10

LEMMA MaxIsGreatest ==
    ASSUME NEW n \in Nat, NEW S, S \subseteq 0..n, S # {}
    PROVE  Max(S) \in S /\ \A y \in S : y <= Max(S)
<1> DEFINE D == {n - x : x \in S}
<1>1. D \subseteq Nat /\ D # {}
  <2>1. \A x \in S : n - x \in Nat
    OBVIOUS
  <2> QED
    BY <2>1
<1>2. PICK d \in D : \A y \in D : d <= y
  <2> HIDE DEF D
  <2> QED BY <1>1, Least
<1>3. PICK x \in S : d = n - x
  BY <1>2
<1>4. \A y \in S : x >= y
  <2> SUFFICES ASSUME NEW y \in S
               PROVE  x >= y
    OBVIOUS
  <2>1. n - y \in D /\ x \in Nat /\ y \in Nat
    OBVIOUS
  <2>2. n - x <= n - y
    <3> HIDE DEF D
    <3> QED BY <2>1, <1>2, <1>3
  <2> QED
    BY <2>1, <2>2
<1>5. \E z \in S : \A y \in S : z >= y
  BY <1>4
<1>6. Max(S) \in S /\ \A y \in S : Max(S) >= y
  BY <1>5 DEF Max
<1> QED
  BY <1>6

\* What _clean makes of a character.
Cleaned(c) == IF c = Illegal THEN Filler ELSE c

\* The fillers that the OCR may have dropped come back.
LEMMA CleanedIsPadded ==
    ASSUME NEW n \in Nat, NEW s \in [1..n -> Chars]
    PROVE  Padded(Clean(TrimmedRight(s)), n) = [i \in 1..n |-> Cleaned(s[i])]
<1> DEFINE Filled == {0} \cup {i \in DOMAIN s : s[i] # Filler}
           m == Max(Filled)
           t == TrimmedRight(s)
           c == Clean(t)
<1>1. Filled \subseteq 0..n /\ Filled # {}
  OBVIOUS
<1>2. m \in 0..n /\ \A i \in 1..n : i > m => s[i] = Filler
  <2>1. m \in Filled /\ \A y \in Filled : y <= m
    <3> HIDE DEF Filled
    <3> QED BY <1>1, MaxIsGreatest
  <2> HIDE DEF m
  <2> QED
    BY <2>1
<1> HIDE DEF m
<1>3. t \in Seq(Chars) /\ Len(t) = m /\ \A i \in 1..m : t[i] = s[i]
  <2>1. t = SubSeq(s, 1, m)
    BY DEF TrimmedRight, m
  <2>2. \A i \in 1..m : s[i] \in Chars
    BY <1>2
  <2>3. /\ SubSeq(s, 1, m) \in Seq(Chars)
        /\ Len(SubSeq(s, 1, m)) = IF 1 <= m THEN m - 1 + 1 ELSE 0
        /\ \A i \in 1..(m - 1 + 1) : SubSeq(s, 1, m)[i] = s[1 + i - 1]
    BY <1>2, <2>2, SubSeqProperties
  <2>4. m - 1 + 1 = m /\ (IF 1 <= m THEN m ELSE 0) = m /\ \A i \in 1..m : 1 + i - 1 = i
    BY <1>2
  <2> HIDE DEF t
  <2> QED
    BY <2>1, <2>3, <2>4
<1> HIDE DEF t
<1>4. c = [i \in 1..m |-> Cleaned(s[i])]
  <2>1. DOMAIN t = 1..m
    BY <1>3
  <2> QED
    BY <2>1, <1>3 DEF Clean, Cleaned
<1>5. Len(c) = m /\ \A i \in 1..m : c[i] = Cleaned(s[i])
  <2>1. \A i \in 1..m : Cleaned(s[i]) \in Chars
    BY <1>2 DEF Cleaned, Chars, Filler, Illegal
  <2>2. c \in [1..m -> Chars]
    <3> HIDE DEF c
    <3> QED BY <1>4, <2>1
  <2> HIDE DEF c
  <2> QED
    BY <2>2, <1>2, <1>4, FunctionIsSeq
<1> HIDE DEF c
<1>6. \A i \in 1..n : (IF i <= Len(c) THEN c[i] ELSE Filler) = Cleaned(s[i])
  <2> SUFFICES ASSUME NEW i \in 1..n
               PROVE  (IF i <= Len(c) THEN c[i] ELSE Filler) = Cleaned(s[i])
    OBVIOUS
  <2>1. CASE i <= m
    BY <2>1, <1>2, <1>5
  <2>2. CASE i > m
    BY <2>2, <1>2, <1>5 DEF Cleaned, Filler, Illegal
  <2> QED
    BY <1>2, <2>1, <2>2
<1> QED
  BY <1>6 DEF Padded, c, t

\* Where _clean is applied.
CleanedPlaces == 0..8 \cup 10..12 \cup 28..41

Rebuilt(line) == [i \in 1..44 |-> IF i - 1 \in CleanedPlaces THEN Cleaned(line[i]) ELSE line[i]]

\* A whole line is its part from the first place to the last, and needs no padding.
LEMMA WholeLine ==
    ASSUME NEW line \in SecondLine
    PROVE  Part(line, 0, 43) = line /\ Padded(line, 44) = line
<1>1. Len(line) = 44 /\ line \in Seq(Chars) /\ line = [j \in 1..44 |-> line[j]]
  BY LineType DEF SecondLine
<1>2. Part(line, 0, 43) = line
  BY <1>1, SubSeqFull DEF Part
<1>3. Padded(line, 44) = [j \in 1..44 |-> line[j]]
  BY <1>1 DEF Padded
<1> QED
  BY <1>1, <1>2, <1>3

LEMMA OnePlace ==
    ASSUME NEW line \in SecondLine, NEW p \in 0..43
    PROVE  Part(line, p, p) = <<At(line, p)>>
<1> DEFINE n == 1
<1>1. Spans(p, p, n) /\ n \in Nat /\ p \in Nat
  BY DEF Spans
<1>2. /\ Part(line, p, p) \in [1..n -> Chars]
      /\ \A j \in 1..n : Part(line, p, p)[j] = line[p + j]
  <2> HIDE DEF n
  <2> QED BY <1>1, PartIs
<1>3. Part(line, p, p) = [j \in 1..1 |-> line[p + j]]
  BY <1>2
<1>4. <<At(line, p)>> = [j \in 1..1 |-> line[p + j]]
  BY DEF At
<1> QED
  BY <1>3, <1>4

LEMMA TwoPlaces ==
    ASSUME NEW c, NEW e
    PROVE  <<c>> \o <<e>> = <<c, e>>
<1>1. /\ <<c>> \in Seq({c, e}) /\ <<e>> \in Seq({c, e}) /\ <<c, e>> \in Seq({c, e})
      /\ Len(<<c>>) = 1 /\ Len(<<e>>) = 1 /\ Len(<<c, e>>) = 2
  OBVIOUS
<1>2. /\ <<c>> \o <<e>> \in Seq({c, e}) /\ Len(<<c>> \o <<e>>) = 2
      /\ (<<c>> \o <<e>>)[1] = c /\ (<<c>> \o <<e>>)[2] = e
  BY <1>1
<1>3. \A i \in 1..2 : (<<c>> \o <<e>>)[i] = <<c, e>>[i]
  BY <1>2
<1> QED
  BY <1>1, <1>2, <1>3, SeqEqual

LEMMA RebuildStep ==
    ASSUME NEW line \in SecondLine
    PROVE  Reconstruct(OcrFields(line)) = Rebuilt(line)
<1> DEFINE r == Rebuilt(line)
           P(a, b) == Part(r, a, b)
<1>1. r \in SecondLine
  <2>1. \A i \in 1..44 : line[i] \in Chars
    BY LineType
  <2>2. \A c \in Chars : Cleaned(c) \in Chars
    BY DEF Cleaned, Chars, Filler, Illegal
  <2> QED
    BY <2>1, <2>2 DEF Rebuilt, SecondLine
<1>11. \A i \in 1..44 : r[i] = IF i - 1 \in CleanedPlaces THEN Cleaned(line[i]) ELSE line[i]
  BY DEF Rebuilt
<1>2. ASSUME NEW a \in Nat, NEW b \in Nat, NEW n \in Nat, Spans(a, b, n), a..b \subseteq CleanedPlaces
      PROVE  Padded(Clean(TrimmedRight(Part(line, a, b))), n) = P(a, b)
  <2> DEFINE s == Part(line, a, b)
             q == P(a, b)
  <2>1. /\ s \in [1..n -> Chars]
        /\ \A j \in 1..n : s[j] = line[a + j] /\ a + j \in 1..44 /\ a + j - 1 \in a..b
    BY <1>2, PartIs
  <2>2. q \in [1..n -> Chars] /\ \A j \in 1..n : q[j] = r[a + j]
    <3> HIDE DEF r
    <3> QED BY <1>1, <1>2, PartIs
  <2>4. Padded(Clean(TrimmedRight(s)), n) = [j \in 1..n |-> Cleaned(s[j])]
    <3> HIDE DEF s
    <3> QED BY <2>1, CleanedIsPadded
  <2> HIDE DEF s, q
  <2>5. ASSUME NEW j \in 1..n
        PROVE  q[j] = Cleaned(s[j])
    <3> DEFINE i == a + j
    <3>1. i \in 1..44 /\ i - 1 \in a..b
      BY <2>1
    <3>2. r[i] = Cleaned(line[i])
      <4> HIDE DEF r, i
      <4> QED BY <1>2, <3>1, <1>11
    <3> HIDE DEF r
    <3> QED
      BY <3>2, <2>1, <2>2
  <2>6. q = [j \in 1..n |-> Cleaned(s[j])]
    BY <2>2, <2>5
  <2> QED
    BY <2>4, <2>6 DEF s, q
<1>3. ASSUME NEW a \in Nat, NEW b \in Nat, NEW n \in Nat, Spans(a, b, n), a..b \cap CleanedPlaces = {}
      PROVE  Part(line, a, b) = P(a, b)
  <2> DEFINE s == Part(line, a, b)
             q == P(a, b)
  <2>1. /\ s \in [1..n -> Chars]
        /\ \A j \in 1..n : s[j] = line[a + j] /\ a + j \in 1..44 /\ a + j - 1 \in a..b
    BY <1>3, PartIs
  <2>2. q \in [1..n -> Chars] /\ \A j \in 1..n : q[j] = r[a + j]
    <3> HIDE DEF r
    <3> QED BY <1>1, <1>3, PartIs
  <2> HIDE DEF s, q
  <2>3. ASSUME NEW j \in 1..n
        PROVE  q[j] = s[j]
    <3> DEFINE i == a + j
    <3>1. i \in 1..44 /\ i - 1 \in a..b
      BY <2>1
    <3>2. r[i] = line[i]
      <4> HIDE DEF r, i
      <4> QED BY <1>3, <3>1, <1>11
    <3> HIDE DEF r
    <3> QED
      BY <3>2, <2>1, <2>2
  <2> QED
    BY <2>1, <2>2, <2>3 DEF s, q
<1>4. ASSUME NEW p \in 0..43, p \notin CleanedPlaces
      PROVE  <<At(line, p)>> = P(p, p)
  <2>1. Part(line, p, p) = P(p, p)
    <3>1. p..p \cap CleanedPlaces = {} /\ Spans(p, p, 1)
      BY <1>4 DEF Spans
    <3> QED
      BY <3>1, <1>3
  <2> QED
    BY <2>1, OnePlace
<1>5. /\ Padded(Clean(TrimmedRight(Part(line, 0, 8))), 9) = P(0, 8)
      /\ Padded(Clean(TrimmedRight(Part(line, 10, 12))), 3) = P(10, 12)
      /\ Padded(Clean(TrimmedRight(Part(line, 28, 41))), 14) = P(28, 41)
  <2>1. /\ 0..8 \subseteq CleanedPlaces /\ 10..12 \subseteq CleanedPlaces
        /\ 28..41 \subseteq CleanedPlaces
    BY DEF CleanedPlaces
  <2>2. Spans(0, 8, 9) /\ Spans(10, 12, 3) /\ Spans(28, 41, 14)
    BY DEF Spans
  <2> HIDE DEF P
  <2>3. Padded(Clean(TrimmedRight(Part(line, 0, 8))), 9) = P(0, 8)
    BY <1>2, <2>1, <2>2
  <2>4. Padded(Clean(TrimmedRight(Part(line, 10, 12))), 3) = P(10, 12)
    BY <1>2, <2>1, <2>2
  <2>5. Padded(Clean(TrimmedRight(Part(line, 28, 41))), 14) = P(28, 41)
    BY <1>2, <2>1, <2>2
  <2> QED
    BY <2>2, <2>3, <2>4, <2>5
<1>6. Part(line, 13, 18) = P(13, 18) /\ Part(line, 21, 26) = P(21, 26)
  <2>1. /\ 13..18 \cap CleanedPlaces = {} /\ 21..26 \cap CleanedPlaces = {}
        /\ Spans(13, 18, 6) /\ Spans(21, 26, 6)
    BY DEF CleanedPlaces, Spans
  <2> HIDE DEF P
  <2> QED
    BY <2>1, <1>3
<1>7. /\ <<At(line, 9)>> = P(9, 9) /\ <<At(line, 19)>> = P(19, 19) /\ <<At(line, 20)>> = P(20, 20)
      /\ <<At(line, 27)>> = P(27, 27) /\ <<At(line, 42)>> = P(42, 42) /\ <<At(line, 43)>> = P(43, 43)
  <2>1. \A p \in {9, 19, 20, 27, 42, 43} : p \in 0..43 /\ p \notin CleanedPlaces
    BY DEF CleanedPlaces
  <2> HIDE DEF P
  <2> QED
    BY <2>1, <1>4
<1> HIDE DEF r
<1>9. P(0, 43) = r /\ Padded(r, 44) = r
  BY <1>1, WholeLine
<1> HIDE DEF P
<1>10. <<At(line, 42), At(line, 43)>> = P(42, 43)
  <2>1. <<At(line, 42)>> \o <<At(line, 43)>> = <<At(line, 42), At(line, 43)>>
    BY TwoPlaces
  <2>2. P(42, 42) \o P(43, 43) = P(42, 43)
    BY <1>1, Joints DEF P
  <2> QED
    BY <2>1, <2>2, <1>7
<1>12. P(0, 8) \o P(9, 9) \o P(10, 12) \o P(13, 18) \o P(19, 19) \o P(20, 20) \o P(21, 26)
          \o P(27, 27) \o P(28, 41) \o P(42, 43) = P(0, 43)
  <2>1. P(0, 8) \o P(9, 9) = P(0, 9)
    BY <1>1, Joints DEF P
  <2>2. P(0, 9) \o P(10, 12) = P(0, 12)
    BY <1>1, Joints DEF P
  <2>3. P(0, 12) \o P(13, 18) = P(0, 18)
    BY <1>1, Joints DEF P
  <2>4. P(0, 18) \o P(19, 19) = P(0, 19)
    BY <1>1, Joints DEF P
  <2>5. P(0, 19) \o P(20, 20) = P(0, 20)
    BY <1>1, Joints DEF P
  <2>6. P(0, 20) \o P(21, 26) = P(0, 26)
    BY <1>1, Joints DEF P
  <2>7. P(0, 26) \o P(27, 27) = P(0, 27)
    BY <1>1, Joints DEF P
  <2>8. P(0, 27) \o P(28, 41) = P(0, 41)
    BY <1>1, Joints DEF P
  <2>9. P(0, 41) \o P(42, 43) = P(0, 43)
    BY <1>1, Joints DEF P
  <2>10. P(0, 8) \o P(9, 9) \o P(10, 12) \o P(13, 18) = P(0, 18)
    BY <2>1, <2>2, <2>3, Zenon
  <2>11. P(0, 18) \o P(19, 19) \o P(20, 20) \o P(21, 26) = P(0, 26)
    BY <2>4, <2>5, <2>6, Zenon
  <2>12. P(0, 26) \o P(27, 27) \o P(28, 41) \o P(42, 43) = P(0, 43)
    BY <2>7, <2>8, <2>9, Zenon
  <2> QED
    BY <2>10, <2>11, <2>12, Zenon
<1>13. Reconstruct(OcrFields(line)) =
           Padded(Padded(Clean(TrimmedRight(Part(line, 0, 8))), 9) \o <<At(line, 9)>>
                    \o Padded(Clean(TrimmedRight(Part(line, 10, 12))), 3)
                    \o Part(line, 13, 18) \o <<At(line, 19)>> \o <<At(line, 20)>>
                    \o Part(line, 21, 26) \o <<At(line, 27)>>
                    \o Padded(Clean(TrimmedRight(Part(line, 28, 41))), 14)
                    \o <<At(line, 42), At(line, 43)>>, 44)
  BY DEF Reconstruct, OcrFields
<1>14. Reconstruct(OcrFields(line)) = Padded(P(0, 43), 44)
  BY <1>5, <1>6, <1>7, <1>10, <1>12, <1>13
<1> QED
  BY <1>9, <1>14 DEF r

-----------------------------------------------------------------------------
(* What is printed.                                                        *)

LEMMA PrintedType == Text(44) \subseteq SecondLine
BY DEF Text, SecondLine, Chars, Filler, Illegal

LEMMA ValidIs ==
    ASSUME NEW line \in SecondLine
    PROVE  IsValid(line) <=>
               /\ CheckDigit(Part(line, 0, 8)) = At(line, 9)
               /\ CheckDigit(Part(line, 13, 18)) = At(line, 19)
               /\ CheckDigit(Part(line, 21, 26)) = At(line, 27)
               /\ CheckDigit(Part(line, 28, 41)) = At(line, 42)
               /\ CheckDigit(CompositeOf(line)) = At(line, 43)
<1>1. Len(line) = 44
  BY LineType
<1>2. DOMAIN Checked = {"passport_number", "dob", "expiry", "personal_number"}
  BY DEF Checked
<1>3. /\ Checked["passport_number"] = [first |-> 0,  last |-> 8,  digit |-> 9]
      /\ Checked["dob"]             = [first |-> 13, last |-> 18, digit |-> 19]
      /\ Checked["expiry"]          = [first |-> 21, last |-> 26, digit |-> 27]
      /\ Checked["personal_number"] = [first |-> 28, last |-> 41, digit |-> 42]
  BY DEF Checked
<1> DEFINE Fails(name) == LET c == Checked[name]
                          IN  CheckDigit(Part(line, c.first, c.last)) # At(line, c.digit)
<1>4. /\ Fails("passport_number") <=> CheckDigit(Part(line, 0, 8)) # At(line, 9)
      /\ Fails("dob") <=> CheckDigit(Part(line, 13, 18)) # At(line, 19)
      /\ Fails("expiry") <=> CheckDigit(Part(line, 21, 26)) # At(line, 27)
      /\ Fails("personal_number") <=> CheckDigit(Part(line, 28, 41)) # At(line, 42)
  BY <1>3
<1>5. FieldChecks(line) = {name \in DOMAIN Checked : Fails(name)}
  BY DEF FieldChecks
<1>6. IsValid(line) <=> /\ \A name \in DOMAIN Checked : ~Fails(name)
                        /\ CheckDigit(CompositeOf(line)) = At(line, 43)
  <2> HIDE DEF Fails
  <2> QED BY <1>1, <1>5 DEF IsValid, FailedChecks
<1> HIDE DEF Fails
<1> QED
  BY <1>2, <1>4, <1>6

WithDigit(s) == Append(s, CheckDigit(s))

Sums(m, n, k) == m \in Nat /\ n \in Nat /\ k \in Nat /\ k = m + n

\* The first m places of w are u's.
Begins(w, m, u) == \A j \in 1..m : w[j] = u[j]

\* The n places of w after the first m are v's.
Laid(w, m, n, v) == \A j \in 1..n : w[m + j] = v[j]

LEMMA WithDigitIs ==
    ASSUME NEW m \in Nat, NEW k \in Nat, Sums(m, 1, k), NEW s \in Text(m)
    PROVE  WithDigit(s) \in Text(k) /\ Begins(WithDigit(s), m, s) /\ WithDigit(s)[k] = CheckDigit(s)
<1>1. s \in Seq(0..Filler) /\ Len(s) = m
  BY FunctionIsSeq DEF Text
<1>2. CheckDigit(s) \in 0..Filler
  <2>1. CheckDigit(s) \in 0..9
    BY DigitIs
  <2> QED
    BY <2>1 DEF Filler
<1>3. k = m + 1
  BY DEF Sums
<1> DEFINE w == Append(s, CheckDigit(s))
<1>4. w \in Seq(0..Filler) /\ Len(w) = k /\ w[k] = CheckDigit(s) /\ \A j \in 1..m : w[j] = s[j]
  BY <1>1, <1>2, <1>3
<1> HIDE DEF w
<1>5. w \in [1..k -> 0..Filler]
  BY <1>4, LenProperties
<1> QED
  BY <1>4, <1>5 DEF WithDigit, Begins, Text, w

LEMMA JoinedIs ==
    ASSUME NEW m \in Nat, NEW n \in Nat, NEW k \in Nat, Sums(m, n, k),
           NEW u \in Text(m), NEW v \in Text(n)
    PROVE  u \o v \in Text(k) /\ Begins(u \o v, m, u) /\ Laid(u \o v, m, n, v)
<1>1. /\ u \in Seq(0..Filler) /\ Len(u) = m
      /\ v \in Seq(0..Filler) /\ Len(v) = n
  BY FunctionIsSeq DEF Text
<1>2. k = m + n
  BY DEF Sums
<1> DEFINE w == u \o v
<1>3. w \in Seq(0..Filler) /\ Len(w) = k
  BY <1>1, <1>2, ConcatProperties
<1>4. /\ \A j \in 1..m : w[j] = u[j]
      /\ \A j \in 1..n : w[m + j] = v[j]
  BY <1>1
<1> HIDE DEF w
<1>5. w \in [1..k -> 0..Filler]
  BY <1>3, LenProperties
<1> QED
  BY <1>4, <1>5 DEF Begins, Laid, Text, w

LEMMA LaidIsPart ==
    ASSUME NEW line \in SecondLine, NEW first \in Nat, NEW last \in Nat, NEW n \in Nat,
           Spans(first, last, n), NEW u \in Text(n), Laid(line, first, n, u)
    PROVE  Part(line, first, last) = u
<1> DEFINE v == Part(line, first, last)
<1>1. v \in [1..n -> Chars] /\ \A j \in 1..n : v[j] = line[first + j]
  BY PartIs
<1> HIDE DEF v
<1>2. u = [j \in 1..n |-> u[j]] /\ v = [j \in 1..n |-> v[j]] /\ \A j \in 1..n : v[j] = u[j]
  BY <1>1 DEF Laid, Text
<1> QED
  BY <1>2 DEF v

\* Where make_mrz puts its parts.
LEMMA PrintedParts ==
    ASSUME NEW f \in Documents
    PROVE  LET line == MakeMrz(f)
               number == Padded(f.number, 9)
               personal == [i \in 1..14 |-> Filler]
               composite == WithDigit(number) \o WithDigit(f.dob) \o WithDigit(f.expiry)
                                \o WithDigit(personal)
           IN  /\ line \in Text(44)
               /\ number \in Text(9) /\ personal \in Text(14) /\ composite \in Text(39)
               /\ Part(line, 0, 9) = WithDigit(number) /\ Part(line, 10, 12) = f.nationality
               /\ Part(line, 13, 19) = WithDigit(f.dob) /\ At(line, 20) = f.sex
               /\ Part(line, 21, 27) = WithDigit(f.expiry)
               /\ Part(line, 28, 42) = WithDigit(personal)
               /\ At(line, 43) = CheckDigit(composite)
<1> DEFINE number == Padded(f.number, 9)
           personal == [i \in 1..14 |-> Filler]
           composite == WithDigit(number) \o WithDigit(f.dob) \o WithDigit(f.expiry)
                            \o WithDigit(personal)
           v1 == WithDigit(number)
           v2 == f.nationality
           v3 == WithDigit(f.dob)
           v4 == <<f.sex>>
           v5 == WithDigit(f.expiry)
           v6 == WithDigit(personal)
           v7 == <<CheckDigit(composite)>>
           c2 == v1 \o v2
           c3 == c2 \o v3
           c4 == c3 \o v4
           c5 == c4 \o v5
           c6 == c5 \o v6
           c7 == c6 \o v7
           b2 == v1 \o v3
           b3 == b2 \o v5
           b4 == b3 \o v6
<1>1. /\ f.nationality \in Text(3) /\ f.dob \in Text(6) /\ f.expiry \in Text(6)
      /\ f.sex \in 0..Filler /\ \E n \in 0..9 : f.number \in Text(n)
  BY DocumentAssumption
<1>2. number \in Text(9) /\ personal \in Text(14)
  <2>1. PICK n \in 0..9 : f.number \in Text(n)
    BY <1>1
  <2>2. Len(f.number) = n /\ \A i \in 1..n : f.number[i] \in 0..Filler
    BY <2>1, FunctionIsSeq DEF Text
  <2>3. Filler \in 0..Filler
    BY DEF Filler
  <2> QED
    BY <2>2, <2>3 DEF Padded, Text
<1>3. /\ v1 \in Text(10) /\ v2 \in Text(3) /\ v3 \in Text(7) /\ v4 \in Text(1) /\ v5 \in Text(7)
      /\ v6 \in Text(15)
  <2>1. Sums(9, 1, 10) /\ Sums(6, 1, 7) /\ Sums(14, 1, 15)
    BY DEF Sums
  <2>2. v1 \in Text(10)
    <3> DEFINE m == 9  k == 10
    <3>1. Sums(m, 1, k) /\ m \in Nat /\ k \in Nat /\ number \in Text(m)
      BY <1>2, <2>1
    <3> HIDE DEF m, k, number
    <3>2. v1 \in Text(k)
      BY <3>1, WithDigitIs
    <3> QED
      BY <3>2 DEF k
  <2>3. v3 \in Text(7) /\ v5 \in Text(7)
    <3> DEFINE m == 6  k == 7
    <3>1. Sums(m, 1, k) /\ m \in Nat /\ k \in Nat /\ f.dob \in Text(m) /\ f.expiry \in Text(m)
      BY <1>1, <2>1
    <3> HIDE DEF m, k
    <3>2. v3 \in Text(k) /\ v5 \in Text(k)
      BY <3>1, WithDigitIs
    <3> QED
      BY <3>2 DEF k
  <2>4. v6 \in Text(15)
    <3> DEFINE m == 14  k == 15
    <3>1. Sums(m, 1, k) /\ m \in Nat /\ k \in Nat /\ personal \in Text(m)
      BY <1>2, <2>1
    <3> HIDE DEF m, k, personal
    <3>2. v6 \in Text(k)
      BY <3>1, WithDigitIs
    <3> QED
      BY <3>2 DEF k
  <2>5. v4 \in Text(1)
    BY <1>1 DEF Text
  <2> QED
    BY <1>1, <2>2, <2>3, <2>4, <2>5
<1>4. \A m, n, k \in Nat : \A u \in Text(m) : \A v \in Text(n) :
          Sums(m, n, k) => u \o v \in Text(k) /\ Begins(u \o v, m, u) /\ Laid(u \o v, m, n, v)
  BY JoinedIs
<1>5. composite \in Text(39) /\ v7 \in Text(1)
  <2> DEFINE n1 == 10  n3 == 7  n6 == 15  m2 == 17  m3 == 24  m4 == 39
  <2>1. /\ Sums(n1, n3, m2) /\ Sums(m2, n3, m3) /\ Sums(m3, n6, m4)
        /\ n1 \in Nat /\ n3 \in Nat /\ n6 \in Nat /\ m2 \in Nat /\ m3 \in Nat /\ m4 \in Nat
    BY DEF Sums
  <2>2. v1 \in Text(n1) /\ v3 \in Text(n3) /\ v5 \in Text(n3) /\ v6 \in Text(n6)
    BY <1>3
  <2> HIDE DEF n1, n3, n6, m2, m3, m4, v1, v3, v5, v6
  <2>3. b2 \in Text(m2)
    BY <1>4, <2>1, <2>2
  <2> HIDE DEF b2
  <2>4. b3 \in Text(m3)
    BY <1>4, <2>1, <2>2, <2>3
  <2> HIDE DEF b3
  <2>5. b4 \in Text(m4)
    BY <1>4, <2>1, <2>2, <2>4
  <2>6. composite \in Text(39)
    BY <2>5 DEF b2, b3, b4, v1, v3, v5, v6, m4
  <2> HIDE DEF composite
  <2>7. CheckDigit(composite) \in 0..9
    BY <2>6, DigitIs
  <2> QED
    BY <2>6, <2>7 DEF Text, Filler
<1> HIDE DEF composite, v1, v2, v3, v4, v5, v6, v7
<1>6. /\ c2 \in Text(13) /\ Begins(c2, 10, v1) /\ Laid(c2, 10, 3, v2)
      /\ c3 \in Text(20) /\ Begins(c3, 13, c2) /\ Laid(c3, 13, 7, v3)
      /\ c4 \in Text(21) /\ Begins(c4, 20, c3) /\ Laid(c4, 20, 1, v4)
      /\ c5 \in Text(28) /\ Begins(c5, 21, c4) /\ Laid(c5, 21, 7, v5)
      /\ c6 \in Text(43) /\ Begins(c6, 28, c5) /\ Laid(c6, 28, 15, v6)
      /\ c7 \in Text(44) /\ Begins(c7, 43, c6) /\ Laid(c7, 43, 1, v7)
  <2>1. c2 \in Text(13) /\ Begins(c2, 10, v1) /\ Laid(c2, 10, 3, v2)
    <3> DEFINE m == 10  n == 3  k == 13
    <3>1. /\ Sums(m, n, k) /\ m \in Nat /\ n \in Nat /\ k \in Nat
          /\ v1 \in Text(m) /\ v2 \in Text(n)
      BY <1>3, <1>5 DEF Sums
    <3> HIDE DEF m, n, k
    <3>2. c2 \in Text(k) /\ Begins(c2, m, v1) /\ Laid(c2, m, n, v2)
      BY <3>1, <1>4
    <3> QED
      BY <3>2 DEF m, n, k
  <2>2. c3 \in Text(20) /\ Begins(c3, 13, c2) /\ Laid(c3, 13, 7, v3)
    <3> DEFINE m == 13  n == 7  k == 20
    <3>1. /\ Sums(m, n, k) /\ m \in Nat /\ n \in Nat /\ k \in Nat
          /\ c2 \in Text(m) /\ v3 \in Text(n)
      BY <1>3, <1>5, <2>1 DEF Sums
    <3> HIDE DEF m, n, k, c2
    <3>2. c3 \in Text(k) /\ Begins(c3, m, c2) /\ Laid(c3, m, n, v3)
      BY <3>1, <1>4
    <3> QED
      BY <3>2 DEF m, n, k
  <2>3. c4 \in Text(21) /\ Begins(c4, 20, c3) /\ Laid(c4, 20, 1, v4)
    <3> DEFINE m == 20  n == 1  k == 21
    <3>1. /\ Sums(m, n, k) /\ m \in Nat /\ n \in Nat /\ k \in Nat
          /\ c3 \in Text(m) /\ v4 \in Text(n)
      BY <1>3, <1>5, <2>2 DEF Sums
    <3> HIDE DEF m, n, k, c3
    <3>2. c4 \in Text(k) /\ Begins(c4, m, c3) /\ Laid(c4, m, n, v4)
      BY <3>1, <1>4
    <3> QED
      BY <3>2 DEF m, n, k
  <2>4. c5 \in Text(28) /\ Begins(c5, 21, c4) /\ Laid(c5, 21, 7, v5)
    <3> DEFINE m == 21  n == 7  k == 28
    <3>1. /\ Sums(m, n, k) /\ m \in Nat /\ n \in Nat /\ k \in Nat
          /\ c4 \in Text(m) /\ v5 \in Text(n)
      BY <1>3, <1>5, <2>3 DEF Sums
    <3> HIDE DEF m, n, k, c4
    <3>2. c5 \in Text(k) /\ Begins(c5, m, c4) /\ Laid(c5, m, n, v5)
      BY <3>1, <1>4
    <3> QED
      BY <3>2 DEF m, n, k
  <2>5. c6 \in Text(43) /\ Begins(c6, 28, c5) /\ Laid(c6, 28, 15, v6)
    <3> DEFINE m == 28  n == 15  k == 43
    <3>1. /\ Sums(m, n, k) /\ m \in Nat /\ n \in Nat /\ k \in Nat
          /\ c5 \in Text(m) /\ v6 \in Text(n)
      BY <1>3, <1>5, <2>4 DEF Sums
    <3> HIDE DEF m, n, k, c5
    <3>2. c6 \in Text(k) /\ Begins(c6, m, c5) /\ Laid(c6, m, n, v6)
      BY <3>1, <1>4
    <3> QED
      BY <3>2 DEF m, n, k
  <2>6. c7 \in Text(44) /\ Begins(c7, 43, c6) /\ Laid(c7, 43, 1, v7)
    <3> DEFINE m == 43  n == 1  k == 44
    <3>1. /\ Sums(m, n, k) /\ m \in Nat /\ n \in Nat /\ k \in Nat
          /\ c6 \in Text(m) /\ v7 \in Text(n)
      BY <1>3, <1>5, <2>5 DEF Sums
    <3> HIDE DEF m, n, k, c6
    <3>2. c7 \in Text(k) /\ Begins(c7, m, c6) /\ Laid(c7, m, n, v7)
      BY <3>1, <1>4
    <3> QED
      BY <3>2 DEF m, n, k
  <2> QED
    BY <2>1, <2>2, <2>3, <2>4, <2>5, <2>6
<1> HIDE DEF c2, c3, c4, c5, c6, c7
<1>7. /\ Begins(c7, 28, c5) /\ Begins(c7, 21, c4) /\ Begins(c7, 20, c3) /\ Begins(c7, 13, c2)
      /\ Begins(c7, 10, v1)
  <2>1. Begins(c7, 28, c5)
    BY <1>6 DEF Begins
  <2>2. Begins(c7, 21, c4)
    BY <1>6, <2>1 DEF Begins
  <2>3. Begins(c7, 20, c3)
    BY <1>6, <2>2 DEF Begins
  <2>4. Begins(c7, 13, c2)
    BY <1>6, <2>3 DEF Begins
  <2>5. Begins(c7, 10, v1)
    BY <1>6, <2>4 DEF Begins
  <2> QED
    BY <2>1, <2>2, <2>3, <2>4, <2>5
<1>8. /\ Laid(c7, 0, 10, v1) /\ Laid(c7, 10, 3, v2) /\ Laid(c7, 13, 7, v3) /\ Laid(c7, 20, 1, v4)
      /\ Laid(c7, 21, 7, v5) /\ Laid(c7, 28, 15, v6) /\ Laid(c7, 43, 1, v7)
  <2>1. Laid(c7, 0, 10, v1)
    BY <1>7 DEF Begins, Laid
  <2>2. Laid(c7, 10, 3, v2)
    BY <1>6, <1>7 DEF Begins, Laid
  <2>3. Laid(c7, 13, 7, v3)
    BY <1>6, <1>7 DEF Begins, Laid
  <2>4. Laid(c7, 20, 1, v4)
    BY <1>6, <1>7 DEF Begins, Laid
  <2>5. Laid(c7, 21, 7, v5)
    BY <1>6, <1>7 DEF Begins, Laid
  <2>6. Laid(c7, 28, 15, v6)
    BY <1>6, <1>7 DEF Begins, Laid
  <2> QED
    BY <1>6, <2>1, <2>2, <2>3, <2>4, <2>5, <2>6
<1>9. c7 \in SecondLine /\ MakeMrz(f) = c7
  <2>1. c7 \in SecondLine
    BY <1>6, PrintedType
  <2>2. MakeMrz(f) = Padded(c7, 44)
    BY Zenon DEF MakeMrz, c2, c3, c4, c5, c6, c7, v1, v2, v3, v4, v5, v6, v7, composite, WithDigit
  <2> QED
    BY <2>1, <2>2, WholeLine
<1>10. \A a, b, n \in Nat : \A u \in Text(n) :
           Spans(a, b, n) /\ Laid(c7, a, n, u) => Part(c7, a, b) = u
  BY <1>9, LaidIsPart
<1>11. /\ Part(c7, 0, 9) = v1 /\ Part(c7, 10, 12) = v2 /\ Part(c7, 13, 19) = v3
       /\ Part(c7, 21, 27) = v5 /\ Part(c7, 28, 42) = v6
  <2>1. Part(c7, 0, 9) = v1
    <3> DEFINE a == 0  b == 9  n == 10
    <3>1. /\ Spans(a, b, n) /\ a \in Nat /\ b \in Nat /\ n \in Nat
          /\ v1 \in Text(n) /\ Laid(c7, a, n, v1)
      BY <1>3, <1>8 DEF Spans
    <3> HIDE DEF a, b, n
    <3>2. Part(c7, a, b) = v1
      BY <3>1, <1>10
    <3> QED
      BY <3>2 DEF a, b
  <2>2. Part(c7, 10, 12) = v2
    <3> DEFINE a == 10  b == 12  n == 3
    <3>1. /\ Spans(a, b, n) /\ a \in Nat /\ b \in Nat /\ n \in Nat
          /\ v2 \in Text(n) /\ Laid(c7, a, n, v2)
      BY <1>3, <1>8 DEF Spans
    <3> HIDE DEF a, b, n
    <3>2. Part(c7, a, b) = v2
      BY <3>1, <1>10
    <3> QED
      BY <3>2 DEF a, b
  <2>3. Part(c7, 13, 19) = v3
    <3> DEFINE a == 13  b == 19  n == 7
    <3>1. /\ Spans(a, b, n) /\ a \in Nat /\ b \in Nat /\ n \in Nat
          /\ v3 \in Text(n) /\ Laid(c7, a, n, v3)
      BY <1>3, <1>8 DEF Spans
    <3> HIDE DEF a, b, n
    <3>2. Part(c7, a, b) = v3
      BY <3>1, <1>10
    <3> QED
      BY <3>2 DEF a, b
  <2>4. Part(c7, 21, 27) = v5
    <3> DEFINE a == 21  b == 27  n == 7
    <3>1. /\ Spans(a, b, n) /\ a \in Nat /\ b \in Nat /\ n \in Nat
          /\ v5 \in Text(n) /\ Laid(c7, a, n, v5)
      BY <1>3, <1>8 DEF Spans
    <3> HIDE DEF a, b, n
    <3>2. Part(c7, a, b) = v5
      BY <3>1, <1>10
    <3> QED
      BY <3>2 DEF a, b
  <2>5. Part(c7, 28, 42) = v6
    <3> DEFINE a == 28  b == 42  n == 15
    <3>1. /\ Spans(a, b, n) /\ a \in Nat /\ b \in Nat /\ n \in Nat
          /\ v6 \in Text(n) /\ Laid(c7, a, n, v6)
      BY <1>3, <1>8 DEF Spans
    <3> HIDE DEF a, b, n
    <3>2. Part(c7, a, b) = v6
      BY <3>1, <1>10
    <3> QED
      BY <3>2 DEF a, b
  <2> QED
    BY <2>1, <2>2, <2>3, <2>4, <2>5
<1>12. At(c7, 20) = f.sex /\ At(c7, 43) = CheckDigit(composite)
  <2>1. c7[20 + 1] = v4[1] /\ c7[43 + 1] = v7[1]
    BY <1>8 DEF Laid
  <2>2. v4[1] = f.sex /\ v7[1] = CheckDigit(composite)
    BY DEF v4, v7
  <2> QED
    BY <2>1, <2>2 DEF At
<1> QED
  BY <1>2, <1>5, <1>6, <1>9, <1>11, <1>12 DEF v1, v2, v3, v5, v6, composite

-----------------------------------------------------------------------------
(* Filters.                                                                *)

\* k[i] is what is kept of the first i elements.
Keeps(n, s, T, k) ==
    /\ k[0] = <<>>
    /\ \A i \in 1..n : k[i] = IF s[i] \in T THEN Append(k[i - 1], s[i]) ELSE k[i - 1]

LEMMA KeptRun ==
    ASSUME NEW C, NEW n \in Nat, NEW s \in [1..n -> C], NEW T
    PROVE  Kept(s, T) \in [0..n -> Seq(C)] /\ Keeps(n, s, T, Kept(s, T))
<1> DEFINE Then(i, x) == IF s[i] \in T THEN Append(x, s[i]) ELSE x
           Q == Seq(C)
           Round == [i \in 1..n |-> [x \in Q |-> Then(i, x)]]
           IsLoop(f) == f = [i \in 0..n |-> IF i = 0 THEN <<>> ELSE Then(i, f[i - 1])]
           k == Kept(s, T)
<1>1. Len(s) = n
  OBVIOUS
<1>2. \A i \in 1..n : \A x \in Q : Then(i, x) \in Q
  OBVIOUS
<1>3. <<>> \in Q
  OBVIOUS
<1> HIDE DEF Then, Q
<1>4. Round \in [1..n -> [Q -> Q]]
  BY <1>2
<1>5. PICK f : Loop(n, Q, <<>>, Round, f)
  <2> HIDE DEF Round
  <2> QED BY <1>3, <1>4, LoopRuns
<1>6. IsLoop(f)
  <2>1. ASSUME NEW i \in 1..n
        PROVE  f[i] = Then(i, f[i - 1])
    <3>1. f[i] = Round[i][f[i - 1]] /\ f[i - 1] \in Q
      <4> HIDE DEF Round
      <4> QED BY <1>5 DEF Loop
    <3> QED
      BY <3>1
  <2> HIDE DEF Round
  <2> QED BY <1>5, <2>1 DEF Loop
<1>7. IsLoop(k)
  <2>1. k = CHOOSE g : IsLoop(g)
    BY <1>1, Zenon DEF Kept, Then
  <2> HIDE DEF IsLoop, k
  <2> QED BY <1>6, <2>1
<1>8. k = [i \in 0..n |-> k[i]] /\ k[0] = <<>> /\ \A i \in 1..n : k[i] = Then(i, k[i - 1])
  <2> HIDE DEF k
  <2>1. k = [i \in 0..n |-> IF i = 0 THEN <<>> ELSE Then(i, k[i - 1])]
    BY <1>7
  <2>2. k = [i \in 0..n |-> k[i]]
    BY <2>1
  <2>3. \A i \in 0..n : k[i] = IF i = 0 THEN <<>> ELSE Then(i, k[i - 1])
    BY <2>1
  <2>4. 0 \in 0..n /\ \A i \in 1..n : i \in 0..n /\ i # 0
    OBVIOUS
  <2> QED BY <2>2, <2>3, <2>4
<1>9. k \in [0..n -> Q]
  <2> HIDE DEF k
  <2>1. ASSUME NEW i \in 1..n, k[i - 1] \in Q
        PROVE  k[i] \in Q
    BY <1>2, <1>8, <2>1
  <2>2. /\ k = [i \in 0..n |-> k[i]] /\ k[0] \in Q
        /\ \A i \in 1..n : k[i - 1] \in Q => k[i] \in Q
    BY <1>3, <1>8, <2>1
  <2> QED BY <2>2, LoopType
<1> QED
  BY <1>8, <1>9 DEF Then, Q, Keeps

LEMMA PaddingIsDropped ==
    ASSUME NEW m \in Nat, NEW n \in Nat, m <= n, NEW s \in Text(m)
    PROVE  Unfilled(Padded(s, n)) = Unfilled(s)
<1> DEFINE T == Chars \ {Filler}
           p == Padded(s, n)
           K == Kept(s, T)
           P == Kept(p, T)
           Same == {i \in 0..n : P[i] = K[IF i <= m THEN i ELSE m]}
<1>1. s \in [1..m -> Chars] /\ Len(s) = m
  BY TextType
<1>2. /\ p \in [1..n -> Chars] /\ Len(p) = n
      /\ \A i \in 1..n : p[i] = IF i <= m THEN s[i] ELSE Filler
  <2>1. p = [i \in 1..n |-> IF i <= m THEN s[i] ELSE Filler]
    BY <1>1 DEF Padded
  <2>2. ASSUME NEW i \in 1..n
        PROVE  (IF i <= m THEN s[i] ELSE Filler) \in Chars
    <3>1. Filler \in Chars
      BY DEF Filler, Chars, Illegal
    <3> QED
      BY <1>1, <3>1
  <2> HIDE DEF p
  <2>3. p \in [1..n -> Chars]
    BY <2>1, <2>2
  <2> QED
    BY <2>1, <2>3, FunctionIsSeq
<1> HIDE DEF p
<1>3. Keeps(m, s, T, K)
  <2> HIDE DEF T
  <2> QED BY <1>1, KeptRun
<1>4. Keeps(n, p, T, P)
  <2> HIDE DEF T
  <2> QED BY <1>2, KeptRun
<1>5. Filler \notin T
  OBVIOUS
<1> HIDE DEF K, P, T
<1>6. 0 \in Same
  BY <1>3, <1>4 DEF Keeps
<1>7. ASSUME NEW i \in 1..n, i - 1 \in Same
      PROVE  i \in Same
  <2>1. CASE i <= m
    <3>1. p[i] = s[i] /\ P[i - 1] = K[i - 1] /\ i \in 1..m
      BY <1>2, <1>7, <2>1
    <3>2. P[i] = K[i]
      BY <1>3, <1>4, <3>1 DEF Keeps
    <3> QED
      BY <2>1, <3>2
  <2>2. CASE i > m
    <3>1. p[i] = Filler /\ P[i - 1] = K[m]
      BY <1>2, <1>7, <2>2
    <3>2. P[i] = K[m]
      BY <1>4, <1>5, <3>1 DEF Keeps
    <3> QED
      BY <2>2, <3>2
  <2> QED
    BY <2>1, <2>2
<1>8. n \in Same
  <2> HIDE DEF Same
  <2> QED BY <1>6, <1>7, Induction
<1>9. P[n] = K[m]
  BY <1>8
<1> QED
  BY <1>1, <1>2, <1>9 DEF Unfilled, Only, K, P, T, p

\* A field from first to last, of n places, is followed by its check digit.
Closes(first, last, digit, n, k) ==
    Spans(first, last, n) /\ Spans(first, digit, k) /\ digit = last + 1

LEMMA DigitCloses ==
    ASSUME NEW line \in SecondLine, NEW first \in Nat, NEW last \in Nat, NEW digit \in Nat,
           NEW n \in Nat, NEW k \in Nat, Closes(first, last, digit, n, k), NEW s \in Text(n),
           Part(line, first, digit) = WithDigit(s)
    PROVE  Part(line, first, last) = s /\ At(line, digit) = CheckDigit(s)
<1>1. Spans(first, last, n) /\ Spans(first, digit, k) /\ Sums(n, 1, k) /\ first + k = digit + 1
  BY DEF Closes, Spans, Sums
<1>2. /\ Begins(WithDigit(s), n, s) /\ WithDigit(s)[k] = CheckDigit(s)
  BY <1>1, WithDigitIs
<1>3. \A j \in 1..k : WithDigit(s)[j] = line[first + j]
  <2>1. \A j \in 1..k : Part(line, first, digit)[j] = line[first + j]
    BY <1>1, PartIs
  <2> QED
    BY <2>1
<1>4. Laid(line, first, n, s)
  <2>1. \A j \in 1..n : j \in 1..k
    BY <1>1 DEF Sums
  <2> QED
    BY <1>2, <1>3, <2>1 DEF Begins, Laid
<1>5. At(line, digit) = CheckDigit(s)
  <2>1. k \in 1..k
    BY <1>1 DEF Sums
  <2> QED
    BY <1>1, <1>2, <1>3, <2>1 DEF At
<1>6. Part(line, first, last) = s
  BY <1>1, <1>4, LaidIsPart
<1> QED
  BY <1>5, <1>6

LEMMA PrintStep ==
    ASSUME NEW f \in Documents
    PROVE  LET line == MakeMrz(f)
               e == Extracted(line)
           IN  /\ line \in Text(44) /\ IsValid(line)
               /\ e.number = Unfilled(f.number) /\ e.nationality = Unfilled(f.nationality)
               /\ e.dob = f.dob /\ e.sex = f.sex /\ e.expiry = f.expiry
<1> DEFINE line == MakeMrz(f)
           number == Padded(f.number, 9)
           personal == [i \in 1..14 |-> Filler]
           composite == WithDigit(number) \o WithDigit(f.dob) \o WithDigit(f.expiry)
                            \o WithDigit(personal)
<1>1. /\ line \in Text(44)
      /\ number \in Text(9) /\ personal \in Text(14) /\ composite \in Text(39)
      /\ Part(line, 0, 9) = WithDigit(number) /\ Part(line, 10, 12) = f.nationality
      /\ Part(line, 13, 19) = WithDigit(f.dob) /\ At(line, 20) = f.sex
      /\ Part(line, 21, 27) = WithDigit(f.expiry)
      /\ Part(line, 28, 42) = WithDigit(personal)
      /\ At(line, 43) = CheckDigit(composite)
  BY PrintedParts
<1>2. f.dob \in Text(6) /\ f.expiry \in Text(6) /\ \E n \in 0..9 : f.number \in Text(n)
  BY DocumentAssumption
<1>3. CompositeOf(line) = composite
  BY <1>1 DEF CompositeOf
<1>4. line \in SecondLine
  BY <1>1, PrintedType
<1>5. Unfilled(number) = Unfilled(f.number)
  <2>1. PICK n \in 0..9 : f.number \in Text(n)
    BY <1>2
  <2> DEFINE k == 9
  <2>2. n \in Nat /\ n <= k /\ k \in Nat
    BY <2>1
  <2> HIDE DEF k
  <2>3. Unfilled(Padded(f.number, k)) = Unfilled(f.number)
    BY <2>1, <2>2, PaddingIsDropped
  <2> QED
    BY <2>3 DEF k
<1> HIDE DEF line, number, personal, composite
<1>6. \A a, b, c, n, k \in Nat : \A s \in Text(n) :
          Closes(a, b, c, n, k) /\ Part(line, a, c) = WithDigit(s) =>
              Part(line, a, b) = s /\ At(line, c) = CheckDigit(s)
  BY <1>4, DigitCloses
<1>7. Part(line, 0, 8) = number /\ At(line, 9) = CheckDigit(number)
  <2> DEFINE a == 0  b == 8  c == 9  n == 9  k == 10
  <2>1. /\ Closes(a, b, c, n, k) /\ number \in Text(n) /\ Part(line, a, c) = WithDigit(number)
        /\ a \in Nat /\ b \in Nat /\ c \in Nat /\ n \in Nat /\ k \in Nat
    BY <1>1 DEF Closes, Spans
  <2> HIDE DEF a, b, c, n, k
  <2>2. Part(line, a, b) = number /\ At(line, c) = CheckDigit(number)
    BY <1>6, <2>1
  <2> QED
    BY <2>2 DEF a, b, c
<1>8. Part(line, 13, 18) = f.dob /\ At(line, 19) = CheckDigit(f.dob)
  <2> DEFINE a == 13  b == 18  c == 19  n == 6  k == 7
  <2>1. /\ Closes(a, b, c, n, k) /\ f.dob \in Text(n) /\ Part(line, a, c) = WithDigit(f.dob)
        /\ a \in Nat /\ b \in Nat /\ c \in Nat /\ n \in Nat /\ k \in Nat
    BY <1>1, <1>2 DEF Closes, Spans
  <2> HIDE DEF a, b, c, n, k
  <2>2. Part(line, a, b) = f.dob /\ At(line, c) = CheckDigit(f.dob)
    BY <1>6, <2>1
  <2> QED
    BY <2>2 DEF a, b, c
<1>9. Part(line, 21, 26) = f.expiry /\ At(line, 27) = CheckDigit(f.expiry)
  <2> DEFINE a == 21  b == 26  c == 27  n == 6  k == 7
  <2>1. /\ Closes(a, b, c, n, k) /\ f.expiry \in Text(n) /\ Part(line, a, c) = WithDigit(f.expiry)
        /\ a \in Nat /\ b \in Nat /\ c \in Nat /\ n \in Nat /\ k \in Nat
    BY <1>1, <1>2 DEF Closes, Spans
  <2> HIDE DEF a, b, c, n, k
  <2>2. Part(line, a, b) = f.expiry /\ At(line, c) = CheckDigit(f.expiry)
    BY <1>6, <2>1
  <2> QED
    BY <2>2 DEF a, b, c
<1>10. Part(line, 28, 41) = personal /\ At(line, 42) = CheckDigit(personal)
  <2> DEFINE a == 28  b == 41  c == 42  n == 14  k == 15
  <2>1. /\ Closes(a, b, c, n, k) /\ personal \in Text(n) /\ Part(line, a, c) = WithDigit(personal)
        /\ a \in Nat /\ b \in Nat /\ c \in Nat /\ n \in Nat /\ k \in Nat
    BY <1>1 DEF Closes, Spans
  <2> HIDE DEF a, b, c, n, k
  <2>2. Part(line, a, b) = personal /\ At(line, c) = CheckDigit(personal)
    BY <1>6, <2>1
  <2> QED
    BY <2>2 DEF a, b, c
<1>11. IsValid(line)
  BY <1>1, <1>3, <1>4, <1>7, <1>8, <1>9, <1>10, ValidIs
<1>12. /\ Extracted(line).number = Unfilled(number)
       /\ Extracted(line).nationality = Unfilled(f.nationality)
       /\ Extracted(line).dob = f.dob /\ Extracted(line).sex = f.sex
       /\ Extracted(line).expiry = f.expiry
  BY <1>1, <1>7, <1>8, <1>9 DEF Extracted
<1> QED
  BY <1>1, <1>5, <1>11, <1>12 DEF line

-----------------------------------------------------------------------------
(* Slips.                                                                  *)

LEMMA PartText ==
    ASSUME NEW line \in Text(44), NEW first \in Nat, NEW last \in Nat, NEW n \in Nat,
           Spans(first, last, n)
    PROVE  Part(line, first, last) \in Text(n)
<1> DEFINE p == Part(line, first, last)
<1>1. /\ p \in [1..n -> Chars]
      /\ \A j \in 1..n : p[j] = line[first + j] /\ first + j \in 1..44
  <2>1. line \in SecondLine
    BY PrintedType
  <2> QED
    BY <2>1, PartIs
<1>2. \A j \in 1..44 : line[j] \in 0..Filler
  BY DEF Text
<1> HIDE DEF p
<1>3. \A j \in 1..n : p[j] \in 0..Filler
  BY <1>1, <1>2
<1>4. p \in [1..n -> 0..Filler]
  BY <1>1, <1>3
<1> QED
  BY <1>4 DEF Text, p

\* The check digit of a field is the one it should be.
\* The check digit of a field is the one that stands after it.
Ok(line, first, last, digit) == CheckDigit(Part(line, first, last)) = At(line, digit)

\* Two lines, the first of printed characters, that differ at place i at most.
Differ(old, new, i) ==
    /\ old \in Text(44) /\ new \in SecondLine /\ i \in 1..44
    /\ \A j \in 1..44 : j # i => new[j] = old[j]

LEMMA FieldElsewhere ==
    ASSUME NEW old, NEW new, NEW i \in Nat, Differ(old, new, i),
           NEW a \in Nat, NEW b \in Nat, NEW n \in Nat, Spans(a, b, n), i - 1 \notin a..b
    PROVE  Part(new, a, b) = Part(old, a, b)
<1> DEFINE p == Part(new, a, b)
           q == Part(old, a, b)
<1>1. old \in SecondLine /\ new \in SecondLine
  BY PrintedType DEF Differ
<1>2. /\ p \in [1..n -> Chars] /\ q \in [1..n -> Chars]
      /\ \A j \in 1..n : /\ p[j] = new[a + j] /\ q[j] = old[a + j]
                         /\ a + j \in 1..44 /\ a + j - 1 \in a..b
  BY <1>1, PartIs
<1> HIDE DEF p, q
<1>3. ASSUME NEW j \in 1..n
      PROVE  p[j] = q[j]
  <2> DEFINE k == a + j
  <2>1. k \in 1..44 /\ k - 1 \in a..b
    BY <1>2
  <2>2. p[j] = new[k] /\ q[j] = old[k]
    BY <1>2
  <2> HIDE DEF k
  <2>3. new[k] = old[k]
    BY <2>1 DEF Differ
  <2> QED
    BY <2>2, <2>3
<1> QED
  BY <1>2, <1>3 DEF p, q

LEMMA LegalText ==
    ASSUME NEW old, NEW new, NEW i \in Nat, Differ(old, new, i), new[i] # Illegal
    PROVE  new \in Text(44)
<1>1. ASSUME NEW k \in 1..44
      PROVE  new[k] \in 0..Filler
  <2>1. old[k] \in 0..Filler /\ new[k] \in Chars
    <3>1. old \in [1..44 -> 0..Filler] /\ new \in [1..44 -> Chars]
      BY DEF Differ, Text, SecondLine
    <3> QED
      BY <3>1
  <2>2. CASE k = i
    BY <2>1, <2>2 DEF Chars, Illegal, Filler
  <2>3. CASE k # i
    BY <2>1, <2>3 DEF Differ
  <2> QED
    BY <2>2, <2>3
<1> QED
  BY <1>1 DEF Text, SecondLine, Differ

LEMMA FieldChanged ==
    ASSUME NEW old, NEW new, NEW i \in Nat, Differ(old, new, i),
           NEW a \in Nat, NEW b \in Nat, NEW n \in Nat, Spans(a, b, n), i - 1 \in a..b
    PROVE  IF new[i] = Illegal THEN CheckDigit(Part(new, a, b)) = -1
           ELSE CheckDigit(Part(new, a, b)) = CheckDigit(Part(old, a, b)) <=> Alike(new[i], old[i])
<1> DEFINE p == Part(new, a, b)
           q == Part(old, a, b)
           j == i - a
<1>1. old \in SecondLine /\ new \in SecondLine /\ old \in Text(44) /\ i \in 1..44
  BY PrintedType DEF Differ
<1>2. /\ p \in [1..n -> Chars] /\ q \in [1..n -> Chars]
      /\ \A k \in 1..n : p[k] = new[a + k] /\ q[k] = old[a + k] /\ a + k \in 1..44
  BY <1>1, PartIs
<1>3. j \in 1..n /\ a + j = i /\ \A k \in 1..n : k # j => a + k # i
  BY DEF Spans
<1> HIDE DEF p, q, j
<1>4. p[j] = new[i] /\ q[j] = old[i]
  BY <1>2, <1>3
<1>5. CASE new[i] = Illegal
  <2>1. Illegal \in Range(p)
    BY <1>2, <1>3, <1>4, <1>5 DEF Range
  <2> QED
    BY <2>1, <1>5, StrayHasNoDigit DEF p
<1>6. CASE new[i] # Illegal
  <2>2. new \in Text(44)
    BY <1>6, LegalText
  <2>3. p \in Text(n) /\ q \in Text(n)
    BY <1>1, <2>2, PartText DEF p, q
  <2>4. ASSUME NEW k \in 1..n, k # j
        PROVE  p[k] = q[k]
    <3> DEFINE l == a + k
    <3>1. p[k] = new[l] /\ q[k] = old[l] /\ l \in 1..44 /\ l # i
      BY <1>2, <1>3, <2>4
    <3> HIDE DEF l
    <3> QED
      BY <3>1 DEF Differ
  <2>5. CheckDigit(p) = CheckDigit(q) <=> Alike(p[j], q[j])
    BY <1>3, <2>3, <2>4, ChangeTells
  <2> QED
    BY <1>4, <1>6, <2>5 DEF p, q
<1> QED
  BY <1>5, <1>6

\* A field and its check digit.
Field(a, b, d, n) == Spans(a, b, n) /\ d \in 0..43 /\ d \notin a..b

LEMMA FieldChecked ==
    ASSUME NEW old, NEW new, NEW i \in Nat, Differ(old, new, i), new[i] # old[i],
           NEW a \in Nat, NEW b \in Nat, NEW d \in Nat, NEW n \in Nat, Field(a, b, d, n),
           Ok(old, a, b, d)
    PROVE  IF i - 1 \in a..b THEN Ok(new, a, b, d) <=> new[i] # Illegal /\ Alike(new[i], old[i])
           ELSE Ok(new, a, b, d) <=> i - 1 # d
<1> DEFINE D(line) == CheckDigit(Part(line, a, b))
<1>1. Spans(a, b, n) /\ d \in 0..43 /\ d \notin a..b
  BY DEF Field
<1>2. /\ D(old) = At(old, d)
      /\ Ok(new, a, b, d) <=> D(new) = At(new, d)
  BY DEF Ok
<1>3. IF i - 1 = d THEN At(new, d) # At(old, d) ELSE At(new, d) = At(old, d)
  <2> DEFINE k == d + 1
  <2>1. k \in 1..44 /\ (k = i <=> i - 1 = d)
    BY <1>1
  <2>2. At(new, d) = new[k] /\ At(old, d) = old[k]
    BY DEF At
  <2> HIDE DEF k
  <2>3. k # i => new[k] = old[k]
    BY <2>1 DEF Differ
  <2> QED
    BY <2>1, <2>2, <2>3
<1>4. At(new, d) # -1
  <2>1. d + 1 \in 1..44 /\ new \in SecondLine
    BY <1>1 DEF Differ
  <2>2. new[d + 1] \in Chars
    BY <2>1, LineType
  <2> QED
    BY <2>2 DEF At, Chars, Illegal
<1>5. CASE i - 1 \in a..b
  <2>1. IF new[i] = Illegal THEN D(new) = -1 ELSE D(new) = D(old) <=> Alike(new[i], old[i])
    BY <1>1, <1>5, FieldChanged
  <2>2. i - 1 # d
    BY <1>1, <1>5
  <2> HIDE DEF D
  <2> QED
    BY <1>2, <1>3, <1>4, <1>5, <2>1, <2>2
<1>6. CASE i - 1 \notin a..b
  <2>1. D(new) = D(old)
    BY <1>1, <1>6, FieldElsewhere
  <2> HIDE DEF D
  <2> QED
    BY <1>2, <1>3, <1>6, <2>1
<1> QED
  BY <1>5, <1>6

-----------------------------------------------------------------------------
(* The composite.                                                          *)

\* The place in the line of the composite's place j.
Place(j) == IF j <= 10 THEN j ELSE IF j <= 17 THEN j + 3 ELSE j + 4

LEMMA PlaceIs ==
    /\ \A j \in 1..39 : Place(j) \in 1..44
    /\ \A j, k \in 1..39 : j # k => Place(j) # Place(k)
    /\ \A i \in 1..44 : i \in 1..10 \cup 14..20 \cup 22..43 <=> \E j \in 1..39 : Place(j) = i
<1>1. ASSUME NEW i \in 1..10 \cup 14..20 \cup 22..43
      PROVE  \E j \in 1..39 : Place(j) = i
  <2> DEFINE j == IF i <= 10 THEN i ELSE IF i <= 20 THEN i - 3 ELSE i - 4
  <2>1. j \in 1..39 /\ Place(j) = i
    BY DEF Place
  <2> HIDE DEF j
  <2> QED
    BY <2>1
<1>2. ASSUME NEW j \in 1..39
      PROVE  Place(j) \in 1..10 \cup 14..20 \cup 22..43 /\ Place(j) \in 1..44
  BY DEF Place
<1>3. \A j, k \in 1..39 : j # k => Place(j) # Place(k)
  BY DEF Place
<1> QED
  BY <1>1, <1>2, <1>3

\* c composes the line up to the composite's place m.
Composes(line, c, m) ==
    c \in Seq(Chars) /\ Len(c) = m /\ \A j \in 1..m : c[j] = line[Place(j)]

\* In the composite, n characters of the line after place p follow the first m, which makes k.
Goes(m, n, k, p) == Sums(m, n, k) /\ \A j \in 1..n : Place(m + j) = p + j

LEMMA ComposesOn ==
    ASSUME NEW line \in SecondLine, NEW m \in Nat, NEW n \in Nat, NEW k \in Nat,
           NEW a \in Nat, NEW b \in Nat, Spans(a, b, n), Goes(m, n, k, a),
           NEW u, Composes(line, u, m)
    PROVE  Composes(line, u \o Part(line, a, b), k)
<1> DEFINE v == Part(line, a, b)
           w == u \o v
<1>1. v \in [1..n -> Chars] /\ \A j \in 1..n : v[j] = line[a + j]
  BY PartIs
<1> HIDE DEF v
<1>2. v \in Seq(Chars) /\ Len(v) = n
  BY <1>1, FunctionIsSeq
<1>3. u \in Seq(Chars) /\ Len(u) = m /\ k = m + n
  BY DEF Composes, Goes, Sums
<1>4. w \in Seq(Chars) /\ Len(w) = k
  BY <1>2, <1>3, ConcatProperties
<1>5. \A j \in 1..k : w[j] = IF j <= m THEN u[j] ELSE v[j - m]
  BY <1>2, <1>3, ConcatProperties
<1> HIDE DEF w
<1>6. ASSUME NEW j \in 1..k
      PROVE  w[j] = line[Place(j)]
  <2>1. CASE j <= m
    <3>1. w[j] = u[j] /\ j \in 1..m
      BY <1>3, <1>5, <2>1
    <3> QED
      BY <3>1 DEF Composes
  <2>2. CASE j > m
    <3> DEFINE l == j - m
    <3>1. l \in 1..n /\ j = m + l /\ w[j] = v[l]
      BY <1>3, <1>5, <2>2
    <3> HIDE DEF l
    <3>2. w[j] = line[a + l] /\ Place(m + l) = a + l
      BY <1>1, <3>1 DEF Goes
    <3> QED
      BY <3>1, <3>2
  <2> QED
    BY <2>1, <2>2
<1> QED
  BY <1>4, <1>6 DEF Composes, w, v

LEMMA CompositeIs ==
    ASSUME NEW line \in SecondLine
    PROVE  /\ CompositeOf(line) \in [1..39 -> Chars]
           /\ \A j \in 1..39 : CompositeOf(line)[j] = line[Place(j)]
<1> DEFINE P(a, b) == Part(line, a, b)
<1>1. \A m, n, k, a, b \in Nat : \A u :
          Spans(a, b, n) /\ Goes(m, n, k, a) /\ Composes(line, u, m) =>
              Composes(line, u \o P(a, b), k)
  BY ComposesOn
<1>2. Composes(line, P(0, 9), 10)
  <2> DEFINE a == 0  b == 9  n == 10
  <2>1. a \in Nat /\ b \in Nat /\ n \in Nat /\ Spans(a, b, n)
    BY DEF Spans
  <2>2. \A j \in 1..n : Place(j) = a + j
    BY DEF Place
  <2> HIDE DEF a, b, n
  <2>3. P(a, b) \in [1..n -> Chars] /\ \A j \in 1..n : P(a, b)[j] = line[a + j]
    BY <2>1, PartIs
  <2> HIDE DEF P
  <2>4. Composes(line, P(a, b), n)
    BY <2>1, <2>2, <2>3, FunctionIsSeq DEF Composes
  <2> QED
    BY <2>4 DEF a, b, n
<1> HIDE DEF P
<1>3. Composes(line, P(0, 9) \o P(13, 19), 17)
  <2> DEFINE m == 10  n == 7  k == 17  a == 13  b == 19
             u == P(0, 9)
  <2>1. /\ Spans(a, b, n) /\ Goes(m, n, k, a) /\ Composes(line, u, m)
        /\ m \in Nat /\ n \in Nat /\ k \in Nat /\ a \in Nat /\ b \in Nat
    BY <1>2 DEF Spans, Goes, Sums, Place
  <2> HIDE DEF m, n, k, a, b, u
  <2>2. Composes(line, u \o P(a, b), k)
    BY <1>1, <2>1
  <2> QED
    BY <2>2 DEF k, a, b, u
<1>4. Composes(line, P(0, 9) \o P(13, 19) \o P(21, 27), 24)
  <2> DEFINE m == 17  n == 7  k == 24  a == 21  b == 27
             u == P(0, 9) \o P(13, 19)
  <2>1. /\ Spans(a, b, n) /\ Goes(m, n, k, a) /\ Composes(line, u, m)
        /\ m \in Nat /\ n \in Nat /\ k \in Nat /\ a \in Nat /\ b \in Nat
    BY <1>3 DEF Spans, Goes, Sums, Place
  <2> HIDE DEF m, n, k, a, b, u
  <2>2. Composes(line, u \o P(a, b), k)
    BY <1>1, <2>1
  <2> QED
    BY <2>2 DEF k, a, b, u
<1>5. Composes(line, P(0, 9) \o P(13, 19) \o P(21, 27) \o P(28, 42), 39)
  <2> DEFINE m == 24  n == 15  k == 39  a == 28  b == 42
             u == P(0, 9) \o P(13, 19) \o P(21, 27)
  <2>1. /\ Spans(a, b, n) /\ Goes(m, n, k, a) /\ Composes(line, u, m)
        /\ m \in Nat /\ n \in Nat /\ k \in Nat /\ a \in Nat /\ b \in Nat
    BY <1>4 DEF Spans, Goes, Sums, Place
  <2> HIDE DEF m, n, k, a, b, u
  <2>2. Composes(line, u \o P(a, b), k)
    BY <1>1, <2>1
  <2> QED
    BY <2>2 DEF k, a, b, u
<1>6. Composes(line, CompositeOf(line), 39)
  BY <1>5 DEF CompositeOf, P
<1> DEFINE c == CompositeOf(line)
<1> HIDE DEF c
<1>7. c \in Seq(Chars) /\ Len(c) = 39 /\ \A j \in 1..39 : c[j] = line[Place(j)]
  BY <1>6 DEF Composes, c
<1> QED
  BY <1>7, LenProperties DEF c

LEMMA CompositeText == \A line \in Text(44) : CompositeOf(line) \in Text(39)
<1> SUFFICES ASSUME NEW line \in Text(44)
             PROVE  CompositeOf(line) \in Text(39)
  OBVIOUS
<1> DEFINE c == CompositeOf(line)
<1>1. c \in [1..39 -> Chars] /\ \A j \in 1..39 : c[j] = line[Place(j)]
  BY PrintedType, CompositeIs
<1> HIDE DEF c
<1>2. \A j \in 1..39 : Place(j) \in 1..44
  BY PlaceIs
<1>3. \A k \in 1..44 : line[k] \in 0..Filler
  BY DEF Text
<1>4. \A j \in 1..39 : c[j] \in 0..Filler
  BY <1>1, <1>2, <1>3
<1> QED
  BY <1>1, <1>4 DEF Text, c

OkComposite(line) == CheckDigit(CompositeOf(line)) = At(line, 43)

\* The places that no check digit covers: nationality and sex.
Uncovered == {11, 12, 13, 21}

LEMMA CompositeChecked ==
    ASSUME NEW old, NEW new, NEW i \in Nat, Differ(old, new, i), new[i] # old[i],
           OkComposite(old)
    PROVE  /\ i = 44 => ~OkComposite(new)
           /\ i \in Uncovered => OkComposite(new)
           /\ i # 44 /\ new[i] # Illegal /\ Alike(new[i], old[i]) => OkComposite(new)
<1> DEFINE c == CompositeOf(old)
           e == CompositeOf(new)
<1>1. /\ old \in SecondLine /\ new \in SecondLine /\ old \in Text(44) /\ i \in 1..44
      /\ \A k \in 1..44 : k # i => new[k] = old[k]
  BY PrintedType DEF Differ
<1>2. /\ c \in [1..39 -> Chars] /\ \A j \in 1..39 : c[j] = old[Place(j)]
      /\ e \in [1..39 -> Chars] /\ \A j \in 1..39 : e[j] = new[Place(j)]
  BY <1>1, CompositeIs
<1>3. At(old, 43) = old[44] /\ At(new, 43) = new[44]
  BY DEF At
<1>4. CheckDigit(c) = old[44] /\ (OkComposite(new) <=> CheckDigit(e) = new[44])
  BY <1>3 DEF OkComposite
<1> HIDE DEF c, e
<1>5. \A j \in 1..39 : Place(j) # i => e[j] = c[j]
  <2>1. \A j \in 1..39 : Place(j) \in 1..44
    BY PlaceIs
  <2> QED
    BY <1>1, <1>2, <2>1
<1>6. ASSUME \A j \in 1..39 : Place(j) # i
      PROVE  e = c
  BY <1>2, <1>5, <1>6
<1>7. i \in {44} \cup Uncovered <=> \A j \in 1..39 : Place(j) # i
  <2>1. i \in 1..10 \cup 14..20 \cup 22..43 <=> \E j \in 1..39 : Place(j) = i
    BY <1>1, PlaceIs
  <2>2. i \in {44} \cup Uncovered <=> i \notin 1..10 \cup 14..20 \cup 22..43
    BY <1>1 DEF Uncovered
  <2> QED
    BY <2>1, <2>2
<1>8. i = 44 => ~OkComposite(new)
  BY <1>4, <1>6, <1>7
<1>9. i \in Uncovered => OkComposite(new)
  <2>1. i \in Uncovered => i # 44
    BY DEF Uncovered
  <2> QED
    BY <1>1, <1>4, <1>6, <1>7, <2>1
<1>10. ASSUME i # 44, i \notin Uncovered, new[i] # Illegal, Alike(new[i], old[i])
       PROVE  OkComposite(new)
  <2>1. PICK j \in 1..39 : Place(j) = i
    BY <1>7, <1>10
  <2>2. \A k \in 1..39 : k # j => e[k] = c[k]
    BY <1>5, <2>1, PlaceIs
  <2>3. e[j] = new[i] /\ c[j] = old[i]
    BY <1>2, <2>1
  <2>4. new \in Text(44)
    BY <1>10, LegalText
  <2> DEFINE n == 39
  <2>5. c \in Text(n) /\ e \in Text(n) /\ n \in Nat /\ j \in 1..n
    BY <1>1, <2>4, CompositeText DEF c, e
  <2>6. \A k \in 1..n : k # j => e[k] = c[k]
    BY <2>2
  <2> HIDE DEF n
  <2>7. CheckDigit(e) = CheckDigit(c) <=> Alike(e[j], c[j])
    BY <2>5, <2>6, ChangeTells
  <2>8. new[44] = old[44]
    BY <1>1, <1>10
  <2> QED
    BY <1>4, <1>10, <2>3, <2>7, <2>8
<1> QED
  BY <1>8, <1>9, <1>10

\* name's characters are those its check digit says.
OkField(line, name) ==
    Ok(line, Checked[name].first, Checked[name].last, Checked[name].digit)

LEMMA ValidFields ==
    ASSUME NEW line \in SecondLine
    PROVE  IsValid(line) <=> /\ \A name \in DOMAIN Checked : OkField(line, name)
                             /\ OkComposite(line)
<1>1. DOMAIN Checked = {"passport_number", "dob", "expiry", "personal_number"}
  BY DEF Checked
<1>2. /\ OkField(line, "passport_number") <=> CheckDigit(Part(line, 0, 8)) = At(line, 9)
      /\ OkField(line, "dob") <=> CheckDigit(Part(line, 13, 18)) = At(line, 19)
      /\ OkField(line, "expiry") <=> CheckDigit(Part(line, 21, 26)) = At(line, 27)
      /\ OkField(line, "personal_number") <=> CheckDigit(Part(line, 28, 41)) = At(line, 42)
  BY DEF OkField, Ok, Checked
<1> QED
  BY <1>1, <1>2, ValidIs DEF OkComposite

\* Where the fields and the check digits stand.
LEMMA FieldsAre ==
    /\ \A name \in DOMAIN Checked :
           /\ Checked[name].first \in Nat /\ Checked[name].last \in Nat
           /\ Checked[name].digit \in Nat
           /\ \E n \in Nat : Field(Checked[name].first, Checked[name].last, Checked[name].digit, n)
    /\ \A i \in 1..44 : FieldOf(i) # {} => i # 44 /\ i - 1 \notin CheckDigits
    /\ \A i \in 1..44 : FieldOf(i) = {} /\ i - 1 \notin CheckDigits => i \in Uncovered
<1>1. DOMAIN Checked = {"passport_number", "dob", "expiry", "personal_number"}
  BY DEF Checked
<1>2. /\ Checked["passport_number"] = [first |-> 0,  last |-> 8,  digit |-> 9]
      /\ Checked["dob"]             = [first |-> 13, last |-> 18, digit |-> 19]
      /\ Checked["expiry"]          = [first |-> 21, last |-> 26, digit |-> 27]
      /\ Checked["personal_number"] = [first |-> 28, last |-> 41, digit |-> 42]
  BY DEF Checked
<1>3. CheckDigits = {9, 19, 27, 42, 43}
  <2>1. {Checked[name].digit : name \in DOMAIN Checked} = {9, 19, 27, 42}
    BY <1>1, <1>2
  <2> QED
    BY <2>1 DEF CheckDigits
<1>4. \A i \in 1..44 : FieldOf(i) = {} <=>
          i - 1 \notin 0..8 /\ i - 1 \notin 13..18 /\ i - 1 \notin 21..26 /\ i - 1 \notin 28..41
  <2> SUFFICES ASSUME NEW i \in 1..44
               PROVE  FieldOf(i) = {} <=> /\ i - 1 \notin 0..8 /\ i - 1 \notin 13..18
                                          /\ i - 1 \notin 21..26 /\ i - 1 \notin 28..41
    OBVIOUS
  <2> DEFINE In(name) == i - 1 \in Checked[name].first..Checked[name].last
  <2>1. FieldOf(i) = {name \in DOMAIN Checked : In(name)}
    BY DEF FieldOf
  <2>2. /\ In("passport_number") <=> i - 1 \in 0..8
        /\ In("dob") <=> i - 1 \in 13..18
        /\ In("expiry") <=> i - 1 \in 21..26
        /\ In("personal_number") <=> i - 1 \in 28..41
    BY <1>2
  <2> HIDE DEF In
  <2>3. FieldOf(i) = {} <=> \A name \in DOMAIN Checked : ~In(name)
    BY <2>1
  <2> QED
    BY <1>1, <2>2, <2>3
<1>5. ASSUME NEW name \in DOMAIN Checked
      PROVE  /\ Checked[name].first \in Nat /\ Checked[name].last \in Nat
             /\ Checked[name].digit \in Nat
             /\ \E n \in Nat : Field(Checked[name].first, Checked[name].last, Checked[name].digit, n)
  <2>1. Field(0, 8, 9, 9) /\ Field(13, 18, 19, 6) /\ Field(21, 26, 27, 6) /\ Field(28, 41, 42, 14)
    BY DEF Field, Spans
  <2> QED
    BY <1>1, <1>2, <2>1
<1>6. ASSUME NEW i \in 1..44
      PROVE  /\ FieldOf(i) # {} => i # 44 /\ i - 1 \notin CheckDigits
             /\ FieldOf(i) = {} /\ i - 1 \notin CheckDigits => i \in Uncovered
  BY <1>3, <1>4 DEF Uncovered
<1> QED
  BY <1>5, <1>6

LEMMA SubstituteStep ==
    ASSUME NEW old, NEW new, NEW i \in Nat, Differ(old, new, i), new[i] # old[i], IsValid(old)
    PROVE  IsValid(new) <=> \/ FieldOf(i) = {} /\ i - 1 \notin CheckDigits
                            \/ /\ FieldOf(i) # {} /\ new[i] # Illegal
                               /\ Alike(new[i], old[i])
<1> DEFINE Legal == new[i] # Illegal /\ Alike(new[i], old[i])
<1>1. old \in SecondLine /\ new \in SecondLine /\ i \in 1..44
  BY PrintedType DEF Differ
<1>2. OkComposite(old) /\ \A name \in DOMAIN Checked : OkField(old, name)
  BY <1>1, ValidFields
<1>3. IsValid(new) <=> OkComposite(new) /\ \A name \in DOMAIN Checked : OkField(new, name)
  BY <1>1, ValidFields
<1>4. ASSUME NEW name \in DOMAIN Checked
      PROVE  IF name \in FieldOf(i) THEN OkField(new, name) <=> Legal
             ELSE OkField(new, name) <=> i - 1 # Checked[name].digit
  <2> DEFINE a == Checked[name].first
             b == Checked[name].last
             d == Checked[name].digit
  <2>1. a \in Nat /\ b \in Nat /\ d \in Nat /\ \E n \in Nat : Field(a, b, d, n)
    BY FieldsAre
  <2>2. PICK n \in Nat : Field(a, b, d, n)
    BY <2>1
  <2>3. Ok(old, a, b, d) /\ (OkField(new, name) <=> Ok(new, a, b, d))
    BY <1>2 DEF OkField
  <2>4. name \in FieldOf(i) <=> i - 1 \in a..b
    BY DEF FieldOf
  <2> HIDE DEF a, b, d
  <2>5. IF i - 1 \in a..b THEN Ok(new, a, b, d) <=> Legal ELSE Ok(new, a, b, d) <=> i - 1 # d
    BY <2>1, <2>2, <2>3, FieldChecked
  <2> HIDE DEF Legal
  <2> QED
    BY <2>3, <2>4, <2>5 DEF d
<1>5. /\ i = 44 => ~OkComposite(new)
      /\ i \in Uncovered => OkComposite(new)
      /\ i # 44 /\ Legal => OkComposite(new)
  BY <1>2, CompositeChecked
<1> HIDE DEF Legal
<1>6. CASE FieldOf(i) # {}
  <2>1. i # 44 /\ \A name \in DOMAIN Checked : i - 1 # Checked[name].digit
    BY <1>1, <1>6, FieldsAre DEF CheckDigits
  <2>2. PICK name \in DOMAIN Checked : name \in FieldOf(i)
    BY <1>6 DEF FieldOf
  <2>3. IsValid(new) <=> Legal
    BY <1>3, <1>4, <1>5, <2>1, <2>2
  <2> QED
    BY <1>6, <2>3 DEF Legal
<1>7. CASE FieldOf(i) = {}
  <2>1. (\A name \in DOMAIN Checked : OkField(new, name)) <=>
            \A name \in DOMAIN Checked : i - 1 # Checked[name].digit
    BY <1>4, <1>7
  <2>2. i - 1 \notin CheckDigits <=>
            i # 44 /\ \A name \in DOMAIN Checked : i - 1 # Checked[name].digit
    BY <1>1 DEF CheckDigits
  <2>3. i - 1 \notin CheckDigits => i \in Uncovered
    BY <1>1, <1>7, FieldsAre
  <2>4. IsValid(new) <=> i - 1 \notin CheckDigits
    BY <1>3, <1>5, <2>1, <2>2, <2>3
  <2> QED
    BY <1>7, <2>4
<1> QED
  BY <1>6, <1>7

\* Two lines of printed characters that differ by an exchange of the places i and k.
Swaps(old, new, i, k) ==
    /\ old \in Text(44) /\ new \in Text(44) /\ i \in 1..44 /\ k \in 1..44 /\ k = i + 1
    /\ new[i] = old[k] /\ new[k] = old[i]
    /\ \A l \in 1..44 : l # i /\ l # k => new[l] = old[l]

\* Values that differ by a multiple of 5.
FiveApart(c, e) == (ValueOf(c) - ValueOf(e)) % 5 = 0

\* SwapTells, with the place of the second character named.
LEMMA ExchangeTells ==
    ASSUME NEW n \in Nat, NEW s \in Text(n), NEW t \in Text(n), NEW j \in Nat, NEW k \in Nat,
           Sums(j, 1, k), j \in 1..n, k \in 1..n, t[j] = s[k], t[k] = s[j],
           \A i \in 1..n : i # j /\ i # k => t[i] = s[i]
    PROVE  CheckDigit(t) = CheckDigit(s) <=> FiveApart(t[j], t[k])
<1>1. k = j + 1 /\ j \in 1..(n - 1)
  BY DEF Sums
<1>2. t[j] = s[j + 1] /\ t[j + 1] = s[j] /\ \A i \in 1..n : i # j /\ i # j + 1 => t[i] = s[i]
  BY <1>1
<1>3. CheckDigit(t) = CheckDigit(s) <=> (ValueOf(s[j + 1]) - ValueOf(s[j])) % 5 = 0
  BY <1>1, <1>2, SwapTells
<1> QED
  BY <1>1, <1>2, <1>3 DEF FiveApart

LEMMA FieldSwapped ==
    ASSUME NEW old, NEW new, NEW i \in Nat, NEW k \in Nat, Swaps(old, new, i, k),
           NEW a \in Nat, NEW b \in Nat, NEW d \in Nat, NEW n \in Nat, Field(a, b, d, n),
           Ok(old, a, b, d)
    PROVE  /\ i - 1 \in a..b /\ k - 1 \in a..b => (Ok(new, a, b, d) <=> FiveApart(new[i], new[k]))
           /\ i - 1 \notin a..b /\ k - 1 \notin a..b /\ i - 1 # d /\ k - 1 # d => Ok(new, a, b, d)
<1> DEFINE p == Part(new, a, b)
           q == Part(old, a, b)
<1>1. /\ old \in SecondLine /\ new \in SecondLine /\ old \in Text(44) /\ new \in Text(44)
      /\ Spans(a, b, n) /\ d \in 0..43 /\ d \notin a..b
  BY PrintedType DEF Swaps, Field
<1>2. /\ p \in [1..n -> Chars] /\ q \in [1..n -> Chars]
      /\ \A j \in 1..n : /\ p[j] = new[a + j] /\ q[j] = old[a + j]
                         /\ a + j \in 1..44 /\ a + j - 1 \in a..b
  BY <1>1, PartIs
<1>7. p \in Text(n) /\ q \in Text(n)
  BY <1>1, PartText
<1>3. /\ CheckDigit(q) = At(old, d)
      /\ Ok(new, a, b, d) <=> CheckDigit(p) = At(new, d)
  BY DEF Ok
<1>4. ASSUME i - 1 # d, k - 1 # d
      PROVE  At(new, d) = At(old, d)
  <2> DEFINE l == d + 1
  <2>1. l \in 1..44 /\ l # i /\ l # k
    BY <1>1, <1>4
  <2> HIDE DEF l
  <2>2. new[l] = old[l]
    BY <2>1 DEF Swaps
  <2> QED
    BY <2>2 DEF At, l
<1> HIDE DEF p, q
<1>5. ASSUME i - 1 \in a..b, k - 1 \in a..b
      PROVE  Ok(new, a, b, d) <=> FiveApart(new[i], new[k])
  <2> DEFINE j == i - a
             m == k - a
  <2>1. /\ j \in 1..n /\ m \in 1..n /\ Sums(j, 1, m) /\ a + j = i /\ a + m = k
        /\ \A l \in 1..n : l # j /\ l # m => a + l # i /\ a + l # k
    BY <1>5 DEF Spans, Sums, Swaps, Field
  <2> HIDE DEF j, m
  <2>2. p[j] = new[i] /\ p[m] = new[k] /\ q[j] = old[i] /\ q[m] = old[k]
    BY <1>2, <2>1
  <2>3. ASSUME NEW l \in 1..n, l # j, l # m
        PROVE  p[l] = q[l]
    <3> DEFINE o == a + l
    <3>1. p[l] = new[o] /\ q[l] = old[o] /\ o \in 1..44
      BY <1>2
    <3>2. o # i /\ o # k
      BY <2>1, <2>3
    <3> HIDE DEF o
    <3> QED
      BY <3>1, <3>2 DEF Swaps
  <2>4. p[j] = q[m] /\ p[m] = q[j]
    BY <2>2 DEF Swaps
  <2>5. /\ p \in Text(n) /\ q \in Text(n) /\ j \in Nat /\ m \in Nat /\ Sums(j, 1, m)
        /\ j \in 1..n /\ m \in 1..n /\ \A l \in 1..n : l # j /\ l # m => p[l] = q[l]
    BY <1>7, <2>1, <2>3
  <2>6. CheckDigit(p) = CheckDigit(q) <=> FiveApart(p[j], p[m])
    BY <2>4, <2>5, ExchangeTells
  <2>7. i - 1 # d /\ k - 1 # d
    BY <1>1, <1>5
  <2> QED
    BY <1>3, <1>4, <2>2, <2>6, <2>7 DEF p, q
<1>6. ASSUME i - 1 \notin a..b, k - 1 \notin a..b, i - 1 # d, k - 1 # d
      PROVE  Ok(new, a, b, d)
  <2>1. ASSUME NEW l \in 1..n
        PROVE  p[l] = q[l]
    <3> DEFINE o == a + l
    <3>1. o \in 1..44 /\ o - 1 \in a..b
      BY <1>1 DEF Spans
    <3>2. p[l] = new[o] /\ q[l] = old[o]
      BY <1>2, Zenon
    <3> HIDE DEF o
    <3>3. o # i /\ o # k
      BY <3>1, <1>6
    <3> QED
      BY <3>1, <3>2, <3>3 DEF Swaps
  <2>2. p = q
    BY <1>2, <2>1
  <2> QED
    BY <1>3, <1>4, <1>6, <2>2 DEF p, q
<1> QED
  BY <1>5, <1>6

LEMMA CompositeSwapped ==
    ASSUME NEW old, NEW new, NEW i \in Nat, NEW k \in Nat, Swaps(old, new, i, k),
           OkComposite(old), FieldOf(i) # {}, FieldOf(i) = FieldOf(k), FiveApart(new[i], new[k])
    PROVE  OkComposite(new)
<1> DEFINE c == CompositeOf(old)
           e == CompositeOf(new)
<1>1. old \in SecondLine /\ new \in SecondLine /\ old \in Text(44) /\ new \in Text(44)
  BY PrintedType DEF Swaps
<1>2. /\ c \in [1..39 -> Chars] /\ \A j \in 1..39 : c[j] = old[Place(j)]
      /\ e \in [1..39 -> Chars] /\ \A j \in 1..39 : e[j] = new[Place(j)]
      /\ c \in Text(39) /\ e \in Text(39)
  BY <1>1, CompositeIs, CompositeText
<1>3. /\ CheckDigit(c) = old[44]
      /\ OkComposite(new) <=> CheckDigit(e) = new[44]
  BY DEF OkComposite, At
<1> HIDE DEF c, e
<1>4. \E j, m \in 1..39 : Sums(j, 1, m) /\ Place(j) = i /\ Place(m) = k
  <2>1. \/ i - 1 \in 0..8 /\ k - 1 \in 0..8
        \/ i - 1 \in 13..18 /\ k - 1 \in 13..18
        \/ i - 1 \in 21..26 /\ k - 1 \in 21..26
        \/ i - 1 \in 28..41 /\ k - 1 \in 28..41
    <3>1. PICK name \in DOMAIN Checked : name \in FieldOf(i) /\ name \in FieldOf(k)
      BY DEF FieldOf
    <3>2. /\ i - 1 \in Checked[name].first..Checked[name].last
          /\ k - 1 \in Checked[name].first..Checked[name].last
      BY <3>1 DEF FieldOf
    <3> QED
      BY <3>2 DEF Checked
  <2>2. k = i + 1
    BY DEF Swaps
  <2> DEFINE j == IF i <= 10 THEN i ELSE IF i <= 20 THEN i - 3 ELSE i - 4
             m == j + 1
  <2>3. j \in 1..39 /\ m \in 1..39 /\ Place(j) = i /\ Place(m) = k /\ Sums(j, 1, m)
    BY <2>1, <2>2 DEF Place, Sums
  <2> HIDE DEF j, m
  <2> QED
    BY <2>3
<1>5. PICK j \in 1..39, m \in 1..39 : Sums(j, 1, m) /\ Place(j) = i /\ Place(m) = k
  BY <1>4
<1>6. e[j] = new[i] /\ e[m] = new[k] /\ c[j] = old[i] /\ c[m] = old[k]
  BY <1>2, <1>5
<1>7. e[j] = c[m] /\ e[m] = c[j]
  BY <1>6 DEF Swaps
<1>8. \A l \in 1..39 : l # j /\ l # m => e[l] = c[l]
  <2>1. \A l \in 1..39 : l # j /\ l # m => Place(l) \in 1..44 /\ Place(l) # i /\ Place(l) # k
    BY <1>5, PlaceIs
  <2> QED
    BY <1>2, <2>1 DEF Swaps
<1>9. CheckDigit(e) = CheckDigit(c)
  <2> DEFINE n == 39
  <2>1. /\ n \in Nat /\ c \in Text(n) /\ e \in Text(n) /\ j \in Nat /\ m \in Nat
        /\ j \in 1..n /\ m \in 1..n /\ \A l \in 1..n : l # j /\ l # m => e[l] = c[l]
    BY <1>2, <1>8
  <2> HIDE DEF n
  <2>2. CheckDigit(e) = CheckDigit(c) <=> FiveApart(e[j], e[m])
    BY <2>1, <1>5, <1>7, ExchangeTells
  <2> QED
    BY <2>2, <1>6
<1>10. new[44] = old[44]
  <2>1. i \in 1..44 /\ k \in 1..44
    BY DEF Swaps
  <2>2. i # 44 /\ k # 44
    BY <2>1, FieldsAre
  <2> QED
    BY <2>2 DEF Swaps
<1> QED
  BY <1>3, <1>9, <1>10

LEMMA TransposeStep ==
    ASSUME NEW old, NEW new, NEW i \in Nat, NEW k \in Nat, Swaps(old, new, i, k), IsValid(old),
           FieldOf(i) # {}, FieldOf(i) = FieldOf(k)
    PROVE  IsValid(new) <=> FiveApart(new[i], new[k])
<1> DEFINE Five == FiveApart(new[i], new[k])
<1>1. old \in SecondLine /\ new \in SecondLine /\ i \in 1..44 /\ k \in 1..44
  BY PrintedType DEF Swaps
<1>2. OkComposite(old) /\ \A name \in DOMAIN Checked : OkField(old, name)
  BY <1>1, ValidFields
<1>3. IsValid(new) <=> OkComposite(new) /\ \A name \in DOMAIN Checked : OkField(new, name)
  BY <1>1, ValidFields
<1>4. ASSUME NEW name \in DOMAIN Checked
      PROVE  IF name \in FieldOf(i) THEN OkField(new, name) <=> Five ELSE OkField(new, name)
  <2> DEFINE a == Checked[name].first
             b == Checked[name].last
             d == Checked[name].digit
  <2>1. a \in Nat /\ b \in Nat /\ d \in Nat /\ \E n \in Nat : Field(a, b, d, n)
    BY FieldsAre
  <2>2. PICK n \in Nat : Field(a, b, d, n)
    BY <2>1
  <2>3. Ok(old, a, b, d) /\ (OkField(new, name) <=> Ok(new, a, b, d))
    BY <1>2 DEF OkField
  <2>4. /\ name \in FieldOf(i) <=> i - 1 \in a..b
        /\ name \in FieldOf(k) <=> k - 1 \in a..b
    BY DEF FieldOf
  <2>5. i - 1 # d /\ k - 1 # d
    BY <1>1, FieldsAre DEF CheckDigits
  <2> HIDE DEF a, b, d
  <2>6. /\ i - 1 \in a..b /\ k - 1 \in a..b => (Ok(new, a, b, d) <=> Five)
        /\ i - 1 \notin a..b /\ k - 1 \notin a..b /\ i - 1 # d /\ k - 1 # d => Ok(new, a, b, d)
    BY <2>1, <2>2, <2>3, FieldSwapped
  <2> HIDE DEF Five
  <2> QED
    BY <2>3, <2>4, <2>5, <2>6
<1>5. Five => OkComposite(new)
  BY <1>2, CompositeSwapped
<1>6. PICK name \in DOMAIN Checked : name \in FieldOf(i)
  BY DEF FieldOf
<1> HIDE DEF Five
<1>7. IsValid(new) <=> Five
  BY <1>3, <1>4, <1>5, <1>6
<1> QED
  BY <1>7 DEF Five

-----------------------------------------------------------------------------
(* The reads of one image.                                                 *)

\* j is the first place of s that is in T.
IsFirst(s, T, j) == s[j] \in T /\ \A l \in 1..(j - 1) : s[l] \notin T

\* x is what is kept of the first i elements of s: its head is the first that qualifies.
Heads(s, T, i, x) ==
    IF \E j \in 1..i : s[j] \in T
    THEN x # <<>> /\ \A j \in 1..i : IsFirst(s, T, j) => Head(x) = s[j]
    ELSE x = <<>>

LEMMA KeptHeads ==
    ASSUME NEW C, NEW n \in Nat, NEW s \in [1..n -> C], NEW T
    PROVE  Heads(s, T, n, Kept(s, T)[n])
<1> DEFINE k == Kept(s, T)
           Good == {i \in 0..n : Heads(s, T, i, k[i])}
<1>1. k \in [0..n -> Seq(C)] /\ Keeps(n, s, T, k)
  BY KeptRun
<1> HIDE DEF k
<1>2. 0 \in Good
  <2>1. k[0] = <<>>
    BY <1>1 DEF Keeps
  <2> QED
    BY <2>1 DEF Heads
<1>3. ASSUME NEW i \in 1..n, i - 1 \in Good
      PROVE  i \in Good
  <2> DEFINE x == k[i - 1]
  <2>1. x \in Seq(C) /\ s[i] \in C /\ k[i] = IF s[i] \in T THEN Append(x, s[i]) ELSE x
    BY <1>1 DEF Keeps
  <2>2. Heads(s, T, i - 1, x)
    BY <1>3
  <2> HIDE DEF x
  <2>3. \A j \in 1..i : j \in 1..(i - 1) \/ j = i
    OBVIOUS
  <2>4. \A j \in 1..(i - 1) : j \in 1..i
    OBVIOUS
  <2>5. CASE s[i] \notin T
    <3>1. k[i] = x
      BY <2>1, <2>5
    <3>2. ~IsFirst(s, T, i)
      BY <2>5 DEF IsFirst
    <3>3. (\E j \in 1..i : s[j] \in T) <=> \E j \in 1..(i - 1) : s[j] \in T
      BY <2>3, <2>4, <2>5
    <3> QED
      BY <2>2, <2>3, <3>1, <3>2, <3>3 DEF Heads
  <2>6. CASE s[i] \in T /\ \E j \in 1..(i - 1) : s[j] \in T
    <3>1. x # <<>> /\ \A j \in 1..(i - 1) : IsFirst(s, T, j) => Head(x) = s[j]
      BY <2>2, <2>6 DEF Heads
    <3>2. k[i] # <<>> /\ Head(k[i]) = Head(x)
      BY <2>1, <2>6, <3>1
    <3>3. ~IsFirst(s, T, i)
      BY <2>6 DEF IsFirst
    <3> QED
      BY <2>3, <2>6, <3>1, <3>2, <3>3 DEF Heads
  <2>7. CASE s[i] \in T /\ ~\E j \in 1..(i - 1) : s[j] \in T
    <3>1. x = <<>>
      BY <2>2, <2>7 DEF Heads
    <3>2. k[i] # <<>> /\ Head(k[i]) = s[i]
      BY <2>1, <2>7, <3>1
    <3>3. \A j \in 1..i : IsFirst(s, T, j) => j = i
      BY <2>3, <2>7 DEF IsFirst
    <3> QED
      BY <2>7, <3>2, <3>3 DEF Heads
  <2>8. Heads(s, T, i, k[i])
    BY <2>5, <2>6, <2>7
  <2> QED
    BY <2>8
<1>4. n \in Good
  <2> HIDE DEF Good
  <2> QED BY <1>2, <1>3, Induction
<1> QED
  BY <1>4 DEF k

LEMMA OnlyHeads ==
    ASSUME NEW C, NEW s \in Seq(C), NEW T
    PROVE  LET places == {i \in DOMAIN s : s[i] \in T}
           IN  IF places = {} THEN Only(s, T) = <<>>
               ELSE Only(s, T) # <<>> /\ Head(Only(s, T)) = s[Min(places)]
<1> DEFINE n == Len(s)
           places == {i \in DOMAIN s : s[i] \in T}
           m == Min(places)
           x == Kept(s, T)[n]
<1>1. n \in Nat /\ DOMAIN s = 1..n /\ s \in [1..n -> C]
  OBVIOUS
<1> HIDE DEF n
<1>2. Heads(s, T, n, x)
  BY <1>1, KeptHeads
<1>3. places = {i \in 1..n : s[i] \in T}
  BY <1>1
<1> HIDE DEF x
<1>4. CASE places = {}
  <2>1. x = <<>>
    BY <1>2, <1>3, <1>4 DEF Heads
  <2> QED
    BY <1>4, <2>1 DEF Only, x, n
<1>5. CASE places # {}
  <2>1. m \in places /\ \A y \in places : m <= y
    <3>1. places \subseteq Nat
      BY <1>3
    <3> HIDE DEF places
    <3> QED
      BY <1>5, <3>1, MinIsLeast
  <2>2. m \in 1..n /\ s[m] \in T
    <3> HIDE DEF m
    <3> QED
      BY <2>1, <1>3
  <2>3. IsFirst(s, T, m)
    <3> SUFFICES ASSUME NEW l \in 1..(m - 1), s[l] \in T
                 PROVE  FALSE
      BY <2>2 DEF IsFirst
    <3> HIDE DEF m
    <3>1. l \in 1..n /\ l < m
      BY <1>1, <2>2
    <3> QED
      BY <1>3, <2>1, <3>1
  <2> HIDE DEF m
  <2>4. x # <<>> /\ Head(x) = s[m]
    BY <1>2, <2>2, <2>3 DEF Heads
  <2> QED
    BY <1>5, <2>4 DEF Only, x, n, m
<1> QED
  BY <1>4, <1>5

\* The first read that validates, of all reads of the image, else the first that read
\* anything.
ReadIsBest ==
    reads # <<>> =>
        LET chosen == ReadImage(Head(reads), Tail(reads))
            Valid == {i \in DOMAIN reads : reads[i] # Unread /\ IsValid(reads[i])}
            Read == {i \in DOMAIN reads : reads[i] # Unread}
        IN  chosen = IF Valid # {} THEN reads[Min(Valid)]
                     ELSE IF Read # {} THEN reads[Min(Read)] ELSE Unread

LEMMA BestStep ==
    ASSUME NEW C, reads \in Seq(C)
    PROVE  ReadIsBest
<1> SUFFICES ASSUME reads # <<>>
             PROVE  ReadIsBest
  BY DEF ReadIsBest
<1> DEFINE raw == Head(reads)
           Valid == {i \in DOMAIN reads : reads[i] # Unread /\ IsValid(reads[i])}
           Read == {i \in DOMAIN reads : reads[i] # Unread}
           V == {c \in Range(reads) : c # Unread /\ IsValid(c)}
           R == Range(reads) \ {Unread}
           Best == IF Valid # {} THEN reads[Min(Valid)]
                   ELSE IF Read # {} THEN reads[Min(Read)] ELSE Unread
<1>1. <<raw>> \o Tail(reads) = reads
  <2> DEFINE w == <<raw>> \o Tail(reads)
  <2>1. /\ raw \in C /\ Tail(reads) \in Seq(C) /\ Len(reads) \in Nat /\ Len(reads) >= 1
        /\ Len(Tail(reads)) = Len(reads) - 1
        /\ raw = reads[1] /\ \A i \in 1..(Len(reads) - 1) : Tail(reads)[i] = reads[i + 1]
    OBVIOUS
  <2>2. <<raw>> \in Seq(C) /\ Len(<<raw>>) = 1 /\ <<raw>>[1] = raw
    BY <2>1
  <2> HIDE DEF raw
  <2>3. /\ w \in Seq(C) /\ Len(w) = 1 + (Len(reads) - 1)
        /\ \A i \in 1..(1 + (Len(reads) - 1)) :
               w[i] = IF i <= 1 THEN <<raw>>[i] ELSE Tail(reads)[i - 1]
    BY <2>1, <2>2, ConcatProperties
  <2> HIDE DEF w
  <2>4. Len(w) = Len(reads)
    BY <2>1, <2>3
  <2>5. ASSUME NEW i \in 1..Len(reads)
        PROVE  w[i] = reads[i]
    <3>1. CASE i = 1
      BY <2>1, <2>2, <2>3, <3>1
    <3>2. CASE i # 1
      <4>1. i - 1 \in 1..(Len(reads) - 1) /\ (i - 1) + 1 = i
        BY <2>1, <3>2
      <4>2. w[i] = Tail(reads)[i - 1]
        BY <2>1, <2>3, <3>2
      <4> QED
        BY <2>1, <4>1, <4>2
    <3> QED
      BY <3>1, <3>2
  <2> QED
    BY <2>3, <2>4, <2>5, SeqEqual DEF w
<1>2. \A i \in DOMAIN reads : (reads[i] \in V <=> reads[i] # Unread /\ IsValid(reads[i]))
                              /\ (reads[i] \in R <=> reads[i] # Unread)
  BY DEF Range
<1>3. Valid = {i \in DOMAIN reads : reads[i] \in V} /\ Read = {i \in DOMAIN reads : reads[i] \in R}
  BY <1>2
<1>4. /\ IF Valid = {} THEN Only(reads, V) = <<>>
         ELSE Only(reads, V) # <<>> /\ Head(Only(reads, V)) = reads[Min(Valid)]
      /\ IF Read = {} THEN Only(reads, R) = <<>>
         ELSE Only(reads, R) # <<>> /\ Head(Only(reads, R)) = reads[Min(Read)]
  <2> HIDE DEF V, R
  <2>1. LET places == {i \in DOMAIN reads : reads[i] \in V}
        IN  IF places = {} THEN Only(reads, V) = <<>>
            ELSE Only(reads, V) # <<>> /\ Head(Only(reads, V)) = reads[Min(places)]
    BY OnlyHeads
  <2>2. LET places == {i \in DOMAIN reads : reads[i] \in R}
        IN  IF places = {} THEN Only(reads, R) = <<>>
            ELSE Only(reads, R) # <<>> /\ Head(Only(reads, R)) = reads[Min(places)]
    BY OnlyHeads
  <2> HIDE DEF Valid, Read
  <2> QED
    BY <1>3, <2>1, <2>2, Zenon
<1>5. Choose(reads) = Best
  BY <1>4, Zenon DEF Choose, FirstRead
<1>6. CASE raw # Unread /\ IsValid(raw)
  <2>1. 1 \in DOMAIN reads /\ raw = reads[1]
    OBVIOUS
  <2>2. 1 \in Valid /\ Valid \subseteq Nat \ {0}
    BY <1>6, <2>1
  <2>3. Min(Valid) \in Valid /\ Min(Valid) <= 1
    <3> HIDE DEF Valid
    <3> QED BY <2>2, MinIsLeast
  <2>4. Min(Valid) = 1
    <3> DEFINE m == Min(Valid)
    <3>1. m \in Nat \ {0} /\ m <= 1
      <4> HIDE DEF Valid, m
      <4> QED BY <2>2, <2>3 DEF m
    <3> HIDE DEF m
    <3>2. m = 1
      BY <3>1
    <3> QED
      BY <3>2 DEF m
  <2>5. ReadImage(raw, Tail(reads)) = raw
    BY <1>6 DEF ReadImage
  <2>6. Best = raw
    <3> HIDE DEF Valid, raw
    <3> QED BY <2>1, <2>2, <2>4
  <2> QED
    BY <2>5, <2>6 DEF ReadIsBest
<1>7. CASE ~(raw # Unread /\ IsValid(raw))
  <2>1. ReadImage(raw, Tail(reads)) = Best
    BY <1>1, <1>5, <1>7 DEF ReadImage
  <2> QED
    BY <2>1 DEF ReadIsBest
<1> QED
  BY <1>6, <1>7

-----------------------------------------------------------------------------
(* The machine-readable zone of a document.                                *)

\* What one read of an image returns: nothing, or what is printed but for one place.
Near(line) == \E i \in 1..44 : Differ(printed, line, i)
Returned == {Unread} \cup {line \in SecondLine : Near(line)}

\* What was seen is what was printed but for the one slip.
MrzInv ==
    /\ \E f \in Documents : printed = MakeMrz(f)
    /\ \/ slip = "none" /\ seen = printed
       \/ /\ slip = "substitution"
          /\ \E i \in 1..44 : seen[i] # printed[i] /\ Differ(printed, seen, i)
       \/ /\ slip = "transposition"
          /\ \E i, k \in 1..44 : Swaps(printed, seen, i, k)
    /\ reads \in Seq(Returned)

\* The fields that a read is rebuilt from move nothing, and what is printed has no stray
\* for _clean to change.
LEMMA OcrReturns ==
    ASSUME printed \in Text(44), NEW line \in OcrLines
    PROVE  (IF line = Unread THEN Unread ELSE Reconstruct(OcrFields(line))) \in Returned
<1> SUFFICES ASSUME line # Unread
             PROVE  Reconstruct(OcrFields(line)) \in Returned
  BY DEF Returned
<1>1. PICK i \in 1..44 : line \in SecondLine /\ \A j \in 1..44 : j # i => line[j] = printed[j]
  <2>1. printed \in SecondLine
    BY PrintedType
  <2>2. CASE line = printed
    <3>1. 1 \in 1..44
      OBVIOUS
    <3> QED
      BY <2>1, <2>2, <3>1
  <2>3. CASE line # printed
    <3>1. PICK m \in Misreads : line = [printed EXCEPT ![m[1]] = m[2]]
      BY <2>3 DEF OcrLines
    <3>2. m[1] \in 1..44 /\ m[2] \in Chars
      BY MisreadAssumption
    <3> QED
      BY <2>1, <3>1, <3>2 DEF SecondLine
  <2> QED
    BY <2>2, <2>3
<1> DEFINE r == Rebuilt(line)
<1>2. Reconstruct(OcrFields(line)) = r
  BY <1>1, RebuildStep
<1>3. r \in SecondLine
  <2>1. \A j \in 1..44 : line[j] \in Chars
    BY <1>1, LineType
  <2>2. \A c \in Chars : Cleaned(c) \in Chars
    BY DEF Cleaned, Chars, Filler, Illegal
  <2> QED
    BY <2>1, <2>2 DEF Rebuilt, SecondLine
<1>4. ASSUME NEW j \in 1..44, j # i
      PROVE  r[j] = printed[j]
  <2>1. printed[j] # Illegal
    BY DEF Text, Filler, Illegal
  <2>2. line[j] = printed[j]
    BY <1>1, <1>4
  <2>3. r[j] = Cleaned(line[j]) \/ r[j] = line[j]
    BY DEF Rebuilt
  <2> QED
    BY <2>1, <2>2, <2>3 DEF Cleaned
<1>5. Differ(printed, r, i)
  BY <1>3, <1>4 DEF Differ
<1> HIDE DEF r
<1> QED
  BY <1>2, <1>3, <1>5 DEF Returned, Near

LEMMA MrzInitInv == MrzInit => MrzInv
BY DEF MrzInit, MrzInv

LEMMA MrzNextInv == MrzInv /\ [MrzNext]_mrzVars => MrzInv'
<1> SUFFICES ASSUME MrzInv, [MrzNext]_mrzVars
             PROVE  MrzInv'
  OBVIOUS
<1>1. printed \in Text(44) /\ printed \in SecondLine
  BY PrintStep, PrintedType DEF MrzInv
<1>6. ASSUME UNCHANGED <<printed, reads>>
      PROVE  (reads \in Seq(Returned))'
  BY <1>6 DEF MrzInv, Returned, Near
<1>2. ASSUME NEW i \in 1..44, NEW c \in Chars, Substitute(i, c)
      PROVE  MrzInv'
  <2>1. /\ seen' \in SecondLine /\ seen'[i] = c /\ c # printed[i]
        /\ \A j \in 1..44 : j # i => seen'[j] = printed[j]
    BY <1>1, <1>2 DEF Substitute, SecondLine
  <2>2. slip' = "substitution" /\ printed' = printed /\ reads' = reads
    BY <1>2 DEF Substitute
  <2>3. Differ(printed, seen', i)
    BY <1>1, <2>1 DEF Differ
  <2> QED
    BY <1>6, <2>1, <2>2, <2>3 DEF MrzInv
<1>3. ASSUME NEW i \in 1..43, Transpose(i)
      PROVE  MrzInv'
  <2> DEFINE k == i + 1
  <2>1. i \in 1..44 /\ k \in 1..44 /\ k # i
    OBVIOUS
  <2>2. seen' = [printed EXCEPT ![i] = printed[k], ![k] = printed[i]]
    BY <1>3 DEF Transpose
  <2>3. slip' = "transposition" /\ printed' = printed /\ reads' = reads
    BY <1>3 DEF Transpose
  <2>4. k = i + 1
    OBVIOUS
  <2> HIDE DEF k
  <2>5. /\ seen' \in Text(44) /\ seen'[i] = printed[k] /\ seen'[k] = printed[i]
        /\ \A l \in 1..44 : l # i /\ l # k => seen'[l] = printed[l]
    BY <1>1, <2>1, <2>2 DEF Text
  <2>6. Swaps(printed, seen', i, k)
    BY <1>1, <2>1, <2>4, <2>5 DEF Swaps
  <2> QED
    BY <1>6, <2>1, <2>3, <2>6 DEF MrzInv
<1>4. ASSUME NEW line \in OcrLines, ReadOne(line)
      PROVE  MrzInv'
  <2> DEFINE r == IF line = Unread THEN Unread ELSE Reconstruct(OcrFields(line))
  <2>1. r \in Returned
    BY <1>1, <1>4, OcrReturns
  <2>2. reads' = Append(reads, r) /\ UNCHANGED <<printed, seen, slip>>
    BY <1>4 DEF ReadOne
  <2> HIDE DEF r
  <2>3. reads \in Seq(Returned) /\ Append(reads, r) \in Seq(Returned)
    <3> HIDE DEF Returned
    <3> QED BY <2>1 DEF MrzInv
  <2>4. Returned' = Returned
    BY <2>2 DEF Returned, Near
  <2> QED
    BY <2>2, <2>3, <2>4 DEF MrzInv
<1>5. CASE UNCHANGED mrzVars
  BY <1>5, <1>6 DEF MrzInv, mrzVars
<1> QED
  BY <1>2, <1>3, <1>4, <1>5 DEF MrzNext

LEMMA MrzHolds == MrzSpec => []MrzInv
BY MrzInitInv, MrzNextInv, PTL DEF MrzSpec

LEMMA SeenType == MrzInv => seen \in SecondLine
<1> SUFFICES ASSUME MrzInv
             PROVE  seen \in SecondLine
  OBVIOUS
<1>1. printed \in SecondLine
  BY PrintStep, PrintedType DEF MrzInv
<1> QED
  BY <1>1, PrintedType DEF MrzInv, Differ, Swaps

\* Of every document a passport office prints, whatever its fields, the second line
\* validates, and reading it gives the fields back (mrz.py, make_mrz and validate_td3).
THEOREM PrintedRoundTrips == MrzSpec => []PrintedIsRead
<1>1. MrzInv => PrintedIsRead
  BY PrintStep DEF MrzInv, PrintedIsRead
<1> QED
  BY <1>1, MrzHolds, PTL

\* One wrong character, any for any other at any place of any document, fails a check
\* digit of mrz.py, except exactly where none covers it or where its value is the same
\* modulo 10.
THEOREM WrongCharactersAreTold == MrzSpec => []WrongCharacterIsRejected
<1>1. MrzInv => WrongCharacterIsRejected
  <2> SUFFICES ASSUME MrzInv, slip = "substitution", NEW i \in Slipped
               PROVE  IsValid(seen) <=> Undetected(i, seen[i])
    BY DEF WrongCharacterIsRejected
  <2>1. PICK k \in 1..44 : seen[k] # printed[k] /\ Differ(printed, seen, k)
    BY DEF MrzInv
  <2>2. i = k /\ i \in Nat
    BY <2>1 DEF Slipped, Differ
  <2>3. IsValid(printed)
    BY PrintStep DEF MrzInv
  <2> QED
    BY <2>1, <2>2, <2>3, SubstituteStep DEF Alike, Undetected
<1> QED
  BY <1>1, MrzHolds, PTL

\* Two neighbours of one field exchanged, in any document, pass the check digits of
\* mrz.py exactly when their values differ by a multiple of 5.
THEOREM SwappedCharactersAreTold == MrzSpec => []SwappedCharactersAreRejected
<1>1. MrzInv => SwappedCharactersAreRejected
  <2> SUFFICES ASSUME MrzInv, slip = "transposition", NEW i \in Slipped, NEW j \in Slipped,
                      i < j, FieldOf(i) # {}, FieldOf(i) = FieldOf(j)
               PROVE  IsValid(seen) <=> (ValueOf(seen[i]) - ValueOf(seen[j])) % 5 = 0
    BY DEF SwappedCharactersAreRejected
  <2>1. PICK k \in 1..44, l \in 1..44 : Swaps(printed, seen, k, l)
    BY DEF MrzInv
  <2>2. i = k /\ j = l /\ i \in Nat /\ j \in Nat
    BY <2>1 DEF Slipped, Swaps
  <2>3. IsValid(printed)
    BY PrintStep DEF MrzInv
  <2>4. Swaps(printed, seen, i, j)
    BY <2>1, <2>2
  <2>5. IsValid(seen) <=> FiveApart(seen[i], seen[j])
    BY <2>2, <2>3, <2>4, TransposeStep
  <2> QED
    BY <2>5 DEF FiveApart
<1> QED
  BY <1>1, MrzHolds, PTL

\* However many reads of an image, and whatever each of them mistook: one that is right
\* gets the passport accepted (mrz_reader.py, _choose_mrz), and nothing else is accepted
\* than what is printed, but for what no check digit tells.
THEOREM AcceptedIsPrinted == MrzSpec => []ReadIsTheDocument
<1>1. MrzInv => ReadIsTheDocument
  <2> SUFFICES ASSUME MrzInv, reads # <<>>
               PROVE  ReadIsTheDocument
    BY DEF ReadIsTheDocument
  <2> DEFINE chosen == ReadImage(Head(reads), Tail(reads))
             accepted == chosen # Unread /\ IsValid(chosen)
             Valid == {i \in DOMAIN reads : reads[i] # Unread /\ IsValid(reads[i])}
             Read == {i \in DOMAIN reads : reads[i] # Unread}
  <2>1. /\ reads \in Seq(Returned) /\ DOMAIN reads \subseteq Nat
        /\ \A i \in DOMAIN reads : reads[i] \in Returned
    BY DEF MrzInv
  <2>2. IsValid(printed) /\ printed \in SecondLine /\ printed # Unread
    BY PrintStep, PrintedType, MisreadAssumption DEF MrzInv, SecondLine
  <2>3. chosen = IF Valid # {} THEN reads[Min(Valid)]
                 ELSE IF Read # {} THEN reads[Min(Read)] ELSE Unread
    BY <2>1, BestStep DEF ReadIsBest
  <2>4. /\ Valid # {} => Min(Valid) \in Valid
        /\ Read # {} => Min(Read) \in Read
    <3>1. Valid \subseteq Nat /\ Read \subseteq Nat
      BY <2>1
    <3> HIDE DEF Valid, Read
    <3> QED BY <3>1, MinIsLeast
  <2>5. ASSUME printed \in Range(reads)
        PROVE  accepted
    <3>1. PICK n \in DOMAIN reads : reads[n] = printed
      BY <2>5 DEF Range
    <3>2. Min(Valid) \in Valid /\ chosen = reads[Min(Valid)]
      <4>1. n \in Valid
        BY <2>2, <3>1
      <4> HIDE DEF Valid, chosen
      <4> QED BY <2>3, <2>4, <4>1
    <3> HIDE DEF chosen
    <3> QED
      BY <3>2
  <2>6. ASSUME accepted, NEW i \in 1..44, chosen[i] # printed[i]
        PROVE  Undetected(i, chosen[i])
    <3>1. chosen \in Returned
      <4> HIDE DEF Valid, Read, chosen
      <4>1. \A n \in Valid \cup Read : n \in DOMAIN reads
        BY DEF Valid, Read
      <4>2. Unread \in Returned
        BY DEF Returned
      <4> QED
        BY <2>1, <2>3, <2>4, <4>1, <4>2
    <3> HIDE DEF chosen
    <3>2. PICK k \in 1..44 : Differ(printed, chosen, k)
      BY <2>6, <3>1 DEF Returned, Near
    <3>3. i = k /\ i \in Nat
      <4>1. chosen[i] # printed[i]
        BY <2>6
      <4>2. \A j \in 1..44 : j # k => chosen[j] = printed[j]
        BY <3>2 DEF Differ
      <4>3. i \in 1..44 /\ i \in Nat
        BY <2>6
      <4>4. i = k
        <5> DEFINE places == 1..44
        <5>1. \A j \in places : j # k => chosen[j] = printed[j]
          BY <4>2
        <5>2. i \in places
          BY <4>3
        <5> HIDE DEF places
        <5> QED
          BY <4>1, <5>1, <5>2, Zenon
      <4> QED
        BY <4>3, <4>4
    <3> QED
      BY <2>2, <2>6, <3>2, <3>3, SubstituteStep DEF Alike, Undetected
  <2> HIDE DEF chosen
  <2> QED
    BY <2>5, <2>6 DEF ReadIsTheDocument, chosen
<1> QED
  BY <1>1, MrzHolds, PTL

\* Rebuilding any line from the fields of the OCR (mrz_reader.py, _reconstruct_td3) moves
\* no character.
THEOREM LinesAreRebuiltInPlace == MrzSpec => []RebuiltInPlace
<1>1. MrzInv => RebuiltInPlace
  <2> SUFFICES ASSUME MrzInv
               PROVE  RebuiltInPlace
    OBVIOUS
  <2>1. Reconstruct(OcrFields(seen)) = Rebuilt(seen)
    BY SeenType, RebuildStep
  <2>2. Rebuilt(seen) = [i \in 1..44 |-> IF i - 1 \in CleanedPlaces /\ seen[i] = Illegal
                                         THEN Filler ELSE seen[i]]
    BY DEF Rebuilt, Cleaned
  <2> QED
    BY <2>1, <2>2 DEF RebuiltInPlace, CleanedPlaces
<1> QED
  BY <1>1, MrzHolds, PTL
=============================================================================
