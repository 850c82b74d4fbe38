------------------------- MODULE LivenessDetection -------------------------
(***************************************************************************)
(* The verdict on a liveness clip (app/services/liveness.py): the frames'  *)
(* features are read as a sequence of actions, and that is matched with    *)
(* the sequence of the challenge.  A feature is abstracted to the side of  *)
(* its thresholds it is on.  The nonce, its single use and its expiry are  *)
(* modelled in Verification and BiometricQueue.  The applicant's browser   *)
(* guides through the challenge with a detector of its own                 *)
(* (web/src/lib/liveness/useLiveness.ts).                                  *)
(***************************************************************************)
EXTENDS Integers, Sequences, FiniteSets, SequencesExt

CONSTANTS
    Frames,         \* the frames a client may send
    MaxFrames,      \* frames in a clip (bound)
    Requested,      \* values of the actions parameter of GET /v1/liveness/challenge
    LivenessMinScore  \* LIVENESS_MIN_SCORE, in percent

\* ear: closed, between the thresholds, or open; yaw and mar likewise.
Frame == [ear : {"closed", "between", "open"}, yaw : {"left", "middle", "right"},
          mar : {"neutral", "smile"}]

ASSUME DetectionAssumption ==
    Frames \subseteq Frame /\ Requested \subseteq Int /\ LivenessMinScore \in 0..100

VARIABLES clip    \* the frames sent so far

Actions == {"blink", "turn_left", "turn_right", "smile"}

\* issue_challenge: a shuffle of the actions, sliced [:n].  A negative n cuts from the
\* end; n = 0 leaves nothing.
Sequences(n) ==
    LET length == IF n < 0 THEN Max({0, 4 + n}) ELSE Min({n, 4})
    IN  {SubSeq(s, 1, length) : s \in {t \in [1..4 -> Actions] : IsInjective(t)}}

Challenges == UNION {Sequences(n) : n \in Requested}

-----------------------------------------------------------------------------

\* Each action is detected once.
FirstOnly(detected, a) == a \notin Range(detected)

\* not detected or detected[-1] != a
NotRepeated(detected, a) == detected = <<>> \/ Last(detected) # a

Note(detected, a, happens) ==
    IF happens /\ NotRepeated(detected, a) THEN Append(detected, a) ELSE detected

\* _detect, one frame: a blink is noted when the closed eye opens.
Observe(d, f) ==
    LET blinks == d.eyeClosed /\ f.ear = "open"
        blink == IF blinks THEN Append(d.detected, "blink") ELSE d.detected
        left == Note(blink, "turn_left", f.yaw = "left")
        right == Note(left, "turn_right", f.yaw = "right")
    IN  [eyeClosed |-> f.ear = "closed" \/ (d.eyeClosed /\ ~blinks),
         detected  |-> Note(right, "smile", f.mar = "smile")]

\* The loop of _detect after each of its frames.
Detector(frames) ==
    LET after[i \in 0..Len(frames)] ==
            IF i = 0 THEN [eyeClosed |-> FALSE, detected |-> <<>>]
            ELSE Observe(after[i - 1], frames[i])
    IN  after

Detect(frames) == Detector(frames)[Len(frames)].detected

\* Each action is looked for from the start.
MatchesAnywhere(expected, detected) == Range(expected) \subseteq Range(detected)

\* _matches_in_order: one iterator over detected; each action consumes it up to the
\* first place it is found at.
Exhausted(detected) == Len(detected) + 1

Consume(detected, at, a) ==
    Min({i \in DOMAIN detected : i > at /\ detected[i] = a} \cup {Exhausted(detected)})

Iterator(expected, detected) ==
    LET at[i \in 0..Len(expected)] ==
            IF i = 0 THEN 0 ELSE Consume(detected, at[i - 1], expected[i])
    IN  at

MatchesInOrder(expected, detected) ==
    Iterator(expected, detected)[Len(expected)] # Exhausted(detected)

\* verify_response's score, in percent.
Score(expected, detected) ==
    LET matched == Cardinality({i \in DOMAIN expected : expected[i] \in Range(detected)})
        completeness == (100 * matched) \div Len(expected)
    IN  IF MatchesInOrder(expected, detected) THEN completeness ELSE (completeness * 6) \div 10

\* verify_response of an open nonce.  The empty sequence divides by zero.
Verdict(expected, frames) ==
    LET detected == Detect(frames)
    IN  IF expected = <<>> THEN "error"
        ELSE IF /\ Score(expected, detected) >= LivenessMinScore
                /\ MatchesInOrder(expected, detected) THEN "live"
        ELSE "not_live"

\* A blink ends as soon as the eye is no longer closed.
GuideLoosely(expected, g, f) ==
    LET action == expected[g.step + 1]
        performed == CASE action = "blink"      -> g.eyeClosed /\ f.ear # "closed"
                       [] action = "turn_left"  -> f.yaw = "left"
                       [] action = "turn_right" -> f.yaw = "right"
                       [] action = "smile"      -> f.mar = "smile"
    IN  IF g.step = Len(expected) THEN g
        ELSE [step |-> IF performed THEN g.step + 1 ELSE g.step,
              eyeClosed |-> ~performed /\ (g.eyeClosed \/ (action = "blink" /\ f.ear = "closed"))]

\* detectCurrent and advance, one frame: only the action that is asked for counts, and
\* a blink must begin after it was asked for.
Guide(expected, g, f) ==
    LET action == expected[g.step + 1]
        performed == CASE action = "blink"      -> g.eyeClosed /\ f.ear = "open"
                       [] action = "turn_left"  -> f.yaw = "left"
                       [] action = "turn_right" -> f.yaw = "right"
                       [] action = "smile"      -> f.mar = "smile"
    IN  IF g.step = Len(expected) THEN g
        ELSE [step |-> IF performed THEN g.step + 1 ELSE g.step,
              eyeClosed |-> ~performed /\ (g.eyeClosed \/ (action = "blink" /\ f.ear = "closed"))]

\* The hook's state after each frame.
Guided(expected, frames) ==
    LET after[i \in 0..Len(frames)] ==
            IF i = 0 THEN [step |-> 0, eyeClosed |-> FALSE]
            ELSE Guide(expected, after[i - 1], frames[i])
    IN  after

\* The browser says "All done" and sends the frames it has seen.
GuideDone(expected, frames) == Guided(expected, frames)[Len(frames)].step = Len(expected)

-----------------------------------------------------------------------------

LivenessInit == clip = <<>>

Record(f) == Len(clip) < MaxFrames /\ clip' = Append(clip, f)

LivenessNext == \E f \in Frames : Record(f)

LivenessSpec == LivenessInit /\ [][LivenessNext]_clip

-----------------------------------------------------------------------------

\* Frame i of the clip shows the action: for a blink it is the first open eye since a
\* closed one.
Shows(i, a) ==
    CASE a = "turn_left"  -> clip[i].yaw = "left"
      [] a = "turn_right" -> clip[i].yaw = "right"
      [] a = "smile"      -> clip[i].mar = "smile"
      [] a = "blink"      ->
            /\ clip[i].ear = "open"
            /\ \E j \in 1..(i - 1) :
                   /\ clip[j].ear = "closed"
                   /\ \A k \in (j + 1)..(i - 1) : clip[k].ear # "open"

\* The actions shown by frames of the clip at increasing (or non-decreasing) places.
ShownInOrder(expected, strictly) ==
    \E at \in [DOMAIN expected -> DOMAIN clip] :
        /\ \A i \in DOMAIN expected : Shows(at[i], expected[i])
        /\ \A i, j \in DOMAIN expected :
               i < j => IF strictly THEN at[i] < at[j] ELSE at[i] <= at[j]

\* Whoever performs the challenge is live, whatever else the clip shows in between
\* and however long each action lasts: suppressing repeated detections
\* (liveness.py:97-102) hides none that the order needs.
PerformedIsLive ==
    \A expected \in Challenges \ {<<>>} :
        ShownInOrder(expected, TRUE) => Verdict(expected, clip) = "live"

\* "detected actions [...] match the issued sequence, in order" (liveness.py:13-14):
\* a live clip shows the actions in that order, several of them in one frame at most.
\* The score threshold adds nothing to it.
LiveIsPerformed ==
    \A expected \in Challenges \ {<<>>} :
        Verdict(expected, clip) = "live" => ShownInOrder(expected, FALSE)

\* "the on-device guidance matches how the server will score the timeline"
\* (faceLandmarker.ts:10-11): whoever is told "All done" is live for the server,
\* although the two read the frames by different rules.
GuidedIsLive ==
    \A expected \in Challenges \ {<<>>} :
        GuideDone(expected, clip) => Verdict(expected, clip) = "live"
=============================================================================
