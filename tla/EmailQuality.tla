---------------------------- MODULE EmailQuality ---------------------------
(***************************************************************************)
(* emailquality/quality.go: the score of a mail.  A mail is what the       *)
(* patterns of quality.go find in it, its texts are their numbers of words *)
(* (a text of none is missing), and a score is in hundredths.              *)
(***************************************************************************)
EXTENDS Integers, FiniteSets

CONSTANT HalvesUp  \* the scores that end in a half tenth and are rounded up:
                   \* in the double arithmetic of add, in its order, the sum
                   \* comes out below the half for all the others

ASSUME QualityAssumption == HalvesUp \subseteq {v \in 0 .. 1000 : v % 10 = 5}

Elements == {"script", "flex", "grid", "fixed", "svg"}
Links == {"javascript", "broken", "http"}

Mail == [htmlWords : Nat, html : BOOLEAN, plainWords : Nat,
         elements : SUBSET Elements, images : Nat, altless : Nat,
         links : SUBSET Links, preheader : BOOLEAN, width : Nat,
         media : BOOLEAN, marketing : BOOLEAN, unsubscribe : BOOLEAN,
         spam : Nat, loud : BOOLEAN]
-----------------------------------------------------------------------------
(* What add records: its map of seen hints makes the hints a set. *)
Found(condition, severity, what) ==
  IF condition THEN {[severity |-> severity, what |-> what]} ELSE {}

ScoreUnsafe(m) == Found("script" \in m.elements, "critical", "unsafe")

ScoreCompatibility(m) ==
  UNION {Found(TRUE, "warning", e) : e \in m.elements \ {"script"}}

ScoreImages(m) ==
  LET words == IF m.plainWords > 0 THEN m.plainWords ELSE m.htmlWords
      only == m.images > 0 /\ words < 12
  IN  Found(m.altless > 0, "warning", "alt")
        \cup Found(only, "critical", "image-only")
        \cup Found(~only /\ m.images >= 5 /\ words < 18 * m.images,
                   "warning", "image-heavy")

ScoreLinks(m) ==
  Found("javascript" \in m.links, "critical", "javascript")
    \cup Found("broken" \in m.links, "warning", "broken")
    \cup Found("http" \in m.links, "warning", "http")

ScorePreheader(m) ==
  Found(~m.preheader, "warning", "preheader")
    \cup Found(m.preheader /\ m.htmlWords < 8, "info", "short")

ScoreMobile(m) == Found(m.width > 640 /\ ~m.media, "warning", "mobile")

ScoreMarketing(m) ==
  Found(m.marketing /\ ~m.unsubscribe, "critical", "unsubscribe")

ScoreSpam(m) ==
  Found(m.spam >= 3, "warning", "spam")
    \cup Found(m.spam \in 1 .. 2, "info", "promotional")
    \cup Found(m.loud, "warning", "punctuation")

Findings(m) ==
  ScoreMarketing(m) \cup ScoreSpam(m)
    \cup Found(~m.html /\ m.plainWords = 0, "critical", "empty")
    \cup (IF ~m.html THEN {}
          ELSE ScoreUnsafe(m) \cup ScoreCompatibility(m) \cup ScoreImages(m)
                 \cup ScoreLinks(m) \cup ScorePreheader(m) \cup ScoreMobile(m)
                 \cup Found(m.plainWords = 0, "warning", "fallback"))

HowMany(findings, severity) ==
  Cardinality({f \in findings : f.severity = severity})

(* A bug to catch: what a hint and a warning cost is exchanged. *)
DeductExchanged(criticals, warnings, infos) ==
  1000 - 220 * criticals - 25 * warnings - 90 * infos

(* add: what the findings cost. *)
Deduct(criticals, warnings, infos) ==
  1000 - 220 * criticals - 90 * warnings - 25 * infos

(* clampFloat to 0..10, and round1 to tenths. *)
Rounded(score) ==
  LET clamped == IF score < 0 THEN 0 ELSE score
  IN  10 * ((clamped + (IF clamped % 10 = 5 /\ clamped \notin HalvesUp
                        THEN 0 ELSE 5)) \div 10)

ScoreOf(findings) ==
  Rounded(Deduct(HowMany(findings, "critical"), HowMany(findings, "warning"),
                 HowMany(findings, "info")))

RagStatus(score) ==
  IF score >= 800 THEN "Green" ELSE IF score >= 500 THEN "Amber" ELSE "Red"

SummaryFor(status, criticals, hints) ==
  IF status = "Green" /\ criticals = 0 THEN "fine"
  ELSE IF criticals > 0 THEN "critical"
  ELSE IF status = "Amber" THEN "usable"
  ELSE IF hints > 0 THEN "several"
  ELSE "fine"

(* Score *)
Score(m) ==
  LET found == Findings(m)
      criticals == HowMany(found, "critical")
      status == RagStatus(ScoreOf(found))
  IN  [score |-> ScoreOf(found), status |-> status,
       summary |-> SummaryFor(status, criticals, Cardinality(found) - criticals)]
-----------------------------------------------------------------------------
(* A mail with one thing put right.  A plain text counts only when it says *)
(* no less than the HTML: a shorter one is what images are measured by.    *)
Repairs(m) ==
  {[m EXCEPT !.elements = @ \ {e}] : e \in m.elements}
    \cup {[m EXCEPT !.links = @ \ {l}] : l \in m.links}
    \cup {[m EXCEPT !.altless = 0], [m EXCEPT !.preheader = TRUE],
          [m EXCEPT !.media = TRUE], [m EXCEPT !.unsubscribe = TRUE],
          [m EXCEPT !.loud = FALSE], [m EXCEPT !.htmlWords = @ + 1],
          [m EXCEPT !.spam = IF @ = 0 THEN 0 ELSE @ - 1],
          [m EXCEPT !.plainWords = IF @ = 0 THEN m.htmlWords ELSE @ + 1]}

(* The grade is just: a mail that is called fine or Green has no critical  *)
(* issue and at most two warnings, one called fine is Green, Red is more   *)
(* than two critical issues or many warnings, and putting one thing right  *)
(* never lowers the score, at any threshold, clamp or rounding             *)
(* (quality.go:42-124, 144-192, 231-321, 372-384).                         *)
GradeIsJust(m) ==
  LET found == Findings(m)
      criticals == HowMany(found, "critical")
      warnings == HowMany(found, "warning")
      grade == Score(m)
  IN  /\ grade.status = "Green" => criticals = 0 /\ warnings <= 2
      /\ grade.summary = "fine" <=> grade.status = "Green"
      /\ grade.status = "Red" => 2 * criticals + warnings >= 5
      /\ \A better \in Repairs(m) : Score(better).score >= grade.score
=============================================================================
