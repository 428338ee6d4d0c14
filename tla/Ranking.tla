------------------------------- MODULE Ranking ------------------------------
(***************************************************************************)
(* How the text of a run's logs is ranked against the rules of             *)
(* internal/analysis/diagnosis.go.  A text is the sequence of its lines,   *)
(* and a line the set of its matches: what pattern of what category is     *)
(* found in it, for the first time, the second and so on; category "none"  *)
(* is other text, so a blank line has no match.  A match is of the line    *)
(* that it begins in.  Confidence is in hundredths.                        *)
(***************************************************************************)
EXTENDS Integers, SequencesExt, FiniteSetsExt

\* diagnosisRules, in their order.
Rules ==
  <<"test_failure", "dependency_outage", "infra_timeout", "config_error", "compilation_error">>
Patterns == 1 .. 5

Categories == ToSet(Rules) \cup {"unknown"}

MatchSpace == [category : ToSet(Rules) \cup {"none"}, pattern : Patterns, nth : Nat \ {0}]
LineSpace  == {line \in SUBSET MatchSpace : IsFiniteSet(line)}

AtMost(n, s) == SubSeq(s, 1, IF Len(s) < n THEN Len(s) ELSE n)

\* The elements of a finite set in order: before[x] is the set of those before x.
InOrder(before) ==
  [n \in 1 .. Cardinality(DOMAIN before) |->
     CHOOSE x \in DOMAIN before : Cardinality(before[x]) = n - 1]

\* The matches of a rule's patterns, each with its line.
MatchesOf(text, category) ==
  UNION {{i} \X {m \in text[i] : m.category = category} : i \in DOMAIN text}

Score(text, category) == Cardinality(MatchesOf(text, category))

\* The lines that a pattern is found in, with the pattern.
FoundBy(text, category) ==
  {<<match[2].pattern, match[1]>> : match \in MatchesOf(text, category)}

FoundBefore(a, b) == a[1] < b[1] \/ (a[1] = b[1] /\ a[2] < b[2])

\* The evidence of a rule is of three lines at most: those that its first pattern is
\* found in, as extractEvidence lists them, then those of the next.  A line that two
\* patterns are found in is there twice.
Evidence(text, category) ==
  LET all   == FoundBy(text, category)
      found == AtMost(3, InOrder([a \in all |-> {b \in all : FoundBefore(b, a)}]))
  IN  [n \in DOMAIN found |-> found[n][2]]

\* Mutant: the weights of a match and of a line of evidence are swapped.
ScoreToConfidenceSwapped(score, evidence, impacted) ==
  LET confidence == 45 + 4 * score + 8 * evidence + (IF impacted # {} THEN 3 ELSE 0)
  IN  IF confidence > 97 THEN 97 ELSE confidence

ScoreToConfidence(score, evidence, impacted) ==
  LET confidence == 45 + 8 * score + 4 * evidence + (IF impacted # {} THEN 3 ELSE 0)
  IN  IF confidence > 97 THEN 97 ELSE confidence

\* A RankedDiagnosis: the rule of a category, applied to a text.
Diagnosed(text, category, impacted) ==
  LET score    == Score(text, category)
      evidence == Evidence(text, category)
  IN  [category |-> category, score |-> score, evidence |-> evidence,
       confidence |-> ScoreToConfidence(score, Len(evidence), impacted)]

\* No rule applies: the evidence is the list of jobs and the head of the text, if
\* there are any and the text is not blank, neither of them a line that was matched.
Unknown(text, impacted) ==
  [category |-> "unknown", score |-> 0, evidence |-> <<>>,
   confidence |-> IF (\A i \in DOMAIN text : text[i] = {}) /\ impacted = {} THEN 25 ELSE 40]

\* The comparison of the sort: by score, then evidence, then confidence.
RankedBefore(a, b) ==
  \/ a.score > b.score
  \/ a.score = b.score /\ Len(a.evidence) > Len(b.evidence)
  \/ a.score = b.score /\ Len(a.evidence) = Len(b.evidence) /\ a.confidence > b.confidence

\* The sort is stable: rules that tie stay in their order.
RankFailureDiagnoses(text, impacted) ==
  LET matched     == {r \in DOMAIN Rules : Score(text, Rules[r]) > 0}
      ranked(r)   == Diagnosed(text, Rules[r], impacted)
      ahead(r, s) == \/ RankedBefore(ranked(r), ranked(s))
                     \/ ~RankedBefore(ranked(s), ranked(r)) /\ r < s
      order       == InOrder([r \in matched |-> {s \in matched : ahead(s, r)}])
  IN  IF matched = {} THEN <<Unknown(text, impacted)>>
      ELSE [n \in DOMAIN order |-> ranked(order[n])]

\* The diagnosis is the first of the ranking, with the jobs that it impacts.
DiagnoseFailure(text, impacted) ==
  [diagnosis |-> RankFailureDiagnoses(text, impacted)[1], impacted |-> impacted]
=============================================================================
