--------------------------- MODULE EngineerPacket ---------------------------
(***************************************************************************)
(* What the agent hands to an engineer (agent/engineer_packet_writer.cpp): *)
(* the attempts in order, the ones it rules out, and the hypotheses ranked *)
(* by the rows that support or contradict them.                            *)
(*                                                                         *)
(* An attempt is [sequence, run, knob, result]; a row has a hypothesis, a  *)
(* result and the run that is its evidence; an item of evidence has a run  *)
(* and the base it was compared with.                                      *)
(***************************************************************************)
EXTENDS StopConditions

NoRun == 0

\* By sequence, then by run; the order of equal ones matters to nobody.
Earlier(attempts, i, j) ==
  LET a == attempts[i]
      b == attempts[j]
  IN  \/ a.sequence < b.sequence
      \/ a.sequence = b.sequence /\ a.run < b.run
      \/ a.sequence = b.sequence /\ a.run = b.run /\ i < j

SortedAttempts(attempts) ==
  LET places == DOMAIN attempts
      order == Arranged(places, {p \in places \X places : Earlier(attempts, p[1], p[2])})
  IN  [i \in places |-> attempts[order[i]]]

\* BuildEvidenceMap: of several items about a run the last one counts.
EvidenceMap(evidence) ==
  [ r \in {item.run : item \in Rows(evidence)} \ {NoRun} |->
      evidence[CHOOSE i \in DOMAIN evidence :
                 /\ evidence[i].run = r
                 /\ \A j \in DOMAIN evidence : evidence[j].run = r => j <= i] ]

\* WriteRuledOut
RuledOut(attempts) ==
  LET tried == SortedAttempts(attempts)
  IN  Kept(tried, {i \in DOMAIN tried : tried[i].result = "pass"})

-----------------------------------------------------------------------------
CountOf(table, h, r) ==
  Cardinality({i \in DOMAIN table : table[i].hypothesis = h /\ table[i].result = r})

Rank(table, h) ==
  LET support == CountOf(table, h, "fail")
      contradiction == CountOf(table, h, "pass")
  IN  [hypothesis |-> h, score |-> 2 * support - 2 * contradiction, support |-> support,
       contradiction |-> contradiction]

\* Broken form: equal scores are ordered by name alone.
ScoreOnly(a, b) ==
  a.score > b.score \/ (a.score = b.score /\ NamePosition(a.hypothesis) < NamePosition(b.hypothesis))

\* The order of RankHypotheses: score, support, contradictions, name.
Above(a, b) ==
  \/ a.score > b.score
  \/ a.score = b.score /\ a.support > b.support
  \/ a.score = b.score /\ a.support = b.support /\ a.contradiction < b.contradiction
  \/ /\ a.score = b.score /\ a.support = b.support /\ a.contradiction = b.contradiction
     /\ NamePosition(a.hypothesis) < NamePosition(b.hypothesis)

\* RankHypotheses; rows of an unknown hypothesis are left out.
Ranked(hypotheses, table) ==
  LET ranks == {Rank(table, h) : h \in hypotheses}
  IN  Arranged(ranks, {p \in ranks \X ranks : Above(p[1], p[2])})

\* The runs WriteRankedHypotheses cites for h, each once, by its first row.
Cited(table, h) ==
  {row.run : row \in {row \in Rows(table) : row.hypothesis = h}} \ {NoRun}

\* WriteEngineerPacketMarkdown: no packet without an attempt.
Packet(hypotheses, table, attempts, evidence) ==
  [ tried |-> SortedAttempts(attempts),
    ruledOut |-> RuledOut(attempts),
    ranked |-> Ranked(hypotheses, table),
    linked |-> [h \in hypotheses |-> Cited(table, h) \cap DOMAIN EvidenceMap(evidence)] ]
=============================================================================
