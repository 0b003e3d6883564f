--------------------------- MODULE MetricsHistory ---------------------------
(***************************************************************************)
(* GET /metrics/history over the samples of one metric that the flushes    *)
(* have written, in any order of their times: the newest MaxPoints         *)
(* samples, or the newest MaxPoints buckets of a fixed width, oldest first.*)
(*                                                                         *)
(* Sample i has the value i. Raw resolution is the width 0.                *)
(***************************************************************************)
EXTENDS Naturals, Sequences, FiniteSetsExt

CONSTANTS
  Samples,    \* samples that may be written: 1..Samples
  LastTime,   \* bound on recordedAt
  Widths,     \* widths a query may ask for: 0, or BUCKET_SECONDS
  MaxPoints   \* MAX_POINTS

Never == LastTime + 1

ASSUME HistoryAssumption ==
  /\ Samples \in Nat /\ LastTime \in Nat /\ MaxPoints \in Nat \ {0}
  /\ Widths \subseteq Nat

VARIABLES
  recordedAt,  \* [1..Samples -> its time, or Never while it is not written]
  answer       \* points of the last query and what it asked, or NoAnswer

historyVars == <<recordedAt, answer>>

NoAnswer == [points |-> <<>>]

HistoryInit ==
  /\ recordedAt = [i \in 1..Samples |-> Never]
  /\ answer = NoAnswer

\* WHERE "recordedAt" >= from AND "recordedAt" <= to.
InWindow(from, to) ==
  {i \in 1..Samples : recordedAt[i] >= from /\ recordedAt[i] <= to}

\* Where the point of a sample starts.
PointOf(i, width) ==
  IF width = 0 THEN recordedAt[i] ELSE (recordedAt[i] \div width) * width

\* What the SELECT returns for one sample, and for a group of them.
Sample(i) == [start |-> recordedAt[i], count |-> 1, sum |-> i]
Bucket(start, of) == [start |-> start, count |-> Cardinality(of), sum |-> SumSet(of)]

SamplesAt(start, window, width) == {i \in window : PointOf(i, width) = start}

\* One row per sample, or GROUP BY bucket_start.
Grouped(window, width) ==
  IF width = 0
  THEN {Sample(i) : i \in window}
  ELSE {Bucket(start, SamplesAt(start, window, width)) :
          start \in {PointOf(i, width) : i \in window}}

\* ORDER BY ... DESC: rows of the same time come in any order.
Descending(points) ==
  {rows \in Bijection(1..Cardinality(points), points) :
     \A m, n \in DOMAIN rows : m < n => rows[m].start >= rows[n].start}

Kept(rows) == IF Len(rows) <= MaxPoints THEN Len(rows) ELSE MaxPoints

\* Seeded fault: ORDER BY ... ASC before the LIMIT keeps the oldest.
Oldest(rows) == [n \in 1..Kept(rows) |-> rows[Len(rows) + 1 - n]]

\* LIMIT MAX_POINTS, turned round for the response.
Newest(rows) == [n \in 1..Kept(rows) |-> rows[Kept(rows) + 1 - n]]

\* A flush writes a sample.
Write(i, time) ==
  /\ recordedAt[i] = Never
  /\ recordedAt' = [recordedAt EXCEPT ![i] = time]
  /\ answer' = NoAnswer

AnswerQuery(from, to, width) ==
  /\ answer = NoAnswer
  /\ \E rows \in Descending(Grouped(InWindow(from, to), width)) :
       answer' = [points |-> Newest(rows), from |-> from, to |-> to, width |-> width]
  /\ UNCHANGED recordedAt

HistoryNext ==
  \/ \E i \in 1..Samples, time \in 0..LastTime : Write(i, time)
  \/ \E from, to \in 0..LastTime, width \in Widths : AnswerQuery(from, to, width)

HistorySpec == HistoryInit /\ [][HistoryNext]_historyVars

HistoryTypeOK == recordedAt \in [1..Samples -> 0..Never]

\* The answer is in order of time and no longer than MAX_POINTS. Each point is
\* a sample of the window, or all those of a bucket; none is counted twice, and
\* one is left out only where MAX_POINTS points as new as it are in (queryRaw,
\* queryBucketed).
HistoryNewest ==
  answer # NoAnswer =>
    LET P == answer.points
        raw == answer.width = 0
        window == InWindow(answer.from, answer.to)
        at(n) == SamplesAt(P[n].start, window, answer.width)
        counted(n) == IF raw THEN {P[n].sum} ELSE at(n)
    IN /\ Len(P) <= MaxPoints
       /\ \A m, n \in DOMAIN P :
            m < n => P[m].start <= P[n].start /\ counted(m) \cap counted(n) = {}
       /\ \A n \in DOMAIN P :
            /\ counted(n) # {} /\ counted(n) \subseteq at(n)
            /\ P[n] = IF raw THEN Sample(P[n].sum) ELSE Bucket(P[n].start, at(n))
       /\ \A i \in window :
            \/ \E n \in DOMAIN P : i \in counted(n)
            \/ /\ Len(P) = MaxPoints
               /\ \A n \in DOMAIN P : P[n].start >= PointOf(i, answer.width)

=============================================================================
