-------------------------------- MODULE Chart --------------------------------
(***************************************************************************)
(* The time axis of the stats page (bucketSeries, pickBucketWidth in       *)
(* stats.go): how wide a bar is, given the span between the first and the  *)
(* last request, and which bar a request falls into.                       *)
(***************************************************************************)
EXTENDS Integers, Sequences

CONSTANTS Ladder,   \* bucket widths to choose from, narrow ones first; the
                    \* last one is a day
          MaxBars   \* how many bars fit the chart (96)

ASSUME ChartAssumption ==
    /\ Ladder \in Seq(Nat \ {0}) /\ Ladder # <<>>
    /\ MaxBars \in Nat \ {0}

Day == Ladder[Len(Ladder)]

\* (mutant) A rung fits although its last bar is one too many.
FitsTightly(span, width) == span \div width <= MaxBars

Fits(span, width) == span \div width < MaxBars

\* More days than the chart has bars: several days for each bar.
SeveralDays(span) == ((span \div Day) \div MaxBars + 1) * Day

\* pickBucketWidth: the first rung that fits.
IsWidth(span, width) ==
    \/ \E i \in DOMAIN Ladder :
          /\ width = Ladder[i] /\ Fits(span, width)
          /\ \A j \in 1..(i - 1) : ~Fits(span, Ladder[j])
    \/ /\ \A i \in DOMAIN Ladder : ~Fits(span, Ladder[i])
       /\ width = SeveralDays(span)

PickWidth(span) ==
    LET rungs == {Ladder[i] : i \in DOMAIN Ladder} \cup {SeveralDays(span)}
    IN  CHOOSE width \in rungs : IsWidth(span, width)

NumBars(span, width) == span \div width + 1

\* The bar of a request that started `since` after the first one, counted
\* from 0.  The code clamps it to the bars there are.
Clamped(index, count) ==
    IF index < 0 THEN 0 ELSE IF index >= count THEN count - 1 ELSE index

BarOf(since, span, width) ==
    Clamped(since \div width, NumBars(span, width))
=============================================================================
