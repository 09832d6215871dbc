------------------------------ MODULE PointInTime ------------------------------
(***************************************************************************)
(* How bars become rows to learn from (quant/research/pipeline/dataset.py),*)
(* while the bars of one symbol keep arriving: resampling, features at a   *)
(* finer frequency than the decisions, labels, weights, and the synthetic  *)
(* timeline that lays the symbols one after the other.                     *)
(***************************************************************************)
EXTENDS Labelling

CONSTANTS
    Configs,    \* [decision, fine, mode]: bar lengths in slots, holding mode
    Histories,  \* bars the archive may hold to begin with
    Shapes,     \* [high, low, close, volume] of a bar against the last close
    MaxSlots,   \* bound: slots of the archive
    Missing,    \* bound: slots without a trade
    Peers,      \* symbol -> its bars, complete
    Symbols,    \* all symbols, sorted
    Symbol,     \* the one whose bars arrive
    Gap         \* between two symbols on the pooled timeline

ASSUME PoolAssumption == Gap > 0 /\ Symbol \notin DOMAIN Peers

\* A bar as the archive returns it, which returns them in the order of time.
Traded == [t : Nat, high : Int, low : Int, close : Int, volume : Nat]

ASSUME ArchiveAssumption ==
    /\ Configs \subseteq [decision : Nat \ {0}, fine : Nat \ {0}, mode : {"mis", "cnc"}]
    /\ \A h \in Histories : /\ h \in Seq(Traded) /\ h # << >>
                            /\ \A i, j \in DOMAIN h : i < j => h[i].t < h[j].t
    /\ Shapes \subseteq [high : Int, low : Int, close : Int, volume : Nat]

VARIABLES config, bars,
          rows,   \* what build_symbol_dataset makes of the bars
          pool    \* what build_pooled_dataset makes of all symbols

rowVars == <<config, bars, rows, pool>>

Frame(b, c)     == Resample(b, c.decision)
FineFrame(b, c) == Resample(b, c.fine)

\* A slip the runs must notice: the fine bar that opens the next decision bar.
NextFineBar(c) == c.decision

\* The last fine bar of a decision bar.
LastFineBar(c) == c.decision - c.fine

\* _feature_frames and _align_fine_to_decision: no such fine bar, no features.
Features(b, c, t) ==
    LET frame == FineFrame(b, c)
        last == {k \in DOMAIN frame : frame[k].t = t + LastFineBar(c)}
    IN  {FeatureRow(frame, k) : k \in last}

\* The rows whose features are all there.
Valid(b, c, labels) ==
    {l \in labels : \E row \in Features(b, c, Frame(b, c)[l.at].t) : IsComplete(row)}

\* The labels among which overlaps are counted.
Weighed(b, c) == Valid(b, c, Labels(Frame(b, c), c.mode))

\* build_symbol_dataset
Dataset(b, c) ==
    LET frame == Frame(b, c)
    IN  {[t0 |-> frame[l.at].t, t1 |-> frame[l.exit].t, long |-> l.label > 0,
          barrier |-> l.barrier, size |-> l.size,
          features |-> CHOOSE row \in Features(b, c, frame[l.at].t) : TRUE,
          weight |-> [total |-> Uniqueness(Weighed(b, c), l),
                      bars |-> l.exit - l.at + 1]]
           : l \in Valid(b, c, Labels(frame, c.mode))}

Entries(R) == {r.t0 : r \in R}
Exits(R)   == {r.t1 : r \in R}

\* Where a symbol ends on the timeline.
LastExit(R) == Max(Exits(R))

\* pool_datasets: a symbol follows the one before it; one without rows is left out.
Follow(laid, R) ==
    LET offset == IF laid = << >> THEN 0
                  ELSE LastExit(Last(laid)) + Gap - Min(Entries(R))
    IN  IF R = {} THEN laid
        ELSE Append(laid, {[r EXCEPT !.t0 = @ + offset, !.t1 = @ + offset] : r \in R})

\* build_pooled_dataset: the symbols in order, with the rows of the one whose
\* bars arrive; << >> when none has rows, where the code raises PipelineError.
Pool(R, c) ==
    LET Lay(laid, s) ==
            Follow(laid, IF s = Symbol THEN R ELSE Dataset(Peers[s], c))
    IN  FoldLeft(Lay, << >>, Symbols)

------------------------------------------------------------------------------
(* Bars arrive.                                                            *)

RowsInit ==
    /\ config \in Configs /\ bars \in Histories
    /\ rows = Dataset(bars, config) /\ pool = Pool(rows, config)

Arrive ==
    LET last == Last(bars)
    IN  \E shape \in Shapes, wait \in {1, 2} :
          /\ last.t + wait < MaxSlots
          /\ last.t + wait - Len(bars) <= Missing
          /\ bars' = Append(bars, [t |-> last.t + wait,
                                   high |-> last.close + shape.high,
                                   low |-> last.close + shape.low,
                                   close |-> last.close + shape.close,
                                   volume |-> shape.volume])
          /\ rows' = Dataset(bars', config) /\ pool' = Pool(rows', config)
          /\ UNCHANGED config

RowsNext == Arrive

RowsSpec == RowsInit /\ [][RowsNext]_rowVars

------------------------------------------------------------------------------
(* Properties.                                                             *)

\* What is learnt from could have been known: the features of every row are
\* those that the bars traded by the close of its decision bar give, although
\* the batch computes them from everything that came after, at another bar
\* length and joined by time.
LiveIsBatch ==
    \A r \in rows :
        LET traded == Pick(bars, {i \in DOMAIN bars : bars[i].t < r.t0 + config.decision})
        IN  r.features = FeaturesAsOf(FineFrame(traded, config),
                                      r.t0 + config.decision)

\* Rows whose trade is over; the last bar may still grow, and so may an overlap.
Settled(R, last) ==
    {<<r.t0, r.t1, r.long, r.barrier, r.size, r.features>> :
        r \in {r \in R : r.t1 < last}}
Now(b, c) == Last(Frame(b, c)).t

\* The past is not rewritten: no bar that arrives later changes, drops or adds
\* to a row whose trade ended before the last bar.
PastIsFixed ==
    [][LET was == Settled(rows, Now(bars, config))
           is  == Settled(rows', Now(bars', config))
       IN  was \subseteq is /\ \A r \in is \ was : r[2] >= Now(bars, config)]_rowVars

\* A win never hides a stop: on the way to the bar where a label or a bet takes
\* its profit, that bar included, no bar reached the stop; and where an intraday
\* position is closed, its session is not over.
StopIsNotHidden ==
    LET f == Frame(bars, config)
        Stopped(l, side) == \E i \in (l.at + 1) .. l.exit :
            IF side > 0 THEN HitsLow(f, l.at, i, Lower)
                        ELSE HitsHigh(f, l.at, i, Lower)
    IN  /\ \A l \in Labels(f, config.mode) : l.barrier = "upper" => ~ Stopped(l, 1)
        /\ \A l \in MetaLabels(f, config.mode) :
              l.barrier = "profit" => ~ Stopped(l, l.side)
        /\ config.mode = "mis" =>
              \A l \in Labels(f, config.mode) \cup MetaLabels(f, config.mode) :
                 Day(f[l.at].t) = Day(f[l.exit].t)

===============================================================================
