---------------------------- MODULE MCDailyPipeline ----------------------------
(***************************************************************************)
(* A symbol whose daily moves and broken prints are chosen, beside one of  *)
(* its sector and one of another, over nine sessions with weekends and a   *)
(* holiday between them.  The archive holds two bars of each day.          *)
(***************************************************************************)
EXTENDS DailyPipeline

TradingDays == <<0, 1, 4, 5, 6, 7, 8, 11, 13>>

Bar(t, h, l, c) ==
    [t |-> t, high |-> h, low |-> l, close |-> c, volume |-> 1, positive |-> TRUE]

\* Closes by session, from the moves between them.
Closes(moves) ==
    LET Add(closes, move) == Append(closes, Last(closes) + move)
    IN  FoldLeft(Add, <<40>>, moves)

Daily(moves) ==
    LET c == Closes(moves)
    IN  [k \in DOMAIN c |-> Bar(DaySlots * TradingDays[k], c[k] + 1, c[k] - 1, c[k])]

\* Two bars a day, and on one day two prints in their place.
Intraday(moves, print) ==
    LET c == Closes(moves)
        day(k) == DaySlots * TradingDays[k]
        Halves(k) == <<Bar(day(k), c[k] + 1, c[k] - 1, c[k]),
                       Bar(day(k) + 1, c[k], c[k], c[k])>>
        Twice(k) == <<[print EXCEPT !.t = day(k)], [print EXCEPT !.t = day(k) + 1]>>
        With(k) == IF k = 6 THEN Twice(k) ELSE Halves(k)
    IN  FoldLeft(LAMBDA all, k : all \o With(k), << >>, [k \in DOMAIN c |-> k])

Prints == {Bar(0, 40, 40, 40), Bar(0, 90, 90, 90), [Bar(0, 40, 40, 40) EXCEPT !.positive = FALSE],
           Bar(0, 40, 41, 40)}

Steady == <<2, -2, 2, 1, -2, 2, -3, 2>>
Other  == <<-1, 2, 2, -2, 2, -2, 2, 1>>

MCUniverse == <<"a", "b", "c">>
MCSectorOf == [s \in {"a", "b", "c"} |-> IF s = "c" THEN 2 ELSE 1]

SourceOf(moves, print, b, third) ==
    [validated |-> [a |-> Intraday(moves, print), b |-> b, c |-> third],
     yfinance  |-> [a |-> Daily(moves), b |-> Daily(Other), c |-> << >>]]

\* All moves of the middle week with a fine feed; some with the other prints, one
\* whose average never moves, and one with bars of a single symbol.
Swinging == <<2, -2, 2, -2, 2, -2, 2, -2>>
Around(middle) == <<2, -2>> \o middle \o <<-2, 2>>
Fine == Bar(0, 40, 40, 40)
Weeks == [1 .. 4 -> {-2, 2, 3}]
Second == Intraday(Steady, Fine)

MCSources ==
    {SourceOf(Around(m), Fine, Second, Daily(Other)) : m \in Weeks}
      \cup {SourceOf(Around(m), print, Second, << >>) :
               m \in {m \in Weeks : m[1] = m[2] /\ m[3] = m[4]}, print \in Prints}
      \cup {SourceOf(Swinging, Fine, Second, << >>)}
      \cup {SourceOf(Around(m), Fine, << >>, << >>) : m \in {m \in Weeks : \A k \in 1 .. 4 : m[k] = 2}}

MCArmLists == {<<"validated">>, <<"yfinance">>, <<"validated", "yfinance">>}
\* The first leaves less than half of a column, and of a short one too little to test.
MCOrders == <<<<5, -1, -1, -1, -1, -1>>, <<1>>, <<1, -1>>>>
MCFallback == <<2, -1>>
===============================================================================
