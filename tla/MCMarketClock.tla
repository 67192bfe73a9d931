---------------------------- MODULE MCMarketClock ----------------------------
(* The clocks that TLC checks: Seoul, and New York at the weekends on which  *)
(* daylight saving begins and ends there, with the schedules of the code.    *)
EXTENDS MarketClock

At(hours, minutes, session) == [at |-> hours * Hour + minutes \div 10, session |-> session]

Domestic ==
  {At(8, 30, "PRE"), At(9, 0, "REG"), At(15, 30, "CLOSED"), At(15, 40, "AFT"), At(18, 0, "CLOSED")}
Overseas ==
  {At(4, 0, "PRE"), At(9, 30, "REG"), At(16, 0, "AFT"), At(20, 0, "CLOSED")}

(* Sunday, 2 in the morning of New York. *)
Zone(before, after) ==
  [before |-> before * Hour, after |-> after * Hour, shift |-> 2 * Day + (2 - before) * Hour]

MCMarkets ==
  {[schedule |-> Domestic, zone |-> Zone(9, 9)],
   [schedule |-> Overseas, zone |-> Zone(-5, -4)],
   [schedule |-> Overseas, zone |-> Zone(-4, -5)]}

(* Friday to Tuesday; jumps over boundaries, days and the weekend. *)
MCLastTime == 5 * Day
MCJumps == {55, Day + 3, 2 * Day + 50, 3 * Day + 60, 4 * Day + 40}
=============================================================================
