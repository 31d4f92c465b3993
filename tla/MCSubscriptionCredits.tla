----------------------- MODULE MCSubscriptionCredits -----------------------
(***************************************************************************)
(* Monthly offers of two sizes and an annual one.                          *)
(***************************************************************************)
EXTENDS SubscriptionCredits

CONSTANTS cron, w1, w2

Monthly(n) == [yearly |-> FALSE, credits |-> n]

Yearly(n) == [yearly |-> TRUE, credits |-> n]

StartSmall == {Monthly(3)}

StartAny == {Yearly(3), Monthly(3)}

MonthlyAndYearly == {Monthly(3), Monthly(6), Yearly(6)}

YearlyAndMonthly == {Yearly(3), Yearly(6), Monthly(3)}
=============================================================================
