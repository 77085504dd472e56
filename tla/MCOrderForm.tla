---------------------------- MODULE MCOrderForm -----------------------------
\* Instances of OrderForm: two weeks with a Monday and two Thursday holidays
\* and an early close on the first Friday; the operator trades on the first
\* Thursday's pre-market and around the open and the close of that Friday.
EXTENDS OrderForm

MCCalendars == {[holidays |-> {1, 4, 11}, earlies |-> {5}]}

MCDeskHours == {4 * Day + PreOpen, 5 * Day,
                5 * Day + RthOpen, 5 * Day + EarlyClose}
=============================================================================
