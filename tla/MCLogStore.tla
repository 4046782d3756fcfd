----------------------------- MODULE MCLogStore -----------------------------
(* Instances of LogStore for TLC. *)
EXTENDS LogStore, TLC

CONSTANTS t1, t2

MCTasks == {t1, t2}
MCWalkers == {t1}
MCRequests == 1..2

LogOf(events) == [day |-> 1, started |-> 1, events |-> events]
Whole == LogOf(<<"request", "result">>)
Interrupted == LogOf(<<"request">>)
Torn == LogOf(<<"request", "torn">>)

\* A log is left behind and a request is new; or what retention finds is left behind.
MCLeftBehind ==
  {<<Whole, Missing>>, <<Whole, Whole>>, <<Whole, Interrupted>>, <<Torn, Whole>>}
=============================================================================
