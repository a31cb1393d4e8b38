------------------------------- MODULE MCSched -------------------------------
(* Both schedulers on three threads and three priorities.                  *)
EXTENDS Mlfqs

(* timer_sleep takes a negative argument too, as the alarm-negative test   *)
(* does; it is over at the next tick.                                      *)
MCSleepTicks == {-1, 2}
=============================================================================
