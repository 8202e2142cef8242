---------------------------- MODULE MCRetention ----------------------------
(* Minutes of two ticks, chunks of two minutes.  Earlier daemons left samples *)
(* in the first chunk and behind its end, where this one adds to the minute.  *)
EXTENDS Retention
CONSTANTS here, other
MCLeft == {<<here, 1>>, <<here, 4>>, <<other, 4>>}
=============================================================================
