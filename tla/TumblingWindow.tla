--------------------------- MODULE TumblingWindow ---------------------------
(***************************************************************************)
(* The window both log monitors count events of one address in: it opens   *)
(* at the first event after the previous one has run out, so it does not   *)
(* slide.  `times` is the history of the events counted since the last     *)
(* alert about them; times are positive, 0 stands for a window never       *)
(* opened (time_since_epoch().count() == 0, IsZero()).                     *)
(***************************************************************************)
EXTENDS Integers, Sequences

(* Variant: the comparison is the wrong way round. *)
ExpiredInside(start, now, window) == start = 0 \/ now - start <= window

(* The test before an event is counted: the event opens a new window. *)
Expired(start, now, window) == start = 0 \/ now - start > window

(* A threshold below one is allowed by the configuration, and means one:   *)
(* the count is compared after it was incremented.                         *)
Limit(threshold) == IF threshold < 1 THEN 1 ELSE threshold

(* The last n events fit into one window. *)
LastWithin(times, n, window) ==
  /\ n \in 1..Len(times)
  /\ \A i \in Len(times) - n + 1..Len(times) :
       times[Len(times)] - times[i] <= window

(* No `length` events in a row happened within one window. *)
NoRun(times, length, window) ==
  \A i, j \in 1..Len(times) :
    j - i >= length - 1 => times[j] - times[i] > window

(* A window that does not slide can split a burst in two, so a burst of    *)
(* the threshold may pass; one that is nearly twice as long cannot.        *)
SureBurst(threshold) == 2 * Limit(threshold) - 1

----------------------------------------------------------------------------
(* What relates the history `times` to a count and the start of its        *)
(* window.  The last `count` events lie in the open window, the earlier    *)
(* ones before it; and whatever is `limit` - 1 or more events before the   *)
(* window lies more than a window before its start, for no window holds    *)
(* `limit` events without an alert.                                        *)
Window(times, count, start, now, threshold, window) ==
  LET n == Len(times) IN
  /\ count \in 0..n
  /\ count < Limit(threshold)
  /\ start \in 0..now
  /\ start = 0 => n = 0
  /\ \A i \in 1..n : times[i] \in 1..now
  /\ \A i \in n - count + 1..n : times[i] \in start..start + window
  /\ \A i \in 1..n - count : times[i] < start
  /\ \A i \in 1..n - count - Limit(threshold) + 1 : start - times[i] > window
  /\ NoRun(times, SureBurst(threshold), window)
=============================================================================
