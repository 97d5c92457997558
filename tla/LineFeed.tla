------------------------------ MODULE LineFeed ------------------------------
(***************************************************************************)
(* What a log tailer promises the monitor that polls it: whole lines, each *)
(* of them once and in the order they were written, unless they came in    *)
(* the middle of a poll, and none of those that were there first.  Lines   *)
(* can be lost, when the log is rotated before they are polled.  LogTailer *)
(* implements this for both agents; SshDetection is built on it.  The feed *)
(* is prompt if a line that is returned twice is returned by two polls,    *)
(* one after the other: only the lines that are too long for the scanner   *)
(* of the Go agent can delay it more.                                      *)
(***************************************************************************)
EXTENDS Naturals

CONSTANT MaxLines   \* bound on the lines ever written

Lines == 1..MaxLines

VARIABLES
  prompt,   \* whether the feed is prompt
  last,     \* the newest line
  held,     \* the lines in the log that a poll may still return
  amid,     \* the lines that came in the middle of a poll
  got       \* how often each line was returned

feedVars == <<prompt, last, held, amid, got>>

FeedInit ==
  /\ prompt \in BOOLEAN
  /\ last = 0
  /\ held = {}
  /\ amid = {}
  /\ got = [n \in Lines |-> 0]

(* The next line is finished. *)
Arrive(amidPoll) ==
  /\ last < MaxLines
  /\ last' = last + 1
  /\ held' = held \cup {last + 1}
  /\ amid' = IF amidPoll THEN amid \cup {last + 1} ELSE amid
  /\ prompt' = prompt
  /\ UNCHANGED got

(* A line is returned for the first time before any that follows it.  It   *)
(* is held back only if it came in the middle of a poll, for a later one   *)
(* to return it again, which is the next one if the feed is prompt.        *)
MayReturn(n) ==
  /\ n \in held
  /\ got[n] = 0 => \A m \in Lines \ amid : got[m] > 0 => m < n

Poll(lines) ==
  /\ \A n \in lines : MayReturn(n)
  /\ got' = [n \in Lines |-> IF n \in lines THEN got[n] + 1 ELSE got[n]]
  /\ held' = {n \in held : IF prompt \/ n \in lines
                           THEN got[n] = 0 /\ (n \in lines => n \in amid)
                           ELSE TRUE}
  /\ prompt' = prompt
  /\ UNCHANGED <<last, amid>>

(* The lines predate the first poll, or their file is gone. *)
Drop(lines) ==
  /\ held' = held \ lines
  /\ prompt' = prompt
  /\ UNCHANGED <<last, amid, got>>

FeedNext ==
  \/ \E amidPoll \in BOOLEAN : Arrive(amidPoll)
  \/ \E lines \in SUBSET held : Poll(lines) \/ Drop(lines)

FeedSpec == FeedInit /\ [][FeedNext]_feedVars
=============================================================================
