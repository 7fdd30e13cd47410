------------------------------ MODULE Encoder ------------------------------
(***************************************************************************)
(* encoder_read: a count that never wraps made of one of 16 bits that      *)
(* does, and the time between two counts made of time stamps that wrap.    *)
(* The velocity and position computed from them in floating point are left *)
(* out.                                                                    *)
(*                                                                         *)
(* External: the shaft and the counter of the card, which latches the time *)
(* of every count.                                                         *)
(***************************************************************************)
EXTENDS Integers

CONSTANTS
  HALF,       \* 2^15: half of the values of the counter and of the clock
  MaxTurn,    \* how far the shaft turns between two reads, or further: less than HALF
  Furthest,   \* bound: how far it turns
  Latest      \* bound: clocks

COUNTS == 2 * HALF

ASSUME EncoderAssumption ==
  /\ HALF \in Nat \ {0} /\ MaxTurn \in Nat /\ MaxTurn < HALF
  /\ Furthest \in Nat /\ Latest \in Nat

VARIABLES
  position, now,             \* external: the shaft, and the time since the start
  counter, stamp,            \* the register: count and time stamp
  edge,                      \* when it counted last
  raw_counts, count,         \* of enc
  time_stamp, dT_clocks,
  seen, seenEdge, reads      \* position and edge at the last read, reads (0, 1, more)

hardware == <<position, now, counter, stamp, edge>>
encVars == <<hardware, raw_counts, count, time_stamp, dT_clocks, seen, seenEdge, reads>>

Wrap(n) == CASE n < 0 -> n + COUNTS [] n >= COUNTS -> n - COUNTS [] OTHER -> n

\* memset by encoder_init; the counter goes on from where it is.
EncoderInit ==
  /\ counter \in 0 .. COUNTS - 1
  /\ position = 0 /\ now = 0 /\ stamp = 0 /\ edge = 0
  /\ raw_counts = 0 /\ count = 0 /\ time_stamp = 0 /\ dT_clocks = 0
  /\ seen = 0 /\ seenEdge = 0 /\ reads = 0

Turn ==
  /\ \E d \in {-1, 1} :
       /\ position' = position + d
       /\ counter' = Wrap(counter + d)
  /\ position' \in -Furthest .. Furthest
  /\ position' - seen \in -MaxTurn .. MaxTurn
  /\ stamp' = now % COUNTS /\ edge' = now
  /\ UNCHANGED <<now, raw_counts, count, time_stamp, dT_clocks, seen, seenEdge, reads>>

Tick ==
  /\ now < Latest
  /\ now' = now + 1
  /\ UNCHANGED <<position, counter, stamp, edge, raw_counts, count, time_stamp, dT_clocks,
                 seen, seenEdge, reads>>

UnwrapUp(diff) == IF diff > HALF THEN diff - COUNTS ELSE diff   \* a slip: one way only
Unwrap(diff) ==
  CASE diff > HALF -> diff - COUNTS
    [] diff < -HALF -> diff + COUNTS
    [] OTHER -> diff

Elapsed == (stamp - time_stamp) + (IF stamp < time_stamp THEN COUNTS ELSE 0)

encoder_read ==
  /\ raw_counts' = raw_counts + Unwrap(counter - count)
  /\ dT_clocks' = IF counter # count THEN Elapsed ELSE dT_clocks
  /\ count' = counter
  /\ time_stamp' = stamp
  /\ seen' = position /\ seenEdge' = edge
  /\ reads' = IF reads < 2 THEN reads + 1 ELSE reads
  /\ UNCHANGED hardware

EncoderStep == Turn \/ Tick \/ encoder_read

EncoderSpec == EncoderInit /\ [][EncoderStep]_encVars

-----------------------------------------------------------------------------
(* Properties *)

\* encoder_read: from the first read on, raw_counts follows the shaft count by
\* count, however often the counter wraps, as long as the shaft turns less than
\* half of the counter's range between two reads; the time between two reads
\* with counts in between is right if it is less than the range of the stamps.
Follows ==
  [][encoder_read /\ reads > 0 =>
       /\ raw_counts' - raw_counts = position - seen
       /\ position # seen /\ edge - seenEdge < COUNTS =>
            dT_clocks' = edge - seenEdge]_encVars
=============================================================================
