--------------------------- MODULE EncoderProofs ---------------------------
(***************************************************************************)
(* What TLAPS proves of Encoder, for every width of the counter and of the *)
(* clock: encoder_read follows the shaft.                                  *)
(***************************************************************************)
EXTENDS Encoder, TLAPS

-----------------------------------------------------------------------------
(* Arithmetic *)

\* The difference of two remainders, one wrap added when it is negative, is the
\* difference of the numbers, if that is less than the modulus.
LEMMA WrappedDifference ==
  ASSUME NEW M \in Nat \ {0}, NEW a \in Nat, NEW b \in Nat, b <= a, a - b < M
  PROVE  (a % M) - (b % M) + (IF a % M < b % M THEN M ELSE 0) = a - b
<1> DEFINE q == a \div M
           r == a % M
           p == b \div M
           s == b % M
<1>1. a = M * q + r /\ r \in 0 .. M - 1 /\ q \in Int
  OBVIOUS
<1>2. b = M * p + s /\ s \in 0 .. M - 1 /\ p \in Int
  OBVIOUS
<1> HIDE DEF q, r, p, s
<1>3. a - b = M * (q - p) + (r - s)
  BY <1>1, <1>2
<1>4. q - p < 2
  <2> SUFFICES ASSUME q - p >= 2 PROVE FALSE
    BY <1>1, <1>2
  <2>1. M * (q - p) >= M * 2
    BY <1>1, <1>2
  <2> QED BY <2>1, <1>3, <1>1, <1>2
<1>5. q - p > -1
  <2> SUFFICES ASSUME q - p <= -1 PROVE FALSE
    BY <1>1, <1>2
  <2>1. M * (q - p) <= M * (-1)
    BY <1>1, <1>2
  <2> QED BY <2>1, <1>3, <1>1, <1>2
<1>6. q - p = 0 \/ q - p = 1
  BY <1>4, <1>5, <1>1, <1>2
<1>7. CASE q - p = 0
  <2>1. a - b = r - s
    BY <1>7, <1>3, <1>1, <1>2
  <2> QED BY <2>1, <1>1, <1>2 DEF r, s
<1>8. CASE q - p = 1
  <2>1. a - b = M + (r - s)
    BY <1>8, <1>3, <1>1, <1>2
  <2> QED BY <2>1, <1>1, <1>2 DEF r, s
<1> QED BY <1>6, <1>7, <1>8

\* A remainder is a value of the counter.
LEMMA RemainderInRange ==
  ASSUME NEW a \in Nat
  PROVE  a % COUNTS \in 0 .. COUNTS - 1
BY EncoderAssumption DEF COUNTS

-----------------------------------------------------------------------------
(* The invariant: since the last read the counter has gone as far as the   *)
(* shaft, around at most once, and the stamps are those of their edges.    *)

Tracks ==
  \/ counter = count + (position - seen)
  \/ counter = count + (position - seen) + COUNTS
  \/ counter = count + (position - seen) - COUNTS

EncoderTypeOK ==
  /\ position \in Int /\ now \in Nat /\ edge \in Nat
  /\ counter \in 0 .. COUNTS - 1 /\ count \in 0 .. COUNTS - 1
  /\ raw_counts \in Int /\ seen \in Int /\ seenEdge \in Nat /\ reads \in 0 .. 2

Stamped ==
  /\ seenEdge <= edge /\ edge <= now
  /\ stamp = edge % COUNTS /\ time_stamp = seenEdge % COUNTS

EncoderInv ==
  /\ EncoderTypeOK
  /\ Stamped
  /\ position - seen \in -MaxTurn .. MaxTurn
  /\ reads > 0 => Tracks

LEMMA EncoderInitInv == EncoderInit => EncoderInv
<1> SUFFICES ASSUME EncoderInit PROVE EncoderInv
  OBVIOUS
<1>1. 0 % COUNTS = 0
  BY EncoderAssumption DEF COUNTS
<1> QED BY <1>1, EncoderAssumption DEF EncoderInit, EncoderInv, EncoderTypeOK, Stamped, COUNTS

LEMMA TurnInv ==
  ASSUME EncoderInv, Turn
  PROVE  EncoderInv'
<1>1. PICK d \in {-1, 1} : position' = position + d /\ counter' = Wrap(counter + d)
  BY DEF Turn
<1>2. counter' \in 0 .. COUNTS - 1
  BY <1>1, EncoderAssumption DEF EncoderInv, EncoderTypeOK, Wrap, COUNTS
<1>3. EncoderTypeOK'
  BY <1>1, <1>2 DEF EncoderInv, EncoderTypeOK, Turn
<1>4. Stamped'
  BY DEF EncoderInv, EncoderTypeOK, Stamped, Turn
<1>5. position' - seen' \in -MaxTurn .. MaxTurn
  BY DEF Turn
<1>6. reads' > 0 => Tracks'
  <2> SUFFICES ASSUME reads > 0 PROVE Tracks'
    BY DEF Turn
  <2>1. Tracks
    BY DEF EncoderInv
  <2>2. counter' = counter + d \/ counter' = counter + d + COUNTS \/ counter' = counter + d - COUNTS
    BY <1>1, EncoderAssumption DEF EncoderInv, EncoderTypeOK, Wrap, COUNTS
  <2>3. seen' = seen /\ count' = count /\ count \in 0 .. COUNTS - 1 /\ seen \in Int
    BY DEF Turn, EncoderInv, EncoderTypeOK
  <2> QED BY <2>1, <2>2, <2>3, <1>1, <1>2, <1>5, EncoderAssumption
          DEF Tracks, EncoderInv, EncoderTypeOK, COUNTS
<1> QED BY <1>3, <1>4, <1>5, <1>6 DEF EncoderInv

LEMMA ReadInv ==
  ASSUME EncoderInv, encoder_read
  PROVE  EncoderInv'
<1>1. Unwrap(counter - count) \in Int
  BY EncoderAssumption DEF Unwrap, EncoderInv, EncoderTypeOK, COUNTS
<1>2. EncoderTypeOK'
  BY <1>1 DEF EncoderInv, EncoderTypeOK, encoder_read, hardware
<1>3. Stamped'
  BY DEF EncoderInv, EncoderTypeOK, Stamped, encoder_read, hardware
<1>4. position' - seen' = 0 /\ counter' = count'
  BY DEF EncoderInv, EncoderTypeOK, encoder_read, hardware
<1>5. Tracks'
  <2>1. position' = position /\ seen' = position /\ counter' = counter /\ count' = counter
    BY DEF encoder_read, hardware
  <2>2. position \in Int /\ counter \in Int
    BY EncoderAssumption DEF EncoderInv, EncoderTypeOK, COUNTS
  <2>3. counter' = count' + (position' - seen')
    BY <2>1, <2>2
  <2> QED BY <2>3 DEF Tracks
<1> QED BY <1>2, <1>3, <1>4, <1>5, EncoderAssumption DEF EncoderInv

LEMMA EncoderNextInv == EncoderInv /\ [EncoderStep]_encVars => EncoderInv'
<1> SUFFICES ASSUME EncoderInv, [EncoderStep]_encVars PROVE EncoderInv'
  OBVIOUS
<1>1. CASE Turn
  BY <1>1, TurnInv
<1>2. CASE Tick
  <2>1. EncoderTypeOK' /\ Stamped'
    BY <1>2 DEF EncoderInv, EncoderTypeOK, Stamped, Tick
  <2> QED BY <1>2, <2>1 DEF EncoderInv, Tracks, Tick
<1>3. CASE encoder_read
  BY <1>3, ReadInv
<1>4. CASE UNCHANGED encVars
  BY <1>4 DEF EncoderInv, EncoderTypeOK, Stamped, Tracks, encVars, hardware
<1> QED BY <1>1, <1>2, <1>3, <1>4 DEF EncoderStep

\* A read between which and the last one the shaft turned less than half of the
\* counter's range gives how far it turned.
LEMMA UnwrapIsTurn ==
  ASSUME EncoderInv, reads > 0
  PROVE  Unwrap(counter - count) = position - seen
<1>1. Tracks
  BY DEF EncoderInv
<1> QED BY <1>1, EncoderAssumption DEF Tracks, Unwrap, EncoderInv, EncoderTypeOK, COUNTS

LEMMA ElapsedIsTime ==
  ASSUME EncoderInv, edge - seenEdge < COUNTS
  PROVE  Elapsed = edge - seenEdge
<1>1. COUNTS \in Nat \ {0}
  BY EncoderAssumption DEF COUNTS
<1>2. edge \in Nat /\ seenEdge \in Nat /\ seenEdge <= edge
  BY DEF EncoderInv, EncoderTypeOK, Stamped
<1> QED BY <1>1, <1>2, WrappedDifference DEF Elapsed, EncoderInv, Stamped

\* What a read gives of the shaft and of the time, as Follows states it.
ReadFollows ==
  encoder_read /\ reads > 0 =>
    /\ raw_counts' - raw_counts = position - seen
    /\ position # seen /\ edge - seenEdge < COUNTS =>
         dT_clocks' = edge - seenEdge

LEMMA InvReadFollows == EncoderInv => ReadFollows
<1> SUFFICES ASSUME EncoderInv, encoder_read, reads > 0
             PROVE  /\ raw_counts' - raw_counts = position - seen
                    /\ position # seen /\ edge - seenEdge < COUNTS =>
                         dT_clocks' = edge - seenEdge
  BY DEF ReadFollows
<1>1. raw_counts' - raw_counts = position - seen
  BY UnwrapIsTurn DEF encoder_read, EncoderInv, EncoderTypeOK
<1>2. ASSUME position # seen, edge - seenEdge < COUNTS
      PROVE  dT_clocks' = edge - seenEdge
  <2>1. counter # count
    <3>1. Tracks
      BY DEF EncoderInv
    <3> QED BY <1>2, <3>1, EncoderAssumption DEF Tracks, EncoderInv, EncoderTypeOK, COUNTS
  <2> QED BY <1>2, <2>1, ElapsedIsTime DEF encoder_read
<1> QED BY <1>1, <1>2

\* encoder_read: whatever the width of the counter, from the first read on
\* raw_counts follows the shaft, and the time between two counts is right.
THEOREM EncoderFollows == EncoderSpec => Follows
<1>1. EncoderInit => EncoderInv
  BY EncoderInitInv
<1>2. EncoderInv /\ [EncoderStep]_encVars => EncoderInv'
  BY EncoderNextInv
<1>3. EncoderInv => [ReadFollows]_encVars
  BY InvReadFollows
<1>4. EncoderSpec => [][ReadFollows]_encVars
  BY <1>1, <1>2, <1>3, PTL DEF EncoderSpec
<1> QED BY <1>4 DEF Follows, ReadFollows
=============================================================================
