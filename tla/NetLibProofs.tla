----------------------------- MODULE NetLibProofs -----------------------------
(* Facts about runs of stream cells and the frames cut from them.              *)
EXTENDS NetLib, SequenceTheorems, TLAPS

\* A run of n cells is a sequence of n positive numbers.
LEMMA RunType ==
    ASSUME NEW a \in Nat, NEW n \in Nat
    PROVE  /\ Run(a, n) \in Seq(Nat \ {0})
           /\ Len(Run(a, n)) = n
           /\ \A j \in 1..n : Run(a, n)[j] = a + j
BY DEF Run

\* Appending what is read next to a run gives the longer run (onRecvData's
\* table.insert and table.concat).
LEMMA RunConcat ==
    ASSUME NEW a \in Nat, NEW n \in Nat, NEW m \in Nat
    PROVE  Run(a, n) \o Run(a + n, m) = Run(a, n + m)
<1>1. /\ Run(a, n) \in Seq(Nat) /\ Len(Run(a, n)) = n
      /\ Run(a + n, m) \in Seq(Nat) /\ Len(Run(a + n, m)) = m
      /\ Run(a, n + m) \in Seq(Nat) /\ Len(Run(a, n + m)) = n + m
  BY DEF Run
<1>2. /\ Run(a, n) \o Run(a + n, m) \in Seq(Nat)
      /\ Len(Run(a, n) \o Run(a + n, m)) = n + m
  BY <1>1, ConcatProperties
<1>3. ASSUME NEW j \in 1..(n + m)
      PROVE  (Run(a, n) \o Run(a + n, m))[j] = Run(a, n + m)[j]
  <2>1. (Run(a, n) \o Run(a + n, m))[j] =
            IF j <= n THEN Run(a, n)[j] ELSE Run(a + n, m)[j - n]
    BY <1>1, ConcatProperties
  <2> QED
    BY <2>1 DEF Run
<1> HIDE DEF Run
<1> QED
  BY <1>1, <1>2, <1>3, SeqEqual

\* One packet further, the run of a whole packet and the rest is the rest.
LEMMA RunTail ==
    ASSUME NEW a \in Nat, NEW n \in Nat, n >= PktLen
    PROVE  LeftData(Run(a, n)) = Run(a + PktLen, n - PktLen)
<1> USE FrameAssumption
<1>1. /\ Run(a, n) \in Seq(Nat) /\ Len(Run(a, n)) = n
      /\ Run(a + PktLen, n - PktLen) \in Seq(Nat)
      /\ Len(Run(a + PktLen, n - PktLen)) = n - PktLen
  BY DEF Run
<1>2. /\ LeftData(Run(a, n)) \in Seq(Nat)
      /\ Len(LeftData(Run(a, n))) = n - PktLen
  BY <1>1 DEF LeftData
<1>3. ASSUME NEW j \in 1..(n - PktLen)
      PROVE  LeftData(Run(a, n))[j] = Run(a + PktLen, n - PktLen)[j]
  BY <1>1 DEF LeftData, Run
<1> HIDE DEF Run, LeftData
<1> QED
  BY <1>1, <1>2, <1>3, SeqEqual

\* A cache that starts on a packet boundary starts with that packet.
LEMMA PacketOfBoundary ==
    ASSUME NEW d \in Nat
    PROVE  PacketOf(PktLen * d + 1) = d + 1
<1>1. PktLen \in Nat /\ PktLen > 0
  BY FrameAssumption
<1>2. PktLen * d \in Nat /\ (PktLen * d) \div PktLen = d
  BY <1>1
<1> QED
  BY <1>2 DEF PacketOf

\* Lengths in cells compare as the numbers of packets do.
LEMMA PacketsMonotone ==
    ASSUME NEW d \in Nat, NEW e \in Nat, PktLen * d + PktLen <= PktLen * e
    PROVE  d < e
<1>1. PktLen \in Nat /\ PktLen > 0
  BY FrameAssumption
<1> QED
  BY <1>1
===============================================================================
