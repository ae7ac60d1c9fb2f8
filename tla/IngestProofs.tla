---------------------------- MODULE IngestProofs ----------------------------
(***************************************************************************)
(* Proofs about TelemetryIngest: its types, for every chunking of the      *)
(* stream, every failure and every damaged unit; and, as long as no unit   *)
(* was damaged, that packets are read as they were sent, that what is      *)
(* acknowledged is stored, and that ingest implements DeviceInbox.         *)
(***************************************************************************)
EXTENDS TelemetryIngest, FiniteSetTheorems, SequenceTheorems, TLAPS

-----------------------------------------------------------------------------
(* The framer.                                                             *)

\* A set of naturals has a least element.
LEMMA LeastIn ==
  ASSUME NEW S, S \subseteq Nat, S # {}
  PROVE  \E x \in S : \A y \in S : x <= y
  <1> DEFINE Less == OpToRel(<, Nat)
  <1>1. \E x \in S : \A y \in S : ~ (<<y, x>> \in Less)
    <2>1. IsWellFoundedOn(Less, Nat)
      BY NatLessThanWellFounded
    <2> HIDE DEF Less
    <2> QED
      BY <2>1, WFMin
  <1>2. PICK x \in S : \A y \in S : ~ (<<y, x>> \in Less)
    BY <1>1
  <1>3. ASSUME NEW y \in S
        PROVE  x <= y
    <2>1. ~ (y < x)
      BY <1>2, <1>3 DEF OpToRel
    <2>2. x \in Nat /\ y \in Nat
      BY <1>3
    <2> QED
      BY <2>1, <2>2
  <1> QED
    BY <1>3

\* Induction up to a number.
LEMMA UpTo ==
  ASSUME NEW N \in Nat, NEW S, 0 \in S,
         \A n \in 0 .. N - 1 : n \in S => n + 1 \in S
  PROVE  N \in S
  <1> DEFINE Bad == {n \in 0 .. N : n \notin S}
  <1>1. SUFFICES ASSUME Bad # {} PROVE FALSE
    OBVIOUS
  <1>2. PICK n \in Bad : \A k \in Bad : n <= k
    <2>1. Bad \subseteq Nat
      OBVIOUS
    <2> HIDE DEF Bad
    <2> QED
      BY <1>1, <2>1, LeastIn
  <1>3. n - 1 \in 0 .. N - 1 /\ n - 1 \notin Bad
    BY <1>2
  <1>4. n - 1 \in S
    BY <1>3
  <1>5. (n - 1) + 1 \in S
    BY <1>3, <1>4
  <1> QED
    BY <1>2, <1>5

\* What is read between the buffer and the next frame.
CutOf(f) == IF f.state = "awaiting-imei" THEN NextHandshake(f.buffer) ELSE NextPacket(f.buffer)

Events == [type : {"imei", "packet", "bad-crc"} \cup Failures, records : Seq(Nat)]

\* The records of a frame are units of it.
LEMMA ReadDataType ==
  ASSUME NEW data \in Seq(Nat)
  PROVE  ReadData(data) \in Events /\ ReadData(data).type \in {"packet", "parse-error"}
  <1>1. CASE Len(data) < 3
    BY <1>1, EmptySeq DEF ReadData, Failure, Event, Events, Failures
  <1>2. CASE Len(data) >= 3
    <2> DEFINE n == data[2]
    <2>1. n \in Nat /\ Len(data) \in Nat
      BY <1>2, ElementOfSeq, LenProperties
    <2>2. Len(data) >= n + 3 => SubSeq(data, 3, n + 2) \in Seq(Nat)
      <3>1. ASSUME NEW i \in 3 .. n + 2, Len(data) >= n + 3 PROVE data[i] \in Nat
        BY <2>1, <3>1, ElementOfSeq, SMTT(30)
      <3> QED
        BY <2>1, <3>1, SubSeqProperties
    <2>3. << >> \in Seq(Nat)
      BY EmptySeq
    <2> QED
      BY <1>2, <2>1, <2>2, <2>3 DEF ReadData, Failure, Event, Packet, Events, Failures
  <1> QED
    BY <1>1, <1>2, LenProperties

\* An event that is read consumes part of the buffer.
LEMMA CutType ==
  ASSUME NEW f \in Framers
  PROVE  LET cut == CutOf(f) IN
         \/ cut.event = NeedMore
         \/ cut.event \in Events /\ cut.event.type \in Failures
         \/ /\ cut.event \in Events /\ cut.event.type \notin Failures
            /\ cut.units \in 1 .. Len(f.buffer)
  <1> DEFINE buf == f.buffer
  <1>1. buf \in Seq(Nat) /\ Len(buf) \in Nat
    BY LenProperties DEF Framers
  <1> HIDE DEF buf
  <1>2. << >> \in Seq(Nat)
    BY EmptySeq
  <1>3. LET cut == NextHandshake(buf) IN
         \/ cut.event = NeedMore
         \/ cut.event \in Events /\ cut.event.type \in Failures
         \/ /\ cut.event \in Events /\ cut.event.type \notin Failures
            /\ cut.units \in 1 .. Len(buf)
    BY <1>1, <1>2 DEF NextHandshake, Cut, NeedMore, Failure, ImeiRead, Event, Events, Failures
  <1>4. LET cut == NextPacket(buf) IN
         \/ cut.event = NeedMore
         \/ cut.event \in Events /\ cut.event.type \in Failures
         \/ /\ cut.event \in Events /\ cut.event.type \notin Failures
            /\ cut.units \in 1 .. Len(buf)
    <2> DEFINE frame == HeaderUnits + buf[2] + CrcUnits
    <2>1. CASE Len(buf) < HeaderUnits \/ buf[1] # 0 \/ frame > MaxFrame \/ Len(buf) < frame
      BY <1>2, <2>1 DEF NextPacket, Cut, NeedMore, Failure, Event, Events, Failures
    <2>2. CASE ~ (Len(buf) < HeaderUnits \/ buf[1] # 0 \/ frame > MaxFrame \/ Len(buf) < frame)
      <3>1. buf[2] \in Nat /\ frame \in 3 .. Len(buf)
        BY <1>1, <2>2, ElementOfSeq, FramerAssumption DEF HeaderUnits, CrcUnits
      <3> DEFINE whole == SubSeq(buf, 1, frame)
                 data  == SubSeq(whole, HeaderUnits + 1, Len(whole) - CrcUnits)
      <3>2. whole \in Seq(Nat) /\ Len(whole) = frame
        <4>1. \A i \in 1 .. frame : buf[i] \in Nat
          BY <1>1, <3>1, ElementOfSeq
        <4> QED
          BY <3>1, <4>1, SubSeqProperties
      <3>3. data \in Seq(Nat)
        <4>1. \A i \in HeaderUnits + 1 .. Len(whole) - CrcUnits : whole[i] \in Nat
          BY <3>1, <3>2, ElementOfSeq DEF HeaderUnits, CrcUnits
        <4> HIDE DEF whole
        <4> QED
          BY <3>1, <3>2, <4>1, SubSeqProperties DEF HeaderUnits, CrcUnits
      <3>4. ParseAvlPacket(whole) \in Events
            /\ ParseAvlPacket(whole).type \in {"packet", "parse-error", "bad-crc"}
        BY <1>2, <3>3, ReadDataType DEF ParseAvlPacket, BadCrc, Event, Events
      <3>5. NextPacket(buf) = Cut(ParseAvlPacket(whole), frame)
        BY <2>2 DEF NextPacket
      <3> HIDE DEF whole, frame
      <3> QED
        BY <3>1, <3>4, <3>5 DEF Cut, Failures
    <2> QED
      BY <2>1, <2>2
  <1> QED
    BY <1>3, <1>4 DEF CutOf, buf

-----------------------------------------------------------------------------
(* The checksum is a number: the fold it is computed with is defined.      *)

\* A nonempty finite set of naturals has a greatest element.
LEMMA MaxIn ==
  ASSUME NEW n \in Nat, NEW s \in SUBSET (1 .. n), s # {}
  PROVE  Max(s) \in s /\ \A y \in s : y <= Max(s)
  <1> DEFINE Above == {m \in Nat : \A y \in s : y <= m}
  <1>1. PICK m \in Above : \A k \in Above : m <= k
    <2>1. n \in Above
      OBVIOUS
    <2> HIDE DEF Above
    <2>2. Above \subseteq Nat
      BY DEF Above
    <2> QED
      BY <2>1, <2>2, LeastIn
  <1>2. m \in s
    <2> SUFFICES ASSUME m \notin s PROVE FALSE
      OBVIOUS
    <2>1. PICK y \in s : y \in 1 .. n
      OBVIOUS
    <2>2. m >= 1
      BY <1>1, <2>1
    <2>3. m - 1 \in Above
      BY <1>1, <2>2
    <2> QED
      BY <1>1, <2>3
  <1>3. \E x \in s : \A y \in s : x >= y
    BY <1>1, <1>2
  <1>4. Max(s) \in s /\ \A y \in s : Max(s) >= y
    BY <1>3 DEF Max
  <1> QED
    BY <1>4

\* The checksum of units is a unit.
LEMMA CrcNat ==
  ASSUME NEW data \in Seq(Nat)
  PROVE  Crc16(data) \in Nat
  <1> DEFINE L == Len(data)
             Step(g, s) == IF s = {} THEN 0 ELSE (3 * g[s \ {Max(s)}] + data[Max(s)]) % 251
             Good(n) == \E g \in [SUBSET (1 .. n) -> Nat] :
                          \A s \in SUBSET (1 .. n) : g[s] = Step(g, s)
             Folds(g) == g = [s \in SUBSET (1 .. L) |-> Step(g, s)]
             iter == CHOOSE g : Folds(g)
             Typed(n) == \A s \in SUBSET (1 .. n) : iter[s] \in Nat
  <1>1. L \in Nat /\ DOMAIN data = 1 .. L
    BY LenProperties
  <1>2. \A i \in 1 .. L : data[i] \in Nat
    BY ElementOfSeq
  <1> HIDE DEF L
  <1>3. ASSUME NEW n \in 0 .. L - 1, NEW s \in SUBSET (1 .. n + 1), s # {}
        PROVE  /\ s \ {Max(s)} \in SUBSET (1 .. n)
               /\ data[Max(s)] \in Nat
    <2> DEFINE m == Max(s)
    <2>1. m \in s /\ \A y \in s : y <= m
      BY <1>1, <1>3, MaxIn, n + 1 \in Nat
    <2> HIDE DEF m
    <2>2. m \in 1 .. L
      BY <1>1, <2>1
    <2>3. ASSUME NEW y \in s \ {m} PROVE y \in 1 .. n
      BY <1>1, <2>1, <2>2
    <2> QED
      BY <1>2, <2>2, <2>3 DEF m
  <1>4. Good(0)
    <2>1. SUBSET (1 .. 0) = {{}}
      OBVIOUS
    <2>2. [s \in SUBSET (1 .. 0) |-> 0] \in [SUBSET (1 .. 0) -> Nat]
      OBVIOUS
    <2> QED
      BY <2>1, <2>2
  <1>5. ASSUME NEW n \in 0 .. L - 1, Good(n)
        PROVE  Good(n + 1)
    <2>1. PICK g \in [SUBSET (1 .. n) -> Nat] : \A s \in SUBSET (1 .. n) : g[s] = Step(g, s)
      BY <1>5
    <2> DEFINE h == [s \in SUBSET (1 .. n + 1) |-> Step(g, s)]
    <2>2. ASSUME NEW s \in SUBSET (1 .. n + 1)
          PROVE  Step(g, s) \in Nat
      <3>1. CASE s = {}
        BY <3>1
      <3>2. CASE s # {}
        <4>1. g[s \ {Max(s)}] \in Nat /\ data[Max(s)] \in Nat
          BY <1>3, <2>1, <3>2
        <4> QED
          BY <4>1, <3>2, SMTT(30)
      <3> QED
        BY <3>1, <3>2
    <2>3. ASSUME NEW s \in SUBSET (1 .. n + 1)
          PROVE  h[s] = Step(h, s)
      <3>1. CASE s = {}
        BY <3>1
      <3>2. CASE s # {}
        <4> DEFINE r == s \ {Max(s)}
        <4>1. r \in SUBSET (1 .. n) /\ r \in SUBSET (1 .. n + 1)
          BY <1>3, <3>2
        <4> HIDE DEF r
        <4>2. h[r] = g[r]
          BY <2>1, <4>1
        <4>3. h[s] = Step(g, s)
          OBVIOUS
        <4> QED
          BY <3>2, <4>2, <4>3 DEF r
      <3> QED
        BY <3>1, <3>2
    <2>4. h \in [SUBSET (1 .. n + 1) -> Nat]
      BY <2>2
    <2> HIDE DEF h
    <2> QED
      BY <2>3, <2>4
  <1>6. Good(L)
    <2> DEFINE Holds == {n \in 0 .. L : Good(n)}
    <2> HIDE DEF Good
    <2>1. 0 \in Holds /\ \A n \in 0 .. L - 1 : n \in Holds => n + 1 \in Holds
      BY <1>1, <1>4, <1>5
    <2> HIDE DEF Holds
    <2>2. L \in Holds
      BY <1>1, <2>1, UpTo
    <2> QED
      BY <2>2 DEF Holds
  <1>7. Folds(iter)
    <2>1. PICK g \in [SUBSET (1 .. L) -> Nat] : \A s \in SUBSET (1 .. L) : g[s] = Step(g, s)
      BY <1>6
    <2>2. Folds(g)
      BY <2>1
    <2> HIDE DEF Folds
    <2> QED
      BY <2>2
  <1>8. \A s \in SUBSET (1 .. L) : iter[s] = Step(iter, s)
    <2> HIDE DEF iter
    <2> QED
      BY <1>7
  <1> HIDE DEF iter
  <1>13. iter[{}] = 0
    <2>1. {} \in SUBSET (1 .. L)
      OBVIOUS
    <2>2. Step(iter, {}) = 0
      OBVIOUS
    <2> HIDE DEF Step
    <2> QED
      BY <1>8, <2>1, <2>2
  <1>9. Typed(0)
    <2>1. \A s \in SUBSET (1 .. 0) : s = {}
      OBVIOUS
    <2>2. ASSUME NEW s \in SUBSET (1 .. 0) PROVE iter[s] \in Nat
      <3>1. s = {}
        BY <2>1
      <3> QED
        BY <1>13, <3>1
    <2> QED
      BY <2>2
  <1>10. ASSUME NEW n \in 0 .. L - 1, Typed(n)
         PROVE  Typed(n + 1)
    <2>1. ASSUME NEW s \in SUBSET (1 .. n + 1)
          PROVE  iter[s] \in Nat
      <3>0. s \in SUBSET (1 .. L)
        BY <1>1
      <3>1. CASE s = {}
        BY <1>13, <3>1
      <3>2. CASE s # {}
        <4>1. iter[s \ {Max(s)}] \in Nat /\ data[Max(s)] \in Nat
          BY <1>3, <1>10, <3>2
        <4>2. iter[s] = (3 * iter[s \ {Max(s)}] + data[Max(s)]) % 251
          BY <1>8, <3>0, <3>2
        <4> QED
          BY <4>1, <4>2
      <3> QED
        BY <3>1, <3>2
    <2> QED
      BY <2>1
  <1>11. Typed(L)
    <2> DEFINE Holds == {n \in 0 .. L : Typed(n)}
    <2> HIDE DEF Typed
    <2>1. 0 \in Holds /\ \A n \in 0 .. L - 1 : n \in Holds => n + 1 \in Holds
      BY <1>1, <1>9, <1>10
    <2> HIDE DEF Holds
    <2>2. L \in Holds
      BY <1>1, <2>1, UpTo
    <2> QED
      BY <2>2 DEF Holds
  <1>12. Crc16(data) = iter[1 .. L]
    BY <1>1 DEF Crc16, FoldLeft, MapThenFoldSet, iter
  <1> QED
    BY <1>1, <1>11, <1>12

-----------------------------------------------------------------------------
(* The loop of push is defined: every event it reads makes the buffer      *)
(* shorter.                                                                *)

Rest(f) == [state |-> "streaming", buffer |-> Consume(f.buffer, CutOf(f).units)]

\* One round of the loop, the rounds after it being those of g.
Round(g, f) ==
  IF CutOf(f).event = NeedMore THEN [framer |-> f, events |-> << >>]
  ELSE IF CutOf(f).event.type \in Failures
    THEN [framer |-> DeadFramer, events |-> <<CutOf(f).event>>]
    ELSE [g[Rest(f)] EXCEPT !.events = <<CutOf(f).event>> \o @]

Drained == [framer : Framers, events : Seq(Events)]

Shorter(n) == {f \in Framers : Len(f.buffer) < n}

\* A round is of the right type, and looks only at shorter buffers.
LEMMA RoundType ==
  ASSUME NEW n \in Nat, NEW f \in Shorter(n + 1),
         NEW g, \A e \in Shorter(n) : g[e] \in Drained
  PROVE  /\ Round(g, f) \in Drained
         /\ \A h : (\A e \in Shorter(n) : h[e] = g[e]) => Round(h, f) = Round(g, f)
  <1> DEFINE cut == CutOf(f)
  <1>1. f \in Framers /\ f.buffer \in Seq(Nat) /\ Len(f.buffer) \in Nat /\ Len(f.buffer) <= n
    BY LenProperties DEF Shorter, Framers
  <1>2. \/ cut.event = NeedMore
        \/ cut.event \in Events /\ cut.event.type \in Failures
        \/ /\ cut.event \in Events /\ cut.event.type \notin Failures
           /\ cut.units \in 1 .. Len(f.buffer)
    BY <1>1, CutType
  <1> HIDE DEF cut
  <1>3. CASE cut.event = NeedMore
    <2>1. Round(g, f) = [framer |-> f, events |-> << >>]
      BY <1>3 DEF Round, cut
    <2>2. \A h : Round(h, f) = [framer |-> f, events |-> << >>]
      BY <1>3 DEF Round, cut
    <2> QED
      BY <1>1, <2>1, <2>2, EmptySeq DEF Drained
  <1>4. CASE cut.event # NeedMore /\ cut.event \in Events /\ cut.event.type \in Failures
    <2>1. Round(g, f) = [framer |-> DeadFramer, events |-> <<cut.event>>]
      BY <1>4 DEF Round, cut
    <2>2. \A h : Round(h, f) = [framer |-> DeadFramer, events |-> <<cut.event>>]
      BY <1>4 DEF Round, cut
    <2>3. DeadFramer \in Framers
      BY EmptySeq DEF DeadFramer, Framers
    <2>4. <<cut.event>> \in Seq(Events)
      BY <1>4
    <2> QED
      BY <2>1, <2>2, <2>3, <2>4 DEF Drained
  <1>5. CASE /\ cut.event # NeedMore /\ cut.event \in Events /\ cut.event.type \notin Failures
             /\ cut.units \in 1 .. Len(f.buffer)
    <2> DEFINE rest == Rest(f)
    <2>1. rest \in Shorter(n)
      <3> DEFINE tail == SubSeq(f.buffer, cut.units + 1, Len(f.buffer))
      <3>1. \A i \in cut.units + 1 .. Len(f.buffer) : f.buffer[i] \in Nat
        BY <1>1, <1>5, ElementOfSeq
      <3>2. tail \in Seq(Nat)
            /\ Len(tail) = IF cut.units + 1 <= Len(f.buffer) THEN Len(f.buffer) - (cut.units + 1) + 1 ELSE 0
        BY <1>1, <1>5, <3>1, SubSeqProperties
      <3>3. rest = [state |-> "streaming", buffer |-> tail]
        BY DEF Rest, Consume, cut
      <3> HIDE DEF tail, rest
      <3>4. Len(tail) < n
        BY <1>1, <1>5, <3>2
      <3> QED
        BY <3>2, <3>3, <3>4 DEF Shorter, Framers
    <2> HIDE DEF rest
    <2>2. \A h : Round(h, f) = [h[rest] EXCEPT !.events = <<cut.event>> \o @]
      BY <1>5 DEF Round, cut, rest
    <2>3. g[rest] \in Drained
      BY <2>1
    <2>4. <<cut.event>> \o g[rest].events \in Seq(Events)
      BY <1>5, <2>3, ConcatProperties DEF Drained
    <2>5. Round(g, f) \in Drained
      BY <2>2, <2>3, <2>4 DEF Drained
    <2>6. ASSUME NEW h, \A e \in Shorter(n) : h[e] = g[e]
          PROVE  Round(h, f) = Round(g, f)
      BY <2>1, <2>2, <2>6
    <2> QED
      BY <2>5, <2>6
  <1> QED
    BY <1>2, <1>3, <1>4, <1>5

\* g runs the loop on every framer that has fewer than n units.
Runs(g, n)  == \A f \in Shorter(n) : g[f] = Round(g, f)
Typed(g, n) == \A f \in Shorter(n) : g[f] \in Drained

\* Longer buffers only add framers.
LEMMA ShorterGrows ==
  ASSUME NEW n \in Nat, NEW m \in Nat, n <= m
  PROVE  Shorter(n) \subseteq Shorter(m)
  <1>1. \A f \in Framers : Len(f.buffer) \in Nat
    BY LenProperties DEF Framers
  <1> QED
    BY <1>1 DEF Shorter

\* What runs the loop is determined.
LEMMA RunsAgree ==
  ASSUME NEW N \in Nat, NEW g, NEW h, Runs(g, N), Typed(g, N), Runs(h, N)
  PROVE  \A f \in Shorter(N) : h[f] = g[f]
  <1> DEFINE Agree(n) == \A f \in Shorter(n) : h[f] = g[f]
             Holds == {n \in 0 .. N : Agree(n)}
  <1>1. Agree(0)
    <2>1. \A f \in Framers : Len(f.buffer) \in Nat
      BY LenProperties DEF Framers
    <2> QED
      BY <2>1 DEF Shorter
  <1>2. ASSUME NEW n \in 0 .. N - 1, Agree(n)
        PROVE  Agree(n + 1)
    <2>1. ASSUME NEW f \in Shorter(n + 1)
          PROVE  h[f] = g[f]
      <3>1. Shorter(n + 1) \subseteq Shorter(N) /\ Shorter(n) \subseteq Shorter(N)
        BY ShorterGrows
      <3>2. \A e \in Shorter(n) : g[e] \in Drained
        BY <3>1 DEF Typed
      <3>3. Round(h, f) = Round(g, f)
        BY <1>2, <3>2, RoundType
      <3> QED
        BY <3>1, <3>3 DEF Runs
    <2> QED
      BY <2>1
  <1> HIDE DEF Agree
  <1>3. 0 \in Holds /\ \A n \in 0 .. N - 1 : n \in Holds => n + 1 \in Holds
    BY <1>1, <1>2
  <1> HIDE DEF Holds
  <1>4. N \in Holds
    BY <1>3, UpTo
  <1> QED
    BY <1>4 DEF Holds, Agree

\* Up to every length of the buffer there is a run of the loop.
LEMMA LoopExists ==
  ASSUME NEW N \in Nat
  PROVE  \E g : Runs(g, N) /\ Typed(g, N)
  <1> DEFINE Good(n) == \E g : Runs(g, n) /\ Typed(g, n)
             Holds == {n \in 0 .. N : Good(n)}
  <1>1. Good(0)
    <2>1. \A f \in Framers : Len(f.buffer) \in Nat
      BY LenProperties DEF Framers
    <2>2. Shorter(0) = {}
      BY <2>1 DEF Shorter
    <2> QED
      BY <2>2 DEF Runs, Typed
  <1>2. ASSUME NEW n \in Nat, Good(n)
        PROVE  Good(n + 1)
    <2>1. PICK g : Runs(g, n) /\ Typed(g, n)
      BY <1>2
    <2> DEFINE h == [f \in Shorter(n + 1) |-> Round(g, f)]
    <2>2. \A f \in Shorter(n + 1) : Round(g, f) \in Drained
      BY <2>1, RoundType DEF Typed
    <2>3. Shorter(n) \subseteq Shorter(n + 1)
      BY ShorterGrows
    <2>4. \A e \in Shorter(n) : h[e] = g[e]
      BY <2>1, <2>3 DEF Runs
    <2>5. \A f \in Shorter(n + 1) : h[f] = Round(g, f)
      OBVIOUS
    <2> HIDE DEF h
    <2>6. \A f \in Shorter(n + 1) : Round(h, f) = Round(g, f)
      BY <2>1, <2>4, RoundType DEF Typed
    <2> QED
      BY <2>2, <2>5, <2>6 DEF Runs, Typed
  <1> HIDE DEF Good
  <1>3. 0 \in Holds /\ \A n \in 0 .. N - 1 : n \in Holds => n + 1 \in Holds
    BY <1>1, <1>2
  <1> HIDE DEF Holds
  <1>4. N \in Holds
    BY <1>3, UpTo
  <1> QED
    BY <1>4 DEF Holds, Good

\* So the loop of push is what its recursion says, and it ends with typed results.
LEMMA DrainRound ==
  ASSUME NEW f \in Framers
  PROVE  Drain[f] = Round(Drain, f) /\ Drain[f] \in Drained
  <1> DEFINE loop(n) == CHOOSE g : Runs(g, n) /\ Typed(g, n)
             all == [e \in Framers |-> loop(Len(e.buffer) + 1)[e]]
             Looping(g) == g = [e \in Framers |-> Round(g, e)]
  <1>1. \A e \in Framers : Len(e.buffer) \in Nat /\ e \in Shorter(Len(e.buffer) + 1)
    BY LenProperties DEF Framers, Shorter
  <1>2. \A n \in Nat : Runs(loop(n), n) /\ Typed(loop(n), n)
    BY LoopExists
  <1> HIDE DEF loop
  <1>3. ASSUME NEW n \in Nat, NEW e \in Shorter(n)
        PROVE  all[e] = loop(n)[e]
    <2> DEFINE m == Len(e.buffer) + 1
    <2>1. e \in Framers /\ m \in Nat /\ m <= n /\ e \in Shorter(m)
      BY <1>1 DEF Shorter
    <2>2. all[e] = loop(m)[e]
      BY <2>1
    <2> HIDE DEF m, all
    <2>3. Runs(loop(m), m) /\ Typed(loop(m), m)
      BY <1>2, <2>1
    <2>4. Shorter(m) \subseteq Shorter(n)
      BY <2>1, ShorterGrows
    <2>5. Runs(loop(n), m)
      BY <1>2, <2>4 DEF Runs
    <2>6. \A d \in Shorter(m) : loop(n)[d] = loop(m)[d]
      BY <2>1, <2>3, <2>5, RunsAgree
    <2> QED
      BY <2>1, <2>2, <2>6
  <1>4. ASSUME NEW e \in Framers
        PROVE  all[e] = Round(all, e) /\ all[e] \in Drained
    <2> DEFINE n == Len(e.buffer)
    <2>1. n \in Nat /\ e \in Shorter(n + 1)
      BY <1>1
    <2> HIDE DEF n, all
    <2>2. all[e] = loop(n + 1)[e]
      BY <1>3, <2>1
    <2>3. Shorter(n) \subseteq Shorter(n + 1)
      BY <2>1, ShorterGrows
    <2>4. \A d \in Shorter(n) : all[d] = loop(n + 1)[d]
      BY <1>3, <2>1, <2>3
    <2>5. Runs(loop(n + 1), n + 1) /\ Typed(loop(n + 1), n + 1)
      BY <1>2, <2>1
    <2>6. Round(all, e) = Round(loop(n + 1), e)
      BY <2>1, <2>3, <2>4, <2>5, RoundType DEF Typed
    <2> QED
      BY <2>1, <2>2, <2>5, <2>6 DEF Runs, Typed
  <1>5. all = [e \in Framers |-> all[e]]
    OBVIOUS
  <1> HIDE DEF all
  <1>6. Looping(all)
    BY <1>4, <1>5
  <1>7. Drain = CHOOSE g : Looping(g)
    BY DEF Drain, Round, CutOf, Rest
  <1>8. Looping(Drain)
    <2> HIDE DEF Looping
    <2> QED
      BY <1>6, <1>7
  <1>9. \A e \in Framers : Drain[e] = Round(Drain, e)
    BY <1>8
  <1>10. \A e \in Framers : Drain[e] = all[e]
    <2> SUFFICES ASSUME NEW e \in Framers PROVE Drain[e] = all[e]
      OBVIOUS
    <2> DEFINE n == Len(e.buffer) + 1
    <2>1. n \in Nat /\ e \in Shorter(n)
      BY <1>1
    <2> HIDE DEF n
    <2>2. Runs(Drain, n) /\ Runs(all, n) /\ Typed(all, n)
      BY <1>4, <1>9 DEF Runs, Typed, Shorter
    <2> QED
      BY <2>1, <2>2, RunsAgree
  <1> QED
    BY <1>4, <1>9, <1>10

\* push leaves a framer and gives events, whatever the units are.
LEMMA PushType ==
  ASSUME NEW f \in Framers, NEW chunk \in Seq(Nat)
  PROVE  Push(f, chunk) \in Drained
  <1>1. CASE f.state = "failed"
    BY <1>1, EmptySeq DEF Push, Drained
  <1>2. CASE f.state # "failed"
    <2>1. f.buffer \o chunk \in Seq(Nat)
      BY ConcatProperties DEF Framers
    <2>2. [f EXCEPT !.buffer = @ \o chunk] \in Framers
      BY <2>1 DEF Framers
    <2> QED
      BY <1>2, <2>2, DrainRound DEF Push
  <1> QED
    BY <1>1, <1>2

\* Part of a sequence is a sequence.
LEMMA PartOfSeq ==
  ASSUME NEW S, NEW s \in Seq(S), NEW m \in Nat \ {0}, NEW n \in Nat, n <= Len(s)
  PROVE  /\ SubSeq(s, m, n) \in Seq(S)
         /\ Len(SubSeq(s, m, n)) = IF m <= n THEN n - m + 1 ELSE 0
         /\ \A i \in 1 .. n - m + 1 : SubSeq(s, m, n)[i] = s[m + i - 1]
  <1>1. \A i \in m .. n : s[i] \in S
    BY ElementOfSeq, LenProperties
  <1> QED
    BY <1>1, SubSeqProperties

-----------------------------------------------------------------------------
(* A packet on the wire.                                                   *)

DataOf(records) == <<8, Len(records)>> \o records \o <<Len(records)>>

\* The data field of a packet and its parts.
LEMMA DataIs ==
  ASSUME NEW records \in Seq(Nat)
  PROVE  LET n == Len(records) data == DataOf(records) IN
         /\ n \in Nat /\ data \in Seq(Nat) /\ Len(data) = n + 3
         /\ data[1] = 8 /\ data[2] = n /\ data[n + 3] = n
         /\ \A i \in 1 .. n : data[i + 2] = records[i]
  <1> DEFINE n == Len(records)
             front == <<8, n>>
             most  == front \o records
  <1>1. n \in Nat
    BY LenProperties
  <1> HIDE DEF n
  <1>2. front \in Seq(Nat) /\ Len(front) = 2 /\ front[1] = 8 /\ front[2] = n
    BY <1>1
  <1>3. <<n>> \in Seq(Nat) /\ Len(<<n>>) = 1 /\ <<n>>[1] = n
    BY <1>1
  <1> HIDE DEF front
  <1>4. /\ most \in Seq(Nat) /\ Len(most) = n + 2
        /\ \A i \in 1 .. n + 2 : most[i] = IF i <= 2 THEN front[i] ELSE records[i - 2]
    <2>1. /\ front \o records \in Seq(Nat) /\ Len(front \o records) = Len(front) + Len(records)
          /\ \A i \in 1 .. Len(front) + Len(records) : (front \o records)[i] =
               IF i <= Len(front) THEN front[i] ELSE records[i - Len(front)]
      BY <1>2, ConcatProperties
    <2> QED
      BY <1>1, <1>2, <2>1 DEF n
  <1> HIDE DEF most
  <1>5. /\ most \o <<n>> \in Seq(Nat) /\ Len(most \o <<n>>) = n + 3
        /\ \A i \in 1 .. n + 3 : (most \o <<n>>)[i] = IF i <= n + 2 THEN most[i] ELSE <<n>>[i - (n + 2)]
    BY <1>1, <1>3, <1>4, ConcatProperties
  <1>6. DataOf(records) = most \o <<n>>
    BY DEF DataOf, most, front, n
  <1> DEFINE data == DataOf(records)
  <1>7. data[1] = 8 /\ data[2] = n
    BY <1>1, <1>2, <1>4, <1>5, <1>6
  <1>8. data[n + 3] = n
    BY <1>1, <1>3, <1>5, <1>6
  <1>9. \A i \in 1 .. n : data[i + 2] = records[i]
    BY <1>1, <1>4, <1>5, <1>6, SMTT(30)
  <1> QED
    BY <1>1, <1>5, <1>6, <1>7, <1>8, <1>9 DEF n

\* The frame of a packet: its preamble, length, data and checksum.
LEMMA AvlFrameIs ==
  ASSUME NEW records \in Seq(Nat)
  PROVE  LET n == Len(records) frame == AvlFrame(records) IN
         /\ n \in Nat /\ frame \in Seq(Nat) /\ Len(frame) = n + 6
         /\ frame[1] = 0 /\ frame[2] = n + 3
         /\ SubSeq(frame, 3, n + 5) = DataOf(records)
         /\ frame[n + 6] = Crc16(DataOf(records))
         /\ SubSeq(frame, 5, n + 4) = records
  <1> DEFINE n == Len(records)
             data  == DataOf(records)
             frame == AvlFrame(records)
             front == <<0, n + 3>>
             most  == front \o data
             crc   == Crc16(data)
  <1>1. /\ n \in Nat /\ data \in Seq(Nat) /\ Len(data) = n + 3
        /\ \A i \in 1 .. n : data[i + 2] = records[i]
    BY DataIs
  <1>2. crc \in Nat
    BY <1>1, CrcNat
  <1>3. frame = most \o <<crc>>
    BY <1>1 DEF AvlFrame, DataOf
  <1> HIDE DEF n, data, frame, crc
  <1>4. front \in Seq(Nat) /\ Len(front) = 2 /\ front[1] = 0 /\ front[2] = n + 3
    BY <1>1
  <1>5. <<crc>> \in Seq(Nat) /\ Len(<<crc>>) = 1 /\ <<crc>>[1] = crc
    BY <1>2
  <1> HIDE DEF front
  <1>6. /\ most \in Seq(Nat) /\ Len(most) = n + 5
        /\ \A i \in 1 .. n + 5 : most[i] = IF i <= 2 THEN front[i] ELSE data[i - 2]
    <2>1. /\ front \o data \in Seq(Nat) /\ Len(front \o data) = Len(front) + Len(data)
          /\ \A i \in 1 .. Len(front) + Len(data) : (front \o data)[i] =
               IF i <= Len(front) THEN front[i] ELSE data[i - Len(front)]
      BY <1>1, <1>4, ConcatProperties
    <2> QED
      BY <1>1, <1>4, <2>1
  <1> HIDE DEF most
  <1>7. /\ frame \in Seq(Nat) /\ Len(frame) = n + 6
        /\ \A i \in 1 .. n + 6 : frame[i] = IF i <= n + 5 THEN most[i] ELSE <<crc>>[i - (n + 5)]
    BY <1>1, <1>3, <1>5, <1>6, ConcatProperties
  <1>8. frame[1] = 0 /\ frame[2] = n + 3 /\ frame[n + 6] = crc
    BY <1>1, <1>4, <1>5, <1>6, <1>7
  <1>9. SubSeq(frame, 3, n + 5) = data
    <2>1. /\ SubSeq(frame, 3, n + 5) \in Seq(Nat)
          /\ Len(SubSeq(frame, 3, n + 5)) = n + 3
          /\ \A i \in 1 .. n + 3 : SubSeq(frame, 3, n + 5)[i] = frame[3 + i - 1]
      <3>1. 3 \in Nat \ {0} /\ n + 5 \in Nat /\ n + 5 <= Len(frame) /\ 3 <= n + 5
            /\ (n + 5) - 3 + 1 = n + 3
        BY <1>1, <1>7
      <3> DEFINE m == n + 5
      <3>0. 3 \in Nat \ {0} /\ m \in Nat /\ m <= Len(frame) /\ frame \in Seq(Nat)
        BY <1>7, <3>1
      <3> HIDE DEF m
      <3>2. /\ SubSeq(frame, 3, m) \in Seq(Nat)
            /\ Len(SubSeq(frame, 3, m)) = IF 3 <= m THEN m - 3 + 1 ELSE 0
            /\ \A i \in 1 .. m - 3 + 1 : SubSeq(frame, 3, m)[i] = frame[3 + i - 1]
        BY <3>0, PartOfSeq
      <3>3. 3 <= m /\ m - 3 + 1 = n + 3
        BY <3>1 DEF m
      <3> QED
        BY <3>2, <3>3 DEF m
    <2>2. \A i \in 1 .. n + 3 : frame[3 + i - 1] = data[i]
      BY <1>1, <1>6, <1>7
    <2> QED
      BY <1>1, <2>1, <2>2, SeqEqual
  <1>10. SubSeq(frame, 5, n + 4) = records
    <2>1. /\ SubSeq(frame, 5, n + 4) \in Seq(Nat)
          /\ Len(SubSeq(frame, 5, n + 4)) = n
          /\ \A i \in 1 .. n : SubSeq(frame, 5, n + 4)[i] = frame[5 + i - 1]
      BY <1>1, <1>7, PartOfSeq
    <2>2. \A i \in 1 .. n : frame[5 + i - 1] = records[i]
      BY <1>1, <1>6, <1>7
    <2> QED
      BY <1>1, <2>1, <2>2, SeqEqual DEF n
  <1> QED
    BY <1>1, <1>7, <1>8, <1>9, <1>10 DEF n, data, frame, crc

-----------------------------------------------------------------------------
(* However a frame is cut into chunks, the framer reads it.                *)

\* The loop stops at an incomplete frame.
LEMMA DrainWaits ==
  ASSUME NEW f \in Framers, CutOf(f).event = NeedMore
  PROVE  Drain[f] = [framer |-> f, events |-> << >>]
  BY DrainRound DEF Round

\* The loop reads one complete frame and stops at the end of the buffer.
LEMMA DrainReads ==
  ASSUME NEW f \in Framers, CutOf(f).event # NeedMore, CutOf(f).event.type \notin Failures,
         Rest(f) \in Framers, CutOf(Rest(f)).event = NeedMore
  PROVE  Drain[f] = [framer |-> Rest(f), events |-> <<CutOf(f).event>>]
  <1>1. Drain[f] = [Drain[Rest(f)] EXCEPT !.events = <<CutOf(f).event>> \o @]
    BY DrainRound DEF Round
  <1>2. Drain[Rest(f)] = [framer |-> Rest(f), events |-> << >>]
    BY DrainWaits
  <1>3. <<CutOf(f).event>> \o << >> = <<CutOf(f).event>>
    OBVIOUS
  <1> QED
    BY <1>1, <1>2, <1>3

\* What has come of a frame, and what is still to come of it.
LEMMA FrontOf ==
  ASSUME NEW frame \in Seq(Nat), NEW front \in Seq(Nat), NEW rest \in Seq(Nat),
         front \o rest = frame
  PROVE  /\ Len(front) \in Nat /\ Len(frame) \in Nat /\ Len(front) <= Len(frame)
         /\ \A i \in 1 .. Len(front) : front[i] = frame[i]
         /\ rest # << >> => Len(front) < Len(frame)
         /\ rest = << >> => front = frame
  <1>1. /\ Len(front \o rest) = Len(front) + Len(rest)
        /\ \A i \in 1 .. Len(front) + Len(rest) : (front \o rest)[i] =
             IF i <= Len(front) THEN front[i] ELSE rest[i - Len(front)]
    BY ConcatProperties
  <1>2. Len(front) \in Nat /\ Len(rest) \in Nat /\ Len(frame) \in Nat
    BY LenProperties
  <1>3. rest # << >> => Len(rest) \in Nat \ {0}
    BY EmptySeq
  <1>4. rest = << >> => front \o rest = front
    BY ConcatEmptySeq
  <1> QED
    BY <1>1, <1>2, <1>3, <1>4

\* A framer is its state and its buffer.
LEMMA Refilled ==
  ASSUME NEW f \in Framers, NEW buf
  PROVE  [f EXCEPT !.buffer = buf] = [state |-> f.state, buffer |-> buf]
  BY DEF Framers

\* What a push gives that leaves the rest of a frame to come.
Read(f, chunk, rest, event) ==
  IF rest # << >>
    THEN [framer |-> [f EXCEPT !.buffer = f.buffer \o chunk], events |-> << >>]
    ELSE [framer |-> [state |-> "streaming", buffer |-> << >>], events |-> <<event>>]

\* However the handshake is cut, it is read when its last unit arrives.
LEMMA ReadsHandshake ==
  ASSUME NEW f \in Framers, f.state = "awaiting-imei",
         NEW chunk \in Seq(Nat), NEW rest \in Seq(Nat),
         (f.buffer \o chunk) \o rest = HandshakeFrame
  PROVE  Push(f, chunk) = Read(f, chunk, rest, ImeiRead)
  <1> DEFINE front == f.buffer \o chunk
             g == [state |-> "awaiting-imei", buffer |-> front]
  <1>1. front \in Seq(Nat)
    BY ConcatProperties DEF Framers
  <1>2. g \in Framers
    BY <1>1 DEF Framers
  <1>3. Push(f, chunk) = Drain[g] /\ [f EXCEPT !.buffer = f.buffer \o chunk] = g
    <2>1. [f EXCEPT !.buffer = f.buffer \o chunk] = g
      BY Refilled
    <2>2. Push(f, chunk) = Drain[[f EXCEPT !.buffer = f.buffer \o chunk]]
      BY DEF Push
    <2> QED
      BY <2>1, <2>2
  <1>4. CutOf(g) = NextHandshake(front)
    BY DEF CutOf
  <1>5. front \o rest = HandshakeFrame
    OBVIOUS
  <1> HIDE DEF front
  <1>6. HandshakeFrame \in Seq(Nat) /\ Len(HandshakeFrame) = 2
        /\ HandshakeFrame[1] = ImeiDigits /\ HandshakeFrame[2] = Imei
    BY DEF HandshakeFrame, ImeiDigits, Imei
  <1>7. /\ Len(front) \in Nat /\ Len(front) <= 2
        /\ \A i \in 1 .. Len(front) : front[i] = HandshakeFrame[i]
        /\ rest # << >> => Len(front) < 2
        /\ rest = << >> => front = HandshakeFrame
    <2> HIDE DEF HandshakeFrame
    <2>1. /\ Len(front) \in Nat /\ Len(front) <= Len(HandshakeFrame)
          /\ \A i \in 1 .. Len(front) : front[i] = HandshakeFrame[i]
          /\ rest # << >> => Len(front) < Len(HandshakeFrame)
          /\ rest = << >> => front = HandshakeFrame
      BY <1>1, <1>5, <1>6, FrontOf
    <2> QED
      BY <1>6, <2>1
  <1>8. CASE rest # << >>
    <2>1. NextHandshake(front) = Cut(NeedMore, 0)
      <3>1. front = << >> \/ (front # << >> /\ Len(front) = 1)
        <4>1. front # << >> => Len(front) \in Nat \ {0}
          BY <1>1, EmptySeq
        <4>2. Len(front) < 2
          BY <1>7, <1>8
        <4> DEFINE l == Len(front)
        <4>3. l \in Nat /\ (front # << >> => l # 0) /\ l < 2
          BY <1>7, <4>1, <4>2
        <4> HIDE DEF l
        <4>4. front # << >> => l = 1
          BY <4>3
        <4> QED
          BY <4>4 DEF l
      <3>2. CASE front # << >> /\ Len(front) = 1
        BY <1>6, <1>7, <3>2 DEF NextHandshake
      <3> QED
        BY <3>1, <3>2 DEF NextHandshake
    <2>2. Drain[g] = [framer |-> g, events |-> << >>]
      BY <1>2, <1>4, <2>1, DrainWaits DEF Cut
    <2> QED
      BY <1>3, <1>8, <2>2 DEF Read
  <1>9. CASE rest = << >>
    <2> DEFINE h == [state |-> "streaming", buffer |-> << >>]
    <2>1. NextHandshake(front) = Cut(ImeiRead, 2)
      <3>1. Len(front) = 2 /\ front # << >> /\ front[1] = ImeiDigits /\ front[2] = Imei
        <4>1. HandshakeFrame # << >>
          BY DEF HandshakeFrame
        <4> QED
          BY <1>6, <1>7, <1>9, <4>1
      <3> QED
        BY <3>1 DEF NextHandshake
    <2>2. Rest(g) = h
      <3>1. SubSeq(front, 2 + 1, 2) = << >>
        BY SubSeqEmpty
      <3>2. Len(front) = 2
        BY <1>6, <1>7, <1>9
      <3>3. CutOf(g).units = 2
        BY <1>4, <2>1 DEF Cut
      <3>4. Rest(g) = [state |-> "streaming", buffer |-> SubSeq(front, 2 + 1, Len(front))]
        BY <3>3 DEF Rest, Consume
      <3> QED
        BY <3>1, <3>2, <3>4
    <2>3. h \in Framers
      BY EmptySeq DEF Framers
    <2>4. CutOf(h).event = NeedMore
      BY DEF CutOf, NextPacket, HeaderUnits, Cut
    <2>5. CutOf(g).event = ImeiRead /\ ImeiRead # NeedMore /\ ImeiRead.type \notin Failures
      BY <1>4, <2>1 DEF Cut, ImeiRead, NeedMore, Event, Failures
    <2>6. Drain[g] = [framer |-> h, events |-> <<ImeiRead>>]
      BY <1>2, <2>2, <2>3, <2>4, <2>5, DrainReads
    <2> QED
      BY <1>3, <1>9, <2>6 DEF Read
  <1> QED
    BY <1>8, <1>9

\* However a packet is cut, it is read, whole, when its last unit arrives.
LEMMA ReadsPacket ==
  ASSUME NEW f \in Framers, f.state = "streaming",
         NEW chunk \in Seq(Nat), NEW rest \in Seq(Nat),
         NEW records \in Seq(Nat), Len(records) + 6 <= MaxFrame,
         (f.buffer \o chunk) \o rest = AvlFrame(records)
  PROVE  Push(f, chunk) = Read(f, chunk, rest, Packet(records))
  <1> DEFINE front == f.buffer \o chunk
             g == [state |-> "streaming", buffer |-> front]
             n == Len(records)
             frame == AvlFrame(records)
             data == DataOf(records)
  <1>1. front \in Seq(Nat)
    BY ConcatProperties DEF Framers
  <1>2. g \in Framers
    BY <1>1 DEF Framers
  <1>3. Push(f, chunk) = Drain[g] /\ [f EXCEPT !.buffer = f.buffer \o chunk] = g
    <2>1. [f EXCEPT !.buffer = f.buffer \o chunk] = g
      BY Refilled
    <2>2. Push(f, chunk) = Drain[[f EXCEPT !.buffer = f.buffer \o chunk]]
      BY DEF Push
    <2> QED
      BY <2>1, <2>2
  <1>4. CutOf(g) = NextPacket(front)
    BY DEF CutOf
  <1>5. front \o rest = frame
    OBVIOUS
  <1>6. /\ n \in Nat /\ frame \in Seq(Nat) /\ Len(frame) = n + 6
        /\ frame[1] = 0 /\ frame[2] = n + 3
        /\ SubSeq(frame, 3, n + 5) = data /\ frame[n + 6] = Crc16(data)
    BY AvlFrameIs
  <1>7. /\ data \in Seq(Nat) /\ Len(data) = n + 3
        /\ data[1] = 8 /\ data[2] = n /\ data[n + 3] = n
        /\ \A i \in 1 .. n : data[i + 2] = records[i]
    BY DataIs
  <1>8. n + 6 <= MaxFrame /\ MaxFrame \in Nat
    BY FramerAssumption
  <1> HIDE DEF front, frame, data, n
  <1>9. /\ Len(front) \in Nat /\ Len(front) <= n + 6
        /\ \A i \in 1 .. Len(front) : front[i] = frame[i]
        /\ rest # << >> => Len(front) < n + 6
        /\ rest = << >> => front = frame
    <2>1. /\ Len(front) \in Nat /\ Len(front) <= Len(frame)
          /\ \A i \in 1 .. Len(front) : front[i] = frame[i]
          /\ rest # << >> => Len(front) < Len(frame)
          /\ rest = << >> => front = frame
      BY <1>1, <1>5, <1>6, FrontOf
    <2> QED
      BY <1>6, <2>1
  <1>10. CASE rest # << >>
    <2>1. NextPacket(front) = Cut(NeedMore, 0)
      <3>1. CASE Len(front) < 2
        BY <3>1 DEF NextPacket, HeaderUnits
      <3>2. CASE Len(front) >= 2
        <4>0. 1 \in 1 .. Len(front) /\ 2 \in 1 .. Len(front)
          BY <1>9, <3>2
        <4>1. front[1] = 0 /\ front[2] = n + 3
          BY <1>6, <1>9, <4>0
        <4>2. ~ (Len(front) < 2) /\ ~ (HeaderUnits + front[2] + CrcUnits > MaxFrame)
              /\ Len(front) < HeaderUnits + front[2] + CrcUnits
          BY <1>6, <1>8, <1>9, <1>10, <3>2, <4>1 DEF HeaderUnits, CrcUnits
        <4> QED
          BY <4>1, <4>2 DEF NextPacket
      <3> QED
        BY <1>9, <3>1, <3>2
    <2>2. Drain[g] = [framer |-> g, events |-> << >>]
      BY <1>2, <1>4, <2>1, DrainWaits DEF Cut
    <2> QED
      BY <1>3, <1>10, <2>2 DEF Read
  <1>11. CASE rest = << >>
    <2> DEFINE h == [state |-> "streaming", buffer |-> << >>]
    <2>1. ReadData(data) = Packet(records)
      <3>1. SubSeq(data, 3, n + 2) = records
        <4> DEFINE m == n + 2
        <4>1. data \in Seq(Nat) /\ 3 \in Nat \ {0} /\ m \in Nat /\ m <= Len(data)
          BY <1>6, <1>7
        <4> HIDE DEF m
        <4>2. /\ SubSeq(data, 3, m) \in Seq(Nat)
              /\ Len(SubSeq(data, 3, m)) = IF 3 <= m THEN m - 3 + 1 ELSE 0
              /\ \A i \in 1 .. m - 3 + 1 : SubSeq(data, 3, m)[i] = data[3 + i - 1]
          BY <4>1, PartOfSeq
        <4>3. \A i \in 1 .. n : SubSeq(data, 3, m)[i] = records[i]
          BY <1>6, <1>7, <4>2 DEF m
        <4>4. Len(SubSeq(data, 3, m)) = n
          BY <1>6, <4>2 DEF m
        <4> QED
          BY <4>2, <4>3, <4>4, SeqEqual DEF m, n
      <3>2. ~ (Len(data) < 3) /\ ~ (Len(data) < data[2] + 3) /\ data[1] \in Codecs
            /\ data[data[2] + 3] = data[2] /\ data[2] + 2 = n + 2
        BY <1>6, <1>7 DEF Codecs
      <3> QED
        BY <1>7, <3>1, <3>2 DEF ReadData
    <2>2. ParseAvlPacket(frame) = Packet(records)
      <3>1. HeaderUnits + 1 = 3 /\ Len(frame) - CrcUnits = n + 5
        BY <1>6 DEF HeaderUnits, CrcUnits
      <3> QED
        BY <1>6, <2>1, <3>1 DEF ParseAvlPacket
    <2>3. NextPacket(front) = Cut(Packet(records), n + 6)
      <3>1. front = frame /\ HeaderUnits + frame[2] + CrcUnits = n + 6
        BY <1>6, <1>9, <1>11 DEF HeaderUnits, CrcUnits
      <3>2. ~ (Len(frame) < HeaderUnits) /\ ~ (n + 6 > MaxFrame) /\ ~ (Len(frame) < n + 6)
        BY <1>6, <1>8 DEF HeaderUnits
      <3>3. SubSeq(frame, 1, n + 6) = frame
        BY <1>6, SubSeqFull
      <3> QED
        BY <1>6, <2>2, <3>1, <3>2, <3>3 DEF NextPacket
    <2>4. Rest(g) = h
      <3>1. SubSeq(front, (n + 6) + 1, n + 6) = << >>
        BY <1>6, SubSeqEmpty
      <3>2. Len(front) = n + 6
        BY <1>6, <1>9, <1>11
      <3> QED
        BY <1>4, <2>3, <3>1, <3>2 DEF Rest, Consume, Cut
    <2>5. h \in Framers
      BY EmptySeq DEF Framers
    <2>6. CutOf(h).event = NeedMore
      BY DEF CutOf, NextPacket, HeaderUnits, Cut
    <2>7. CutOf(g).event = Packet(records) /\ Packet(records) # NeedMore
          /\ Packet(records).type \notin Failures
      BY <1>4, <2>3 DEF Cut, Packet, NeedMore, Event, Failures
    <2>8. Drain[g] = [framer |-> h, events |-> <<Packet(records)>>]
      BY <1>2, <2>4, <2>5, <2>6, <2>7, DrainReads
    <2> QED
      BY <1>3, <1>11, <2>8 DEF Read
  <1> QED
    BY <1>10, <1>11

-----------------------------------------------------------------------------
(* The messages of a packet, by topic.                                     *)

\* A set of places has its first, second and so on up to its last.
LEMMA NthOf ==
  ASSUME NEW n \in Nat, NEW P \in SUBSET (1 .. n)
  PROVE  /\ Cardinality(P) \in Nat
         /\ \A k \in 1 .. Cardinality(P) : \E i \in P : Cardinality({j \in P : j <= i}) = k
  <1> DEFINE Up(m) == {j \in P : j <= m}
             Good(m) == \A k \in 1 .. Cardinality(Up(m)) : \E i \in P : Cardinality(Up(i)) = k
             Holds == {m \in 0 .. n : Good(m)}
  <1>1. ASSUME NEW m PROVE IsFiniteSet(Up(m)) /\ Cardinality(Up(m)) \in Nat
    <2>1. IsFiniteSet(1 .. n)
      BY FS_Interval
    <2>2. IsFiniteSet(Up(m))
      BY <2>1, FS_Subset
    <2> QED
      BY <2>2, FS_CardinalityType
  <1>2. Up(0) = {} /\ Up(n) = P
    <2>1. \A j \in P : ~ (j <= 0) /\ j <= n
      OBVIOUS
    <2> QED
      BY <2>1
  <1>3. ASSUME NEW m \in 0 .. n - 1
        PROVE  Up(m + 1) = IF m + 1 \in P THEN Up(m) \cup {m + 1} ELSE Up(m)
    <2>1. \A j \in P : j <= m + 1 <=> (j <= m \/ j = m + 1)
      OBVIOUS
    <2> QED
      BY <2>1
  <1> HIDE DEF Up
  <1>5. Good(0)
    BY <1>2, FS_EmptySet
  <1>6. ASSUME NEW m \in 0 .. n - 1, Good(m) PROVE Good(m + 1)
    <2>1. CASE m + 1 \notin P
      BY <1>3, <1>6, <2>1
    <2>2. CASE m + 1 \in P
      <3>1. Cardinality(Up(m + 1)) = Cardinality(Up(m)) + 1
        <4>1. m + 1 \notin Up(m)
          BY DEF Up
        <4>2. Up(m + 1) = Up(m) \cup {m + 1}
          BY <1>3, <2>2
        <4> QED
          BY <1>1, <4>1, <4>2, FS_AddElement
      <3>2. ASSUME NEW k \in 1 .. Cardinality(Up(m + 1))
            PROVE  \E i \in P : Cardinality(Up(i)) = k
        <4>1. k \in 1 .. Cardinality(Up(m)) \/ k = Cardinality(Up(m + 1))
          BY <1>1, <3>1
        <4> QED
          BY <1>6, <2>2, <4>1
      <3> QED
        BY <3>2
    <2> QED
      BY <2>1, <2>2
  <1> HIDE DEF Good
  <1>7. 0 \in Holds /\ \A m \in 0 .. n - 1 : m \in Holds => m + 1 \in Holds
    BY <1>5, <1>6
  <1> HIDE DEF Holds
  <1>8. n \in Holds
    BY <1>7, UpTo
  <1>9. \A k \in 1 .. Cardinality(P) : \E i \in P : Cardinality(Up(i)) = k
    BY <1>2, <1>8 DEF Holds, Good
  <1> QED
    BY <1>1, <1>2, <1>9 DEF Up

\* A batch is a sequence of the records of the packet.
LEMMA BatchType ==
  ASSUME NEW records \in Seq(Nat), NEW t
  PROVE  Batch(records, t) \in Seq(Nat)
  <1> DEFINE P == {i \in DOMAIN records : Freshness(records[i]) = t}
             Nth(k) == CHOOSE i \in P : Cardinality({j \in P : j <= i}) = k
             batch == [k \in 1 .. Cardinality(P) |-> records[Nth(k)]]
  <1>1. Len(records) \in Nat /\ DOMAIN records = 1 .. Len(records)
    BY LenProperties
  <1>2. P \in SUBSET (1 .. Len(records))
    BY <1>1
  <1>3. Batch(records, t) = batch
    BY DEF Batch
  <1> HIDE DEF P
  <1>4. /\ Cardinality(P) \in Nat
        /\ \A k \in 1 .. Cardinality(P) : \E i \in P : Cardinality({j \in P : j <= i}) = k
    BY <1>1, <1>2, NthOf
  <1>5. \A k \in 1 .. Cardinality(P) : Nth(k) \in P
    BY <1>4
  <1> HIDE DEF Nth
  <1>6. \A k \in 1 .. Cardinality(P) : records[Nth(k)] \in Nat
    BY <1>2, <1>5, ElementOfSeq
  <1>7. batch \in [1 .. Cardinality(P) -> Nat]
    BY <1>6
  <1> HIDE DEF batch
  <1>8. batch \in Seq(Nat)
    BY <1>4, <1>7, SeqDef
  <1> QED
    BY <1>3, <1>8

-----------------------------------------------------------------------------
(* Types.                                                                  *)

Replies == {Accept, Reject} \cup Nat

\* Dropping what was not read keeps the types.
LEMMA UnreadType ==
  ASSUME IngestTypeOK, NEW c \in Conns, Unread(c)
  PROVE  /\ toServer' \in [Conns -> Seq(Nat)] /\ framer' \in [Conns -> Framers]
         /\ todo' \in [Conns -> Seq(Events)]
  <1>1. << >> \in Seq(Nat) /\ << >> \in Seq(Events) /\ NewFramer \in Framers
    BY EmptySeq DEF NewFramer, Framers
  <1>2. todo \in [Conns -> Seq(Events)]
    BY DEF IngestTypeOK, Events
  <1>3. todo' \in [Conns -> Seq(Events)]
    BY <1>1, <1>2 DEF Unread
  <1>4. toServer' \in [Conns -> Seq(Nat)]
    BY <1>1 DEF IngestTypeOK, Unread
  <1>5. framer' \in [Conns -> Framers]
    BY <1>1 DEF IngestTypeOK, Unread
  <1> QED
    BY <1>3, <1>4, <1>5

\* Writing a reply keeps the types.
LEMMA WriteType ==
  ASSUME IngestTypeOK, NEW c \in Conns, NEW reply \in Replies, Write(c, reply)
  PROVE  /\ toDevice' \in [Conns -> Seq(Replies)]
         /\ toServer' \in [Conns -> Seq(Nat)] /\ framer' \in [Conns -> Framers]
         /\ sock' \in [Conns -> {"closed", "open", "ended"}]
         /\ sock[c] # "open" => todo' \in [Conns -> Seq(Events)]
  <1>1. toDevice \in [Conns -> Seq(Replies)]
    BY DEF IngestTypeOK, Replies
  <1>2. Append(toDevice[c], reply) \in Seq(Replies)
    BY <1>1, AppendProperties
  <1>3. toDevice' \in [Conns -> Seq(Replies)]
    BY <1>1, <1>2 DEF Write
  <1>4. CASE sock[c] = "open"
    BY <1>3, <1>4 DEF Write, IngestTypeOK
  <1>5. CASE sock[c] # "open"
    <2>1. Destroy(c)
      BY <1>5 DEF Write
    <2>2. sock' \in [Conns -> {"closed", "open", "ended"}]
      BY <2>1 DEF Destroy, IngestTypeOK
    <2> QED
      BY <1>3, <2>1, <2>2, UnreadType DEF Destroy
  <1> QED
    BY <1>4, <1>5

\* Taking an event or a reply off its queue keeps the types.
LEMMA TailType ==
  ASSUME NEW f, NEW S, f \in [Conns -> Seq(S)], NEW c \in Conns, f[c] # << >>
  PROVE  [f EXCEPT ![c] = Tail(@)] \in [Conns -> Seq(S)] /\ Head(f[c]) \in S
  BY HeadTailProperties

\* Nothing is sent, read or stored at first.
LEMMA TypeInit == IngestInit => IngestTypeOK
  <1> SUFFICES ASSUME IngestInit PROVE IngestTypeOK
    OBVIOUS
  <1>1. NewFramer \in Framers
    BY EmptySeq DEF NewFramer, Framers
  <1>2. Nothing \in [Topics -> Seq(Nat)]
    BY EmptySeq DEF Nothing
  <1> QED
    BY <1>1, <1>2, EmptySeq, IngestAssumption DEF IngestInit, IngestTypeOK, Topics, NotPublishing

\* What the device does.
LEMMA TypeDevice ==
  ASSUME IngestTypeOK,
         \/ TakeRecord \/ Age \/ Connect \/ GetReply \/ GetRejected \/ LoseLink \/ SeeClose
         \/ \E n \in 1 .. MaxPacket : SendPacket(n)
  PROVE  IngestTypeOK'
  <1> DEFINE Replying == {Accept, Reject} \cup Nat
  <1>0. /\ taken \in 0 .. MaxRecords /\ aged \in 0 .. taken /\ faults \in 0 .. MaxFaults
        /\ MaxRecords \in Nat /\ MaxPacket \in Nat \ {0} /\ MaxFaults \in Nat
        /\ flash \in Seq(Records) /\ Len(flash) \in Nat /\ Len(flash) <= taken
    BY IngestAssumption, LenProperties DEF IngestTypeOK
  <1>1. ASSUME TakeRecord PROVE IngestTypeOK'
    <2>1. taken + 1 \in Records
      BY <1>0, <1>1 DEF TakeRecord, Records
    <2>2. flash' \in Seq(Records) /\ Len(flash') = Len(flash) + 1
      BY <1>0, <1>1, <2>1, AppendProperties DEF TakeRecord
    <2>3. taken' \in 0 .. MaxRecords /\ aged' \in 0 .. taken' /\ Len(flash') <= taken'
      BY <1>0, <1>1, <2>2 DEF TakeRecord
    <2> QED
      BY <1>1, <2>2, <2>3 DEF TakeRecord, IngestTypeOK, serverVars
  <1>2. ASSUME Age PROVE IngestTypeOK'
    <2>1. aged' \in 0 .. taken'
      BY <1>0, <1>2 DEF Age, deviceVars
    <2> QED
      BY <1>2, <2>1 DEF Age, IngestTypeOK, serverVars, deviceVars
  <1>3. ASSUME Connect PROVE IngestTypeOK'
    <2> DEFINE c == CHOOSE x \in Conns : Free(x)
    <2>1. c \in Conns
      BY <1>3 DEF Connect
    <2>2. /\ link' = c /\ toServer' = [toServer EXCEPT ![c] = HandshakeFrame]
          /\ sock' = [sock EXCEPT ![c] = "open"] /\ framer' = [framer EXCEPT ![c] = NewFramer]
          /\ waits' = "imei"
          /\ UNCHANGED <<taken, flash, sent, toDevice, todo, batches, count, listening, log, aged, faults>>
      BY <1>3 DEF Connect
    <2> HIDE DEF c
    <2>3. HandshakeFrame \in Seq(Nat)
      BY DEF HandshakeFrame, ImeiDigits, Imei
    <2>4. NewFramer \in Framers
      BY EmptySeq DEF NewFramer, Framers
    <2> QED
      BY <2>1, <2>2, <2>3, <2>4 DEF IngestTypeOK
  <1>4. ASSUME GetReply PROVE IngestTypeOK'
    <2>1. link \in Conns /\ toDevice[link] # << >> /\ toDevice \in [Conns -> Seq(Replying)]
      BY <1>4 DEF GetReply, IngestTypeOK
    <2>2. toDevice' \in [Conns -> Seq(Replying)]
      BY <1>4, <2>1, TailType DEF GetReply
    <2>3. sent \in Nat
      BY <1>0 DEF IngestTypeOK
    <2>4. flash' \in Seq(Records) /\ Len(flash') <= taken'
      <3>1. CASE flash' = flash
        BY <1>0, <1>4, <3>1 DEF GetReply
      <3>2. CASE flash' = SubSeq(flash, sent + 1, Len(flash))
        <4> DEFINE l == Len(flash)
                   m == sent + 1
        <4>1. l \in Nat /\ m \in Nat \ {0} /\ l <= Len(flash) /\ l <= taken
          BY <1>0, <2>3
        <4> HIDE DEF l, m
        <4>2. SubSeq(flash, m, l) \in Seq(Records) /\ Len(SubSeq(flash, m, l)) = IF m <= l THEN l - m + 1 ELSE 0
          BY <1>0, <4>1, PartOfSeq
        <4>3. Len(SubSeq(flash, m, l)) <= taken
          BY <1>0, <4>1, <4>2
        <4> QED
          BY <1>4, <3>2, <4>2, <4>3 DEF GetReply, l, m
      <3> QED
        BY <1>4, <3>1, <3>2 DEF GetReply
    <2> QED
      BY <1>4, <2>2, <2>4 DEF GetReply, IngestTypeOK, serverVars
  <1>5. ASSUME HangUp, link \in Conns, faults' \in 0 .. MaxFaults PROVE IngestTypeOK'
    BY <1>5, EmptySeq DEF HangUp, IngestTypeOK, serverVars
  <1>6. ASSUME GetRejected \/ LoseLink \/ SeeClose PROVE IngestTypeOK'
    <2>1. HangUp /\ link \in Conns /\ faults' \in 0 .. MaxFaults
      BY <1>0, <1>6 DEF GetRejected, LoseLink, SeeClose, Fault, IngestTypeOK
    <2> QED
      BY <1>5, <2>1
  <1>7. ASSUME NEW n \in 1 .. MaxPacket, SendPacket(n) PROVE IngestTypeOK'
    <2>1. link \in Conns /\ n \in Nat /\ n <= Len(flash)
      BY <1>0, <1>7 DEF SendPacket, IngestTypeOK
    <2>2. SubSeq(flash, 1, n) \in Seq(Records)
      BY <1>0, <2>1, PartOfSeq
    <2>3. SubSeq(flash, 1, n) \in Seq(Nat)
      <3>1. Records \subseteq Nat
        BY <1>0 DEF Records
      <3> QED
        BY <2>2, <3>1, SeqMonotonic
    <2>4. AvlFrame(SubSeq(flash, 1, n)) \in Seq(Nat)
      BY <2>3, AvlFrameIs
    <2>5. toServer[link] \o AvlFrame(SubSeq(flash, 1, n)) \in Seq(Nat)
      BY <2>1, <2>4, ConcatProperties DEF IngestTypeOK
    <2>6. toServer' \in [Conns -> Seq(Nat)]
      BY <1>7, <2>5 DEF SendPacket, IngestTypeOK
    <2>7. sent' \in 0 .. MaxPacket
      BY <1>0, <1>7 DEF SendPacket
    <2> QED
      BY <1>7, <2>6, <2>7 DEF SendPacket, IngestTypeOK, serverVars
  <1> QED
    BY <1>1, <1>2, <1>3, <1>4, <1>6, <1>7

\* What the server does for one connection, the network and the broker.
LEMMA TypeServer ==
  ASSUME IngestTypeOK, NEW c \in Conns,
         \/ \E i \in 1 .. Len(toServer[c]), u \in Garbage : Damage(c, i, u)
         \/ \E n \in 1 .. Len(toServer[c]) : Receive(c, n)
         \/ Handle(c)
         \/ \E t \in Topics : StoreBatch(c, t)
         \/ Published(c) \/ PublishFails(c) \/ IdleTimeout(c) \/ PeerGone(c)
  PROVE  IngestTypeOK'
  <1> DEFINE Sockets == {"closed", "open", "ended"}
  <1>0. /\ faults \in 0 .. MaxFaults /\ MaxFaults \in Nat
        /\ toServer \in [Conns -> Seq(Nat)] /\ toDevice \in [Conns -> Seq(Replies)]
        /\ sock \in [Conns -> Sockets] /\ framer \in [Conns -> Framers]
        /\ todo \in [Conns -> Seq(Events)] /\ batches \in [Conns -> [Topics -> Seq(Nat)]]
        /\ count \in [Conns -> Nat \cup {NotPublishing}] /\ log \in [Topics -> Seq(Nat)]
    BY IngestAssumption DEF IngestTypeOK, Replies, Events
  <1>1. ASSUME NEW i \in 1 .. Len(toServer[c]), NEW u \in Garbage, Damage(c, i, u)
        PROVE  IngestTypeOK'
    <2>1. [toServer[c] EXCEPT ![i] = u] \in Seq(Nat)
      BY <1>0, <1>1, IngestAssumption, ExceptSeq
    <2>2. toServer' \in [Conns -> Seq(Nat)]
      BY <1>0, <1>1, <2>1 DEF Damage
    <2>3. faults' \in 0 .. MaxFaults
      BY <1>0, <1>1 DEF Damage, Fault
    <2> QED
      BY <1>1, <2>2, <2>3 DEF Damage, IngestTypeOK, deviceVars, serverVars
  <1>2. ASSUME NEW n \in 1 .. Len(toServer[c]), Receive(c, n) PROVE IngestTypeOK'
    <2> DEFINE chunk == SubSeq(toServer[c], 1, n)
               push  == Push(framer[c], chunk)
               l == Len(toServer[c])
               m == n + 1
    <2>1. l \in Nat /\ n \in 1 .. l /\ m \in Nat \ {0}
      BY <1>0, LenProperties
    <2>2. chunk \in Seq(Nat)
      BY <1>0, <2>1, PartOfSeq
    <2>3. push.framer \in Framers /\ push.events \in Seq(Events)
      <3> HIDE DEF chunk
      <3> QED
        BY <1>0, <2>2, PushType DEF Drained
    <2>4. SubSeq(toServer[c], m, l) \in Seq(Nat)
      <3>1. toServer[c] \in Seq(Nat) /\ l <= Len(toServer[c])
        BY <1>0, <2>1
      <3> HIDE DEF l, m
      <3> QED
        BY <2>1, <3>1, PartOfSeq
    <2>5. framer' = [framer EXCEPT ![c] = push.framer] /\ todo' = [todo EXCEPT ![c] = push.events]
          /\ toServer' = [toServer EXCEPT ![c] = SubSeq(toServer[c], m, l)]
      BY <1>0, <1>2 DEF Receive
    <2> HIDE DEF push, l, m
    <2>6. framer' \in [Conns -> Framers] /\ todo' \in [Conns -> Seq(Events)] /\ toServer' \in [Conns -> Seq(Nat)]
      BY <1>0, <2>3, <2>4, <2>5
    <2> QED
      BY <1>2, <2>6 DEF Receive, IngestTypeOK, deviceVars, Events
  <1>3. ASSUME NEW type, NextEvent(c, type)
        PROVE  /\ [todo EXCEPT ![c] = Tail(@)] \in [Conns -> Seq(Events)]
               /\ Head(todo[c]) \in Events /\ Head(todo[c]).records \in Seq(Nat)
    <2>1. todo[c] # << >>
      BY <1>3 DEF NextEvent
    <2>2. Head(todo[c]) \in Events
      BY <1>0, <2>1, TailType
    <2> QED
      BY <1>0, <2>1, <2>2, TailType DEF Events
  <1>4. ASSUME NEW reply \in Replies, Write(c, reply),
               sock[c] = "open" => todo' \in [Conns -> Seq(Events)],
               count' \in [Conns -> Nat \cup {NotPublishing}],
               UNCHANGED <<deviceVars, batches, listening, log, aged, faults>>
        PROVE  IngestTypeOK'
    <2>1. todo' \in [Conns -> Seq(Events)]
      BY <1>4, WriteType
    <2>2. toDevice' \in [Conns -> Seq({Accept, Reject} \cup Nat)]
      BY <1>4, WriteType DEF Replies
    <2> QED
      BY <1>4, <2>1, <2>2, WriteType DEF IngestTypeOK, deviceVars, Events
  <1>5. ASSUME HandleImei(c) PROVE IngestTypeOK'
    BY <1>0, <1>3, <1>4, <1>5 DEF HandleImei, Replies
  <1>6. ASSUME HandleBadCrc(c) PROVE IngestTypeOK'
    BY <1>0, <1>3, <1>4, <1>6 DEF HandleBadCrc, Replies
  <1>7. ASSUME HandlePacket(c) PROVE IngestTypeOK'
    <2> DEFINE records == Head(todo[c]).records
               new == [t \in Topics |-> Batch(records, t)]
    <2>1. records \in Seq(Nat) /\ Len(records) \in Nat
      BY <1>3, <1>7, LenProperties DEF HandlePacket
    <2> HIDE DEF records
    <2>2. new \in [Topics -> Seq(Nat)]
      BY <2>1, BatchType
    <2>3. batches' = [batches EXCEPT ![c] = new] /\ count' = [count EXCEPT ![c] = Len(records)]
      BY <1>7 DEF HandlePacket, records
    <2> HIDE DEF new
    <2>4. batches' \in [Conns -> [Topics -> Seq(Nat)]] /\ count' \in [Conns -> Nat \cup {NotPublishing}]
      BY <1>0, <2>1, <2>2, <2>3
    <2>5. todo' \in [Conns -> Seq(Events)]
      BY <1>3, <1>7 DEF HandlePacket
    <2> QED
      BY <1>7, <2>4, <2>5 DEF HandlePacket, IngestTypeOK, deviceVars, Events
  <1>8. ASSUME Destroy(c), toDevice' \in [Conns -> Seq(Replies)], faults' \in 0 .. MaxFaults,
               batches' \in [Conns -> [Topics -> Seq(Nat)]],
               count' \in [Conns -> Nat \cup {NotPublishing}],
               UNCHANGED <<deviceVars, listening, log, aged>>
        PROVE  IngestTypeOK'
    <2>1. sock' \in [Conns -> Sockets]
      BY <1>0, <1>8 DEF Destroy
    <2>2. toDevice' \in [Conns -> Seq({Accept, Reject} \cup Nat)]
      BY <1>8 DEF Replies
    <2>3. /\ toServer' \in [Conns -> Seq(Nat)] /\ framer' \in [Conns -> Framers]
          /\ todo' \in [Conns -> Seq(Events)]
      BY <1>8, UnreadType DEF Destroy
    <2> QED
      BY <1>8, <2>1, <2>2, <2>3 DEF IngestTypeOK, deviceVars, Events
  <1>9. ASSUME HandleError(c) PROVE IngestTypeOK'
    <2>1. Append(toDevice[c], Reject) \in Seq(Replies)
      BY <1>0, AppendProperties DEF Replies
    <2>2. toDevice' \in [Conns -> Seq(Replies)]
      BY <1>0, <1>9, <2>1 DEF HandleError
    <2> QED
      BY <1>0, <1>8, <1>9, <2>2 DEF HandleError
  <1>10. ASSUME NEW t \in Topics, StoreBatch(c, t) PROVE IngestTypeOK'
    <2>1. log[t] \o batches[c][t] \in Seq(Nat)
      BY <1>0, ConcatProperties
    <2>2. log' \in [Topics -> Seq(Nat)]
      BY <1>0, <1>10, <2>1 DEF StoreBatch
    <2>3. batches' \in [Conns -> [Topics -> Seq(Nat)]]
      BY <1>0, <1>10, EmptySeq DEF StoreBatch
    <2> QED
      BY <1>10, <2>2, <2>3 DEF StoreBatch, IngestTypeOK, deviceVars
  <1>11. ASSUME Published(c) PROVE IngestTypeOK'
    <2>1. count[c] \in Replies
      BY <1>0, <1>11 DEF Published, Publishing, Replies
    <2>2. count' \in [Conns -> Nat \cup {NotPublishing}]
      BY <1>0, <1>11 DEF Published
    <2> QED
      BY <1>0, <1>4, <1>11, <2>1, <2>2 DEF Published
  <1>12. ASSUME PublishFails(c) PROVE IngestTypeOK'
    <2>1. Nothing \in [Topics -> Seq(Nat)]
      BY EmptySeq DEF Nothing
    <2>2. /\ batches' \in [Conns -> [Topics -> Seq(Nat)]]
          /\ count' \in [Conns -> Nat \cup {NotPublishing}] /\ faults' \in 0 .. MaxFaults
      BY <1>0, <1>12, <2>1 DEF PublishFails, Fault
    <2> QED
      BY <1>0, <1>8, <1>12, <2>2 DEF PublishFails
  <1>13. ASSUME IdleTimeout(c) \/ PeerGone(c) PROVE IngestTypeOK'
    BY <1>0, <1>8, <1>13 DEF IdleTimeout, PeerGone, Fault
  <1> QED
    BY <1>1, <1>2, <1>5, <1>6, <1>7, <1>9, <1>10, <1>11, <1>12, <1>13 DEF Handle

\* The end of the process and its replacement keep the types.
LEMMA TypeProcess ==
  ASSUME IngestTypeOK, Shutdown \/ Exit
  PROVE  IngestTypeOK'
  <1>0. faults' \in 0 .. MaxFaults
    BY IngestAssumption DEF Shutdown, Exit, Fault, IngestTypeOK
  <1>1. CASE Shutdown
    BY <1>0, <1>1 DEF Shutdown, IngestTypeOK, deviceVars
  <1>2. CASE Exit
    <2>1. NewFramer \in Framers /\ Nothing \in [Topics -> Seq(Nat)]
      BY EmptySeq DEF NewFramer, Framers, Nothing
    <2> QED
      BY <1>0, <1>2, <2>1, EmptySeq DEF Exit, IngestTypeOK, deviceVars
  <1> QED
    BY <1>1, <1>2

\* Every step keeps the types.
LEMMA TypeNext == IngestTypeOK /\ [IngestNext]_ingestVars => IngestTypeOK'
  <1> SUFFICES ASSUME IngestTypeOK, [IngestNext]_ingestVars PROVE IngestTypeOK'
    OBVIOUS
  <1>1. CASE UNCHANGED ingestVars
    BY <1>1 DEF ingestVars, deviceVars, serverVars, IngestTypeOK
  <1>2. CASE IngestNext
    BY <1>2, TypeDevice, TypeServer, TypeProcess DEF IngestNext
  <1> QED
    BY <1>1, <1>2

\* Ingest's state keeps its types: what is read off the wire are units, the log
\* holds records, and no bound is passed (server.ts, framer.ts).
THEOREM IngestAlwaysTyped == IngestSpec => []IngestTypeOK
  BY TypeInit, TypeNext, PTL DEF IngestSpec

-----------------------------------------------------------------------------
(* The inductive invariant of a stream nobody damaged.                     *)

Clean == Garbage = {} \/ faults = 0

\* The records after the first a, n of them.
Interval(a, n) == [i \in 1 .. n |-> a + i]

Deleted == taken - Len(flash)

Streaming == [state |-> "streaming", buffer |-> << >>]

\* What the server has of the frame on its way, and what it has not.
Pipe(c) == framer[c].buffer \o toServer[c]

Idle(c) == framer[c] = Streaming /\ toServer[c] = << >> /\ todo[c] = << >>

\* The handshake is on its way or read.
Greets(c) ==
  /\ ~ Publishing(c)
  /\ \/ /\ framer[c].state = "awaiting-imei" /\ todo[c] = << >>
        /\ toServer[c] # << >> /\ Pipe(c) = HandshakeFrame
     \/ framer[c] = Streaming /\ toServer[c] = << >> /\ todo[c] = <<ImeiRead>>

\* A packet is on its way or read.
Carries(c, s) ==
  /\ ~ Publishing(c)
  /\ \/ /\ framer[c].state = "streaming" /\ todo[c] = << >>
        /\ toServer[c] # << >> /\ Pipe(c) = AvlFrame(s)
     \/ framer[c] = Streaming /\ toServer[c] = << >> /\ todo[c] = <<Packet(s)>>

\* A packet is being published: what it has left for a topic is all or nothing
\* of that topic's part.
Publishes(c, a, n) ==
  /\ count[c] = n
  /\ \E x \in a .. a + n :
       /\ batches[c]["backfill"] \in {<< >>, Interval(a, x - a)}
       /\ batches[c]["live"] \in {<< >>, Interval(x, a + n - x)}

ConnInv(c) ==
  /\ sock[c] = "closed" => framer[c] = NewFramer /\ todo[c] = << >>
  /\ sock[c] # "closed" =>
       \/ Idle(c)
       \/ Greets(c)
       \/ \E a \in Nat, n \in 1 .. MaxPacket : a + n <= taken /\ Carries(c, Interval(a, n))
  /\ ~ Publishing(c) => batches[c] = Nothing
  /\ Publishing(c) =>
       \E a \in Nat, n \in 1 .. MaxPacket : a + n <= taken /\ Publishes(c, a, n)

\* Replies are for the device's own connection.
Quiet == \A c \in Conns : c # link => toDevice[c] = << >>

Batched(c) == UNION {ToSet(batches[c][t]) : t \in Topics}
Span == Deleted + 1 .. Deleted + sent

\* What the device waits for is on its way, and it is the answer to what it
\* sent: its next packet starts at the first record it has not deleted.
LinkInv ==
  /\ link = NoConn => waits = "nothing"
  /\ link # NoConn /\ waits = "nothing" =>
       /\ toDevice[link] = << >> /\ ~ Publishing(link)
       /\ sock[link] # "closed" => Idle(link)
  /\ link # NoConn /\ waits = "imei" =>
       /\ ~ Publishing(link)
       /\ sock[link] # "closed" => Greets(link) \/ Idle(link)
       /\ toDevice[link] # << >> =>
            /\ toDevice[link] = <<Accept>>
            /\ sock[link] # "closed" => Idle(link)
  /\ link # NoConn /\ waits = "ack" =>
       /\ sock[link] # "closed" => Carries(link, Interval(Deleted, sent)) \/ Idle(link)
       /\ Publishing(link) => /\ Publishes(link, Deleted, sent)
                              /\ Span \subseteq Stored \cup Batched(link)
       /\ toDevice[link] # << >> =>
            /\ toDevice[link] = <<sent>> /\ ~ Publishing(link)
            /\ Span \subseteq Stored
            /\ sock[link] # "closed" => Idle(link)

\* The flash memory holds what was taken last; the rest is stored.
DeviceInv ==
  /\ flash = Interval(Deleted, Len(flash))
  /\ waits = "ack" => sent \in 1 .. Len(flash)
  /\ 1 .. Deleted \subseteq Stored

StreamInv == DeviceInv /\ LinkInv /\ Quiet /\ \A c \in Conns : ConnInv(c)

\* An interval is a sequence of consecutive records.
LEMMA IntervalIs ==
  ASSUME NEW a \in Nat, NEW n \in Nat
  PROVE  /\ Interval(a, n) \in Seq(Nat) /\ Len(Interval(a, n)) = n
         /\ \A i \in 1 .. n : Interval(a, n)[i] = a + i
         /\ ToSet(Interval(a, n)) = a + 1 .. a + n
         /\ n = 0 => Interval(a, n) = << >>
  <1> DEFINE s == Interval(a, n)
  <1>1. s \in [1 .. n -> Nat] /\ \A i \in 1 .. n : s[i] = a + i
    BY DEF Interval
  <1> HIDE DEF s
  <1>2. s \in Seq(Nat)
    BY <1>1, SeqDef
  <1>3. Len(s) = n
    BY <1>1, <1>2, LenProperties
  <1>4. ToSet(s) = a + 1 .. a + n
    <2>1. ToSet(s) = {s[i] : i \in 1 .. n}
      BY <1>1 DEF ToSet
    <2>2. ASSUME NEW r \in a + 1 .. a + n PROVE \E i \in 1 .. n : s[i] = r
      <3>1. r - a \in 1 .. n /\ a + (r - a) = r
        OBVIOUS
      <3> QED
        BY <1>1, <3>1
    <2>3. \A i \in 1 .. n : s[i] \in a + 1 .. a + n
      BY <1>1
    <2> QED
      BY <2>1, <2>2, <2>3
  <1>5. n = 0 => s = << >>
    BY <1>2, <1>3, EmptySeq
  <1> QED
    BY <1>1, <1>2, <1>3, <1>4, <1>5 DEF s

\* The flash memory from its first record on is an interval.
LEMMA PartOfInterval ==
  ASSUME NEW a \in Nat, NEW l \in Nat, NEW n \in 1 .. l
  PROVE  /\ SubSeq(Interval(a, l), 1, n) = Interval(a, n)
         /\ SubSeq(Interval(a, l), n + 1, l) = Interval(a + n, l - n)
  <1> DEFINE s == Interval(a, l)
             m == n + 1
  <1>1. s \in Seq(Nat) /\ Len(s) = l /\ \A i \in 1 .. l : s[i] = a + i
    BY IntervalIs
  <1> HIDE DEF s
  <1>2. n \in Nat /\ l - n \in Nat /\ a + n \in Nat /\ m \in Nat \ {0}
    OBVIOUS
  <1>3. SubSeq(s, 1, n) = Interval(a, n)
    <2>1. /\ SubSeq(s, 1, n) \in Seq(Nat)
          /\ Len(SubSeq(s, 1, n)) = IF 1 <= n THEN n - 1 + 1 ELSE 0
          /\ \A i \in 1 .. n - 1 + 1 : SubSeq(s, 1, n)[i] = s[1 + i - 1]
      BY <1>1, <1>2, PartOfSeq
    <2>2. \A i \in 1 .. n : SubSeq(s, 1, n)[i] = a + i
      BY <1>1, <2>1
    <2>3. Interval(a, n) \in Seq(Nat) /\ Len(Interval(a, n)) = n /\ \A i \in 1 .. n : Interval(a, n)[i] = a + i
      BY <1>2, IntervalIs
    <2> QED
      BY <2>1, <2>2, <2>3, SeqEqual
  <1>4. SubSeq(s, m, l) = Interval(a + n, l - n)
    <2>1. m <= l => l - m + 1 = l - n
      OBVIOUS
    <2>2. ~ (m <= l) => l - n = 0
      OBVIOUS
    <2>3. \A i \in 1 .. l - n : m + i - 1 = n + i /\ n + i \in 1 .. l /\ a + (n + i) = (a + n) + i /\ i \in 1 .. l - m + 1
      OBVIOUS
    <2>0. s \in Seq(Nat) /\ m \in Nat \ {0} /\ l \in Nat /\ l <= Len(s)
      BY <1>1
    <2> HIDE DEF m, s
    <2>4. /\ SubSeq(s, m, l) \in Seq(Nat)
          /\ Len(SubSeq(s, m, l)) = IF m <= l THEN l - m + 1 ELSE 0
          /\ \A i \in 1 .. l - m + 1 : SubSeq(s, m, l)[i] = s[m + i - 1]
      BY <2>0, PartOfSeq
    <2>5. Len(SubSeq(s, m, l)) = l - n
      BY <2>1, <2>2, <2>4
    <2>6. ASSUME NEW i \in 1 .. l - n PROVE SubSeq(s, m, l)[i] = (a + n) + i
      <3>1. SubSeq(s, m, l)[i] = s[m + i - 1]
        BY <2>3, <2>4
      <3>2. m + i - 1 = n + i /\ n + i \in 1 .. l /\ a + (n + i) = (a + n) + i
        BY <2>3
      <3>3. s[n + i] = a + (n + i)
        BY <1>1, <3>2
      <3> QED
        BY <3>1, <3>2, <3>3
    <2>7. /\ Interval(a + n, l - n) \in Seq(Nat) /\ Len(Interval(a + n, l - n)) = l - n
          /\ \A i \in 1 .. l - n : Interval(a + n, l - n)[i] = (a + n) + i
      BY <1>2, IntervalIs
    <2> DEFINE u == SubSeq(s, m, l)
               v == Interval(a + n, l - n)
    <2>8. u \in Seq(Nat) /\ v \in Seq(Nat) /\ Len(u) = Len(v) /\ \A i \in 1 .. Len(u) : u[i] = v[i]
      BY <2>4, <2>5, <2>6, <2>7
    <2> HIDE DEF u, v
    <2>9. u = v
      BY <2>8, SeqEqual
    <2> QED
      BY <2>9 DEF u, v
  <1> QED
    BY <1>3, <1>4 DEF s, m

\* The records of topic t in a packet follow each other.
Run(a, n, t, lo, hi) == \A i \in 1 .. n : Freshness(a + i) = t <=> i \in lo + 1 .. hi

\* Places that follow each other make a batch that is an interval.
LEMMA BatchOfRun ==
  ASSUME NEW a \in Nat, NEW n \in Nat, NEW t,
         NEW lo \in Nat, NEW hi \in Nat, lo <= hi, hi <= n,
         Run(a, n, t, lo, hi)
  PROVE  Batch(Interval(a, n), t) = Interval(a + lo, hi - lo)
  <1> DEFINE s == Interval(a, n)
             P == {i \in DOMAIN s : Freshness(s[i]) = t}
             l == hi - lo
             Nth(k) == CHOOSE i \in P : Cardinality({j \in P : j <= i}) = k
  <1>1. s \in Seq(Nat) /\ Len(s) = n /\ DOMAIN s = 1 .. n /\ \A i \in 1 .. n : s[i] = a + i
    BY IntervalIs, LenProperties
  <1>2. Batch(s, t) = [k \in 1 .. Cardinality(P) |-> s[Nth(k)]]
    BY DEF Batch
  <1>3. Interval(a + lo, l) = [i \in 1 .. l |-> (a + lo) + i]
    BY DEF Interval
  <1> HIDE DEF s
  <1>4. P = lo + 1 .. hi
    <2>1. \A i \in 1 .. n : Freshness(s[i]) = t <=> i \in lo + 1 .. hi
      BY <1>1 DEF Run
    <2>2. \A i \in lo + 1 .. hi : i \in 1 .. n
      OBVIOUS
    <2> QED
      BY <1>1, <2>1, <2>2
  <1> HIDE DEF P
  <1>5. l \in Nat /\ Cardinality(P) = l
    <2>1. Cardinality(lo + 1 .. hi) = IF lo + 1 > hi THEN 0 ELSE hi - (lo + 1) + 1
      BY FS_Interval
    <2> QED
      BY <1>4, <2>1
  <1>6. ASSUME NEW k \in 1 .. l PROVE Nth(k) = lo + k
    <2>1. ASSUME NEW i \in P PROVE Cardinality({j \in P : j <= i}) = i - lo
      <3>1. i \in Nat /\ ~ (lo + 1 > i) /\ i - (lo + 1) + 1 = i - lo
        BY <1>4
      <3>2. {j \in P : j <= i} = lo + 1 .. i
        BY <1>4
      <3>3. Cardinality(lo + 1 .. i) = IF lo + 1 > i THEN 0 ELSE i - (lo + 1) + 1
        BY <3>1, FS_Interval
      <3> QED
        BY <3>1, <3>2, <3>3
    <2>2. lo + k \in P /\ \A i \in P : i - lo = k <=> i = lo + k
      BY <1>4
    <2>3. \A i \in P : Cardinality({j \in P : j <= i}) = k <=> i = lo + k
      BY <2>1, <2>2
    <2> QED
      BY <2>2, <2>3
  <1> HIDE DEF Nth, l
  <1>7. \A k \in 1 .. l : s[Nth(k)] = (a + lo) + k
    <2>1. \A k \in 1 .. l : lo + k \in 1 .. n /\ a + (lo + k) = (a + lo) + k
      BY DEF l
    <2> QED
      BY <1>1, <1>6, <2>1
  <1>8. Batch(s, t) = Interval(a + lo, l)
    BY <1>2, <1>3, <1>5, <1>7
  <1> QED
    BY <1>8 DEF s, l

\* The packet is split where the backfill ends.
LEMMA BatchesOfInterval ==
  ASSUME NEW a \in Nat, NEW n \in Nat, aged \in Nat
  PROVE  \E x \in a .. a + n :
           /\ Batch(Interval(a, n), "backfill") = Interval(a, x - a)
           /\ Batch(Interval(a, n), "live") = Interval(x, a + n - x)
           /\ \A r \in a + 1 .. a + n : r > x <=> r > aged
  <1> DEFINE x == IF aged <= a THEN a ELSE IF aged >= a + n THEN a + n ELSE aged
             b == x - a
  <1>1. x \in a .. a + n /\ b \in Nat /\ b <= n /\ a + b = x /\ (a + n) - x = n - b
    OBVIOUS
  <1>2. \A i \in 1 .. n : a + i <= aged <=> i <= b
    OBVIOUS
  <1>0. \A r \in a + 1 .. a + n : r > x <=> r > aged
    OBVIOUS
  <1> HIDE DEF x, b
  <1>3. Run(a, n, "backfill", 0, b)
    BY <1>1, <1>2 DEF Freshness, Run
  <1>4. Run(a, n, "live", b, n)
    BY <1>1, <1>2 DEF Freshness, Run
  <1>5. Batch(Interval(a, n), "backfill") = Interval(a + 0, b - 0)
    <2>1. 0 \in Nat /\ b \in Nat /\ 0 <= b /\ b <= n
      BY <1>1
    <2> QED
      BY <1>3, <2>1, BatchOfRun
  <1>6. Batch(Interval(a, n), "live") = Interval(a + b, n - b)
    <2>1. b \in Nat /\ b <= n /\ n <= n
      BY <1>1
    <2> QED
      BY <1>4, <2>1, BatchOfRun
  <1>7. a + 0 = a /\ b - 0 = b
    BY <1>1
  <1>8. Batch(Interval(a, n), "backfill") = Interval(a, b)
    BY <1>5, <1>7
  <1>9. Batch(Interval(a, n), "live") = Interval(x, a + n - x)
    BY <1>1, <1>6
  <1> QED
    BY <1>0, <1>1, <1>8, <1>9 DEF b

\* A chunk is read into what was being read.
LEMMA ReadStep ==
  ASSUME IngestTypeOK, NEW c \in Conns, NEW n \in 1 .. Len(toServer[c]), Receive(c, n)
  PROVE  /\ ~ Idle(c)
         /\ Greets(c) => Greets(c)'
         /\ \A s \in Seq(Nat) : Len(s) + 6 <= MaxFrame /\ Carries(c, s) => Carries(c, s)'
  <1> DEFINE all   == toServer[c]
             chunk == SubSeq(all, 1, n)
             rest  == SubSeq(all, n + 1, Len(all))
             buf   == framer[c].buffer
             push  == Push(framer[c], chunk)
  <1>1. all \in Seq(Nat) /\ Len(all) \in Nat /\ n \in 1 .. Len(all) /\ framer[c] \in Framers /\ buf \in Seq(Nat)
    BY LenProperties DEF IngestTypeOK, Framers
  <1>2. all # << >>
    BY <1>1, EmptySeq
  <1>3. /\ framer'[c] = push.framer /\ todo'[c] = push.events /\ toServer'[c] = rest
        /\ count'[c] = count[c]
    BY DEF Receive, IngestTypeOK
  <1> HIDE DEF all, buf
  <1>4. chunk \in Seq(Nat)
    BY <1>1, PartOfSeq
  <1>5. rest \in Seq(Nat) /\ chunk \o rest = all
    <2>1. SubSeq(all, 1, n) \o SubSeq(all, n + 1, Len(all)) = SubSeq(all, 1, Len(all))
      BY <1>1, ConcatAdjacentSubSeq
    <2>2. SubSeq(all, 1, Len(all)) = all
      BY <1>1, SubSeqFull
    <2> DEFINE m == n + 1
               l == Len(all)
    <2>3. all \in Seq(Nat) /\ m \in Nat \ {0} /\ l \in Nat /\ l <= Len(all)
      BY <1>1
    <2> HIDE DEF m, l, all
    <2>4. SubSeq(all, m, l) \in Seq(Nat)
      BY <2>3, PartOfSeq
    <2> QED
      BY <2>1, <2>2, <2>4 DEF m, l
  <1> HIDE DEF chunk, rest
  <1>6. (buf \o chunk) \o rest = buf \o all
    <2>0. buf \in Seq(Nat) /\ chunk \in Seq(Nat) /\ rest \in Seq(Nat)
      BY <1>1, <1>4, <1>5
    <2>1. (buf \o chunk) \o rest = buf \o (chunk \o rest)
      BY <2>0, ConcatAssociative, SMTT(30)
    <2> QED
      BY <1>5, <2>1
  <1>7. ~ Idle(c)
    BY <1>2 DEF Idle, all
  <1>8. buf \o chunk \in Seq(Nat) /\ << >> \in Seq(Nat)
    BY <1>1, <1>4, ConcatProperties, EmptySeq
  <1>9. ASSUME Greets(c) PROVE Greets(c)'
    <2>1. framer[c].state = "awaiting-imei" /\ (buf \o chunk) \o rest = HandshakeFrame /\ ~ Publishing(c)
      BY <1>2, <1>6, <1>9 DEF Greets, Pipe, all, buf
    <2>2. push = Read(framer[c], chunk, rest, ImeiRead)
      <3>1. (framer[c].buffer \o chunk) \o rest = HandshakeFrame
        BY <2>1 DEF buf
      <3> QED
        BY <1>1, <1>4, <1>5, <2>1, <3>1, ReadsHandshake
    <2> HIDE DEF push
    <2>3. ~ Publishing(c)'
      BY <1>3, <2>1 DEF Publishing
    <2>4. CASE rest # << >>
      <3> DEFINE next == [framer[c] EXCEPT !.buffer = buf \o chunk]
      <3>1. framer'[c] = next /\ todo'[c] = << >> /\ toServer'[c] = rest
        BY <1>3, <2>2, <2>4 DEF Read, buf
      <3>2. next.state = framer[c].state /\ next.buffer = buf \o chunk
        BY <1>1 DEF Framers
      <3> QED
        BY <2>1, <2>3, <2>4, <3>1, <3>2 DEF Greets, Pipe
    <2>5. CASE rest = << >>
      BY <1>3, <2>2, <2>3, <2>5 DEF Greets, Streaming, Read
    <2> QED
      BY <2>4, <2>5
  <1>10. ASSUME NEW s \in Seq(Nat), Len(s) + 6 <= MaxFrame, Carries(c, s) PROVE Carries(c, s)'
    <2>1. framer[c].state = "streaming" /\ (buf \o chunk) \o rest = AvlFrame(s) /\ ~ Publishing(c)
      BY <1>2, <1>6, <1>10 DEF Carries, Pipe, all, buf
    <2>2. push = Read(framer[c], chunk, rest, Packet(s))
      <3> DEFINE f == framer[c]
      <3>1. /\ f \in Framers /\ f.state = "streaming" /\ chunk \in Seq(Nat) /\ rest \in Seq(Nat)
            /\ s \in Seq(Nat) /\ Len(s) + 6 <= MaxFrame
            /\ (f.buffer \o chunk) \o rest = AvlFrame(s)
        BY <1>1, <1>4, <1>5, <1>10, <2>1 DEF buf
      <3> HIDE DEF f
      <3>2. Push(f, chunk) = Read(f, chunk, rest, Packet(s))
        BY <3>1, ReadsPacket
      <3> QED
        BY <3>2 DEF f
    <2> HIDE DEF push
    <2>3. ~ Publishing(c)'
      BY <1>3, <2>1 DEF Publishing
    <2>4. CASE rest # << >>
      <3> DEFINE next == [framer[c] EXCEPT !.buffer = buf \o chunk]
      <3>1. framer'[c] = next /\ todo'[c] = << >> /\ toServer'[c] = rest
        BY <1>3, <2>2, <2>4 DEF Read, buf
      <3>2. next.state = framer[c].state /\ next.buffer = buf \o chunk
        BY <1>1 DEF Framers
      <3> QED
        BY <2>1, <2>3, <2>4, <3>1, <3>2 DEF Carries, Pipe
    <2>5. CASE rest = << >>
      BY <1>3, <2>2, <2>3, <2>5 DEF Carries, Streaming, Read
    <2> QED
      BY <2>4, <2>5
  <1> QED
    BY <1>7, <1>9, <1>10

-----------------------------------------------------------------------------
(* What a step leaves alone.                                               *)

SameConn(d) ==
  /\ sock'[d] = sock[d] /\ framer'[d] = framer[d] /\ toServer'[d] = toServer[d]
  /\ todo'[d] = todo[d] /\ batches'[d] = batches[d] /\ count'[d] = count[d]

\* What is said of a connection that a step leaves alone does not change.
LEMMA SameFacts ==
  ASSUME NEW d, SameConn(d)
  PROVE  /\ Publishing(d)' = Publishing(d) /\ Idle(d)' = Idle(d) /\ Greets(d)' = Greets(d)
         /\ \A s : Carries(d, s)' = Carries(d, s)
         /\ \A a, n : Publishes(d, a, n)' = Publishes(d, a, n)
         /\ Batched(d)' = Batched(d)
  <1>1. Publishing(d)' = Publishing(d)
    BY DEF SameConn, Publishing
  <1>2. Pipe(d)' = Pipe(d)
    BY DEF SameConn, Pipe
  <1>3. Idle(d)' = Idle(d)
    BY DEF SameConn, Idle
  <1>4. Greets(d)' = Greets(d)
    BY <1>1, <1>2 DEF SameConn, Greets
  <1>5. \A s : Carries(d, s)' = Carries(d, s)
    BY <1>1, <1>2 DEF SameConn, Carries
  <1>6. \A a, n : Publishes(d, a, n)' = Publishes(d, a, n)
    BY DEF SameConn, Publishes
  <1>7. Batched(d)' = Batched(d)
    BY DEF SameConn, Batched
  <1> QED
    BY <1>1, <1>3, <1>4, <1>5, <1>6, <1>7

\* A connection that a step leaves alone keeps its invariant while the device takes records.
LEMMA ConnStays ==
  ASSUME NEW d, SameConn(d), ConnInv(d), taken \in Nat, taken' \in Nat, taken <= taken'
  PROVE  ConnInv(d)'
  <1>1. sock'[d] = "closed" => framer'[d] = NewFramer /\ todo'[d] = << >>
    BY DEF SameConn, ConnInv
  <1>2. MaxPacket \in Nat
    BY IngestAssumption
  <1>3. sock'[d] # "closed" =>
          \/ Idle(d)' \/ Greets(d)'
          \/ \E a \in Nat, n \in 1 .. MaxPacket : a + n <= taken' /\ Carries(d, Interval(a, n))'
    <2> SUFFICES ASSUME sock[d] # "closed"
                 PROVE  \/ Idle(d) \/ Greets(d)
                        \/ \E a \in Nat, n \in 1 .. MaxPacket : a + n <= taken' /\ Carries(d, Interval(a, n))
      BY SameFacts DEF SameConn
    <2>1. \A a \in Nat, n \in 1 .. MaxPacket : a + n <= taken => a + n <= taken'
      BY <1>2
    <2> QED
      BY <2>1 DEF ConnInv
  <1>4. Publishing(d)' => \E a \in Nat, n \in 1 .. MaxPacket : a + n <= taken' /\ Publishes(d, a, n)'
    <2> SUFFICES ASSUME Publishing(d)
                 PROVE  \E a \in Nat, n \in 1 .. MaxPacket : a + n <= taken' /\ Publishes(d, a, n)
      BY SameFacts
    <2>1. \A a \in Nat, n \in 1 .. MaxPacket : a + n <= taken => a + n <= taken'
      BY <1>2
    <2> QED
      BY <2>1 DEF ConnInv
  <1>5. ~ Publishing(d)' => batches'[d] = Nothing
    BY SameFacts DEF ConnInv, SameConn
  <1> QED
    BY <1>1, <1>3, <1>4, <1>5 DEF ConnInv, Interval

\* So does what the device waits for.
LEMMA LinkStays ==
  ASSUME LinkInv, link # NoConn => SameConn(link), UNCHANGED <<link, waits, sent, Deleted>>,
         toDevice'[link] = toDevice[link], Stored \subseteq Stored'
  PROVE  LinkInv'
  <1>1. CASE link = NoConn
    BY <1>1 DEF LinkInv
  <1>2. CASE link # NoConn
    <2>1. /\ Publishing(link)' = Publishing(link) /\ Idle(link)' = Idle(link)
          /\ Greets(link)' = Greets(link) /\ \A s : Carries(link, s)' = Carries(link, s)
          /\ \A a, n : Publishes(link, a, n)' = Publishes(link, a, n) /\ Batched(link)' = Batched(link)
      BY <1>2, SameFacts
    <2>2. Span' = Span
      BY DEF Span
    <2>3. sock'[link] = sock[link]
      BY <1>2 DEF SameConn
    <2> QED
      BY <1>2, <2>1, <2>2, <2>3 DEF LinkInv
  <1> QED
    BY <1>1, <1>2

\* The flash memory holds the records behind the deleted ones.
LEMMA FlashIs ==
  ASSUME IngestTypeOK
  PROVE  /\ taken \in Nat /\ Len(flash) \in Nat /\ Deleted \in Nat /\ Deleted + Len(flash) = taken
         /\ flash \in Seq(Records) /\ flash \in Seq(Nat) /\ sent \in Nat /\ aged \in Nat /\ faults \in Nat
  <1>1. MaxRecords \in Nat /\ MaxPacket \in Nat /\ MaxFaults \in Nat
    BY IngestAssumption
  <1>2. flash \in Seq(Records) /\ taken \in 0 .. MaxRecords /\ Len(flash) <= taken /\ aged \in 0 .. taken
        /\ sent \in 0 .. MaxPacket /\ faults \in 0 .. MaxFaults
    BY DEF IngestTypeOK
  <1>3. Len(flash) \in Nat
    BY <1>2, LenProperties
  <1>4. Records \subseteq Nat
    BY <1>1 DEF Records
  <1>5. flash \in Seq(Nat)
    BY <1>2, <1>4, SeqMonotonic
  <1> QED
    BY <1>1, <1>2, <1>3, <1>5 DEF Deleted

\* The records the device deletes are the first it has.
LEMMA FirstDeleted ==
  ASSUME IngestTypeOK, NEW k \in 1 .. Len(flash), taken' = taken,
         flash' = SubSeq(flash, k + 1, Len(flash))
  PROVE  Deleted' = Deleted + k
  <1>1. PICK f \in Seq(Nat), l \in Nat : f = flash /\ l = Len(flash)
    BY FlashIs
  <1>2. k + 1 \in Nat \ {0} /\ l <= Len(f) /\ k <= l
    BY <1>1
  <1>3. Len(SubSeq(f, k + 1, l)) = IF k + 1 <= l THEN l - (k + 1) + 1 ELSE 0
    BY <1>2, PartOfSeq
  <1>4. Len(SubSeq(f, k + 1, l)) = l - k
    BY <1>2, <1>3
  <1>5. Deleted' = taken - (l - k) /\ Deleted = taken - l /\ taken \in Nat
    BY <1>1, <1>4, FlashIs DEF Deleted
  <1> QED
    BY <1>5

\* The device takes a record, or time passes.
LEMMA StreamTake ==
  ASSUME IngestTypeOK, StreamInv, TakeRecord \/ Age
  PROVE  StreamInv'
  <1>0. UNCHANGED <<link, waits, sent, toDevice, log, sock, framer, toServer, todo, batches, count>>
    BY DEF TakeRecord, Age, deviceVars, serverVars
  <1>1. \A d \in Conns : SameConn(d)
    BY <1>0 DEF SameConn
  <1>2. /\ taken \in Nat /\ Len(flash) \in Nat /\ Deleted \in Nat /\ Deleted + Len(flash) = taken
        /\ flash \in Seq(Records) /\ flash \in Seq(Nat) /\ sent \in Nat
    BY FlashIs
  <1>3. Stored' = Stored
    BY <1>0 DEF Stored
  <1>4. /\ Deleted' = Deleted /\ taken' \in Nat /\ taken <= taken'
        /\ DeviceInv'
    <2>1. CASE Age
      <3>1. UNCHANGED <<taken, flash, waits, sent>>
        BY <2>1 DEF Age, deviceVars
      <3> QED
        BY <1>2, <1>3, <3>1 DEF DeviceInv, StreamInv, Deleted, Interval
    <2>2. CASE TakeRecord
      <3> DEFINE l == Len(flash)
                 more == Append(flash, taken + 1)
      <3>1. taken' = taken + 1 /\ flash' = more
        BY <2>2 DEF TakeRecord
      <3>2. /\ more \in Seq(Nat) /\ Len(more) = l + 1
            /\ \A i \in 1 .. l : more[i] = flash[i]
            /\ more[l + 1] = taken + 1
        BY <1>2, AppendProperties
      <3> HIDE DEF more
      <3>3. Deleted' = Deleted
        BY <1>2, <3>1, <3>2 DEF Deleted
      <3>4. flash = Interval(Deleted, l)
        BY DEF StreamInv, DeviceInv
      <3>5. \A i \in 1 .. l : flash[i] = Deleted + i
        BY <1>2, <3>4, IntervalIs
      <3>6. \A i \in 1 .. l + 1 : more[i] = Deleted + i
        <4>1. taken + 1 = Deleted + (l + 1)
          BY <1>2
        <4>2. \A i \in 1 .. l + 1 : i \in 1 .. l \/ i = l + 1
          BY <1>2
        <4> QED
          BY <3>2, <3>5, <4>1, <4>2
      <3>7. more = Interval(Deleted, l + 1)
        <4> DEFINE D == Deleted
        <4>1. D \in Nat /\ l + 1 \in Nat
          BY <1>2
        <4> HIDE DEF D
        <4>2. /\ Interval(D, l + 1) \in Seq(Nat) /\ Len(Interval(D, l + 1)) = l + 1
              /\ \A i \in 1 .. l + 1 : Interval(D, l + 1)[i] = D + i
          BY <4>1, IntervalIs
        <4> QED
          BY <3>2, <3>6, <4>2, SeqEqual, SMTT(30) DEF D
      <3>8. flash' = Interval(Deleted', Len(flash'))
        BY <3>1, <3>2, <3>3, <3>7
      <3>9. waits' = "ack" => sent' \in 1 .. Len(flash')
        BY <1>0, <1>2, <3>1, <3>2 DEF StreamInv, DeviceInv
      <3>10. 1 .. Deleted' \subseteq Stored'
        BY <1>3, <3>3 DEF StreamInv, DeviceInv
      <3> QED
        BY <1>2, <3>1, <3>3, <3>8, <3>9, <3>10 DEF DeviceInv, Interval
    <2> QED
      BY <2>1, <2>2
  <1>5. LinkInv'
    <2>1. link # NoConn => SameConn(link)
      BY <1>1 DEF IngestTypeOK
    <2> QED
      BY <1>0, <1>3, <1>4, <2>1, LinkStays DEF StreamInv
  <1>6. Quiet'
    BY <1>0 DEF Quiet, StreamInv
  <1>7. \A c \in Conns : ConnInv(c)'
    BY <1>1, <1>2, <1>4, ConnStays DEF StreamInv
  <1> QED
    BY <1>4, <1>5, <1>6, <1>7 DEF StreamInv

\* The device connects and sends its handshake.
LEMMA StreamConnect ==
  ASSUME IngestTypeOK, StreamInv, Connect
  PROVE  StreamInv'
  <1>1. PICK c \in Conns :
          /\ Free(c) /\ link' = c
          /\ toServer' = [toServer EXCEPT ![c] = HandshakeFrame]
          /\ sock' = [sock EXCEPT ![c] = "open"] /\ framer' = [framer EXCEPT ![c] = NewFramer]
    BY DEF Connect
  <1>2. /\ link = NoConn /\ waits' = "imei"
        /\ UNCHANGED <<taken, flash, sent, toDevice, todo, batches, count, log>>
    BY DEF Connect
  <1>3. /\ sock'[c] = "open" /\ framer'[c] = NewFramer /\ toServer'[c] = HandshakeFrame
        /\ todo'[c] = << >> /\ batches'[c] = Nothing /\ ~ Publishing(c)' /\ ~ Publishing(c)
    BY <1>1, <1>2 DEF Free, StreamInv, ConnInv, IngestTypeOK, Publishing
  <1>4. \A d \in Conns \ {c} : SameConn(d)
    BY <1>1, <1>2 DEF SameConn, IngestTypeOK
  <1>5. c # NoConn
    BY <1>1, IngestAssumption
  <1>6. Greets(c)'
    <2>1. << >> \o HandshakeFrame = HandshakeFrame /\ HandshakeFrame # << >>
      BY ConcatEmptySeq DEF HandshakeFrame, ImeiDigits, Imei
    <2>2. NewFramer.state = "awaiting-imei" /\ NewFramer.buffer = << >>
      BY DEF NewFramer
    <2> QED
      BY <1>3, <2>1, <2>2 DEF Greets, Pipe
  <1>7. ConnInv(c)'
    BY <1>3, <1>6 DEF ConnInv
  <1>8. toDevice'[c] = << >>
    BY <1>1, <1>2, <1>5 DEF StreamInv, Quiet
  <1>9. LinkInv'
    BY <1>1, <1>2, <1>3, <1>5, <1>6, <1>8 DEF LinkInv
  <1>10. Quiet'
    BY <1>1, <1>2, IngestAssumption DEF StreamInv, Quiet
  <1>11. DeviceInv'
    <2>1. Stored' = Stored
      BY <1>2 DEF Stored
    <2>2. flash' = Interval(Deleted, Len(flash))' /\ Deleted' = Deleted
      BY <1>2 DEF StreamInv, DeviceInv, Deleted, Interval
    <2> QED
      BY <1>2, <2>1, <2>2 DEF StreamInv, DeviceInv
  <1>12. \A d \in Conns : ConnInv(d)'
    BY <1>1, <1>2, <1>4, <1>7, FlashIs, ConnStays DEF StreamInv
  <1> QED
    BY <1>9, <1>10, <1>11, <1>12 DEF StreamInv

\* The device leaves its connection behind.
LEMMA StreamHangUp ==
  ASSUME IngestTypeOK, StreamInv, GetRejected \/ LoseLink \/ SeeClose
  PROVE  StreamInv'
  <1>1. HangUp /\ link \in Conns
    BY DEF GetRejected, LoseLink, SeeClose, IngestTypeOK
  <1>2. /\ link' = NoConn /\ waits' = "nothing" /\ toDevice' = [toDevice EXCEPT ![link] = << >>]
        /\ UNCHANGED <<taken, flash, sent, toServer, sock, framer, todo, batches, count, log>>
    BY <1>1 DEF HangUp, serverVars
  <1>3. \A d \in Conns : SameConn(d)
    BY <1>2 DEF SameConn
  <1>4. Quiet'
    BY <1>1, <1>2 DEF StreamInv, Quiet, IngestTypeOK
  <1>5. LinkInv'
    BY <1>2 DEF LinkInv
  <1>6. DeviceInv'
    <2>1. Stored' = Stored
      BY <1>2 DEF Stored
    <2>2. flash' = Interval(Deleted, Len(flash))' /\ Deleted' = Deleted
      BY <1>2 DEF StreamInv, DeviceInv, Deleted, Interval
    <2> QED
      BY <1>2, <2>1, <2>2 DEF StreamInv, DeviceInv
  <1>7. \A d \in Conns : ConnInv(d)'
    BY <1>2, <1>3, FlashIs, ConnStays DEF StreamInv
  <1> QED
    BY <1>4, <1>5, <1>6, <1>7 DEF StreamInv

\* The device reads the answer it waited for.
LEMMA StreamReply ==
  ASSUME IngestTypeOK, StreamInv, GetReply
  PROVE  StreamInv'
  <1>1. PICK c \in Conns : c = link
    BY DEF GetReply, IngestTypeOK
  <1>2. /\ toDevice[c] # << >> /\ toDevice' = [toDevice EXCEPT ![c] = Tail(@)]
        /\ flash' = IF waits = "ack" /\ Head(toDevice[c]) = sent
                       THEN SubSeq(flash, sent + 1, Len(flash)) ELSE flash
        /\ waits' = "nothing"
        /\ UNCHANGED <<taken, link, sent, toServer, sock, framer, todo, batches, count, log>>
    BY <1>1 DEF GetReply, serverVars
  <1>3. \A d \in Conns : SameConn(d)
    BY <1>2 DEF SameConn
  <1>4. link # NoConn /\ c # NoConn
    BY <1>1, IngestAssumption
  <1>5. /\ waits \in {"imei", "ack"} /\ ~ Publishing(c) /\ (sock[c] # "closed" => Idle(c))
        /\ toDevice[c] = <<IF waits = "imei" THEN Accept ELSE sent>>
        /\ waits = "ack" => Span \subseteq Stored
    <2>1. waits \in {"nothing", "imei", "ack"}
      BY DEF IngestTypeOK
    <2> QED
      BY <1>1, <1>2, <1>4, <2>1 DEF StreamInv, LinkInv
  <1>6. toDevice'[c] = << >>
    BY <1>1, <1>2, <1>5 DEF IngestTypeOK
  <1>7. Quiet'
    BY <1>1, <1>2 DEF StreamInv, Quiet, IngestTypeOK
  <1>8. LinkInv'
    <2>1. ~ Publishing(c)' /\ (sock'[c] # "closed" => Idle(c)')
      BY <1>3, <1>5, SameFacts DEF SameConn
    <2>2. link' = c
      BY <1>1, <1>2
    <2> QED
      BY <1>2, <1>4, <1>6, <2>1, <2>2 DEF LinkInv
  <1>9. DeviceInv'
    <2>0. /\ taken \in Nat /\ Len(flash) \in Nat /\ Deleted \in Nat /\ Deleted + Len(flash) = taken /\ sent \in Nat
      BY FlashIs
    <2>1. Stored' = Stored
      BY <1>2 DEF Stored
    <2>2. CASE ~ (waits = "ack" /\ Head(toDevice[c]) = sent)
      <3>1. flash' = flash
        BY <1>2, <2>2
      <3>2. Deleted' = Deleted /\ flash' = Interval(Deleted, Len(flash))'
        BY <1>2, <3>1 DEF StreamInv, DeviceInv, Deleted, Interval
      <3> QED
        BY <1>2, <2>1, <3>1, <3>2 DEF StreamInv, DeviceInv
    <2>3. CASE waits = "ack" /\ Head(toDevice[c]) = sent
      <3> DEFINE l == Len(flash)
                 D == Deleted
      <3>1. flash = Interval(D, l) /\ sent \in 1 .. l /\ 1 .. D \subseteq Stored
        BY <2>3 DEF StreamInv, DeviceInv
      <3>2. flash' = SubSeq(flash, sent + 1, l)
        BY <1>2, <2>3
      <3>3. l \in Nat /\ D \in Nat /\ D + l = taken
        BY <2>0
      <3>4. D + sent \in Nat /\ l - sent \in Nat
        BY <3>1, <3>3
      <3>5. Span = D + 1 .. D + sent
        BY DEF Span
      <3> HIDE DEF l, D
      <3>6. flash' = Interval(D + sent, l - sent)
        BY <3>1, <3>2, <3>3, PartOfInterval
      <3>7. Len(flash') = l - sent
        BY <3>4, <3>6, IntervalIs
      <3>8. Deleted' = D + sent
        <4>1. Deleted' = taken - (l - sent)
          BY <1>2, <3>7 DEF Deleted
        <4> QED
          BY <3>1, <3>3, <4>1
      <3>9. 1 .. D + sent \subseteq Stored
        <4>1. \A r \in 1 .. D + sent : r \in 1 .. D \/ r \in D + 1 .. D + sent
          BY <3>3, <3>4
        <4> QED
          BY <1>5, <2>3, <3>1, <3>5, <4>1
      <3>10. flash' = Interval(Deleted, Len(flash))'
        BY <3>6, <3>7, <3>8 DEF Interval
      <3> QED
        BY <1>2, <2>1, <3>8, <3>9, <3>10 DEF DeviceInv
    <2> QED
      BY <2>2, <2>3
  <1>10. \A d \in Conns : ConnInv(d)'
    BY <1>2, <1>3, FlashIs, ConnStays DEF StreamInv
  <1> QED
    BY <1>7, <1>8, <1>9, <1>10 DEF StreamInv

\* The device sends the oldest records it keeps.
LEMMA StreamSend ==
  ASSUME IngestTypeOK, StreamInv, NEW n \in 1 .. MaxPacket, SendPacket(n)
  PROVE  StreamInv'
  <1>0. /\ taken \in Nat /\ Len(flash) \in Nat /\ Deleted \in Nat /\ Deleted + Len(flash) = taken
        /\ flash \in Seq(Nat) /\ MaxPacket \in Nat
    BY FlashIs, IngestAssumption
  <1>1. PICK c \in Conns : c = link
    BY DEF SendPacket, IngestTypeOK
  <1>2. /\ waits = "nothing" /\ n \in 1 .. Len(flash) /\ n \in Nat
        /\ sent' = n /\ waits' = "ack"
        /\ toServer' = [toServer EXCEPT ![c] = @ \o AvlFrame(SubSeq(flash, 1, n))]
        /\ UNCHANGED <<taken, flash, link, toDevice, sock, framer, todo, batches, count, log>>
    BY <1>0, <1>1 DEF SendPacket, serverVars
  <1>3. \A d \in Conns \ {c} : SameConn(d)
    BY <1>1, <1>2 DEF SameConn, IngestTypeOK
  <1>4. c # NoConn
    BY IngestAssumption
  <1>5. toDevice[c] = << >> /\ ~ Publishing(c) /\ (sock[c] # "closed" => Idle(c))
    BY <1>1, <1>2, <1>4 DEF StreamInv, LinkInv
  <1>6. ~ Publishing(c)' /\ sock'[c] = sock[c] /\ framer'[c] = framer[c] /\ todo'[c] = todo[c]
        /\ batches'[c] = batches[c] /\ toDevice'[c] = << >> /\ Deleted' = Deleted /\ Stored' = Stored
    BY <1>2, <1>5 DEF Publishing, Deleted, Stored
  <1> DEFINE D == Deleted
  <1>7. SubSeq(flash, 1, n) = Interval(D, n)
    <2> DEFINE l == Len(flash)
    <2>1. flash = Interval(D, l) /\ n \in 1 .. l /\ D \in Nat /\ l \in Nat
      BY <1>0, <1>2 DEF StreamInv, DeviceInv
    <2> HIDE DEF l, D
    <2> QED
      BY <2>1, PartOfInterval
  <1>8. sock[c] # "closed" => Carries(c, Interval(D, n))'
    <2> SUFFICES ASSUME sock[c] # "closed" PROVE Carries(c, Interval(D, n))'
      OBVIOUS
    <2>1. toServer[c] = << >> /\ framer[c] = Streaming /\ todo[c] = << >>
      BY <1>5 DEF Idle
    <2> DEFINE frame == AvlFrame(Interval(D, n))
    <2>2. frame \in Seq(Nat) /\ frame # << >>
      <3>1. Interval(D, n) \in Seq(Nat)
        BY <1>0, <1>2, IntervalIs
      <3>2. frame \in Seq(Nat) /\ Len(frame) = Len(Interval(D, n)) + 6 /\ Len(Interval(D, n)) \in Nat
        BY <3>1, AvlFrameIs
      <3> HIDE DEF frame
      <3>3. Len(frame) # 0
        BY <3>2
      <3> QED
        BY <3>2, <3>3, EmptySeq
    <2>3. toServer'[c] = << >> \o frame
      BY <1>1, <1>2, <1>7, <2>1 DEF IngestTypeOK
    <2>4. << >> \o frame = frame
      BY <2>2, ConcatEmptySeq
    <2>5. Pipe(c)' = frame
      BY <1>6, <2>1, <2>3, <2>4 DEF Pipe, Streaming
    <2>6. AvlFrame(Interval(D, n))' = frame
      BY <1>6 DEF Interval, AvlFrame
    <2> QED
      BY <1>6, <2>1, <2>2, <2>3, <2>4, <2>5, <2>6 DEF Carries, Streaming
  <1>9. sock'[c] # "closed" =>
          \E a \in Nat, k \in 1 .. MaxPacket : a + k <= taken' /\ Carries(c, Interval(a, k))'
    <2>1. D \in Nat /\ D + n <= taken'
      BY <1>0, <1>2
    <2>2. PICK a \in Nat : a = D
      BY <2>1
    <2>3. a + n <= taken'
      BY <2>1, <2>2
    <2>4. Interval(a, n)' = Interval(D, n)' /\ Interval(a, n) = Interval(D, n)
      BY <1>6, <2>2 DEF Interval
    <2>5. sock'[c] # "closed" => Carries(c, Interval(a, n))'
      BY <1>6, <1>8, <2>4 DEF Carries, AvlFrame, Packet
    <2> QED
      BY <2>3, <2>5
  <1>10. ConnInv(c)'
    <2>1. batches[c] = Nothing /\ (sock[c] = "closed" => framer[c] = NewFramer /\ todo[c] = << >>)
      BY <1>5 DEF ConnInv, StreamInv
    <2> QED
      BY <1>6, <1>9, <2>1 DEF ConnInv
  <1>11. LinkInv'
    <2>1. link' = c /\ sent' = n
      BY <1>1, <1>2
    <2>2. sock'[c] # "closed" => Carries(link, Interval(Deleted, sent))'
      BY <1>6, <1>8, <2>1 DEF Carries, AvlFrame, Packet, Interval, Pipe, Publishing
    <2> QED
      BY <1>2, <1>4, <1>6, <2>1, <2>2 DEF LinkInv
  <1>12. Quiet'
    BY <1>2 DEF StreamInv, Quiet
  <1>13. DeviceInv'
    BY <1>2, <1>6 DEF StreamInv, DeviceInv, Interval
  <1>14. \A d \in Conns : ConnInv(d)'
    BY <1>0, <1>2, <1>3, <1>10, ConnStays DEF StreamInv
  <1> QED
    BY <1>11, <1>12, <1>13, <1>14 DEF StreamInv

\* The server keeps the device's part of the invariant as long as the log loses
\* nothing.
LEMMA DeviceStays ==
  ASSUME StreamInv, UNCHANGED deviceVars, Stored \subseteq Stored'
  PROVE  DeviceInv' /\ UNCHANGED <<taken, flash, link, waits, sent, Deleted, Span>>
  <1>1. UNCHANGED <<taken, flash, link, waits, sent>>
    BY DEF deviceVars
  <1>2. Deleted' = Deleted /\ Span' = Span
    BY <1>1 DEF Deleted, Span
  <1> QED
    BY <1>1, <1>2 DEF StreamInv, DeviceInv, Interval

\* The publish of connection d goes on, or it has ended.
PublishSame(d) == count'[d] = count[d] /\ batches'[d] = batches[d]
PublishOver(d) == count'[d] = NotPublishing /\ batches'[d] = Nothing

\* A closed connection has nothing unread; its publish may go on.
LEMMA ClosedConn ==
  ASSUME IngestTypeOK, NEW d \in Conns, ConnInv(d), taken' = taken,
         sock'[d] = "closed", framer'[d] = NewFramer, todo'[d] = << >>,
         PublishSame(d) \/ PublishOver(d)
  PROVE  ConnInv(d)'
  <1>1. CASE PublishOver(d)
    BY <1>1 DEF ConnInv, PublishOver, Publishing
  <1>2. CASE PublishSame(d)
    <2>1. Publishing(d)' = Publishing(d) /\ \A a, n : Publishes(d, a, n)' = Publishes(d, a, n)
      BY <1>2 DEF PublishSame, Publishing, Publishes
    <2>2. Publishing(d)' => \E a \in Nat, n \in 1 .. MaxPacket : a + n <= taken' /\ Publishes(d, a, n)'
      BY <2>1 DEF ConnInv
    <2>3. ~ Publishing(d)' => batches'[d] = Nothing
      BY <1>2, <2>1 DEF ConnInv, PublishSame
    <2> QED
      BY <2>2, <2>3 DEF ConnInv
  <1> QED
    BY <1>1, <1>2

\* Closing the device's own connection loses only what was not stored.
LEMMA ClosedLink ==
  ASSUME LinkInv, NEW c \in Conns, c = link, sock'[c] = "closed", toDevice'[c] = toDevice[c],
         UNCHANGED <<taken, flash, link, waits, sent, Deleted, Span>>, Stored' = Stored,
         PublishSame(c) \/ PublishOver(c)
  PROVE  LinkInv'
  <1>1. link' = c /\ c # NoConn
    BY IngestAssumption
  <1>2. CASE PublishOver(c)
    <2>1. ~ Publishing(c)'
      BY <1>2 DEF PublishOver, Publishing
    <2> QED
      BY <1>1, <2>1 DEF LinkInv
  <1>3. CASE PublishSame(c)
    <2>1. Publishing(c)' = Publishing(c) /\ Batched(c)' = Batched(c)
          /\ \A a, n : Publishes(c, a, n)' = Publishes(c, a, n)
      BY <1>3 DEF PublishSame, Publishing, Publishes, Batched
    <2> QED
      BY <1>1, <2>1 DEF LinkInv
  <1> QED
    BY <1>2, <1>3

\* A connection closes; its publish ends or goes on behind it.
LEMMA StreamClose ==
  ASSUME IngestTypeOK, StreamInv, NEW c \in Conns, Destroy(c),
         UNCHANGED <<deviceVars, toDevice, log>>,
         \A d \in Conns \ {c} : PublishSame(d),
         PublishSame(c) \/ PublishOver(c)
  PROVE  StreamInv'
  <1>1. Stored' = Stored
    BY DEF Stored
  <1>2. DeviceInv' /\ UNCHANGED <<taken, flash, link, waits, sent, Deleted, Span>>
    BY <1>1, DeviceStays
  <1>3. sock'[c] = "closed" /\ framer'[c] = NewFramer /\ todo'[c] = << >>
    BY DEF Destroy, Unread, IngestTypeOK
  <1>4. \A d \in Conns \ {c} : SameConn(d)
    BY DEF Destroy, Unread, IngestTypeOK, SameConn, PublishSame
  <1>5. ConnInv(c)'
    BY <1>2, <1>3, ClosedConn DEF StreamInv
  <1>6. \A d \in Conns : ConnInv(d)'
    BY <1>2, <1>4, <1>5, FlashIs, ConnStays DEF StreamInv
  <1>7. LinkInv'
    <2>1. CASE c = link
      BY <1>1, <1>2, <1>3, <2>1, ClosedLink DEF StreamInv
    <2>2. CASE c # link
      <3>1. link # NoConn => SameConn(link)
        BY <1>4, <2>2 DEF IngestTypeOK
      <3> QED
        BY <1>1, <1>2, <3>1, LinkStays DEF StreamInv
    <2> QED
      BY <2>1, <2>2
  <1>8. Quiet'
    BY <1>2 DEF Quiet, StreamInv
  <1> QED
    BY <1>2, <1>6, <1>7, <1>8 DEF StreamInv

\* A failed publish, the idle timer and a lost device all close the connection.
LEMMA StreamDrops ==
  ASSUME IngestTypeOK, StreamInv, NEW c \in Conns,
         PublishFails(c) \/ IdleTimeout(c) \/ PeerGone(c)
  PROVE  StreamInv'
  <1>1. Destroy(c) /\ UNCHANGED <<deviceVars, toDevice, log>>
    BY DEF PublishFails, IdleTimeout, PeerGone
  <1>2. CASE PublishFails(c)
    <2>1. PublishOver(c) /\ \A d \in Conns \ {c} : PublishSame(d)
      BY <1>2 DEF PublishFails, PublishOver, PublishSame, IngestTypeOK
    <2> QED
      BY <1>1, <2>1, StreamClose
  <1>3. CASE IdleTimeout(c) \/ PeerGone(c)
    <2>1. \A d \in Conns : PublishSame(d)
      BY <1>3 DEF IdleTimeout, PeerGone, PublishSame
    <2> QED
      BY <1>1, <2>1, StreamClose
  <1> QED
    BY <1>2, <1>3

\* The process stops taking connections, or ends.
LEMMA StreamProcess ==
  ASSUME IngestTypeOK, StreamInv, Shutdown \/ Exit
  PROVE  StreamInv'
  <1>1. UNCHANGED <<deviceVars, toDevice, log>> /\ Stored' = Stored
    BY DEF Shutdown, Exit, Stored
  <1>2. DeviceInv' /\ UNCHANGED <<taken, flash, link, waits, sent, Deleted, Span>>
    BY <1>1, DeviceStays
  <1>3. Quiet'
    BY <1>1, <1>2 DEF Quiet, StreamInv
  <1>4. CASE Exit
    <2>1. \A d \in Conns : /\ sock'[d] = "closed" /\ framer'[d] = NewFramer /\ todo'[d] = << >>
                           /\ PublishOver(d)
      BY <1>4 DEF Exit, PublishOver
    <2>2. \A d \in Conns : ConnInv(d)'
      BY <1>2, <2>1, ClosedConn DEF StreamInv
    <2>3. LinkInv'
      <3>1. CASE link = NoConn
        BY <1>2, <3>1 DEF StreamInv, LinkInv
      <3>2. CASE link # NoConn
        <4>1. PICK c \in Conns : c = link
          BY <3>2 DEF IngestTypeOK
        <4> QED
          BY <1>1, <1>2, <2>1, <4>1, ClosedLink DEF StreamInv
      <3> QED
        BY <3>1, <3>2
    <2> QED
      BY <1>2, <1>3, <2>2, <2>3 DEF StreamInv
  <1>5. CASE Shutdown
    <2>1. UNCHANGED <<framer, toServer, todo, batches, count>>
      BY <1>5 DEF Shutdown
    <2>2. \A d \in Conns : (sock'[d] = "closed") = (sock[d] = "closed")
      BY <1>5 DEF Shutdown
    <2>3. \A d \in Conns :
            /\ Publishing(d)' = Publishing(d) /\ Idle(d)' = Idle(d) /\ Greets(d)' = Greets(d)
            /\ Batched(d)' = Batched(d)
            /\ \A s : Carries(d, s)' = Carries(d, s)
            /\ \A a, n : Publishes(d, a, n)' = Publishes(d, a, n)
      BY <2>1 DEF Publishing, Idle, Greets, Carries, Publishes, Batched, Pipe
    <2>4. ASSUME NEW d \in Conns PROVE ConnInv(d)'
      <3>1. ConnInv(d)
        BY DEF StreamInv
      <3>2. \A a, n : Interval(a, n)' = Interval(a, n)
        BY DEF Interval
      <3> QED
        BY <1>2, <2>1, <2>2, <2>3, <3>1, <3>2 DEF ConnInv
    <2>5. LinkInv'
      <3>1. CASE link = NoConn
        BY <1>2, <3>1 DEF StreamInv, LinkInv
      <3>2. CASE link # NoConn
        <4>1. PICK c \in Conns : c = link
          BY <3>2 DEF IngestTypeOK
        <4> QED
          BY <1>1, <1>2, <2>2, <2>3, <3>2, <4>1 DEF StreamInv, LinkInv
      <3> QED
        BY <3>1, <3>2
    <2> QED
      BY <1>2, <1>3, <2>4, <2>5 DEF StreamInv
  <1> QED
    BY <1>4, <1>5

\* A packet of the device fits the framer.
LEMMA PacketFits ==
  ASSUME NEW a \in Nat, NEW n \in 1 .. MaxPacket
  PROVE  Interval(a, n) \in Seq(Nat) /\ Len(Interval(a, n)) = n /\ n \in Nat
         /\ Len(Interval(a, n)) + 6 <= MaxFrame
  <1>1. n \in Nat /\ n + 6 <= MaxFrame
    BY IngestAssumption, FramerAssumption
  <1> QED
    BY <1>1, IntervalIs

\* A chunk arrives: the framer has read the frame, or the rest of it is to come.
LEMMA StreamReceive ==
  ASSUME IngestTypeOK, StreamInv, NEW c \in Conns, NEW n \in 1 .. Len(toServer[c]), Receive(c, n)
  PROVE  StreamInv'
  <1>1. UNCHANGED <<deviceVars, toDevice, sock, batches, count, log>> /\ ~ Publishing(c) /\ sock[c] # "closed"
    BY DEF Receive
  <1>2. Stored' = Stored
    BY <1>1 DEF Stored
  <1>3. DeviceInv' /\ UNCHANGED <<taken, flash, link, waits, sent, Deleted, Span>>
    BY <1>1, <1>2, DeviceStays
  <1>4. \A d \in Conns \ {c} : SameConn(d)
    BY <1>1 DEF Receive, IngestTypeOK, SameConn
  <1>5. /\ ~ Idle(c) /\ (Greets(c) => Greets(c)')
        /\ \A s \in Seq(Nat) : Len(s) + 6 <= MaxFrame /\ Carries(c, s) => Carries(c, s)'
    BY ReadStep
  <1>6. \A a \in Nat, k \in 1 .. MaxPacket : Carries(c, Interval(a, k)) => Carries(c, Interval(a, k))'
    <2> SUFFICES ASSUME NEW a \in Nat, NEW k \in 1 .. MaxPacket, Carries(c, Interval(a, k))
                 PROVE  Carries(c, Interval(a, k))'
      OBVIOUS
    <2> DEFINE s == Interval(a, k)
    <2>1. s \in Seq(Nat) /\ Len(s) + 6 <= MaxFrame
      BY PacketFits
    <2>2. PICK u \in Seq(Nat) : u = s
      BY <2>1
    <2>3. Carries(c, u)'
      BY <1>5, <2>1, <2>2
    <2>4. s' = u
      BY <2>2 DEF Interval
    <2> QED
      BY <2>3, <2>4 DEF Carries, AvlFrame, Packet
  <1>7. ConnInv(c)'
    <2>1. ~ Publishing(c)' /\ sock'[c] # "closed" /\ batches'[c] = Nothing
      BY <1>1 DEF Publishing, ConnInv, StreamInv
    <2>2. Greets(c) \/ \E a \in Nat, k \in 1 .. MaxPacket : a + k <= taken /\ Carries(c, Interval(a, k))
      BY <1>1, <1>5 DEF ConnInv, StreamInv
    <2>3. CASE Greets(c)
      BY <1>5, <2>1, <2>3 DEF ConnInv
    <2>4. CASE \E a \in Nat, k \in 1 .. MaxPacket : a + k <= taken /\ Carries(c, Interval(a, k))
      <3>1. PICK a \in Nat, k \in 1 .. MaxPacket : a + k <= taken /\ Carries(c, Interval(a, k))
        BY <2>4
      <3>2. Carries(c, Interval(a, k))' /\ a + k <= taken'
        BY <1>3, <1>6, <3>1
      <3> QED
        BY <2>1, <3>2 DEF ConnInv
    <2> QED
      BY <2>2, <2>3, <2>4
  <1>8. LinkInv'
    <2>1. CASE c # link
      <3>1. link # NoConn => SameConn(link)
        BY <1>4, <2>1 DEF IngestTypeOK
      <3> QED
        BY <1>1, <1>2, <1>3, <3>1, LinkStays DEF StreamInv
    <2>2. CASE c = link
      <3>1. link' = c /\ c # NoConn /\ ~ Publishing(c)' /\ toDevice'[c] = toDevice[c] /\ sock'[c] = sock[c]
        BY <1>1, <1>3, <2>2, IngestAssumption DEF Publishing
      <3>2. LinkInv /\ waits \in {"nothing", "imei", "ack"}
        BY DEF StreamInv, IngestTypeOK
      <3>3. waits # "nothing" /\ toDevice[c] = << >>
        BY <1>1, <1>5, <2>2, <3>1, <3>2 DEF LinkInv
      <3>4. waits = "imei" => Greets(c)'
        BY <1>1, <1>5, <2>2, <3>1, <3>2 DEF LinkInv
      <3>5. waits = "ack" => Carries(c, Interval(Deleted, sent))'
        <4> SUFFICES ASSUME waits = "ack" PROVE Carries(c, Interval(Deleted, sent))'
          OBVIOUS
        <4>1. Carries(c, Interval(Deleted, sent))
          BY <1>1, <1>5, <2>2, <3>1, <3>2 DEF LinkInv
        <4>2. Deleted \in Nat /\ sent \in 1 .. MaxPacket
          <5>1. sent \in 1 .. Len(flash) /\ sent \in 0 .. MaxPacket /\ Len(flash) \in Nat /\ Deleted \in Nat
            BY FlashIs DEF StreamInv, DeviceInv, IngestTypeOK
          <5>2. MaxPacket \in Nat
            BY IngestAssumption
          <5> QED
            BY <5>1, <5>2
        <4>3. PICK a \in Nat, k \in 1 .. MaxPacket : a = Deleted /\ k = sent
          BY <4>2
        <4>4. Carries(c, Interval(a, k))'
          BY <1>6, <4>1, <4>3
        <4>5. a = Deleted' /\ k = sent'
          BY <1>3, <4>3
        <4> QED
          BY <4>4, <4>5 DEF Carries, Interval, AvlFrame, Packet
      <3> QED
        BY <1>3, <3>1, <3>2, <3>3, <3>4, <3>5 DEF LinkInv
    <2> QED
      BY <2>1, <2>2
  <1>9. Quiet'
    BY <1>1, <1>3 DEF Quiet, StreamInv
  <1>10. \A d \in Conns : ConnInv(d)'
    BY <1>3, <1>4, <1>7, FlashIs, ConnStays DEF StreamInv
  <1> QED
    BY <1>3, <1>8, <1>9, <1>10 DEF StreamInv

\* The event in hand is the only one: it is the handshake or a packet.
LEMMA EventInHand ==
  ASSUME IngestTypeOK, StreamInv, NEW c \in Conns, NEW type, NextEvent(c, type)
  PROVE  /\ sock[c] # "closed" /\ framer[c] = Streaming /\ toServer[c] = << >>
         /\ ~ Publishing(c) /\ batches[c] = Nothing
         /\ \/ type = "imei" /\ todo[c] = <<ImeiRead>> /\ Greets(c)
            \/ /\ type = "packet"
               /\ \E a \in Nat, n \in 1 .. MaxPacket :
                    a + n <= taken /\ Carries(c, Interval(a, n)) /\ todo[c] = <<Packet(Interval(a, n))>>
         /\ Tail(todo[c]) = << >>
         /\ c = link => toDevice[c] = << >> /\ (type = "imei" => waits = "imei") /\ (type = "packet" => waits = "ack")
  <1>1. ~ Publishing(c) /\ todo[c] # << >> /\ Head(todo[c]).type = type /\ ConnInv(c) /\ LinkInv
    BY DEF NextEvent, StreamInv
  <1>2. sock[c] # "closed" /\ batches[c] = Nothing
    BY <1>1 DEF ConnInv
  <1>3. \/ Greets(c)
        \/ \E a \in Nat, n \in 1 .. MaxPacket : a + n <= taken /\ Carries(c, Interval(a, n))
    BY <1>1, <1>2 DEF ConnInv, Idle
  <1>4. ASSUME Greets(c)
        PROVE  /\ framer[c] = Streaming /\ toServer[c] = << >> /\ todo[c] = <<ImeiRead>> /\ type = "imei"
    BY <1>1, <1>4 DEF Greets, ImeiRead, Event
  <1>5. ASSUME NEW s, Carries(c, s)
        PROVE  /\ framer[c] = Streaming /\ toServer[c] = << >> /\ todo[c] = <<Packet(s)>> /\ type = "packet"
    BY <1>1, <1>5 DEF Carries, Packet, Event
  <1>6. Tail(todo[c]) = << >>
    <2>1. \A e : Tail(<<e>>) = << >>
      OBVIOUS
    <2>2. CASE Greets(c)
      BY <1>4, <2>1, <2>2
    <2>3. ASSUME NEW s, Carries(c, s) PROVE Tail(todo[c]) = << >>
      BY <1>5, <2>1, <2>3
    <2> QED
      BY <1>3, <2>2, <2>3
  <1>7. ASSUME c = link
        PROVE  toDevice[c] = << >> /\ (type = "imei" => waits = "imei") /\ (type = "packet" => waits = "ack")
    <2>1. ~ Idle(c) /\ c # NoConn /\ waits \in {"nothing", "imei", "ack"}
      BY <1>1, IngestAssumption DEF Idle, IngestTypeOK
    <2>2. CASE waits = "imei"
      BY <1>1, <1>2, <1>4, <1>7, <2>1, <2>2 DEF LinkInv
    <2>3. CASE waits = "ack"
      BY <1>1, <1>2, <1>5, <1>7, <2>1, <2>3 DEF LinkInv
    <2> QED
      BY <1>1, <1>2, <1>7, <2>1, <2>2, <2>3 DEF LinkInv
  <1> QED
    BY <1>1, <1>2, <1>3, <1>4, <1>5, <1>6, <1>7

\* The handshake is accepted.
LEMMA StreamImei ==
  ASSUME IngestTypeOK, StreamInv, NEW c \in Conns, HandleImei(c)
  PROVE  StreamInv'
  <1>1. NextEvent(c, "imei") /\ Write(c, Accept) /\ (sock[c] = "open" => todo' = [todo EXCEPT ![c] = Tail(@)])
        /\ UNCHANGED <<deviceVars, batches, count, log>>
    BY DEF HandleImei
  <1>2. /\ sock[c] # "closed" /\ framer[c] = Streaming /\ toServer[c] = << >>
        /\ ~ Publishing(c) /\ batches[c] = Nothing /\ Tail(todo[c]) = << >>
        /\ c = link => toDevice[c] = << >> /\ waits = "imei"
    BY <1>1, EventInHand
  <1>3. CASE sock[c] # "open"
    <2>1. Destroy(c) /\ toDevice' = toDevice
      BY <1>1, <1>3 DEF Write
    <2>2. \A d \in Conns : PublishSame(d)
      BY <1>1 DEF PublishSame
    <2> QED
      BY <1>1, <2>1, <2>2, StreamClose
  <1>4. CASE sock[c] = "open"
    <2>1. /\ UNCHANGED <<sock, toServer, framer>> /\ todo' = [todo EXCEPT ![c] = Tail(@)]
          /\ toDevice' = IF link = c THEN [toDevice EXCEPT ![c] = Append(@, Accept)] ELSE toDevice
      BY <1>1, <1>4 DEF Write
    <2>2. Stored' = Stored
      BY <1>1 DEF Stored
    <2>3. DeviceInv' /\ UNCHANGED <<taken, flash, link, waits, sent, Deleted, Span>>
      BY <1>1, <2>2, DeviceStays
    <2>4. \A d \in Conns \ {c} : SameConn(d)
      BY <1>1, <2>1 DEF SameConn, IngestTypeOK
    <2>5. Idle(c)' /\ ~ Publishing(c)' /\ batches'[c] = Nothing /\ sock'[c] # "closed"
      BY <1>1, <1>2, <2>1 DEF Idle, Publishing, IngestTypeOK, Streaming
    <2>6. ConnInv(c)'
      BY <2>5 DEF ConnInv
    <2>7. Quiet'
      BY <2>1, <2>3 DEF Quiet, StreamInv
    <2>8. LinkInv'
      <3>1. CASE c # link
        <4>1. link # NoConn => SameConn(link)
          BY <2>4, <3>1 DEF IngestTypeOK
        <4> QED
          BY <2>1, <2>2, <2>3, <3>1, <4>1, LinkStays DEF StreamInv
      <3>2. CASE c = link
        <4>1. toDevice'[c] = <<Accept>>
          BY <1>2, <2>1, <3>2 DEF IngestTypeOK
        <4>2. link' = c /\ waits' = "imei" /\ c # NoConn
          BY <1>2, <2>3, <3>2, IngestAssumption
        <4> QED
          BY <2>5, <4>1, <4>2 DEF LinkInv
      <3> QED
        BY <3>1, <3>2
    <2>9. \A d \in Conns : ConnInv(d)'
      BY <2>3, <2>4, <2>6, FlashIs, ConnStays DEF StreamInv
    <2> QED
      BY <2>3, <2>7, <2>8, <2>9 DEF StreamInv
  <1> QED
    BY <1>3, <1>4


\* Nothing of an undamaged stream is refused.
LEMMA StreamRefuses ==
  ASSUME IngestTypeOK, StreamInv, NEW c \in Conns
  PROVE  ~ HandleBadCrc(c) /\ ~ HandleError(c)
  <1>1. ~ NextEvent(c, "bad-crc")
    BY EventInHand
  <1>2. ASSUME NEW reason \in Failures, NextEvent(c, reason) PROVE FALSE
    <2>1. reason # "imei" /\ reason # "packet"
      BY DEF Failures
    <2> QED
      BY <1>2, <2>1, EventInHand
  <1> QED
    BY <1>1, <1>2 DEF HandleBadCrc, HandleError

\* The publish of the packet the device waits for, named by what it has deleted.
LEMMA PublishesThen ==
  ASSUME NEW c, NEW a, NEW n, Publishes(c, a, n)', Deleted' = a, sent' = n
  PROVE  Publishes(c, Deleted, sent)'
  <1>1. count'[c] = sent'
    BY DEF Publishes
  <1>2. \E x \in a .. a + n :
          /\ batches'[c]["backfill"] \in {<< >>, Interval(a, x - a)}
          /\ batches'[c]["live"] \in {<< >>, Interval(x, a + n - x)}
    BY DEF Publishes, Interval
  <1>3. \E x \in Deleted' .. Deleted' + sent' :
          /\ batches'[c]["backfill"] \in {<< >>, Interval(Deleted', x - Deleted')}
          /\ batches'[c]["live"] \in {<< >>, Interval(x, Deleted' + sent' - x)}
    BY <1>2
  <1> QED
    BY <1>1, <1>3 DEF Publishes, Interval

\* The publish of a packet begins: its records go to their topics' batches.
LEMMA StreamPacket ==
  ASSUME IngestTypeOK, StreamInv, NEW c \in Conns, HandlePacket(c)
  PROVE  StreamInv'
  <1>1. /\ NextEvent(c, "packet")
        /\ batches' = [batches EXCEPT ![c] = [t \in Topics |-> Batch(Head(todo[c]).records, t)]]
        /\ count' = [count EXCEPT ![c] = Len(Head(todo[c]).records)]
        /\ todo' = [todo EXCEPT ![c] = Tail(@)]
        /\ UNCHANGED <<deviceVars, toServer, toDevice, sock, framer, log>>
    BY DEF HandlePacket
  <1>2. /\ sock[c] # "closed" /\ framer[c] = Streaming /\ toServer[c] = << >>
        /\ Tail(todo[c]) = << >>
        /\ c = link => toDevice[c] = << >> /\ waits = "ack"
    BY <1>1, EventInHand
  <1>3. PICK a \in Nat, n \in 1 .. MaxPacket :
          a + n <= taken /\ Carries(c, Interval(a, n)) /\ todo[c] = <<Packet(Interval(a, n))>>
    BY <1>1, EventInHand
  <1>4. Head(todo[c]).records = Interval(a, n)
    BY <1>3 DEF Packet, Event
  <1>5. n \in Nat /\ Len(Interval(a, n)) = n /\ aged \in Nat /\ n # NotPublishing
    BY IntervalIs, IngestAssumption, FlashIs DEF NotPublishing
  <1>6. PICK x \in a .. a + n :
          /\ Batch(Interval(a, n), "backfill") = Interval(a, x - a)
          /\ Batch(Interval(a, n), "live") = Interval(x, a + n - x)
    BY <1>5, BatchesOfInterval
  <1>7. /\ batches'[c] = [t \in Topics |-> Batch(Interval(a, n), t)]
        /\ batches'[c]["backfill"] = Interval(a, x - a)
        /\ batches'[c]["live"] = Interval(x, a + n - x)
    BY <1>1, <1>4, <1>6 DEF IngestTypeOK, Topics
  <1>8. count'[c] = n /\ todo'[c] = << >> /\ Publishing(c)'
    BY <1>1, <1>2, <1>4, <1>5 DEF IngestTypeOK, Publishing
  <1>9. Stored' = Stored
    BY <1>1 DEF Stored
  <1>10. DeviceInv' /\ UNCHANGED <<taken, flash, link, waits, sent, Deleted, Span>>
    BY <1>1, <1>9, DeviceStays
  <1>11. \A d \in Conns \ {c} : SameConn(d)
    BY <1>1 DEF SameConn, IngestTypeOK
  <1>12. Publishes(c, a, n)'
    BY <1>7, <1>8 DEF Publishes, Interval
  <1>13. Idle(c)' /\ sock'[c] # "closed"
    BY <1>1, <1>2, <1>8 DEF Idle, Streaming
  <1>14. ConnInv(c)'
    BY <1>3, <1>8, <1>10, <1>12, <1>13 DEF ConnInv
  <1>15. \A d \in Conns : ConnInv(d)'
    BY <1>10, <1>11, <1>14, FlashIs, ConnStays DEF StreamInv
  <1>16. Quiet'
    BY <1>1, <1>10 DEF Quiet, StreamInv
  <1>17. LinkInv'
    <2>1. CASE c # link
      <3>1. link # NoConn => SameConn(link)
        BY <1>11, <2>1 DEF IngestTypeOK
      <3> QED
        BY <1>1, <1>9, <1>10, <2>1, <3>1, LinkStays DEF StreamInv
    <2>2. CASE c = link
      <3>1. link' = c /\ waits' = "ack" /\ c # NoConn /\ toDevice'[c] = << >>
        BY <1>1, <1>2, <1>10, <2>2, IngestAssumption
      <3>2. Carries(c, Interval(Deleted, sent)) /\ Deleted \in Nat /\ sent \in Nat
        <4>1. ~ Idle(c)
          BY <1>3 DEF Idle
        <4> QED
          BY <1>2, <2>2, <3>1, <4>1, FlashIs DEF StreamInv, LinkInv
      <3>3. todo[c] = <<Packet(Interval(Deleted, sent))>>
        BY <1>3, <3>2 DEF Carries
      <3>4. Interval(Deleted, sent) = Interval(a, n)
        BY <1>4, <3>3 DEF Packet, Event
      <3>5. Deleted = a /\ sent = n
        <4>1. sent = n
          BY <1>5, <3>2, <3>4, IntervalIs
        <4>2. Interval(a, n)[1] = a + 1 /\ Interval(Deleted, sent)[1] = Deleted + 1
          BY <3>2, <4>1, IngestAssumption DEF Interval
        <4> QED
          BY <3>2, <3>4, <4>1, <4>2
      <3>6. Publishes(c, Deleted, sent)'
        BY <1>10, <1>12, <3>5, PublishesThen
      <3>7. Batched(c)' = a + 1 .. a + n
        <4>1. x - a \in Nat /\ a + n - x \in Nat /\ x \in Nat
          BY <1>5
        <4>2. ToSet(Interval(a, x - a)) = a + 1 .. x
          BY <4>1, IntervalIs
        <4>3. ToSet(Interval(x, a + n - x)) = x + 1 .. a + n
          BY <1>5, <4>1, IntervalIs
        <4>4. Batched(c)' = ToSet(batches'[c]["backfill"]) \cup ToSet(batches'[c]["live"])
          BY DEF Batched, Topics
        <4>5. Batched(c)' = (a + 1 .. x) \cup (x + 1 .. a + n)
          BY <1>7, <4>2, <4>3, <4>4
        <4> QED
          BY <1>5, <4>1, <4>5
      <3>8. Span' \subseteq Batched(c)'
        BY <1>10, <3>5, <3>7 DEF Span
      <3> QED
        BY <1>13, <3>1, <3>6, <3>8 DEF LinkInv
    <2> QED
      BY <2>1, <2>2
  <1> QED
    BY <1>10, <1>15, <1>16, <1>17 DEF StreamInv

\* The members of a concatenation are those of its parts.
LEMMA ToSetOfBoth ==
  ASSUME NEW S, NEW s \in Seq(S), NEW t \in Seq(S)
  PROVE  ToSet(s \o t) = ToSet(s) \cup ToSet(t)
  <1> DEFINE u == s \o t
  <1>1. /\ u \in Seq(S) /\ Len(u) = Len(s) + Len(t)
        /\ \A i \in 1 .. Len(u) : u[i] = IF i <= Len(s) THEN s[i] ELSE t[i - Len(s)]
    BY ConcatProperties
  <1>2. /\ Len(s) \in Nat /\ Len(t) \in Nat /\ DOMAIN s = 1 .. Len(s) /\ DOMAIN t = 1 .. Len(t)
        /\ DOMAIN u = 1 .. Len(u)
    BY <1>1, LenProperties
  <1> HIDE DEF u
  <1>3. ASSUME NEW i \in 1 .. Len(u) PROVE u[i] \in ToSet(s) \cup ToSet(t)
    <2>1. CASE i <= Len(s)
      BY <1>1, <1>2, <2>1 DEF ToSet
    <2>2. CASE i > Len(s)
      <3>1. i - Len(s) \in 1 .. Len(t) /\ u[i] = t[i - Len(s)]
        BY <1>1, <1>2, <2>2
      <3> QED
        BY <1>2, <3>1 DEF ToSet
    <2> QED
      BY <1>2, <2>1, <2>2
  <1>4. ASSUME NEW i \in 1 .. Len(s) PROVE s[i] \in ToSet(u)
    <2>1. i \in 1 .. Len(u) /\ u[i] = s[i]
      BY <1>1, <1>2
    <2> QED
      BY <1>2, <2>1 DEF ToSet
  <1>5. ASSUME NEW i \in 1 .. Len(t) PROVE t[i] \in ToSet(u)
    <2>1. Len(s) + i \in 1 .. Len(u) /\ u[Len(s) + i] = t[i]
      <3>1. Len(s) + i \in 1 .. Len(u) /\ ~ (Len(s) + i <= Len(s)) /\ (Len(s) + i) - Len(s) = i
        BY <1>1, <1>2
      <3> QED
        BY <1>1, <3>1
    <2> QED
      BY <1>2, <2>1 DEF ToSet
  <1>6. ToSet(u) = {u[i] : i \in 1 .. Len(u)} /\ ToSet(s) = {s[i] : i \in 1 .. Len(s)}
        /\ ToSet(t) = {t[i] : i \in 1 .. Len(t)}
    BY <1>2 DEF ToSet
  <1>7. ToSet(u) = ToSet(s) \cup ToSet(t)
    BY <1>3, <1>4, <1>5, <1>6
  <1> QED
    BY <1>7 DEF u

\* What StoreBatch adds to the log.
LEMMA StoreAdds ==
  ASSUME IngestTypeOK, NEW c \in Conns, NEW t \in Topics, StoreBatch(c, t)
  PROVE  Stored' = Stored \cup ToSet(batches[c][t])
  <1>1. log' = [log EXCEPT ![t] = @ \o batches[c][t]]
    BY DEF StoreBatch
  <1>2. log[t] \in Seq(Nat) /\ batches[c][t] \in Seq(Nat)
    BY DEF IngestTypeOK
  <1>3. ToSet(log'[t]) = ToSet(log[t]) \cup ToSet(batches[c][t])
    BY <1>1, <1>2, ToSetOfBoth DEF IngestTypeOK
  <1>4. \A u \in Topics \ {t} : log'[u] = log[u]
    BY <1>1 DEF IngestTypeOK
  <1>5. ASSUME NEW f PROVE UNION {ToSet(f[u]) : u \in Topics} = ToSet(f["live"]) \cup ToSet(f["backfill"])
    BY DEF Topics
  <1>6. /\ Stored = ToSet(log["live"]) \cup ToSet(log["backfill"])
        /\ Stored' = ToSet(log'["live"]) \cup ToSet(log'["backfill"])
    BY <1>5 DEF Stored
  <1>7. CASE t = "live"
    BY <1>3, <1>4, <1>6, <1>7 DEF Topics
  <1>8. CASE t = "backfill"
    BY <1>3, <1>4, <1>6, <1>8 DEF Topics
  <1> QED
    BY <1>7, <1>8 DEF Topics

\* The broker stores what a publish has for one topic.
LEMMA StreamStore ==
  ASSUME IngestTypeOK, StreamInv, NEW c \in Conns, NEW t \in Topics, StoreBatch(c, t)
  PROVE  StreamInv'
  <1>1. /\ batches[c][t] # << >> /\ batches' = [batches EXCEPT ![c][t] = << >>]
        /\ UNCHANGED <<deviceVars, toServer, toDevice, sock, framer, todo, count>>
    BY DEF StoreBatch
  <1>2. Stored' = Stored \cup ToSet(batches[c][t])
    BY StoreAdds
  <1>3. DeviceInv' /\ UNCHANGED <<taken, flash, link, waits, sent, Deleted, Span>>
    BY <1>1, <1>2, DeviceStays
  <1>4. \A d \in Conns \ {c} : SameConn(d)
    BY <1>1 DEF SameConn, IngestTypeOK
  <1>5. /\ batches[c] \in [Topics -> Seq(Nat)] /\ batches'[c] = [batches[c] EXCEPT ![t] = << >>]
        /\ batches'[c][t] = << >> /\ \A u \in Topics \ {t} : batches'[c][u] = batches[c][u]
    BY <1>1 DEF IngestTypeOK
  <1>6. Publishing(c) /\ Publishing(c)'
    <2>1. batches[c] # Nothing
      BY <1>1 DEF Nothing
    <2> QED
      BY <1>1, <2>1 DEF StreamInv, ConnInv, Publishing
  <1>7. \A a, n : Publishes(c, a, n) => Publishes(c, a, n)'
    <2> SUFFICES ASSUME NEW a, NEW n, Publishes(c, a, n) PROVE Publishes(c, a, n)'
      OBVIOUS
    <2>1. count'[c] = n
      BY <1>1 DEF Publishes
    <2>2. PICK x \in a .. a + n :
            /\ batches[c]["backfill"] \in {<< >>, Interval(a, x - a)}
            /\ batches[c]["live"] \in {<< >>, Interval(x, a + n - x)}
      BY DEF Publishes
    <2>3. /\ batches'[c]["backfill"] \in {<< >>, Interval(a, x - a)}
          /\ batches'[c]["live"] \in {<< >>, Interval(x, a + n - x)}
      <3>1. CASE t = "live"
        BY <1>5, <2>2, <3>1 DEF Topics
      <3>2. CASE t = "backfill"
        BY <1>5, <2>2, <3>2 DEF Topics
      <3> QED
        BY <3>1, <3>2 DEF Topics
    <2> QED
      BY <2>1, <2>3 DEF Publishes, Interval
  <1>8. Idle(c)' = Idle(c) /\ ~ Greets(c) /\ ~ (\E s : Carries(c, s)) /\ sock'[c] = sock[c]
    BY <1>1, <1>6 DEF Idle, Greets, Carries
  <1>9. ConnInv(c)'
    <2>1. sock'[c] = "closed" => framer'[c] = NewFramer /\ todo'[c] = << >>
      BY <1>1 DEF StreamInv, ConnInv
    <2>2. sock'[c] # "closed" => Idle(c)'
      BY <1>8 DEF StreamInv, ConnInv
    <2>3. PICK a \in Nat, n \in 1 .. MaxPacket : a + n <= taken /\ Publishes(c, a, n)
      BY <1>6 DEF StreamInv, ConnInv
    <2> QED
      BY <1>3, <1>6, <1>7, <2>1, <2>2, <2>3 DEF ConnInv
  <1>10. LinkInv'
    <2>1. CASE c # link
      <3>1. link # NoConn => SameConn(link)
        BY <1>4, <2>1 DEF IngestTypeOK
      <3>2. toDevice'[link] = toDevice[link] /\ Stored \subseteq Stored'
        BY <1>1, <1>2
      <3> QED
        BY <1>3, <3>1, <3>2, LinkStays DEF StreamInv
    <2>2. CASE c = link
      <3>1. link' = c /\ c # NoConn /\ waits \in {"nothing", "imei", "ack"} /\ LinkInv
        BY <1>3, <2>2, IngestAssumption DEF IngestTypeOK, StreamInv
      <3>2. waits = "ack" /\ waits' = "ack" /\ Publishes(c, Deleted, sent) /\ Span \subseteq Stored \cup Batched(c)
        BY <1>3, <1>6, <2>2, <3>1 DEF LinkInv
      <3>3. toDevice'[c] = << >>
        BY <1>1, <1>6, <2>2, <3>1, <3>2 DEF LinkInv
      <3>4. sock'[c] # "closed" => Idle(c)'
        BY <1>8, <2>2, <3>1, <3>2 DEF LinkInv
      <3>5. Publishes(c, Deleted, sent)'
        <4>1. PICK a, n : a = Deleted /\ n = sent
          OBVIOUS
        <4> QED
          BY <1>3, <1>7, <3>2, <4>1, PublishesThen
      <3>6. Batched(c) \subseteq Batched(c)' \cup ToSet(batches[c][t])
        BY <1>5 DEF Batched
      <3>7. Span' \subseteq Stored' \cup Batched(c)'
        BY <1>2, <1>3, <3>2, <3>6
      <3> QED
        BY <3>1, <3>2, <3>3, <3>4, <3>5, <3>7 DEF LinkInv
    <2> QED
      BY <2>1, <2>2
  <1>11. Quiet'
    BY <1>1, <1>3 DEF Quiet, StreamInv
  <1>12. \A d \in Conns : ConnInv(d)'
    BY <1>3, <1>4, <1>9, FlashIs, ConnStays DEF StreamInv
  <1> QED
    BY <1>3, <1>10, <1>11, <1>12 DEF StreamInv


\* The publish resolved: the acknowledgement is for what is stored.
LEMMA StreamPublished ==
  ASSUME IngestTypeOK, StreamInv, NEW c \in Conns, Published(c)
  PROVE  StreamInv'
  <1>1. /\ Publishing(c) /\ batches[c] = Nothing /\ count' = [count EXCEPT ![c] = NotPublishing]
        /\ Write(c, count[c]) /\ (sock[c] = "open" => UNCHANGED todo)
        /\ UNCHANGED <<deviceVars, batches, log>>
    BY DEF Published
  <1>2. CASE sock[c] # "open"
    <2>1. Destroy(c) /\ toDevice' = toDevice
      BY <1>1, <1>2 DEF Write
    <2>2. PublishOver(c) /\ \A d \in Conns \ {c} : PublishSame(d)
      BY <1>1 DEF PublishOver, PublishSame, IngestTypeOK
    <2> QED
      BY <1>1, <2>1, <2>2, StreamClose
  <1>3. CASE sock[c] = "open"
    <2>1. /\ UNCHANGED <<sock, toServer, framer, todo>>
          /\ toDevice' = IF link = c THEN [toDevice EXCEPT ![c] = Append(@, count[c])] ELSE toDevice
      BY <1>1, <1>3 DEF Write
    <2>2. Stored' = Stored
      BY <1>1 DEF Stored
    <2>3. DeviceInv' /\ UNCHANGED <<taken, flash, link, waits, sent, Deleted, Span>>
      BY <1>1, <2>2, DeviceStays
    <2>4. \A d \in Conns \ {c} : SameConn(d)
      BY <1>1, <2>1 DEF SameConn, IngestTypeOK
    <2>5. Idle(c)
      BY <1>1, <1>3 DEF StreamInv, ConnInv, Greets, Carries
    <2>6. Idle(c)' /\ ~ Publishing(c)' /\ batches'[c] = Nothing /\ sock'[c] # "closed"
      BY <1>1, <1>3, <2>1, <2>5 DEF Idle, Publishing, IngestTypeOK
    <2>7. ConnInv(c)'
      BY <2>6 DEF ConnInv
    <2>8. \A d \in Conns : ConnInv(d)'
      BY <2>3, <2>4, <2>7, FlashIs, ConnStays DEF StreamInv
    <2>9. Quiet'
      BY <2>1, <2>3 DEF Quiet, StreamInv
    <2>10. LinkInv'
      <3>1. CASE c # link
        <4>1. link # NoConn => SameConn(link)
          BY <2>4, <3>1 DEF IngestTypeOK
        <4> QED
          BY <2>1, <2>2, <2>3, <3>1, <4>1, LinkStays DEF StreamInv
      <3>2. CASE c = link
        <4>1. link' = c /\ c # NoConn /\ waits \in {"nothing", "imei", "ack"} /\ LinkInv
          BY <2>3, <3>2, IngestAssumption DEF IngestTypeOK, StreamInv
        <4>2. waits = "ack" /\ waits' = "ack" /\ Publishes(c, Deleted, sent) /\ Span \subseteq Stored \cup Batched(c)
          BY <1>1, <2>3, <3>2, <4>1 DEF LinkInv
        <4>3. toDevice[c] = << >>
          BY <1>1, <3>2, <4>1, <4>2 DEF LinkInv
        <4>4. Batched(c) = {}
          BY <1>1 DEF Batched, Nothing, ToSet
        <4>5. count[c] = sent'
          BY <2>3, <4>2 DEF Publishes
        <4>6. toDevice'[c] = <<sent'>>
          BY <2>1, <3>2, <4>3, <4>5 DEF IngestTypeOK
        <4>7. Span' \subseteq Stored'
          BY <2>2, <2>3, <4>2, <4>4
        <4> QED
          BY <2>6, <4>1, <4>2, <4>6, <4>7 DEF LinkInv
      <3> QED
        BY <3>1, <3>2
    <2> QED
      BY <2>3, <2>8, <2>9, <2>10 DEF StreamInv
  <1> QED
    BY <1>2, <1>3

\* Nothing is on its way at first.
LEMMA StreamInit == IngestInit => StreamInv
  <1> SUFFICES ASSUME IngestInit PROVE StreamInv
    OBVIOUS
  <1>1. Len(flash) = 0 /\ Deleted = 0 /\ flash = << >>
    <2>1. flash = << >> /\ taken = 0
      BY DEF IngestInit
    <2>2. Len(flash) = 0
      BY <2>1, EmptySeq
    <2>3. Deleted = taken - Len(flash)
      BY DEF Deleted
    <2>4. Deleted = 0
      BY <2>1, <2>2, <2>3
    <2> QED
      BY <2>1, <2>2, <2>4
  <1>2. DeviceInv
    <2>1. Interval(0, 0) = << >>
      BY IntervalIs
    <2> QED
      BY <1>1, <2>1 DEF DeviceInv, IngestInit
  <1>3. LinkInv /\ Quiet
    BY DEF LinkInv, Quiet, IngestInit
  <1>4. \A c \in Conns : ConnInv(c)
    BY DEF ConnInv, IngestInit, Publishing
  <1> QED
    BY <1>2, <1>3, <1>4 DEF StreamInv

\* A step that changes nothing.
LEMMA StreamSame ==
  ASSUME IngestTypeOK, StreamInv, UNCHANGED ingestVars
  PROVE  StreamInv'
  <1>1. /\ UNCHANGED <<deviceVars, taken, link, toServer, toDevice, sock, framer, todo, batches, count, log>>
        /\ Stored' = Stored
    BY DEF ingestVars, deviceVars, serverVars, Stored
  <1>2. DeviceInv' /\ UNCHANGED <<taken, flash, link, waits, sent, Deleted, Span>>
    BY <1>1, DeviceStays
  <1>3. \A d : SameConn(d)
    BY <1>1 DEF SameConn
  <1>4. \A d \in Conns : ConnInv(d)'
    BY <1>2, <1>3, FlashIs, ConnStays DEF StreamInv
  <1>5. LinkInv'
    BY <1>1, <1>2, <1>3, LinkStays DEF StreamInv
  <1>6. Quiet'
    BY <1>1 DEF Quiet, StreamInv
  <1> QED
    BY <1>2, <1>4, <1>5, <1>6 DEF StreamInv

\* Failures are only counted up.
LEMMA FaultsGrow ==
  ASSUME IngestTypeOK, [IngestNext]_ingestVars
  PROVE  faults' = faults \/ faults' = faults + 1
  <1> USE DEF Fault
  <1>1. CASE UNCHANGED ingestVars
    BY <1>1 DEF ingestVars
  <1>2. CASE TakeRecord \/ Age \/ Connect \/ GetReply \/ GetRejected \/ LoseLink \/ SeeClose
             \/ (\E n \in 1 .. MaxPacket : SendPacket(n)) \/ Shutdown \/ Exit
    BY <1>2 DEF TakeRecord, Age, Connect, GetReply, GetRejected, LoseLink, SeeClose, SendPacket, Shutdown, Exit
  <1>3. ASSUME NEW c \in Conns,
               \/ \E i \in 1 .. Len(toServer[c]), u \in Garbage : Damage(c, i, u)
               \/ \E n \in 1 .. Len(toServer[c]) : Receive(c, n)
               \/ Handle(c)
               \/ \E t \in Topics : StoreBatch(c, t)
               \/ Published(c) \/ PublishFails(c)
               \/ IdleTimeout(c) \/ PeerGone(c)
        PROVE  faults' = faults \/ faults' = faults + 1
    <2>1. Handle(c) => faults' = faults
      BY DEF Handle, HandleImei, HandleBadCrc, HandlePacket, HandleError
    <2> QED
      BY <1>3, <2>1 DEF Damage, Receive, StoreBatch, Published, PublishFails, IdleTimeout, PeerGone
  <1> QED
    BY <1>1, <1>2, <1>3 DEF IngestNext

\* Every step of an undamaged stream keeps the invariant; a damaged unit ends the premise.
LEMMA StreamNext ==
  ASSUME IngestTypeOK, Clean => StreamInv, [IngestNext]_ingestVars
  PROVE  (Clean => StreamInv)'
  <1> SUFFICES ASSUME Clean' PROVE StreamInv'
    OBVIOUS
  <1>1. Clean /\ StreamInv
    BY FaultsGrow, FlashIs DEF Clean
  <1>2. CASE UNCHANGED ingestVars
    BY <1>1, <1>2, StreamSame
  <1>3. CASE TakeRecord \/ Age \/ Connect \/ GetReply \/ GetRejected \/ LoseLink \/ SeeClose
             \/ (\E n \in 1 .. MaxPacket : SendPacket(n)) \/ Shutdown \/ Exit
    BY <1>1, <1>3, StreamTake, StreamConnect, StreamReply, StreamHangUp, StreamSend, StreamProcess
  <1>4. ASSUME NEW c \in Conns,
               \/ \E i \in 1 .. Len(toServer[c]), u \in Garbage : Damage(c, i, u)
               \/ \E n \in 1 .. Len(toServer[c]) : Receive(c, n)
               \/ Handle(c)
               \/ \E t \in Topics : StoreBatch(c, t)
               \/ Published(c) \/ PublishFails(c)
               \/ IdleTimeout(c) \/ PeerGone(c)
        PROVE  StreamInv'
    <2>1. ~ \E i \in 1 .. Len(toServer[c]), u \in Garbage : Damage(c, i, u)
      BY FlashIs DEF Damage, Fault, Clean
    <2>2. Handle(c) => StreamInv'
      BY <1>1, StreamImei, StreamPacket, StreamRefuses DEF Handle
    <2> QED
      BY <1>1, <1>4, <2>1, <2>2, StreamReceive, StreamStore, StreamPublished, StreamDrops
  <1> QED
    BY <1>2, <1>3, <1>4 DEF IngestNext

\* The inductive invariant holds as long as no unit can have been damaged.
LEMMA StreamAlways == IngestSpec => [](IngestTypeOK /\ (Clean => StreamInv))
  <1>1. IngestInit => IngestTypeOK /\ (Clean => StreamInv)
    BY TypeInit, StreamInit
  <1>2. IngestTypeOK /\ (Clean => StreamInv) /\ [IngestNext]_ingestVars
          => (IngestTypeOK /\ (Clean => StreamInv))'
    BY TypeNext, StreamNext
  <1> QED
    BY <1>1, <1>2, PTL DEF IngestSpec

-----------------------------------------------------------------------------
(* What it gives.                                                          *)

\* However a healthy stream is cut into chunks, the framer reads it
\* (framer.ts): no packet is refused and no connection is dropped.
THEOREM HealthyStreamsAlwaysRead == IngestSpec => []HealthyStreamsAreRead
  <1>1. (Clean => StreamInv) => HealthyStreamsAreRead
    <2> SUFFICES ASSUME faults = 0, StreamInv, NEW c \in Conns
                 PROVE  /\ framer[c].state # "failed"
                        /\ \A i \in DOMAIN todo[c] : todo[c][i].type \in {"imei", "packet"}
      BY DEF Clean, HealthyStreamsAreRead
    <2>1. \/ framer[c] = NewFramer /\ todo[c] = << >>
          \/ Idle(c) \/ Greets(c)
          \/ \E a \in Nat, n \in 1 .. MaxPacket : Carries(c, Interval(a, n))
      BY DEF StreamInv, ConnInv
    <2>2. CASE framer[c] = NewFramer /\ todo[c] = << >>
      BY <2>2 DEF NewFramer
    <2>3. CASE Idle(c)
      BY <2>3 DEF Idle, Streaming
    <2>4. CASE Greets(c)
      BY <2>4 DEF Greets, Streaming, ImeiRead, Event
    <2>5. ASSUME NEW s, Carries(c, s)
          PROVE  framer[c].state # "failed" /\ \A i \in DOMAIN todo[c] : todo[c][i].type \in {"imei", "packet"}
      BY <2>5 DEF Carries, Streaming, Packet, Event
    <2> QED
      BY <2>1, <2>2, <2>3, <2>4, <2>5
  <1> QED
    BY <1>1, StreamAlways, PTL

\* The device keeps exactly the records behind the deleted ones.
LEMMA KeptIs ==
  ASSUME IngestTypeOK, StreamInv
  PROVE  Kept = Deleted + 1 .. taken
  <1>1. ToSet(Interval(Deleted, Len(flash))) = Deleted + 1 .. Deleted + Len(flash)
    BY FlashIs, IntervalIs
  <1> QED
    BY <1>1, FlashIs DEF Kept, StreamInv, DeviceInv

\* The same of the state after a step.
LEMMA KeptThen ==
  ASSUME IngestTypeOK', StreamInv'
  PROVE  /\ Kept' = Deleted' + 1 .. taken' /\ 1 .. Deleted' \subseteq Stored'
         /\ Deleted' \in Nat /\ taken' \in Nat /\ Deleted' <= taken'
  <1>1. flash' \in Seq(Records) /\ taken' \in 0 .. MaxRecords /\ Len(flash') <= taken'
    BY DEF IngestTypeOK
  <1>2. Len(flash') \in Nat /\ MaxRecords \in Nat
    BY <1>1, LenProperties, IngestAssumption
  <1>3. Deleted' = taken' - Len(flash')
    BY DEF Deleted
  <1>4. PICK a, l : a = Deleted' /\ l = Len(flash')
    OBVIOUS
  <1>5. flash' = Interval(a, l) /\ 1 .. Deleted' \subseteq Stored'
    BY <1>4 DEF StreamInv, DeviceInv, Interval
  <1>6. a \in Nat /\ l \in Nat /\ a + l = taken' /\ taken' \in Nat
    BY <1>1, <1>2, <1>3, <1>4
  <1>7. ToSet(Interval(a, l)) = a + 1 .. a + l
    BY <1>6, IntervalIs
  <1>8. ToSet(flash') = a + 1 .. taken'
    BY <1>5, <1>6, <1>7
  <1>9. Kept' = Deleted' + 1 .. taken'
    BY <1>4, <1>8 DEF Kept
  <1>10. Deleted' \in Nat /\ Deleted' <= taken'
    BY <1>4, <1>6
  <1> QED
    BY <1>5, <1>6, <1>9, <1>10

\* The acknowledgement is a durability promise (server.ts): however connections
\* break, publishes fail and the server restarts, a record the device has
\* deleted is stored - provided that what arrives is what was sent.
THEOREM AcknowledgedIsDurable ==
  ASSUME Garbage = {} PROVE IngestSpec => []AckedIsDurable
  <1>1. IngestTypeOK /\ (Clean => StreamInv) => AckedIsDurable
    <2> SUFFICES ASSUME IngestTypeOK, StreamInv, NEW r \in 1 .. taken
                 PROVE  r \in Kept \/ r \in Stored
      BY DEF Clean, AckedIsDurable
    <2>1. Kept = Deleted + 1 .. taken /\ 1 .. Deleted \subseteq Stored /\ Deleted \in Nat /\ taken \in Nat
      BY KeptIs, FlashIs DEF StreamInv, DeviceInv
    <2> QED
      BY <2>1
  <1> QED
    BY <1>1, StreamAlways, PTL

\* The steps that leave the log alone and take no record keep the records or
\* delete stored ones.
LEMMA DeletesStored ==
  ASSUME IngestTypeOK, StreamInv, IngestTypeOK', StreamInv', log' = log, taken' = taken, Deleted <= Deleted'
  PROVE  Inbox!Delete
  <1>1. Stored' = Stored
    BY DEF Stored
  <1>2. /\ Kept = Deleted + 1 .. taken /\ 1 .. Deleted' \subseteq Stored
        /\ Deleted \in Nat /\ taken \in Nat /\ Deleted' \in Nat
    BY <1>1, KeptIs, KeptThen, FlashIs
  <1>3. Kept' = Deleted' + 1 .. taken
    BY KeptThen
  <1> DEFINE S == Deleted + 1 .. Deleted'
  <1>4. Deleted' <= taken
    BY KeptThen
  <1>5. S \subseteq Kept /\ S \subseteq Stored /\ Kept' = Kept \ S
    BY <1>2, <1>3, <1>4
  <1> QED
    BY <1>1, <1>5 DEF Inbox!Delete


\* StoreBatch stores what the batch has of the device's records; the others were
\* stored before, or the device would not have deleted them.
LEMMA StoresKept ==
  ASSUME IngestTypeOK, StreamInv, NEW c \in Conns, NEW t \in Topics, StoreBatch(c, t)
  PROVE  Inbox!Store
  <1>1. Publishing(c)
    BY DEF StoreBatch, Nothing, StreamInv, ConnInv
  <1>2. PICK a \in Nat, n \in 1 .. MaxPacket : a + n <= taken /\ Publishes(c, a, n)
    BY <1>1 DEF StreamInv, ConnInv
  <1>3. PICK x \in a .. a + n :
          /\ batches[c]["backfill"] \in {<< >>, Interval(a, x - a)}
          /\ batches[c]["live"] \in {<< >>, Interval(x, a + n - x)}
    BY <1>2 DEF Publishes
  <1>4. taken \in Nat /\ Deleted \in Nat /\ n \in Nat
    BY FlashIs, IngestAssumption
  <1>5. x \in Nat /\ x - a \in Nat /\ a + n - x \in Nat
    BY <1>4
  <1>6. /\ ToSet(Interval(a, x - a)) = a + 1 .. a + (x - a)
        /\ ToSet(Interval(x, a + n - x)) = x + 1 .. x + (a + n - x)
    BY <1>5, IntervalIs
  <1>7. ToSet(Interval(a, x - a)) \subseteq 1 .. taken /\ ToSet(Interval(x, a + n - x)) \subseteq 1 .. taken
    BY <1>2, <1>4, <1>5, <1>6
  <1>8. ToSet(batches[c][t]) \subseteq 1 .. taken
    <2>1. ToSet(<< >>) = {}
      BY DEF ToSet
    <2> QED
      BY <1>3, <1>7, <2>1 DEF Topics
  <1> DEFINE S == ToSet(batches[c][t]) \cap Kept
  <1>9. Kept = Deleted + 1 .. taken /\ 1 .. Deleted \subseteq Stored
    BY KeptIs DEF StreamInv, DeviceInv
  <1>10. ToSet(batches[c][t]) \subseteq Kept \cup Stored
    BY <1>4, <1>8, <1>9
  <1>11. Stored' = Stored \cup S
    BY <1>10, StoreAdds
  <1>12. UNCHANGED <<taken, Kept>>
    BY DEF StoreBatch, deviceVars, Kept
  <1> QED
    BY <1>11, <1>12 DEF Inbox!Store

\* A step of ingest is a step of the inbox, or none.
LEMMA InboxStep ==
  ASSUME IngestTypeOK, StreamInv, IngestTypeOK', StreamInv', Garbage = {}, [IngestNext]_ingestVars
  PROVE  [Inbox!Take \/ Inbox!Store \/ Inbox!Delete]_Inbox!inboxVars
  <1>1. ASSUME UNCHANGED <<taken, flash, log>> PROVE UNCHANGED Inbox!inboxVars
    BY <1>1 DEF Inbox!inboxVars, Kept, Stored
  <1>2. CASE UNCHANGED ingestVars
    BY <1>1, <1>2 DEF ingestVars, deviceVars
  <1>3. CASE TakeRecord
    <2>1. taken < MaxRecords /\ taken' = taken + 1 /\ flash' = Append(flash, taken + 1) /\ log' = log
      BY <1>3 DEF TakeRecord
    <2>2. Len(flash') = Len(flash) + 1
      BY <2>1, FlashIs, AppendProperties
    <2>3. Deleted' = Deleted
      BY <2>1, <2>2, FlashIs DEF Deleted
    <2>4. Kept' = Deleted' + 1 .. taken' /\ Kept = Deleted + 1 .. taken
      BY KeptIs, KeptThen
    <2>5. Kept' = Kept \cup {taken + 1}
      BY <2>1, <2>3, <2>4, FlashIs
    <2>6. Stored' = Stored
      BY <2>1 DEF Stored
    <2> QED
      BY <2>1, <2>5, <2>6 DEF Inbox!Take
  <1>4. CASE GetReply
    <2>1. /\ UNCHANGED <<taken, sent, log>>
          /\ flash' = IF waits = "ack" /\ Head(toDevice[link]) = sent
                        THEN SubSeq(flash, sent + 1, Len(flash)) ELSE flash
      BY <1>4 DEF GetReply
    <2>2. CASE flash' = flash
      BY <1>1, <2>1, <2>2
    <2>3. CASE waits = "ack" /\ Head(toDevice[link]) = sent
      <3>1. sent \in 1 .. Len(flash) /\ flash' = SubSeq(flash, sent + 1, Len(flash))
        BY <2>1, <2>3 DEF StreamInv, DeviceInv
      <3>2. Deleted' = Deleted + sent
        BY <2>1, <3>1, FirstDeleted
      <3>3. Deleted <= Deleted'
        BY <3>2, FlashIs
      <3> QED
        BY <2>1, <3>3, DeletesStored
    <2> QED
      BY <2>1, <2>2, <2>3
  <1>5. CASE Age \/ Connect \/ GetRejected \/ LoseLink \/ SeeClose
             \/ (\E n \in 1 .. MaxPacket : SendPacket(n)) \/ Shutdown \/ Exit
    <2>1. UNCHANGED <<taken, flash, log>>
      BY <1>5 DEF Age, Connect, GetRejected, LoseLink, SeeClose, HangUp, SendPacket, Shutdown, Exit, deviceVars
    <2> QED
      BY <1>1, <2>1
  <1>6. ASSUME NEW c \in Conns,
               \/ \E i \in 1 .. Len(toServer[c]), u \in Garbage : Damage(c, i, u)
               \/ \E n \in 1 .. Len(toServer[c]) : Receive(c, n)
               \/ Handle(c)
               \/ Published(c) \/ PublishFails(c)
               \/ IdleTimeout(c) \/ PeerGone(c)
        PROVE  UNCHANGED <<taken, flash, log>>
    <2>1. Handle(c) => UNCHANGED <<taken, flash, log>>
      BY DEF Handle, HandleImei, HandleBadCrc, HandlePacket, HandleError, deviceVars
    <2> QED
      BY <1>6, <2>1 DEF Damage, Receive, Published, PublishFails, IdleTimeout, PeerGone, deviceVars
  <1>7. CASE \E c \in Conns, t \in Topics : StoreBatch(c, t)
    BY <1>7, StoresKept
  <1> QED
    BY <1>1, <1>2, <1>3, <1>4, <1>5, <1>6, <1>7 DEF IngestNext

\* Ingest is the inbox: what it acknowledges it has stored; resends, late
\* publishes, lost connections and restarts store nothing else and lose nothing.
THEOREM IngestIsTheInbox ==
  ASSUME Garbage = {} PROVE IngestSpec => ImplementsInbox
  <1>1. IngestInit => Inbox!InboxInit
    BY DEF IngestInit, Inbox!InboxInit, Kept, Stored, ToSet
  <1>2. /\ IngestTypeOK /\ (Clean => StreamInv) /\ (IngestTypeOK /\ (Clean => StreamInv))'
        /\ [IngestNext]_ingestVars
        => [Inbox!Take \/ Inbox!Store \/ Inbox!Delete]_Inbox!inboxVars
    BY InboxStep DEF Clean
  <1> QED
    BY <1>1, <1>2, StreamAlways, PTL DEF IngestSpec, ImplementsInbox, Inbox!InboxSpec
=============================================================================
