---------------------------- MODULE StoreProofs ----------------------------
(***************************************************************************)
(* Proofs about what TelemetryIngest stores, as long as no unit was        *)
(* damaged: a record is stored again, and a topic goes back in the order   *)
(* the device sent its records in, only on account of a failure.           *)
(***************************************************************************)
EXTENDS IngestProofs

-----------------------------------------------------------------------------
(* How often a record is stored.                                           *)

\* Record r is on connection c, on its way or read but not yet published.
Carried(c, r) ==
  /\ sock[c] # "closed"
  /\ \E a \in Nat, n \in 1 .. MaxPacket : r \in a + 1 .. a + n /\ Carries(c, Interval(a, n))

\* The device sent r as part of the packet it waits for.
Awaited(r) == waits = "ack" /\ r \in Span

\* The device will send r, or send it again: its packet is lost once the socket
\* is not open any more.
DeviceOwes(r) == r > Deleted /\ ~ (link # NoConn /\ sock[link] = "open" /\ Awaited(r))

\* Connection c may store r: it has it, or the device, which has not seen the
\* end of a shutdown yet, can still send it there.
ConnOwes(c, r) ==
  \/ Carried(c, r) \/ r \in Batched(c)
  \/ c = link /\ sock[c] = "ended" /\ r > Deleted /\ ~ Awaited(r)

\* Who may add a copy of r to the log; NoConn stands for the device.
Owed(r) == {c \in Conns : ConnOwes(c, r)} \cup {c \in {NoConn} : DeviceOwes(r)}

\* Every failure adds one to the copies there can be.
Budget(r) == IsFiniteSet(Owed(r)) /\ Copies(r) + Cardinality(Owed(r)) <= 1 + faults

\* A server that shuts down has ended its sockets.
Down == ~ listening => \A c \in Conns : sock[c] # "open"

\* On an open socket what the device waits for is under way.
Answered ==
  link # NoConn /\ waits # "nothing" /\ sock[link] = "open" =>
    toDevice[link] # << >> \/ ~ Idle(link) \/ Publishing(link)

CopyInv == Down /\ Answered /\ \A r \in Records : Budget(r)


\* A connection has one packet in hand.
LEMMA OnePacket ==
  ASSUME NEW c, NEW s \in Seq(Nat), NEW u \in Seq(Nat), Carries(c, s), Carries(c, u)
  PROVE  s = u
  <1>1. CASE todo[c] = << >>
    <2>1. AvlFrame(s) = AvlFrame(u)
      BY <1>1 DEF Carries
    <2>2. /\ Len(AvlFrame(s)) = Len(s) + 6 /\ Len(AvlFrame(u)) = Len(u) + 6
          /\ SubSeq(AvlFrame(s), 5, Len(s) + 4) = s /\ SubSeq(AvlFrame(u), 5, Len(u) + 4) = u
      BY AvlFrameIs
    <2>3. Len(s) = Len(u)
      <3>1. Len(s) \in Nat /\ Len(u) \in Nat
        BY LenProperties
      <3>2. PICK m, n : m = Len(s) /\ n = Len(u)
        OBVIOUS
      <3>3. m + 6 = n + 6
        BY <2>1, <2>2, <3>2
      <3> QED
        BY <3>1, <3>2, <3>3
    <2> QED
      BY <2>1, <2>2, <2>3
  <1>2. CASE todo[c] # << >>
    BY <1>2 DEF Carries, Packet, Event
  <1> QED
    BY <1>1, <1>2

\* Nothing is on its way where no packet is.
LEMMA NotCarried ==
  \A c, r : sock[c] = "closed" \/ Idle(c) \/ Greets(c) \/ Publishing(c) => ~ Carried(c, r)
  <1> SUFFICES ASSUME NEW c, NEW s, Idle(c) \/ Greets(c) \/ Publishing(c) PROVE ~ Carries(c, s)
    BY DEF Carried
  <1>1. CASE Idle(c)
    BY <1>1 DEF Idle, Carries
  <1>2. CASE Greets(c)
    BY <1>2 DEF Greets, Carries, Streaming, ImeiRead, Packet, Event
  <1>3. CASE Publishing(c)
    BY <1>3 DEF Carries
  <1> QED
    BY <1>1, <1>2, <1>3

\* A connection in use is not idle.
LEMMA NotIdle ==
  /\ \A c : Greets(c) => ~ Idle(c)
  /\ \A c, s : Carries(c, s) => ~ Idle(c)
  BY DEF Greets, Carries, Idle

\* What is on its way are the records of the packet.
LEMMA CarriedIs ==
  \A c : \A a, n \in Nat :
    Carries(c, Interval(a, n)) => \A r : Carried(c, r) => r \in a + 1 .. a + n
  <1> SUFFICES ASSUME NEW c, NEW a \in Nat, NEW n \in Nat, Carries(c, Interval(a, n)),
                      NEW r, Carried(c, r)
               PROVE  r \in a + 1 .. a + n
    OBVIOUS
  <1>1. PICK b \in Nat, m \in 1 .. MaxPacket : r \in b + 1 .. b + m /\ Carries(c, Interval(b, m))
    BY DEF Carried
  <1>2. m \in Nat
    BY <1>1, IngestAssumption
  <1>3. Interval(a, n) \in Seq(Nat) /\ ToSet(Interval(a, n)) = a + 1 .. a + n
    BY IntervalIs
  <1>4. Interval(b, m) \in Seq(Nat) /\ ToSet(Interval(b, m)) = b + 1 .. b + m
    BY <1>2, IntervalIs
  <1>5. Interval(a, n) = Interval(b, m)
    BY <1>1, <1>3, <1>4, OnePacket
  <1> QED
    BY <1>1, <1>3, <1>4, <1>5

\* All of it of the state after a step.
LEMMA CarriedThen ==
  /\ \A c, r : sock'[c] = "closed" \/ Idle(c)' \/ Greets(c)' \/ Publishing(c)' => ~ Carried(c, r)'
  /\ \A c : \A a, n \in Nat :
       Carries(c, Interval(a, n))' => \A r : Carried(c, r)' => r \in a + 1 .. a + n
  /\ \A c : Greets(c)' => ~ Idle(c)'
  /\ \A c, s : Carries(c, s)' => ~ Idle(c)'
  <1>1. (\A c, r : sock[c] = "closed" \/ Idle(c) \/ Greets(c) \/ Publishing(c) => ~ Carried(c, r))'
    BY NotCarried, PTL
  <1>2. (\A c : \A a, n \in Nat :
           Carries(c, Interval(a, n)) => \A r : Carried(c, r) => r \in a + 1 .. a + n)'
    BY CarriedIs, PTL
  <1>3. ((\A c : Greets(c) => ~ Idle(c)) /\ (\A c, s : Carries(c, s) => ~ Idle(c)))'
    BY NotIdle, PTL
  <1> QED
    BY <1>1, <1>2, <1>3

\* What a step leaves alone of connection d and of the device leaves what they owe.
LEMMA CarriedSame ==
  ASSUME NEW d, SameConn(d)
  PROVE  \A r : Carried(d, r)' = Carried(d, r) /\ (r \in Batched(d))' = (r \in Batched(d))
  <1>1. /\ \A s : Carries(d, s)' = Carries(d, s)
        /\ Batched(d)' = Batched(d) /\ sock'[d] = sock[d]
    BY SameFacts DEF SameConn
  <1>2. \A a, n : Carries(d, Interval(a, n))' = Carries(d, Interval(a, n))
    BY <1>1 DEF Interval
  <1> QED
    BY <1>1, <1>2 DEF Carried

\* The same for what is owed in the buffers of a connection.
LEMMA OwesSame ==
  ASSUME NEW d, SameConn(d), UNCHANGED <<link, waits, Deleted, Span>>
  PROVE  \A r : ConnOwes(d, r)' = ConnOwes(d, r)
  <1>1. \A r : Awaited(r)' = Awaited(r)
    BY DEF Awaited
  <1>2. sock'[d] = sock[d]
    BY DEF SameConn
  <1> QED
    BY <1>1, <1>2, CarriedSame DEF ConnOwes

\* The same for what the device still has to send again.
LEMMA DeviceOwesSame ==
  ASSUME UNCHANGED <<link, waits, Deleted, Span>>, link # NoConn => sock'[link] = sock[link]
  PROVE  \A r : DeviceOwes(r)' = DeviceOwes(r)
  BY DEF DeviceOwes, Awaited

\* The places of the log where r is.
Places(r) == UNION {{t} \X {i \in DOMAIN log[t] : log[t][i] = r} : t \in Topics}

\* The copies of a record are places, and they are finitely many.
LEMMA PlacesFinite ==
  ASSUME IngestTypeOK, NEW r
  PROVE  IsFiniteSet(Places(r)) /\ Copies(r) = Cardinality(Places(r)) /\ Cardinality(Places(r)) \in Nat
  <1>1. ASSUME NEW t \in Topics PROVE IsFiniteSet({t} \X {i \in DOMAIN log[t] : log[t][i] = r})
    <2>1. DOMAIN log[t] = 1 .. Len(log[t]) /\ Len(log[t]) \in Nat
      BY LenProperties DEF IngestTypeOK
    <2>2. IsFiniteSet(1 .. Len(log[t]))
      BY <2>1, FS_Interval
    <2>3. IsFiniteSet({i \in DOMAIN log[t] : log[t][i] = r})
      BY <2>1, <2>2, FS_Subset
    <2> QED
      BY <2>3, FS_Singleton, FS_Product
  <1> DEFINE P(t) == {t} \X {i \in DOMAIN log[t] : log[t][i] = r}
  <1>2. Places(r) = P("live") \cup P("backfill")
    BY DEF Places, Topics
  <1>3. IsFiniteSet(P("live")) /\ IsFiniteSet(P("backfill"))
    BY <1>1 DEF Topics
  <1> HIDE DEF P
  <1>4. IsFiniteSet(Places(r))
    BY <1>2, <1>3, FS_Union
  <1> QED
    BY <1>4, FS_CardinalityType DEF Copies, Places

\* A step that stores nothing leaves the copies.
LEMMA CopiesSame ==
  ASSUME log' = log
  PROVE  \A r : Copies(r)' = Copies(r)
  BY DEF Copies

\* Who may add a copy after the step could before it.
Fewer(r) ==
  /\ \A c \in Conns : ConnOwes(c, r)' => ConnOwes(c, r)
  /\ DeviceOwes(r)' => DeviceOwes(r)

\* The same but for x.
OrOne(r, x) ==
  /\ \A c \in Conns : ConnOwes(c, r)' => ConnOwes(c, r) \/ c = x
  /\ DeviceOwes(r)' => DeviceOwes(r) \/ x = NoConn

\* A step that adds nobody stays within the budget.
LEMMA BudgetFewer ==
  ASSUME IngestTypeOK, NEW r, Budget(r), log' = log \/ Places(r)' = Places(r),
         faults' \in Nat, faults <= faults', Fewer(r)
  PROVE  Budget(r)'
  <1>1. Owed(r)' \subseteq Owed(r)
    BY DEF Fewer, Owed
  <1>2. IsFiniteSet(Owed(r)') /\ Cardinality(Owed(r)') <= Cardinality(Owed(r))
        /\ Cardinality(Owed(r)') \in Nat /\ Cardinality(Owed(r)) \in Nat
    BY <1>1, FS_Subset, FS_CardinalityType DEF Budget
  <1>3. Copies(r)' = Copies(r) /\ Copies(r) \in Nat /\ faults \in Nat
    <2>1. Copies(r)' = Copies(r)
      BY CopiesSame DEF Copies, Places
    <2> QED
      BY <2>1, PlacesFinite, FlashIs
  <1>4. Copies(r) + Cardinality(Owed(r)) <= 1 + faults
    BY DEF Budget
  <1>5. Copies(r)' + Cardinality(Owed(r)') <= 1 + faults'
    BY <1>2, <1>3, <1>4
  <1> QED
    BY <1>2, <1>5 DEF Budget

\* A failure pays for one that it adds.
LEMMA BudgetMore ==
  ASSUME IngestTypeOK, NEW r, Budget(r), log' = log, faults' = faults + 1, NEW x, OrOne(r, x)
  PROVE  Budget(r)'
  <1> DEFINE S == Owed(r) \cup {x}
  <1>1. Owed(r)' \subseteq S
    BY DEF OrOne, Owed
  <1>2. IsFiniteSet(S) /\ Cardinality(S) <= Cardinality(Owed(r)) + 1 /\ Cardinality(Owed(r)) \in Nat
    <2>1. IsFiniteSet(Owed(r))
      BY DEF Budget
    <2> QED
      BY <2>1, FS_AddElement, FS_CardinalityType
  <1> HIDE DEF S
  <1>3. IsFiniteSet(Owed(r)') /\ Cardinality(Owed(r)') <= Cardinality(S)
        /\ Cardinality(Owed(r)') \in Nat /\ Cardinality(S) \in Nat
    BY <1>1, <1>2, FS_Subset, FS_CardinalityType
  <1>4. Copies(r)' = Copies(r) /\ Copies(r) \in Nat /\ faults \in Nat
    BY CopiesSame, PlacesFinite, FlashIs
  <1>5. Copies(r) + Cardinality(Owed(r)) <= 1 + faults
    BY DEF Budget
  <1>6. Copies(r)' + Cardinality(Owed(r)') <= 1 + faults'
    BY <1>2, <1>3, <1>4, <1>5
  <1> QED
    BY <1>3, <1>6 DEF Budget

\* The packet carries what the device owed.
LEMMA BudgetSwap ==
  ASSUME IngestTypeOK, NEW r, Budget(r), log' = log, faults' = faults, NEW x,
         OrOne(r, x), DeviceOwes(r), ~ DeviceOwes(r)'
  PROVE  Budget(r)'
  <1> DEFINE S == Owed(r) \ {NoConn}
             T == S \cup {x}
  <1>1. Owed(r)' \subseteq T
    BY IngestAssumption DEF OrOne, Owed
  <1>2. NoConn \in Owed(r) /\ IsFiniteSet(Owed(r)) /\ Cardinality(Owed(r)) \in Nat
    BY FS_CardinalityType DEF Owed, Budget
  <1>3. IsFiniteSet(S) /\ Cardinality(S) = Cardinality(Owed(r)) - 1
    BY <1>2, FS_RemoveElement
  <1> HIDE DEF S
  <1>4. /\ IsFiniteSet(T) /\ Cardinality(T) <= Cardinality(S) + 1
        /\ Cardinality(T) \in Nat /\ Cardinality(S) \in Nat
    <2>1. IsFiniteSet(S) /\ Cardinality(S) \in Nat
      BY <1>3, FS_CardinalityType
    <2>2. IsFiniteSet(T) /\ (Cardinality(T) = Cardinality(S) \/ Cardinality(T) = Cardinality(S) + 1)
      BY <2>1, FS_AddElement
    <2> HIDE DEF T
    <2> QED
      BY <2>1, <2>2
  <1> HIDE DEF T
  <1>5. IsFiniteSet(Owed(r)') /\ Cardinality(Owed(r)') <= Cardinality(T) /\ Cardinality(Owed(r)') \in Nat
    BY <1>1, <1>4, FS_Subset, FS_CardinalityType
  <1>6. Copies(r)' = Copies(r) /\ Copies(r) \in Nat /\ faults \in Nat
    BY CopiesSame, PlacesFinite, FlashIs
  <1>7. Copies(r) + Cardinality(Owed(r)) <= 1 + faults
    BY DEF Budget
  <1>8. Copies(r)' + Cardinality(Owed(r)') <= 1 + faults'
    BY <1>2, <1>3, <1>4, <1>5, <1>6, <1>7
  <1> QED
    BY <1>5, <1>8 DEF Budget

\* A copy is stored by one who owed it.
LEMMA BudgetStore ==
  ASSUME IngestTypeOK, NEW r, Budget(r), faults' = faults, NEW c \in Conns, Fewer(r),
         ConnOwes(c, r), ~ ConnOwes(c, r)', NEW p, Places(r)' \subseteq Places(r) \cup {p}
  PROVE  Budget(r)'
  <1> DEFINE S == Owed(r) \ {c}
             T == Places(r) \cup {p}
  <1>1. Owed(r)' \subseteq S
    BY IngestAssumption DEF Fewer, Owed
  <1>2. c \in Owed(r) /\ IsFiniteSet(Owed(r)) /\ Cardinality(Owed(r)) \in Nat
    BY FS_CardinalityType DEF Owed, Budget
  <1>3. IsFiniteSet(S) /\ Cardinality(S) = Cardinality(Owed(r)) - 1 /\ Cardinality(S) \in Nat
    BY <1>2, FS_RemoveElement, FS_CardinalityType
  <1> HIDE DEF S
  <1>4. IsFiniteSet(Owed(r)') /\ Cardinality(Owed(r)') <= Cardinality(S) /\ Cardinality(Owed(r)') \in Nat
    BY <1>1, <1>3, FS_Subset, FS_CardinalityType
  <1>5. IsFiniteSet(Places(r)) /\ Copies(r) = Cardinality(Places(r)) /\ Copies(r) \in Nat /\ faults \in Nat
    BY PlacesFinite, FlashIs
  <1>6. IsFiniteSet(T) /\ Cardinality(T) <= Copies(r) + 1 /\ Cardinality(T) \in Nat
    BY <1>5, FS_AddElement, FS_CardinalityType
  <1> HIDE DEF T
  <1>7. IsFiniteSet(Places(r)') /\ Cardinality(Places(r)') <= Cardinality(T) /\ Cardinality(Places(r)') \in Nat
    BY <1>6, FS_Subset, FS_CardinalityType DEF T
  <1>8. Copies(r)' = Cardinality(Places(r)')
    BY DEF Copies, Places
  <1>9. Copies(r) + Cardinality(Owed(r)) <= 1 + faults
    BY DEF Budget
  <1>10. Copies(r)' + Cardinality(Owed(r)') <= 1 + faults'
    BY <1>2, <1>3, <1>4, <1>5, <1>6, <1>7, <1>8, <1>9
  <1> QED
    BY <1>4, <1>10 DEF Budget

\* What concerns neither a connection nor what the device waits for changes nothing.
LEMMA CopyStays ==
  ASSUME IngestTypeOK, CopyInv, \A d \in Conns : SameConn(d),
         UNCHANGED <<link, waits, Deleted, Span, toDevice, listening, log, faults>>
  PROVE  CopyInv'
  <1>1. link # NoConn => link \in Conns
    BY DEF IngestTypeOK
  <1>2. \A r : DeviceOwes(r)' = DeviceOwes(r)
    BY <1>1, DeviceOwesSame DEF SameConn
  <1>3. \A c \in Conns : \A r : ConnOwes(c, r)' = ConnOwes(c, r)
    BY OwesSame
  <1>4. \A r \in Records : Budget(r)'
    BY <1>2, <1>3, BudgetFewer, FlashIs DEF CopyInv, Fewer
  <1>5. Down'
    BY DEF CopyInv, Down, SameConn
  <1>6. Answered'
    BY <1>1, SameFacts DEF CopyInv, Answered, SameConn
  <1> QED
    BY <1>4, <1>5, <1>6 DEF CopyInv

\* The device takes a record, or time passes.
LEMMA CopyTake ==
  ASSUME IngestTypeOK, CopyInv, TakeRecord \/ Age
  PROVE  CopyInv'
  <1>1. UNCHANGED <<link, waits, sent, toServer, toDevice, serverVars, log, faults>>
    BY DEF TakeRecord, Age, deviceVars
  <1>2. \A d \in Conns : SameConn(d)
    BY <1>1 DEF serverVars, SameConn
  <1>3. Deleted' = Deleted
    <2>1. CASE TakeRecord
      <3>1. Len(flash') = Len(flash) + 1 /\ taken' = taken + 1
        BY <2>1, FlashIs, AppendProperties DEF TakeRecord
      <3> QED
        BY <3>1, FlashIs DEF Deleted
    <2>2. CASE Age
      BY <2>2 DEF Age, deviceVars, Deleted
    <2> QED
      BY <2>1, <2>2
  <1>4. Span' = Span
    BY <1>1, <1>3 DEF Span
  <1> QED
    BY <1>1, <1>2, <1>3, <1>4, CopyStays DEF serverVars

\* The device has left its connection: what was not acknowledged it sends again.
LEMMA CopyHangUp ==
  ASSUME IngestTypeOK, StreamInv, CopyInv, GetRejected \/ LoseLink \/ SeeClose
  PROVE  CopyInv'
  <1>1. HangUp /\ link \in Conns /\ link # NoConn
    BY DEF GetRejected, LoseLink, SeeClose, IngestTypeOK
  <1>2. /\ link' = NoConn
        /\ UNCHANGED <<taken, flash, sent, toServer, sock, framer, todo, batches, count, listening, log>>
    BY <1>1 DEF HangUp, serverVars
  <1>3. \A d \in Conns : SameConn(d)
    BY <1>2 DEF SameConn
  <1>4. Deleted' = Deleted
    BY <1>2 DEF Deleted
  <1>5. \A c \in Conns : \A r : ConnOwes(c, r)' => ConnOwes(c, r)
    BY <1>2, <1>3, CarriedSame, IngestAssumption DEF ConnOwes
  <1>6. \A r : DeviceOwes(r)' => DeviceOwes(r) \/ sock[link] = "open"
    BY <1>2, <1>4 DEF DeviceOwes
  <1>7. ~ GetRejected
    <2>1. link # NoConn => toDevice[link] = << >> \/ toDevice[link] = <<Accept>> \/ toDevice[link] = <<sent>>
      BY DEF StreamInv, LinkInv, IngestTypeOK
    <2>2. sent # Reject /\ Accept # Reject
      BY FlashIs DEF Accept, Reject
    <2> QED
      BY <2>1, <2>2 DEF GetRejected
  <1>8. \A r \in Records : Budget(r)'
    <2> SUFFICES ASSUME NEW r \in Records PROVE Budget(r)'
      OBVIOUS
    <2>1. CASE LoseLink
      <3>1. faults' = faults + 1 /\ OrOne(r, NoConn)
        BY <1>5, <2>1 DEF LoseLink, Fault, OrOne
      <3> QED
        BY <1>2, <3>1, BudgetMore DEF CopyInv
    <2>2. CASE SeeClose
      <3>1. faults' = faults /\ Fewer(r)
        BY <1>5, <1>6, <2>2 DEF SeeClose, Fewer
      <3> QED
        BY <1>2, <3>1, BudgetFewer, FlashIs DEF CopyInv
    <2> QED
      BY <1>7, <2>1, <2>2
  <1>9. Down' /\ Answered'
    BY <1>2 DEF CopyInv, Down, Answered
  <1> QED
    BY <1>8, <1>9 DEF CopyInv

\* The device deletes what was acknowledged, and nobody owes that any more.
LEMMA CopyReply ==
  ASSUME IngestTypeOK, StreamInv, CopyInv, GetReply
  PROVE  CopyInv'
  <1>1. PICK c \in Conns : c = link
    BY DEF GetReply, IngestTypeOK
  <1>2. /\ toDevice[c] # << >> /\ waits' = "nothing"
        /\ flash' = IF waits = "ack" /\ Head(toDevice[c]) = sent
                       THEN SubSeq(flash, sent + 1, Len(flash)) ELSE flash
        /\ UNCHANGED <<taken, link, sent, toServer, sock, framer, todo, batches, count, listening, log, faults>>
    BY <1>1 DEF GetReply, serverVars
  <1>3. \A d \in Conns : SameConn(d)
    BY <1>2 DEF SameConn
  <1>4. waits \in {"imei", "ack"} /\ (waits = "ack" => Head(toDevice[c]) = sent)
    <2>1. waits \in {"nothing", "imei", "ack"} /\ c # NoConn
      BY IngestAssumption DEF IngestTypeOK
    <2>2. waits = "nothing" => toDevice[c] = << >>
      BY <1>1, <2>1 DEF StreamInv, LinkInv
    <2>3. waits = "ack" => toDevice[c] = <<sent>>
      BY <1>1, <1>2, <2>1 DEF StreamInv, LinkInv
    <2> QED
      BY <1>2, <2>1, <2>2, <2>3
  <1>5. \A r \in Records : r > Deleted' <=> r > Deleted /\ ~ Awaited(r)
    <2>1. CASE waits = "ack"
      <3>1. sent \in 1 .. Len(flash) /\ flash' = SubSeq(flash, sent + 1, Len(flash))
        BY <1>2, <1>4, <2>1 DEF StreamInv, DeviceInv
      <3>2. Deleted' = Deleted + sent /\ Deleted \in Nat /\ sent \in Nat
        BY <1>2, <3>1, FirstDeleted, FlashIs
      <3>3. Span = Deleted + 1 .. Deleted + sent
        BY DEF Span
      <3>4. Records \subseteq Nat
        BY IngestAssumption DEF Records
      <3> QED
        BY <2>1, <3>2, <3>3, <3>4 DEF Awaited
    <2>2. CASE waits # "ack"
      BY <1>2, <2>2 DEF Deleted, Awaited
    <2> QED
      BY <2>1, <2>2
  <1>6. \A r \in Records : Fewer(r)
    <2>1. \A r : ~ Awaited(r)'
      BY <1>2 DEF Awaited
    <2> QED
      BY <1>2, <1>3, <1>5, <2>1, CarriedSame DEF Fewer, ConnOwes, DeviceOwes
  <1>7. \A r \in Records : Budget(r)'
    BY <1>2, <1>6, BudgetFewer, FlashIs DEF CopyInv
  <1>8. Down' /\ Answered'
    BY <1>2 DEF CopyInv, Down, Answered
  <1> QED
    BY <1>7, <1>8 DEF CopyInv

\* A new connection carries nothing yet.
LEMMA CopyConnect ==
  ASSUME IngestTypeOK, StreamInv, CopyInv, Connect, StreamInv'
  PROVE  CopyInv'
  <1>1. PICK c \in Conns :
          /\ Free(c) /\ link' = c /\ sock' = [sock EXCEPT ![c] = "open"]
          /\ toServer' = [toServer EXCEPT ![c] = HandshakeFrame]
          /\ framer' = [framer EXCEPT ![c] = NewFramer]
    <2>1. Free(CHOOSE x \in Conns : Free(x)) /\ (CHOOSE x \in Conns : Free(x)) \in Conns
      BY DEF Connect
    <2> QED
      BY <2>1 DEF Connect
  <1>2. /\ link = NoConn /\ listening /\ c # NoConn /\ waits' = "imei"
        /\ UNCHANGED <<taken, flash, todo, batches, count, listening, log, faults>>
    BY <1>1, IngestAssumption DEF Connect
  <1>3. \A d \in Conns \ {c} : SameConn(d)
    BY <1>1, <1>2 DEF SameConn, IngestTypeOK
  <1>4. Deleted' = Deleted
    BY <1>2 DEF Deleted
  <1>5. sock'[c] = "open" /\ ~ Publishing(c)' /\ batches'[c] = Nothing
    BY <1>1, <1>2 DEF Free, Publishing, IngestTypeOK, StreamInv, ConnInv
  <1>6. framer'[c] = NewFramer /\ toServer'[c] = HandshakeFrame
    BY <1>1 DEF IngestTypeOK
  <1>7. Greets(c)' \/ Idle(c)'
    BY <1>1, <1>2, <1>5 DEF StreamInv, LinkInv
  <1>8. \A r : ~ ConnOwes(c, r)'
    <2>1. Batched(c)' = {}
      BY <1>5 DEF Batched, Nothing, ToSet
    <2> QED
      BY <1>5, <1>7, <2>1, CarriedThen DEF ConnOwes
  <1>9. \A r : Fewer(r)
    <2>1. \A d \in Conns \ {c} : \A r : ConnOwes(d, r)' => ConnOwes(d, r)
      BY <1>1, <1>3, CarriedSame DEF ConnOwes
    <2>2. \A r : DeviceOwes(r)' => DeviceOwes(r)
      BY <1>2, <1>4 DEF DeviceOwes
    <2> QED
      BY <1>8, <2>1, <2>2 DEF Fewer
  <1>10. \A r \in Records : Budget(r)'
    BY <1>2, <1>9, BudgetFewer, FlashIs DEF CopyInv
  <1>11. ~ Idle(c)'
    BY <1>6 DEF Idle, Streaming, NewFramer
  <1> QED
    BY <1>1, <1>2, <1>10, <1>11 DEF CopyInv, Down, Answered

\* The device's own connection carries what the device waits for.
LEMMA LinkCarries ==
  IngestTypeOK /\ LinkInv /\ link # NoConn /\ waits = "ack"
    => \A r : Carried(link, r) => r \in Span
  <1> SUFFICES ASSUME IngestTypeOK, LinkInv, link # NoConn, waits = "ack", NEW r, Carried(link, r)
               PROVE  r \in Span
    OBVIOUS
  <1>1. Carries(link, Interval(Deleted, sent)) \/ Idle(link)
    BY DEF Carried, LinkInv
  <1>2. Carries(link, Interval(Deleted, sent))
    BY <1>1, NotCarried
  <1> QED
    BY <1>2, CarriedIs, FlashIs DEF Span

\* The packet takes what it carries over from the device.
LEMMA CopySend ==
  ASSUME IngestTypeOK, StreamInv, CopyInv, NEW n \in 1 .. MaxPacket, SendPacket(n),
         IngestTypeOK', StreamInv'
  PROVE  CopyInv'
  <1>1. PICK c \in Conns : c = link
    BY DEF SendPacket, IngestTypeOK
  <1>2. /\ waits = "nothing" /\ sent' = n /\ waits' = "ack" /\ c # NoConn /\ link' = c
        /\ toServer' = [toServer EXCEPT ![c] = @ \o AvlFrame(SubSeq(flash, 1, n))]
        /\ UNCHANGED <<taken, flash, link, toDevice, sock, framer, todo, batches, count, listening, log, faults>>
    BY <1>1, IngestAssumption DEF SendPacket, serverVars
  <1>3. \A d \in Conns \ {c} : SameConn(d)
    BY <1>1, <1>2 DEF SameConn, IngestTypeOK
  <1>4. Deleted' = Deleted /\ Span' = Deleted + 1 .. Deleted + n
    BY <1>2 DEF Deleted, Span
  <1>5. /\ ~ Publishing(c) /\ batches[c] = Nothing
        /\ sock[c] # "closed" => Idle(c)
    BY <1>1, <1>2 DEF StreamInv, LinkInv, ConnInv
  <1>6. \A r : Carried(c, r)' => r \in Span' /\ sock[c] # "closed"
    <2>1. (IngestTypeOK /\ LinkInv /\ link # NoConn /\ waits = "ack"
             => \A r : Carried(link, r) => r \in Span)'
      BY LinkCarries, PTL
    <2>2. \A r : Carried(link, r)' => r \in Span'
      BY <1>2, <2>1 DEF StreamInv
    <2> QED
      BY <1>2, <2>2 DEF Carried
  <1>7. \A r : r \notin Batched(c)'
    BY <1>2, <1>5 DEF Batched, Nothing, ToSet
  <1>8. \A d \in Conns \ {c} : \A r : ConnOwes(d, r)' => ConnOwes(d, r)
    BY <1>1, <1>2, <1>3, CarriedSame DEF ConnOwes
  <1>9. \A r : /\ Awaited(r)' <=> r \in Span'
               /\ ~ Awaited(r)
               /\ r \in Span' => r > Deleted
    BY <1>2, <1>4, FlashIs DEF Awaited
  <1>10. \A r \in Records : Budget(r)'
    <2> SUFFICES ASSUME NEW r \in Records PROVE Budget(r)'
      OBVIOUS
    <2>1. CASE sock[c] # "open"
      <3>1. DeviceOwes(r)' => DeviceOwes(r)
        BY <1>4, <1>9 DEF DeviceOwes
      <3>2. ConnOwes(c, r)' => ConnOwes(c, r)
        <4>1. ConnOwes(c, r)' => sock[c] = "ended" /\ r > Deleted
          <5>1. sock[c] \in {"closed", "open", "ended"}
            BY DEF IngestTypeOK
          <5> QED
            BY <1>2, <1>4, <1>6, <1>7, <1>9, <2>1, <5>1 DEF ConnOwes
        <4> QED
          BY <1>1, <1>9, <4>1 DEF ConnOwes
      <3> QED
        BY <1>2, <1>8, <3>1, <3>2, BudgetFewer, FlashIs DEF CopyInv, Fewer
    <2>2. CASE sock[c] = "open" /\ r \in Span'
      <3>1. DeviceOwes(r) /\ ~ DeviceOwes(r)'
        BY <1>1, <1>2, <1>9, <2>2 DEF DeviceOwes
      <3> QED
        BY <1>2, <1>8, <3>1, BudgetSwap DEF CopyInv, OrOne
    <2>3. CASE sock[c] = "open" /\ r \notin Span'
      <3>1. ~ ConnOwes(c, r)'
        BY <1>2, <1>6, <1>7, <2>3 DEF ConnOwes
      <3>2. DeviceOwes(r)' => DeviceOwes(r)
        BY <1>4, <1>9 DEF DeviceOwes
      <3> QED
        BY <1>2, <1>8, <3>1, <3>2, BudgetFewer, FlashIs DEF CopyInv, Fewer
    <2> QED
      BY <2>1, <2>2, <2>3
  <1>11. sock[c] = "open" => ~ Idle(c)'
    <2> SUFFICES ASSUME sock[c] = "open" PROVE toServer'[c] # << >>
      BY DEF Idle
    <2> DEFINE frame == AvlFrame(SubSeq(flash, 1, n))
    <2>1. frame \in Seq(Nat) /\ Len(frame) >= 6
      <3>1. SubSeq(flash, 1, n) \in Seq(Nat)
        BY <1>1, FlashIs, IngestAssumption, PartOfSeq DEF SendPacket
      <3>2. PICK s \in Seq(Nat) : s = SubSeq(flash, 1, n)
        BY <3>1
      <3>3. AvlFrame(s) \in Seq(Nat) /\ Len(AvlFrame(s)) = Len(s) + 6 /\ Len(s) \in Nat
        BY AvlFrameIs, LenProperties
      <3> QED
        BY <3>2, <3>3
    <2> HIDE DEF frame
    <2>2. toServer'[c] = << >> \o frame
      BY <1>2, <1>5 DEF IngestTypeOK, Idle, frame
    <2> QED
      BY <2>1, <2>2, ConcatEmptySeq, EmptySeq
  <1> QED
    BY <1>2, <1>10, <1>11 DEF CopyInv, Down, Answered

\* A step of the server on connection c that stores nothing and closes at most a
\* connection the device will not use again.
LEMMA CopyServer ==
  ASSUME IngestTypeOK, CopyInv, NEW c \in Conns, \A d \in Conns \ {c} : SameConn(d),
         UNCHANGED <<deviceVars, listening, log, faults>>,
         sock'[c] = sock[c] \/ ((sock[c] # "open" \/ c # link) /\ sock'[c] = "closed"),
         \A r : Carried(c, r)' => Carried(c, r),
         \A r : r \in Batched(c)' => Carried(c, r) \/ r \in Batched(c),
         link # c => toDevice'[link] = toDevice[link],
         link = c /\ sock'[c] = "open" => toDevice'[c] # << >> \/ ~ Idle(c)' \/ Publishing(c)'
  PROVE  CopyInv'
  <1>1. UNCHANGED <<link, waits, Deleted, Span>>
    BY DEF deviceVars, Deleted, Span
  <1>2. \A r : Awaited(r)' = Awaited(r)
    BY <1>1 DEF Awaited
  <1>3. \A d \in Conns \ {c} : \A r : ConnOwes(d, r)' = ConnOwes(d, r)
    BY <1>1, OwesSame
  <1>4. \A r : ConnOwes(c, r)' => ConnOwes(c, r)
    BY <1>1, <1>2 DEF ConnOwes
  <1>5. link # NoConn /\ link # c => link \in Conns /\ SameConn(link)
    BY DEF IngestTypeOK
  <1>6. \A r : DeviceOwes(r)' => DeviceOwes(r)
    <2>1. link # NoConn => (sock'[link] = "open" <=> sock[link] = "open")
      BY <1>5 DEF SameConn
    <2> QED
      BY <1>1, <1>2, <2>1 DEF DeviceOwes
  <1>7. \A r \in Records : Budget(r)'
    BY <1>3, <1>4, <1>6, BudgetFewer, FlashIs DEF CopyInv, Fewer
  <1>8. Down'
    BY DEF CopyInv, Down, SameConn
  <1>9. Answered'
    <2>1. CASE link = c
      BY <1>1, <2>1 DEF Answered, Idle, Publishing
    <2>2. CASE link # c
      <3>1. PICK d : d = link
        OBVIOUS
      <3>2. d # NoConn => /\ Idle(d)' = Idle(d) /\ Publishing(d)' = Publishing(d)
                          /\ sock'[d] = sock[d] /\ toDevice'[d] = toDevice[d]
        BY <1>5, <2>2, <3>1, SameFacts DEF SameConn
      <3>3. d # NoConn /\ waits # "nothing" /\ sock[d] = "open" => toDevice[d] # << >> \/ ~ Idle(d) \/ Publishing(d)
        BY <3>1 DEF CopyInv, Answered
      <3> QED
        BY <1>1, <3>1, <3>2, <3>3 DEF Answered, Idle, Publishing
    <2> QED
      BY <2>1, <2>2
  <1> QED
    BY <1>7, <1>8, <1>9 DEF CopyInv

\* A chunk arrives: the packet it belongs to stays the one in hand.
LEMMA ReceiveKeeps ==
  ASSUME IngestTypeOK, StreamInv, NEW c \in Conns, NEW n \in 1 .. Len(toServer[c]), Receive(c, n)
  PROVE  (\A r : Carried(c, r)' => Carried(c, r)) /\ ~ Idle(c)'
  <1>1. sock[c] # "closed"
    BY DEF Receive
  <1>2. /\ ~ Idle(c) /\ (Greets(c) => Greets(c)')
        /\ \A s \in Seq(Nat) : Len(s) + 6 <= MaxFrame /\ Carries(c, s) => Carries(c, s)'
    BY ReadStep
  <1>3. Greets(c) \/ \E a \in Nat, k \in 1 .. MaxPacket : a + k <= taken /\ Carries(c, Interval(a, k))
    BY <1>1, <1>2 DEF ConnInv, StreamInv
  <1> QED
    <2>1. CASE Greets(c)
      <3>1. Greets(c)'
        BY <1>2, <2>1
      <3> QED
        BY <3>1, CarriedThen
    <2>2. ASSUME NEW a \in Nat, NEW k \in 1 .. MaxPacket, Carries(c, Interval(a, k))
          PROVE  (\A r : Carried(c, r)' => Carried(c, r)) /\ ~ Idle(c)'
      <3>1. PICK s \in Seq(Nat) : s = Interval(a, k)
        BY PacketFits
      <3>2. Carries(c, s)'
        BY <1>2, <2>2, <3>1, PacketFits
      <3>3. Interval(a, k)' = s
        BY <3>1 DEF Interval
      <3>4. Carries(c, Interval(a, k))'
        BY <3>2, <3>3 DEF Carries, AvlFrame, Packet
      <3>5. k \in Nat
        BY IngestAssumption
      <3>6. \A r : Carried(c, r)' => r \in a + 1 .. a + k
        BY <3>4, <3>5, CarriedThen
      <3>7. \A r \in a + 1 .. a + k : Carried(c, r)
        BY <1>1, <2>2 DEF Carried
      <3>8. ~ Idle(c)'
        BY <3>2, CarriedThen
      <3> QED
        BY <3>6, <3>7, <3>8
    <2> QED
      BY <1>3, <2>1, <2>2

\* So it changes nothing of what may be stored.
LEMMA CopyReceive ==
  ASSUME IngestTypeOK, StreamInv, CopyInv, NEW c \in Conns, NEW n \in 1 .. Len(toServer[c]), Receive(c, n)
  PROVE  CopyInv'
  <1>1. UNCHANGED <<deviceVars, toDevice, sock, batches, count, listening, log, faults>>
    BY DEF Receive
  <1>2. \A d \in Conns \ {c} : SameConn(d)
    BY <1>1 DEF Receive, IngestTypeOK, SameConn
  <1>3. Batched(c)' = Batched(c)
    BY <1>1 DEF Batched
  <1> QED
    BY <1>1, <1>2, <1>3, ReceiveKeeps, CopyServer

\* The handshake is answered.
LEMMA CopyImei ==
  ASSUME IngestTypeOK, StreamInv, CopyInv, NEW c \in Conns, HandleImei(c)
  PROVE  CopyInv'
  <1>1. /\ NextEvent(c, "imei") /\ Write(c, Accept) /\ (sock[c] = "open" => todo' = [todo EXCEPT ![c] = Tail(@)])
        /\ UNCHANGED <<deviceVars, batches, count, listening, log, faults>>
    BY DEF HandleImei
  <1>2. /\ framer[c] = Streaming /\ toServer[c] = << >> /\ Tail(todo[c]) = << >>
        /\ c = link => toDevice[c] = << >>
    BY <1>1, EventInHand
  <1>3. \A d \in Conns \ {c} : SameConn(d)
    BY <1>1 DEF Write, Destroy, Unread, IngestTypeOK, SameConn
  <1>4. Batched(c)' = Batched(c)
    BY <1>1 DEF Batched
  <1>5. sock'[c] = sock[c] \/ (sock[c] # "open" /\ sock'[c] = "closed")
    BY <1>1 DEF Write, Destroy, IngestTypeOK
  <1>6. sock'[c] = "closed" \/ Idle(c)'
    BY <1>1, <1>2 DEF Write, Destroy, Idle, IngestTypeOK
  <1>7. \A r : ~ Carried(c, r)'
    BY <1>6, CarriedThen
  <1>8. link # c => toDevice'[link] = toDevice[link]
    BY <1>1 DEF Write
  <1>9. link = c /\ sock'[c] = "open" => toDevice'[c] # << >>
    <2> SUFFICES ASSUME link = c, sock'[c] = "open" PROVE toDevice'[c] # << >>
      OBVIOUS
    <2>1. sock[c] = "open" /\ toDevice' = [toDevice EXCEPT ![c] = Append(@, Accept)]
      BY <1>1, <1>5 DEF Write
    <2>2. toDevice'[c] = <<Accept>>
      BY <1>2, <2>1 DEF IngestTypeOK
    <2> QED
      BY <2>2
  <1> QED
    BY <1>1, <1>3, <1>4, <1>5, <1>7, <1>8, <1>9, CopyServer

\* The packet goes into the batches.
LEMMA CopyPacket ==
  ASSUME IngestTypeOK, StreamInv, CopyInv, NEW c \in Conns, HandlePacket(c)
  PROVE  CopyInv'
  <1>1. /\ NextEvent(c, "packet")
        /\ batches' = [batches EXCEPT ![c] = [t \in Topics |-> Batch(Head(todo[c]).records, t)]]
        /\ count' = [count EXCEPT ![c] = Len(Head(todo[c]).records)]
        /\ todo' = [todo EXCEPT ![c] = Tail(@)]
        /\ UNCHANGED <<deviceVars, toServer, toDevice, sock, framer, listening, log, faults>>
    BY DEF HandlePacket
  <1>2. sock[c] # "closed"
    BY <1>1, EventInHand
  <1>3. PICK a \in Nat, n \in 1 .. MaxPacket :
          a + n <= taken /\ Carries(c, Interval(a, n)) /\ todo[c] = <<Packet(Interval(a, n))>>
    BY <1>1, EventInHand
  <1>4. Head(todo[c]).records = Interval(a, n)
    BY <1>3 DEF Packet, Event
  <1>5. n \in Nat /\ Len(Interval(a, n)) = n /\ aged \in Nat /\ n # NotPublishing
    BY IntervalIs, IngestAssumption, FlashIs DEF NotPublishing
  <1>6. PICK x \in a .. a + n :
          /\ Batch(Interval(a, n), "backfill") = Interval(a, x - a)
          /\ Batch(Interval(a, n), "live") = Interval(x, a + n - x)
    BY <1>5, BatchesOfInterval
  <1>7. /\ batches'[c]["backfill"] = Interval(a, x - a)
        /\ batches'[c]["live"] = Interval(x, a + n - x)
    BY <1>1, <1>4, <1>6 DEF IngestTypeOK, Topics
  <1>8. Publishing(c)'
    BY <1>1, <1>4, <1>5 DEF IngestTypeOK, Publishing
  <1>9. \A d \in Conns \ {c} : SameConn(d)
    BY <1>1 DEF SameConn, IngestTypeOK
  <1>10. Batched(c)' \subseteq a + 1 .. a + n
    <2>1. x - a \in Nat /\ a + n - x \in Nat /\ x \in Nat
      BY <1>5
    <2>2. ToSet(Interval(a, x - a)) = a + 1 .. a + (x - a)
      BY <2>1, IntervalIs
    <2>3. ToSet(Interval(x, a + n - x)) = x + 1 .. x + (a + n - x)
      BY <2>1, IntervalIs
    <2>4. Batched(c)' = ToSet(batches'[c]["backfill"]) \cup ToSet(batches'[c]["live"])
      BY DEF Batched, Topics
    <2>5. Batched(c)' = (a + 1 .. a + (x - a)) \cup (x + 1 .. x + (a + n - x))
      BY <1>7, <2>2, <2>3, <2>4
    <2> QED
      BY <1>5, <2>1, <2>5
  <1>11. \A r \in a + 1 .. a + n : Carried(c, r)
    BY <1>2, <1>3 DEF Carried
  <1>12. \A r : ~ Carried(c, r)'
    BY <1>8, CarriedThen
  <1> QED
    BY <1>1, <1>8, <1>9, <1>10, <1>11, <1>12, CopyServer

\* The publish is over.
LEMMA CopyPublished ==
  ASSUME IngestTypeOK, StreamInv, CopyInv, NEW c \in Conns, Published(c)
  PROVE  CopyInv'
  <1>1. /\ Publishing(c) /\ count' = [count EXCEPT ![c] = NotPublishing]
        /\ Write(c, count[c]) /\ (sock[c] = "open" => UNCHANGED todo)
        /\ UNCHANGED <<deviceVars, batches, listening, log, faults>>
    BY DEF Published
  <1>2. \A d \in Conns \ {c} : SameConn(d)
    BY <1>1 DEF Write, Destroy, Unread, IngestTypeOK, SameConn
  <1>3. Batched(c)' = Batched(c)
    BY <1>1 DEF Batched
  <1>4. sock'[c] = sock[c] \/ (sock[c] # "open" /\ sock'[c] = "closed")
    BY <1>1 DEF Write, Destroy, IngestTypeOK
  <1>5. sock'[c] = "closed" \/ Idle(c)'
    <2>1. CASE sock[c] = "open"
      <3>1. Idle(c)
        BY <1>1, <2>1 DEF StreamInv, ConnInv, Greets, Carries
      <3> QED
        BY <1>1, <2>1, <3>1 DEF Write, Idle
    <2>2. CASE sock[c] # "open"
      BY <1>1, <2>2 DEF Write, Destroy, IngestTypeOK
    <2> QED
      BY <2>1, <2>2
  <1>6. \A r : ~ Carried(c, r)'
    BY <1>5, CarriedThen
  <1>7. link # c => toDevice'[link] = toDevice[link]
    BY <1>1 DEF Write
  <1>8. link = c /\ sock'[c] = "open" => toDevice'[c] # << >>
    <2> SUFFICES ASSUME link = c, sock'[c] = "open" PROVE toDevice'[c] # << >>
      OBVIOUS
    <2>1. toDevice' = [toDevice EXCEPT ![c] = Append(@, count[c])]
      BY <1>1, <1>4 DEF Write
    <2>2. toDevice'[c] = Append(toDevice[c], count[c]) /\ toDevice[c] \in Seq({Accept, Reject} \cup Nat)
      BY <2>1 DEF IngestTypeOK
    <2>3. count[c] \in {Accept, Reject} \cup Nat
      BY <1>1 DEF IngestTypeOK, Publishing
    <2>4. Len(toDevice'[c]) = Len(toDevice[c]) + 1 /\ Len(toDevice[c]) \in Nat
      BY <2>2, <2>3, AppendProperties, LenProperties
    <2>5. Len(<< >>) = 0
      OBVIOUS
    <2> QED
      BY <2>4, <2>5
  <1> QED
    BY <1>1, <1>2, <1>3, <1>4, <1>6, <1>7, <1>8, CopyServer

\* The topic's partition behind what StoreBatch appends to it.
LEMMA LogThen ==
  ASSUME IngestTypeOK, NEW c \in Conns, NEW t \in Topics, StoreBatch(c, t),
         NEW b \in Nat, NEW m \in Nat, batches[c][t] = Interval(b, m)
  PROVE  /\ \A v \in Topics \ {t} : log'[v] = log[v]
         /\ \E l \in Nat :
              /\ Len(log[t]) = l /\ DOMAIN log[t] = 1 .. l
              /\ Len(log'[t]) = l + m /\ DOMAIN log'[t] = 1 .. l + m
              /\ \A i \in 1 .. l + m : log'[t][i] = IF i <= l THEN log[t][i] ELSE b + (i - l)
  <1> DEFINE s == Interval(b, m)
             l == Len(log[t])
             u == log[t] \o s
  <1>1. s \in Seq(Nat) /\ Len(s) = m /\ \A i \in 1 .. m : s[i] = b + i
    BY IntervalIs
  <1>2. log[t] \in Seq(Nat) /\ l \in Nat /\ DOMAIN log[t] = 1 .. l
    BY LenProperties DEF IngestTypeOK
  <1>3. log'[t] = u /\ \A v \in Topics \ {t} : log'[v] = log[v]
    BY DEF StoreBatch, IngestTypeOK
  <1> HIDE DEF s
  <1>4. /\ u \in Seq(Nat) /\ Len(u) = l + m
        /\ \A i \in 1 .. Len(u) : u[i] = IF i <= l THEN log[t][i] ELSE s[i - l]
    <2>1. PICK f \in Seq(Nat), g \in Seq(Nat) : f = log[t] /\ g = s
      BY <1>1, <1>2
    <2>2. /\ f \o g \in Seq(Nat) /\ Len(f \o g) = Len(f) + Len(g)
          /\ \A i \in 1 .. Len(f \o g) : (f \o g)[i] = IF i <= Len(f) THEN f[i] ELSE g[i - Len(f)]
      BY ConcatProperties
    <2> QED
      BY <1>1, <2>1, <2>2
  <1> HIDE DEF u, l
  <1>5. \A i \in 1 .. l + m : ~ (i <= l) => i - l \in 1 .. m
    BY <1>2
  <1>6. \A i \in 1 .. l + m : u[i] = IF i <= l THEN log[t][i] ELSE b + (i - l)
    BY <1>1, <1>4, <1>5
  <1>7. DOMAIN u = 1 .. l + m
    BY <1>4, LenProperties
  <1> QED
    BY <1>2, <1>3, <1>4, <1>6, <1>7 DEF l

\* What StoreBatch adds to the places of a record: one, if it is in the batch.
LEMMA StorePlaces ==
  ASSUME IngestTypeOK, NEW c \in Conns, NEW t \in Topics, StoreBatch(c, t),
         NEW b \in Nat, NEW m \in Nat, batches[c][t] = Interval(b, m), NEW r \in Nat
  PROVE  /\ r \notin b + 1 .. b + m => Places(r)' = Places(r)
         /\ \E p : Places(r)' \subseteq Places(r) \cup {p}
  <1>1. \A v \in Topics \ {t} : log'[v] = log[v]
    BY LogThen
  <1>2. PICK l \in Nat :
          /\ DOMAIN log[t] = 1 .. l /\ DOMAIN log'[t] = 1 .. l + m
          /\ \A i \in 1 .. l + m : log'[t][i] = IF i <= l THEN log[t][i] ELSE b + (i - l)
    BY LogThen
  <1>3. \A i \in DOMAIN log'[t] :
          log'[t][i] = r <=> (i \in DOMAIN log[t] /\ log[t][i] = r) \/ (i > l /\ i = l + (r - b))
    <2>1. PICK u, w : u = log'[t] /\ w = log[t]
      OBVIOUS
    <2>2. \A i \in 1 .. l + m : u[i] = r <=> (i \in 1 .. l /\ w[i] = r) \/ (i > l /\ i = l + (r - b))
      BY <1>2, <2>1
    <2> QED
      BY <1>2, <2>1, <2>2
  <1> DEFINE In(f, v) == {v} \X {i \in DOMAIN f[v] : f[v][i] = r}
             p == <<t, l + (r - b)>>
  <1>4. /\ Places(r) = In(log, "live") \cup In(log, "backfill")
        /\ Places(r)' = In(log', "live") \cup In(log', "backfill")
    BY DEF Places, Topics
  <1>5. \A v \in Topics \ {t} : In(log', v) = In(log, v)
    BY <1>1
  <1>6. In(log', t) \subseteq In(log, t) \cup {p}
    BY <1>3
  <1>7. In(log, t) \subseteq In(log', t)
    <2>1. DOMAIN log[t] \subseteq DOMAIN log'[t]
      BY <1>2
    <2> QED
      BY <1>3, <2>1
  <1>8. r \notin b + 1 .. b + m => In(log', t) \subseteq In(log, t)
    <2>1. r \notin b + 1 .. b + m => \A i \in DOMAIN log'[t] : ~ (i > l /\ i = l + (r - b))
      BY <1>2
    <2> QED
      BY <1>3, <2>1
  <1> HIDE DEF In
  <1>9. r \notin b + 1 .. b + m => Places(r)' = Places(r)
    BY <1>4, <1>5, <1>7, <1>8 DEF Topics
  <1>10. Places(r)' \subseteq Places(r) \cup {p}
    BY <1>4, <1>5, <1>6 DEF Topics
  <1> QED
    BY <1>9, <1>10

\* What a publish has for a topic is a run of its packet that its other topic does not
\* have; on the device's connection the packet is the one it waits for.
LEMMA BatchInHand ==
  ASSUME IngestTypeOK, StreamInv, NEW c \in Conns, NEW t \in Topics, batches[c][t] # << >>
  PROVE  /\ Publishing(c) /\ (c = link => waits = "ack" /\ toDevice[c] = << >>)
         /\ \E a \in Nat, n \in 1 .. MaxPacket :
              /\ a + n <= taken /\ (c = link => a = Deleted /\ n = sent)
              /\ \E b \in Nat, m \in Nat \ {0} :
                   /\ batches[c][t] = Interval(b, m) /\ ToSet(batches[c][t]) = b + 1 .. b + m
                   /\ b + 1 .. b + m \subseteq a + 1 .. a + n
                   /\ \A u \in Topics \ {t} : ToSet(batches[c][u]) \cap (b + 1 .. b + m) = {}
  <1>1. Publishing(c)
    <2>1. batches[c] # Nothing
      BY DEF Nothing
    <2> QED
      BY <2>1 DEF StreamInv, ConnInv
  <1>2. ASSUME c = link
        PROVE  /\ waits = "ack" /\ toDevice[c] = << >> /\ Publishes(c, Deleted, sent)
               /\ Deleted \in Nat /\ sent \in 1 .. MaxPacket /\ Deleted + sent <= taken
    <2>1. link # NoConn /\ waits \in {"nothing", "imei", "ack"}
      BY <1>2, IngestAssumption DEF IngestTypeOK
    <2>2. waits = "ack" /\ Publishes(c, Deleted, sent) /\ toDevice[c] = << >>
      BY <1>1, <1>2, <2>1 DEF StreamInv, LinkInv
    <2>3. sent \in 1 .. Len(flash) /\ sent \in 0 .. MaxPacket
      BY <2>2 DEF StreamInv, DeviceInv, IngestTypeOK
    <2>4. sent \in 1 .. MaxPacket
      BY <2>3, FlashIs, IngestAssumption
    <2> QED
      BY <2>2, <2>3, <2>4, FlashIs
  <1>3. PICK a \in Nat, n \in 1 .. MaxPacket :
          a + n <= taken /\ Publishes(c, a, n) /\ (c = link => a = Deleted /\ n = sent)
    <2>1. CASE c # link
      BY <1>1, <2>1 DEF StreamInv, ConnInv
    <2>2. CASE c = link
      BY <1>2, <2>2
    <2> QED
      BY <2>1, <2>2
  <1>4. PICK x \in a .. a + n :
          /\ batches[c]["backfill"] \in {<< >>, Interval(a, x - a)}
          /\ batches[c]["live"] \in {<< >>, Interval(x, a + n - x)}
    BY <1>3 DEF Publishes
  <1>5. n \in Nat /\ x \in Nat /\ x - a \in Nat /\ a + n - x \in Nat
    BY IngestAssumption
  <1>6. /\ ToSet(Interval(a, x - a)) = a + 1 .. a + (x - a)
        /\ ToSet(Interval(x, a + n - x)) = x + 1 .. x + (a + n - x)
        /\ x - a = 0 => Interval(a, x - a) = << >>
        /\ a + n - x = 0 => Interval(x, a + n - x) = << >>
        /\ ToSet(<< >>) = {}
    <2>1. ToSet(<< >>) = {}
      BY DEF ToSet
    <2> QED
      BY <1>5, <2>1, IntervalIs
  <1> DEFINE B(u) == ToSet(batches[c][u])
  <1>7. a + (x - a) = x /\ x + (a + n - x) = a + n
    BY <1>5
  <1>8. B("backfill") \subseteq a + 1 .. x /\ B("live") \subseteq x + 1 .. a + n
    BY <1>4, <1>6, <1>7
  <1>9. \E b \in Nat, m \in Nat \ {0} :
          /\ batches[c][t] = Interval(b, m) /\ B(t) = b + 1 .. b + m
          /\ b + 1 .. b + m \subseteq a + 1 .. a + n
          /\ \A u \in Topics \ {t} : B(u) \cap (b + 1 .. b + m) = {}
    <2>1. CASE t = "backfill"
      <3>1. batches[c][t] = Interval(a, x - a) /\ B(t) = a + 1 .. a + (x - a) /\ x - a \in Nat \ {0}
        BY <1>4, <1>5, <1>6, <2>1
      <3>2. a + 1 .. a + (x - a) \subseteq a + 1 .. a + n
        BY <1>5, <1>7
      <3>3. \A u \in Topics \ {t} : B(u) \cap (a + 1 .. a + (x - a)) = {}
        BY <1>5, <1>7, <1>8, <2>1 DEF Topics
      <3> QED
        BY <3>1, <3>2, <3>3
    <2>2. CASE t = "live"
      <3>1. batches[c][t] = Interval(x, a + n - x) /\ B(t) = x + 1 .. x + (a + n - x) /\ a + n - x \in Nat \ {0}
        BY <1>4, <1>5, <1>6, <2>2
      <3>2. x + 1 .. x + (a + n - x) \subseteq a + 1 .. a + n
        BY <1>5, <1>7
      <3>3. \A u \in Topics \ {t} : B(u) \cap (x + 1 .. x + (a + n - x)) = {}
        BY <1>5, <1>7, <1>8, <2>2 DEF Topics
      <3> QED
        BY <1>5, <3>1, <3>2, <3>3
    <2> QED
      BY <2>1, <2>2 DEF Topics
  <1> QED
    BY <1>1, <1>2, <1>3, <1>9

\* A batch is stored, and its connection owes its records no more.
LEMMA CopyStore ==
  ASSUME IngestTypeOK, StreamInv, CopyInv, NEW c \in Conns, NEW t \in Topics, StoreBatch(c, t)
  PROVE  CopyInv'
  <1>1. /\ batches[c][t] # << >> /\ batches' = [batches EXCEPT ![c][t] = << >>]
        /\ UNCHANGED <<deviceVars, toServer, toDevice, sock, framer, todo, count, listening, faults>>
    BY DEF StoreBatch
  <1>2. UNCHANGED <<link, waits, Deleted, Span>>
    BY <1>1 DEF deviceVars, Deleted, Span
  <1>3. \A d \in Conns \ {c} : SameConn(d)
    BY <1>1 DEF SameConn, IngestTypeOK
  <1>4. batches'[c][t] = << >> /\ \A u \in Topics \ {t} : batches'[c][u] = batches[c][u]
    BY <1>1 DEF IngestTypeOK
  <1>5. Publishing(c) /\ Publishing(c)' /\ (c = link => waits = "ack")
    BY <1>1, BatchInHand DEF Publishing
  <1> DEFINE B(u) == ToSet(batches[c][u])
  <1>6. PICK a \in Nat, n \in 1 .. MaxPacket :
          /\ c = link => a = Deleted /\ n = sent
          /\ \E b \in Nat, m \in Nat \ {0} :
               /\ batches[c][t] = Interval(b, m) /\ B(t) = b + 1 .. b + m
               /\ b + 1 .. b + m \subseteq a + 1 .. a + n
               /\ \A u \in Topics \ {t} : B(u) \cap (b + 1 .. b + m) = {}
    BY <1>1, BatchInHand
  <1>7. ToSet(<< >>) = {}
    BY DEF ToSet
  <1>8. PICK b \in Nat, m \in Nat :
           /\ batches[c][t] = Interval(b, m) /\ B(t) = b + 1 .. b + m
           /\ B(t) \subseteq a + 1 .. a + n
           /\ \A u \in Topics \ {t} : B(u) \cap B(t) = {}
    BY <1>6
  <1>9. \A r : r \in Batched(c)' <=> \E u \in Topics \ {t} : r \in B(u)
    <2>1. ToSet(batches'[c][t]) = {} /\ \A u \in Topics \ {t} : ToSet(batches'[c][u]) = B(u)
      BY <1>4, <1>7
    <2> QED
      BY <2>1 DEF Batched
  <1>10. \A r : r \in Batched(c) <=> \E u \in Topics : r \in B(u)
    BY DEF Batched
  <1> HIDE DEF B
  <1>11. \A r : ~ Carried(c, r)'
    BY <1>5, CarriedThen
  <1>12. sock'[c] = sock[c] /\ \A r : Awaited(r)' = Awaited(r)
    BY <1>1, <1>2 DEF Awaited
  <1>13. \A r : ConnOwes(c, r)' => ConnOwes(c, r)
    BY <1>2, <1>9, <1>10, <1>11, <1>12 DEF ConnOwes
  <1>14. \A r \in B(t) : ConnOwes(c, r) /\ ~ ConnOwes(c, r)'
    <2> SUFFICES ASSUME NEW r \in B(t) PROVE ConnOwes(c, r) /\ ~ ConnOwes(c, r)'
      OBVIOUS
    <2>1. r \in Batched(c) /\ r \notin Batched(c)'
      BY <1>8, <1>9, <1>10
    <2>2. c = link => Awaited(r)
      BY <1>5, <1>6, <1>8 DEF Awaited, Span
    <2> QED
      BY <1>2, <1>11, <1>12, <2>1, <2>2 DEF ConnOwes
  <1>15. link # NoConn => sock'[link] = sock[link]
    BY <1>1
  <1>16. \A r : Fewer(r)
    BY <1>2, <1>3, <1>13, <1>15, OwesSame, DeviceOwesSame DEF Fewer
  <1>17. ASSUME NEW r \in Records PROVE Budget(r)'
    <2>1. r \in Nat /\ Budget(r) /\ faults \in Nat /\ faults' = faults
      BY <1>1, FlashIs, IngestAssumption DEF CopyInv, Records
    <2>2. CASE r \in B(t)
      <3>1. PICK p : Places(r)' \subseteq Places(r) \cup {p}
        BY <1>8, <2>1, StorePlaces
      <3> QED
        BY <1>14, <1>16, <2>1, <2>2, <3>1, BudgetStore
    <2>3. CASE r \notin B(t)
      <3>1. Places(r)' = Places(r)
        BY <1>8, <2>1, <2>3, StorePlaces
      <3> QED
        BY <1>16, <2>1, <3>1, BudgetFewer
    <2> QED
      BY <2>2, <2>3
  <1>18. Down'
    BY <1>1 DEF CopyInv, Down
  <1>19. Answered'
    <2>1. Idle(link)' = Idle(link) /\ Publishing(link)' = Publishing(link)
      BY <1>1, <1>2 DEF Idle, Publishing
    <2> QED
      BY <1>1, <1>2, <2>1 DEF CopyInv, Answered
  <1> QED
    BY <1>17, <1>18, <1>19 DEF CopyInv

\* Closing the device's own connection is a failure, or it was not open.
LEMMA CopyDrops ==
  ASSUME IngestTypeOK, StreamInv, CopyInv, NEW c \in Conns,
         PublishFails(c) \/ IdleTimeout(c) \/ PeerGone(c)
  PROVE  CopyInv'
  <1>1. Destroy(c) /\ UNCHANGED <<deviceVars, toDevice, listening, log>>
    BY DEF PublishFails, IdleTimeout, PeerGone
  <1>2. sock'[c] = "closed" /\ \A d \in Conns \ {c} : sock'[d] = sock[d]
    BY <1>1 DEF Destroy, IngestTypeOK
  <1>3. \A d \in Conns \ {c} : SameConn(d)
    BY <1>1 DEF Destroy, Unread, PublishFails, IdleTimeout, PeerGone, IngestTypeOK, SameConn
  <1>4. \A r : r \in Batched(c)' => r \in Batched(c)
    <2>1. batches'[c] = batches[c] \/ batches'[c] = Nothing
      BY DEF PublishFails, IdleTimeout, PeerGone, IngestTypeOK
    <2> QED
      BY <2>1 DEF Batched, Nothing, ToSet
  <1>5. \A r : ~ Carried(c, r)'
    BY <1>2, CarriedThen
  <1>6. CASE PeerGone(c)
    BY <1>1, <1>2, <1>3, <1>4, <1>5, <1>6, CopyServer DEF PeerGone
  <1>7. ASSUME faults' = faults + 1 PROVE CopyInv'
    <2>1. UNCHANGED <<link, waits, Deleted, Span>>
      BY <1>1 DEF deviceVars, Deleted, Span
    <2>2. \A d \in Conns : \A r : ConnOwes(d, r)' => ConnOwes(d, r)
      <3>1. \A d \in Conns \ {c} : \A r : ConnOwes(d, r)' = ConnOwes(d, r)
        BY <1>3, <2>1, OwesSame
      <3>2. \A r : ConnOwes(c, r)' => ConnOwes(c, r)
        BY <1>2, <1>4, <1>5 DEF ConnOwes
      <3> QED
        BY <3>1, <3>2
    <2>3. \A r \in Records : Budget(r)'
      BY <1>1, <1>7, <2>2, BudgetMore DEF CopyInv, OrOne
    <2>4. Down'
      BY <1>1, <1>2 DEF CopyInv, Down
    <2>5. Answered'
      <3>1. CASE link = c
        BY <1>2, <2>1, <3>1 DEF Answered
      <3>2. CASE link # c
        <4>1. PICK d : d = link
          OBVIOUS
        <4>2. d # NoConn => SameConn(d)
          BY <1>3, <3>2, <4>1 DEF IngestTypeOK
        <4>3. d # NoConn => Idle(d)' = Idle(d) /\ Publishing(d)' = Publishing(d) /\ sock'[d] = sock[d]
          BY <4>2, SameFacts DEF SameConn
        <4>4. d # NoConn /\ waits # "nothing" /\ sock[d] = "open" => toDevice[d] # << >> \/ ~ Idle(d) \/ Publishing(d)
          BY <4>1 DEF CopyInv, Answered
        <4> QED
          BY <1>1, <2>1, <4>1, <4>3, <4>4 DEF Answered, Idle, Publishing
      <3> QED
        BY <3>1, <3>2
    <2> QED
      BY <2>3, <2>4, <2>5 DEF CopyInv
  <1>8. CASE PublishFails(c)
    BY <1>7, <1>8 DEF PublishFails, Fault
  <1>9. CASE IdleTimeout(c)
    <2>1. ~ Silent(c)
      <3> SUFFICES ASSUME Silent(c) PROVE FALSE
        OBVIOUS
      <3>1. link = c /\ sock[c] = "open" /\ c # NoConn /\ ~ Idle(c)
        BY <1>9, IngestAssumption DEF IdleTimeout, Silent, CopyInv, Answered
      <3>2. Greets(c) \/ \E s : Carries(c, s)
        BY <3>1 DEF StreamInv, ConnInv
      <3> QED
        BY <3>2 DEF Silent, Greets, Carries
    <2> QED
      BY <1>7, <1>9, <2>1 DEF IdleTimeout, Fault
  <1> QED
    BY <1>6, <1>8, <1>9

\* The sockets are ended: the device sends again what it waits for, and its
\* connection can still carry the rest.
LEMMA CopyShutdown ==
  ASSUME IngestTypeOK, StreamInv, CopyInv, Shutdown
  PROVE  CopyInv'
  <1>1. /\ faults' = faults + 1 /\ listening' = FALSE
        /\ sock' = [c \in Conns |-> IF sock[c] = "open" THEN "ended" ELSE sock[c]]
        /\ UNCHANGED <<deviceVars, toServer, toDevice, framer, todo, batches, count, log>>
    BY DEF Shutdown, Fault
  <1>2. UNCHANGED <<link, waits, Deleted, Span>>
    BY <1>1 DEF deviceVars, Deleted, Span
  <1>3. \A r : Awaited(r)' = Awaited(r)
    BY <1>2 DEF Awaited
  <1>4. \A d \in Conns : sock'[d] # "open" /\ (sock'[d] = "closed" <=> sock[d] = "closed")
                         /\ (sock[d] # "open" => sock'[d] = sock[d])
    BY <1>1
  <1>5. \A d \in Conns : \A r : (Carried(d, r)' => Carried(d, r)) /\ (r \in Batched(d)' => r \in Batched(d))
    <2>1. \A d : /\ Publishing(d)' = Publishing(d) /\ Pipe(d)' = Pipe(d) /\ Batched(d)' = Batched(d)
      BY <1>1 DEF Publishing, Pipe, Batched
    <2>2. \A d, s : Carries(d, s)' = Carries(d, s)
      BY <1>1, <2>1 DEF Carries
    <2>3. \A d, a, n : Carries(d, Interval(a, n))' = Carries(d, Interval(a, n))
      BY <2>2 DEF Interval
    <2> QED
      BY <1>4, <2>1, <2>3 DEF Carried
  <1>6. link # NoConn => link \in Conns
    BY DEF IngestTypeOK
  <1>7. ASSUME NEW r \in Records PROVE Budget(r)'
    <2>1. CASE link # NoConn /\ sock[link] = "open" /\ Awaited(r)
      <3>1. OrOne(r, NoConn)
        BY <1>2, <1>3, <1>4, <1>5, <2>1 DEF OrOne, ConnOwes
      <3> QED
        BY <1>1, <3>1, BudgetMore DEF CopyInv
    <2>2. CASE ~ (link # NoConn /\ sock[link] = "open" /\ Awaited(r))
      <3>1. OrOne(r, link)
        BY <1>2, <1>3, <1>4, <1>5, <1>6, <2>2 DEF OrOne, ConnOwes, DeviceOwes
      <3> QED
        BY <1>1, <3>1, BudgetMore DEF CopyInv
    <2> QED
      BY <2>1, <2>2
  <1>8. Down' /\ Answered'
    BY <1>2, <1>4, <1>6 DEF Down, Answered
  <1> QED
    BY <1>7, <1>8 DEF CopyInv

\* Behind the process that ends nobody owes anything but the device.
LEMMA CopyExit ==
  ASSUME IngestTypeOK, StreamInv, CopyInv, Exit
  PROVE  CopyInv'
  <1>1. /\ IF listening THEN faults' = faults + 1 ELSE faults' = faults
        /\ listening' = TRUE
        /\ sock' = [c \in Conns |-> "closed"] /\ batches' = [c \in Conns |-> Nothing]
        /\ UNCHANGED <<deviceVars, toDevice, log>>
    BY DEF Exit, Fault
  <1>2. UNCHANGED <<link, waits, Deleted, Span>>
    BY <1>1 DEF deviceVars, Deleted, Span
  <1>3. \A c \in Conns : \A r : ~ ConnOwes(c, r)'
    <2>1. \A c \in Conns : sock'[c] = "closed" /\ Batched(c)' = {}
      BY <1>1 DEF Batched, Nothing, ToSet
    <2> QED
      BY <2>1, CarriedThen DEF ConnOwes
  <1>4. link # NoConn => link \in Conns
    BY DEF IngestTypeOK
  <1>5. ASSUME NEW r \in Records PROVE Budget(r)'
    <2>1. CASE listening
      <3>1. faults' = faults + 1 /\ OrOne(r, NoConn)
        BY <1>1, <1>3, <2>1 DEF OrOne
      <3> QED
        BY <1>1, <3>1, BudgetMore DEF CopyInv
    <2>2. CASE ~ listening
      <3>1. link # NoConn => sock[link] # "open"
        BY <1>4, <2>2 DEF CopyInv, Down
      <3>2. DeviceOwes(r)' => DeviceOwes(r)
        BY <1>2, <3>1 DEF DeviceOwes
      <3> QED
        BY <1>1, <1>3, <2>2, <3>2, BudgetFewer, FlashIs DEF CopyInv, Fewer
    <2> QED
      BY <2>1, <2>2
  <1>6. Down' /\ Answered'
    BY <1>1, <1>2, <1>4 DEF Down, Answered
  <1> QED
    BY <1>5, <1>6 DEF CopyInv

\* At first the device owes everything, once.
LEMMA CopyInit == IngestInit => CopyInv
  <1> SUFFICES ASSUME IngestInit PROVE CopyInv
    OBVIOUS
  <1>1. Down /\ Answered
    BY DEF IngestInit, Down, Answered
  <1>2. ASSUME NEW r \in Records PROVE Budget(r)
    <2>1. Owed(r) \subseteq {NoConn}
      <3>1. ASSUME NEW c \in Conns PROVE ~ ConnOwes(c, r)
        <4>1. sock[c] = "closed" /\ Batched(c) = {}
          BY DEF IngestInit, Batched, Nothing, ToSet
        <4> QED
          BY <4>1, NotCarried DEF ConnOwes
      <3> QED
        BY <3>1 DEF Owed
    <2>2. IsFiniteSet({NoConn}) /\ Cardinality({NoConn}) = 1
      BY FS_Singleton
    <2>3. IsFiniteSet(Owed(r)) /\ Cardinality(Owed(r)) <= 1 /\ Cardinality(Owed(r)) \in Nat
      BY <2>1, <2>2, FS_Subset, FS_CardinalityType
    <2>4. Copies(r) = 0
      <3>1. Places(r) = {}
        BY DEF IngestInit, Places
      <3> QED
        BY <3>1, FS_EmptySet DEF Copies, Places
    <2>5. faults = 0
      BY DEF IngestInit
    <2> QED
      BY <2>3, <2>4, <2>5 DEF Budget
  <1> QED
    BY <1>1, <1>2 DEF CopyInv

\* Every step stays within the budget.
LEMMA CopyNext ==
  ASSUME IngestTypeOK, StreamInv, IngestTypeOK', StreamInv', Clean', CopyInv, [IngestNext]_ingestVars
  PROVE  CopyInv'
  <1>1. CASE UNCHANGED ingestVars
    <2>1. /\ \A d \in Conns : SameConn(d)
          /\ UNCHANGED <<link, waits, Deleted, Span, toDevice, listening, log, faults>>
      BY <1>1 DEF ingestVars, deviceVars, serverVars, SameConn, Deleted, Span
    <2> QED
      BY <2>1, CopyStays
  <1>2. CASE TakeRecord \/ Age \/ Connect \/ GetReply \/ GetRejected \/ LoseLink \/ SeeClose
             \/ (\E n \in 1 .. MaxPacket : SendPacket(n)) \/ Shutdown \/ Exit
    BY <1>2, CopyTake, CopyConnect, CopyReply, CopyHangUp, CopySend, CopyShutdown, CopyExit
  <1>3. ASSUME NEW c \in Conns,
               \/ \E i \in 1 .. Len(toServer[c]), u \in Garbage : Damage(c, i, u)
               \/ \E n \in 1 .. Len(toServer[c]) : Receive(c, n)
               \/ Handle(c)
               \/ \E t \in Topics : StoreBatch(c, t)
               \/ Published(c) \/ PublishFails(c)
               \/ IdleTimeout(c) \/ PeerGone(c)
        PROVE  CopyInv'
    <2>1. ~ \E i \in 1 .. Len(toServer[c]), u \in Garbage : Damage(c, i, u)
      BY FlashIs DEF Damage, Fault, Clean
    <2>2. Handle(c) => CopyInv'
      BY CopyImei, CopyPacket, StreamRefuses DEF Handle
    <2> QED
      BY <1>3, <2>1, <2>2, CopyReceive, CopyStore, CopyPublished, CopyDrops
  <1> QED
    BY <1>1, <1>2, <1>3 DEF IngestNext

\* The budget holds as long as no unit can have been damaged.
LEMMA CopyAlways == IngestSpec => [](IngestTypeOK /\ (Clean => StreamInv /\ CopyInv))
  <1>1. IngestInit => (Clean => CopyInv)
    BY CopyInit
  <1>2. /\ IngestTypeOK /\ (Clean => StreamInv) /\ (IngestTypeOK /\ (Clean => StreamInv))'
        /\ (Clean => CopyInv) /\ [IngestNext]_ingestVars
        => (Clean => CopyInv)'
    <2> SUFFICES ASSUME IngestTypeOK, Clean => StreamInv, IngestTypeOK', (Clean => StreamInv)',
                        Clean => CopyInv, [IngestNext]_ingestVars, Clean'
                 PROVE  CopyInv'
      OBVIOUS
    <2>1. Clean
      BY FaultsGrow, FlashIs DEF Clean
    <2>2. StreamInv'
      OBVIOUS
    <2> QED
      BY <2>1, <2>2, CopyNext
  <1> QED
    BY <1>1, <1>2, StreamAlways, PTL DEF IngestSpec

\* A record is stored again only on account of a failure (server.ts acknowledges
\* behind the publish, and the device resends what was not acknowledged): without
\* one delivery is exactly once - provided that what arrives is what was sent.
THEOREM CopiesAreForFailures ==
  ASSUME Garbage = {} PROVE IngestSpec => []CopiesAreRetries
  <1>1. IngestTypeOK /\ (Clean => StreamInv /\ CopyInv) => CopiesAreRetries
    <2> SUFFICES ASSUME IngestTypeOK, CopyInv, NEW r \in Records PROVE Copies(r) <= 1 + faults
      BY DEF Clean, CopiesAreRetries
    <2>1. IsFiniteSet(Owed(r)) /\ Copies(r) + Cardinality(Owed(r)) <= 1 + faults
      BY DEF CopyInv, Budget
    <2>2. Cardinality(Owed(r)) \in Nat /\ Copies(r) \in Nat /\ faults \in Nat
      BY <2>1, FS_CardinalityType, PlacesFinite, FlashIs
    <2> QED
      BY <2>1, <2>2
  <1> QED
    BY <1>1, CopyAlways, PTL

-----------------------------------------------------------------------------
(* In which order the records are stored.                                  *)

\* The acknowledgement the device waits for can still reach it.
Steady ==
  /\ link # NoConn /\ waits = "ack"
  /\ sock[link] = "open" \/ (sock[link] = "ended" /\ toDevice[link] # << >>)

\* The topics a record can still go to.
Fits(r, t) == t = "backfill" \/ r > aged

\* Record r is still to come to topic t as part of the device's own sequence: from
\* the connection that answers the device, or from the device.
Comes(r, t) ==
  /\ r \in 1 .. taken
  /\ IF Steady
       THEN \/ r \in ToSet(batches[link][t])
            \/ Fits(r, t) /\ (Carried(link, r) \/ r > Deleted + sent)
       ELSE Fits(r, t) /\ r > Deleted

\* The next record to come can be older than the last one stored.
Back(t) == log[t] # << >> /\ \E r \in Nat : Comes(r, t) /\ r < log[t][Len(log[t])]

\* Connection c may store in topic t what the device will send again, or has.
IsLate(c, t) ==
  /\ ~ (c = link /\ sock[c] = "open")
  /\ \/ (\E r \in Nat : Carried(c, r)) \/ batches[c][t] # << >>
     \/ c = link /\ sock[c] = "ended" /\ (waits # "ack" \/ toDevice[c] # << >>)
Late(t) == {c \in Conns : IsLate(c, t)}

\* The places where topic t goes back in the device's order.
Descents(t) == {i \in DOMAIN log[t] : i > 1 /\ log[t][i - 1] > log[t][i]}

\* A connection that is late can take the topic back twice: when it stores, and
\* when the device's own sequence goes on behind it.
OrderBudget(t) ==
  /\ IsFiniteSet(Late(t))
  /\ Cardinality(Descents(t)) + 2 * Cardinality(Late(t)) + (IF Back(t) THEN 1 ELSE 0) <= 2 * faults

\* What the packet being published has for the live topic is what still fits it.
LiveLeft ==
  link # NoConn /\ waits = "ack" /\ Publishing(link) /\ batches[link]["live"] # << >> =>
    \A r \in Span : r > aged => r \in ToSet(batches[link]["live"])

\* Only records that were taken are stored.
StoredTaken == Stored \subseteq 1 .. taken

OrderInv == StoredTaken /\ LiveLeft /\ \A t \in Topics : OrderBudget(t)

\* How many elements a set has that lost or gained one.
LEMMA OneMoreOrLess ==
  ASSUME NEW S, IsFiniteSet(S), NEW T, NEW x
  PROVE  /\ Cardinality(S) \in Nat
         /\ T \subseteq S => IsFiniteSet(T) /\ Cardinality(T) \in Nat /\ Cardinality(T) <= Cardinality(S)
         /\ T \subseteq S \cup {x} =>
              IsFiniteSet(T) /\ Cardinality(T) \in Nat /\ Cardinality(T) <= Cardinality(S) + 1
         /\ x \in S /\ T \subseteq S \ {x} =>
              IsFiniteSet(T) /\ Cardinality(T) \in Nat /\ Cardinality(T) <= Cardinality(S) - 1
  <1>1. Cardinality(S) \in Nat
    BY FS_CardinalityType
  <1>2. ASSUME NEW U, IsFiniteSet(U), T \subseteq U
        PROVE  IsFiniteSet(T) /\ Cardinality(T) \in Nat /\ Cardinality(T) <= Cardinality(U)
    BY <1>2, FS_Subset, FS_CardinalityType
  <1>3. IsFiniteSet(S \cup {x}) /\ Cardinality(S \cup {x}) \in Nat /\ Cardinality(S \cup {x}) <= Cardinality(S) + 1
    <2>1. IsFiniteSet(S \cup {x})
          /\ (Cardinality(S \cup {x}) = Cardinality(S) \/ Cardinality(S \cup {x}) = Cardinality(S) + 1)
      BY FS_AddElement
    <2> QED
      BY <1>1, <2>1
  <1>4. x \in S => /\ IsFiniteSet(S \ {x}) /\ Cardinality(S \ {x}) = Cardinality(S) - 1
                   /\ Cardinality(S \ {x}) \in Nat
    BY FS_RemoveElement, FS_CardinalityType
  <1>5. T \subseteq S => IsFiniteSet(T) /\ Cardinality(T) \in Nat /\ Cardinality(T) <= Cardinality(S)
    BY <1>2
  <1>6. T \subseteq S \cup {x} =>
          IsFiniteSet(T) /\ Cardinality(T) \in Nat /\ Cardinality(T) <= Cardinality(S) + 1
    <2> SUFFICES ASSUME T \subseteq S \cup {x}
                 PROVE  IsFiniteSet(T) /\ Cardinality(T) \in Nat /\ Cardinality(T) <= Cardinality(S) + 1
      OBVIOUS
    <2>1. IsFiniteSet(T) /\ Cardinality(T) \in Nat /\ Cardinality(T) <= Cardinality(S \cup {x})
      BY <1>2, <1>3
    <2> QED
      BY <1>1, <1>3, <2>1
  <1>7. x \in S /\ T \subseteq S \ {x} =>
          IsFiniteSet(T) /\ Cardinality(T) \in Nat /\ Cardinality(T) <= Cardinality(S) - 1
    <2> SUFFICES ASSUME x \in S, T \subseteq S \ {x}
                 PROVE  IsFiniteSet(T) /\ Cardinality(T) \in Nat /\ Cardinality(T) <= Cardinality(S) - 1
      OBVIOUS
    <2>1. IsFiniteSet(T) /\ Cardinality(T) \in Nat /\ Cardinality(T) <= Cardinality(S \ {x})
      BY <1>2, <1>4
    <2> QED
      BY <1>1, <1>4, <2>1
  <1> QED
    BY <1>1, <1>5, <1>6, <1>7

\* The log is finite.
LEMMA DescentsFinite ==
  ASSUME IngestTypeOK, NEW t \in Topics
  PROVE  IsFiniteSet(Descents(t)) /\ Cardinality(Descents(t)) \in Nat
  <1>1. DOMAIN log[t] = 1 .. Len(log[t]) /\ Len(log[t]) \in Nat
    BY LenProperties DEF IngestTypeOK
  <1>2. IsFiniteSet(1 .. Len(log[t]))
    BY <1>1, FS_Interval
  <1>3. IsFiniteSet(Descents(t))
    BY <1>1, <1>2, FS_Subset DEF Descents
  <1> QED
    BY <1>3, FS_CardinalityType

\* Adding up what each part of the budget may grow by.
LEMMA Sums ==
  ASSUME NEW D \in Nat, NEW L \in Nat, NEW B \in Nat, NEW d \in Int, NEW l \in Int, NEW b \in Int,
         NEW E \in Nat, NEW M \in Nat, NEW C \in Nat, NEW f \in Nat, NEW g \in Nat,
         D + 2 * L + B <= 2 * f, E <= D + d, M <= L + l, C <= B + b, d + 2 * l + b <= 2 * (g - f)
  PROVE  E + 2 * M + C <= 2 * g
  <1>1. E + 2 * M + C <= (D + 2 * L + B) + (d + 2 * l + b)
    OBVIOUS
  <1>2. (D + 2 * L + B) + (d + 2 * l + b) <= 2 * f + 2 * (g - f)
    OBVIOUS
  <1> QED
    BY <1>1, <1>2

\* What the budget has when it is spent: l late connections more or less, d descents
\* more, and the device's own sequence b steps further back.
LEMMA Spent ==
  ASSUME IngestTypeOK, NEW t \in Topics, OrderBudget(t), faults' \in Nat, NEW l \in -1 .. 1, NEW d \in 0 .. 1,
         IsFiniteSet(Late(t)'), Cardinality(Late(t)') \in Nat, Cardinality(Late(t)') <= Cardinality(Late(t)) + l,
         Cardinality(Descents(t)') \in Nat, Cardinality(Descents(t)') <= Cardinality(Descents(t)) + d,
         NEW b \in -1 .. 1,
         (IF Back(t)' THEN 1 ELSE 0) <= (IF Back(t) THEN 1 ELSE 0) + b,
         d + 2 * l + b <= 2 * (faults' - faults)
  PROVE  OrderBudget(t)'
  <1> DEFINE B == IF Back(t) THEN 1 ELSE 0
             D == IF Back(t)' THEN 1 ELSE 0
  <1>1. Cardinality(Late(t)) \in Nat /\ Cardinality(Descents(t)) \in Nat /\ faults \in Nat
    <2>1. IsFiniteSet(Late(t))
      BY DEF OrderBudget
    <2> QED
      BY <2>1, DescentsFinite, FlashIs, FS_CardinalityType
  <1>2. Cardinality(Descents(t)) + 2 * Cardinality(Late(t)) + B <= 2 * faults
    BY DEF OrderBudget
  <1>3. B \in Nat /\ D \in Nat /\ D <= B + b
    OBVIOUS
  <1> HIDE DEF B, D
  <1>4. l \in Int /\ d \in Int /\ b \in Int
    OBVIOUS
  <1>5. Cardinality(Descents(t)') + 2 * Cardinality(Late(t)') + D <= 2 * faults'
    BY <1>1, <1>2, <1>3, <1>4, Sums
  <1> QED
    BY <1>5 DEF OrderBudget, D

\* Nobody is late after the step who was not before, but for x.
NoLater(t, x) == \A c \in Conns : IsLate(c, t)' => IsLate(c, t) \/ c = x
NobodyLater(t) == \A c \in Conns : IsLate(c, t)' => IsLate(c, t)

\* A step that stores nothing in t, makes nobody late and takes nothing back.
LEMMA OrderKeeps ==
  ASSUME IngestTypeOK, NEW t \in Topics, OrderBudget(t), log'[t] = log[t],
         faults' \in Nat, faults <= faults', NobodyLater(t), Back(t)' => Back(t)
  PROVE  OrderBudget(t)'
  <1>1. Late(t)' \subseteq Late(t)
    BY DEF Late, NobodyLater
  <1>2. IsFiniteSet(Late(t)') /\ Cardinality(Late(t)') \in Nat /\ Cardinality(Late(t)') <= Cardinality(Late(t)) + 0
    BY <1>1, OneMoreOrLess DEF OrderBudget
  <1>3. Descents(t)' = Descents(t)
    BY DEF Descents
  <1>4. Cardinality(Descents(t)') \in Nat /\ Cardinality(Descents(t)') <= Cardinality(Descents(t)) + 0
    BY <1>3, DescentsFinite
  <1>5. (IF Back(t)' THEN 1 ELSE 0) <= (IF Back(t) THEN 1 ELSE 0) + 0 /\ 0 + 2 * 0 + 0 <= 2 * (faults' - faults)
    BY FlashIs
  <1> QED
    BY <1>2, <1>4, <1>5, Spent

\* A failure pays for one connection that is late.
LEMMA OrderLate ==
  ASSUME IngestTypeOK, NEW t \in Topics, OrderBudget(t), log'[t] = log[t],
         faults' = faults + 1, NEW x, NoLater(t, x), Back(t)' => Back(t)
  PROVE  OrderBudget(t)'
  <1>1. Late(t)' \subseteq Late(t) \cup {x}
    BY DEF Late, NoLater
  <1>2. IsFiniteSet(Late(t)') /\ Cardinality(Late(t)') \in Nat /\ Cardinality(Late(t)') <= Cardinality(Late(t)) + 1
    BY <1>1, OneMoreOrLess DEF OrderBudget
  <1>3. Descents(t)' = Descents(t)
    BY DEF Descents
  <1>4. Cardinality(Descents(t)') \in Nat /\ Cardinality(Descents(t)') <= Cardinality(Descents(t)) + 0
    BY <1>3, DescentsFinite
  <1>5. /\ (IF Back(t)' THEN 1 ELSE 0) <= (IF Back(t) THEN 1 ELSE 0) + 0
        /\ 0 + 2 * 1 + 0 <= 2 * (faults' - faults) /\ faults' \in Nat
    BY FlashIs
  <1> QED
    BY <1>2, <1>4, <1>5, Spent

\* A failure pays for what the device sends again.
LEMMA OrderBack ==
  ASSUME IngestTypeOK, NEW t \in Topics, OrderBudget(t), log'[t] = log[t],
         faults' = faults + 1, NobodyLater(t)
  PROVE  OrderBudget(t)'
  <1>1. Late(t)' \subseteq Late(t)
    BY DEF Late, NobodyLater
  <1>2. IsFiniteSet(Late(t)') /\ Cardinality(Late(t)') \in Nat /\ Cardinality(Late(t)') <= Cardinality(Late(t)) + 0
    BY <1>1, OneMoreOrLess DEF OrderBudget
  <1>3. Descents(t)' = Descents(t)
    BY DEF Descents
  <1>4. Cardinality(Descents(t)') \in Nat /\ Cardinality(Descents(t)') <= Cardinality(Descents(t)) + 0
    BY <1>3, DescentsFinite
  <1>5. /\ (IF Back(t)' THEN 1 ELSE 0) <= (IF Back(t) THEN 1 ELSE 0) + 1
        /\ 0 + 2 * 0 + 1 <= 2 * (faults' - faults) /\ faults' \in Nat
    BY FlashIs
  <1> QED
    BY <1>2, <1>4, <1>5, Spent

\* A late connection that leaves pays for what it stores and for what comes behind it.
LEMMA OrderLeaves ==
  ASSUME IngestTypeOK, NEW t \in Topics, OrderBudget(t), faults' = faults,
         NEW x \in Conns, NobodyLater(t), IsLate(x, t), ~ IsLate(x, t)',
         NEW p, Descents(t)' \subseteq Descents(t) \cup {p}
  PROVE  OrderBudget(t)'
  <1>1. Late(t)' \subseteq Late(t) \ {x} /\ x \in Late(t)
    BY DEF Late, NobodyLater
  <1>2. IsFiniteSet(Late(t)') /\ Cardinality(Late(t)') \in Nat /\ Cardinality(Late(t)') <= Cardinality(Late(t)) + (-1)
    <2>1. /\ IsFiniteSet(Late(t)') /\ Cardinality(Late(t)') \in Nat /\ Cardinality(Late(t)) \in Nat
          /\ Cardinality(Late(t)') <= Cardinality(Late(t)) - 1
      BY <1>1, OneMoreOrLess DEF OrderBudget
    <2> QED
      BY <2>1
  <1>4. Cardinality(Descents(t)') \in Nat /\ Cardinality(Descents(t)') <= Cardinality(Descents(t)) + 1
    BY DescentsFinite, OneMoreOrLess
  <1>5. /\ (IF Back(t)' THEN 1 ELSE 0) <= (IF Back(t) THEN 1 ELSE 0) + 1
        /\ 1 + 2 * (-1) + 1 <= 2 * (faults' - faults) /\ faults' \in Nat
    BY FlashIs
  <1> QED
    BY <1>2, <1>4, <1>5, Spent

\* The device's own sequence goes on where it was to go on.
LEMMA OrderGoesOn ==
  ASSUME IngestTypeOK, NEW t \in Topics, OrderBudget(t), faults' = faults,
         NobodyLater(t), ~ Back(t)', NEW p, Descents(t)' \subseteq Descents(t) \cup {p},
         Back(t) \/ Descents(t)' \subseteq Descents(t)
  PROVE  OrderBudget(t)'
  <1>1. Late(t)' \subseteq Late(t)
    BY DEF Late, NobodyLater
  <1>2. IsFiniteSet(Late(t)') /\ Cardinality(Late(t)') \in Nat /\ Cardinality(Late(t)') <= Cardinality(Late(t)) + 0
    BY <1>1, OneMoreOrLess DEF OrderBudget
  <1>3. faults' \in Nat /\ faults' - faults = 0
    BY FlashIs
  <1>4. CASE Back(t)
    <2>1. Cardinality(Descents(t)') \in Nat /\ Cardinality(Descents(t)') <= Cardinality(Descents(t)) + 1
      BY DescentsFinite, OneMoreOrLess
    <2>2. /\ (IF Back(t)' THEN 1 ELSE 0) <= (IF Back(t) THEN 1 ELSE 0) + (-1)
          /\ 1 + 2 * 0 + (-1) <= 2 * (faults' - faults)
      BY <1>3, <1>4
    <2> QED
      BY <1>2, <1>3, <2>1, <2>2, Spent
  <1>5. CASE Descents(t)' \subseteq Descents(t)
    <2>1. Cardinality(Descents(t)') \in Nat /\ Cardinality(Descents(t)') <= Cardinality(Descents(t)) + 0
      BY <1>5, DescentsFinite, OneMoreOrLess
    <2>2. /\ (IF Back(t)' THEN 1 ELSE 0) <= (IF Back(t) THEN 1 ELSE 0) + 0
          /\ 0 + 2 * 0 + 0 <= 2 * (faults' - faults)
      BY <1>3
    <2> QED
      BY <1>2, <1>3, <2>1, <2>2, Spent
  <1> QED
    BY <1>4, <1>5

\* The last record of a topic was taken.
LEMMA LastTaken ==
  ASSUME IngestTypeOK, StoredTaken, NEW t \in Topics, log[t] # << >>
  PROVE  log[t][Len(log[t])] \in 1 .. taken
  <1>1. log[t] \in Seq(Nat) /\ DOMAIN log[t] = 1 .. Len(log[t]) /\ Len(log[t]) \in Nat
    BY LenProperties DEF IngestTypeOK
  <1>2. Len(log[t]) \in DOMAIN log[t]
    <2>1. Len(log[t]) # 0
      BY <1>1, EmptySeq
    <2> QED
      BY <1>1, <2>1
  <1>3. log[t][Len(log[t])] \in ToSet(log[t])
    BY <1>2 DEF ToSet
  <1> QED
    BY <1>3 DEF StoredTaken, Stored

\* A step that leaves a topic alone and adds nothing older to come takes nothing back.
LEMMA BackSame ==
  ASSUME IngestTypeOK, StoredTaken, NEW t \in Topics, log'[t] = log[t],
         taken' \in Nat, \A r \in 1 .. taken : Comes(r, t)' => Comes(r, t)
  PROVE  Back(t)' => Back(t)
  <1> SUFFICES ASSUME log[t] # << >>, NEW r \in Nat, Comes(r, t)', r < log[t][Len(log[t])]
               PROVE  Comes(r, t)
    BY DEF Back
  <1>1. r \in 1 .. taken'
    BY DEF Comes
  <1>2. log[t][Len(log[t])] \in 1 .. taken /\ taken \in Nat
    BY LastTaken, FlashIs
  <1>3. r \in 1 .. taken
    BY <1>1, <1>2
  <1> QED
    BY <1>3

\* A step that stores nothing stores nothing that was not taken.
LEMMA StoredSame ==
  ASSUME IngestTypeOK, StoredTaken, log' = log, taken' \in Nat, taken <= taken'
  PROVE  StoredTaken'
  <1>1. Stored' = Stored
    BY DEF Stored
  <1>2. 1 .. taken \subseteq 1 .. taken'
    BY FlashIs
  <1> QED
    BY <1>1, <1>2 DEF StoredTaken

\* What a step leaves alone of connection d leaves it as late as it was.
LEMMA LateSame ==
  ASSUME NEW d, SameConn(d), UNCHANGED <<link, waits>>, d = link => toDevice'[d] = toDevice[d]
  PROVE  \A t : IsLate(d, t)' = IsLate(d, t)
  <1>1. \A r : Carried(d, r)' = Carried(d, r)
    BY CarriedSame
  <1>2. sock'[d] = sock[d] /\ batches'[d] = batches[d]
    BY DEF SameConn
  <1> QED
    BY <1>1, <1>2 DEF IsLate

\* The device's connection by its name, before and after a step.
LEMMA Named == \A d, r : d = link => Carried(link, r) = Carried(d, r)
  OBVIOUS

\* The same of the state after the step.
LEMMA NamedThen == \A d, r : d = link' => Carried(link, r)' = Carried(d, r)'
  <1>1. (\A d, r : d = link => Carried(link, r) = Carried(d, r))'
    BY Named, PTL
  <1> QED
    BY <1>1

\* What a step leaves alone of the device's connection leaves what is to come from it.
LEMMA ComesSame ==
  ASSUME IngestTypeOK, UNCHANGED <<link, waits, sent, Deleted>>, aged' \in Nat, aged <= aged',
         link # NoConn => SameConn(link) /\ toDevice'[link] = toDevice[link]
  PROVE  \A t : \A r \in 1 .. taken : Comes(r, t)' => Comes(r, t)
  <1>1. PICK d : d = link
    OBVIOUS
  <1>2. aged \in Nat
    BY FlashIs
  <1>3. \A t : \A r \in 1 .. taken : Fits(r, t)' => Fits(r, t)
    BY <1>2 DEF Fits
  <1>4. Steady' = Steady
    BY DEF Steady, SameConn
  <1>5. Steady => \A r : /\ Carried(d, r)' = Carried(d, r)
                         /\ batches'[d] = batches[d]
    BY <1>1, CarriedSame DEF Steady, SameConn
  <1> SUFFICES ASSUME NEW t, NEW r \in 1 .. taken, Comes(r, t)' PROVE Comes(r, t)
    OBVIOUS
  <1>6. Fits(r, t)' => Fits(r, t)
    BY <1>3
  <1>7. CASE Steady
    <2>1. Carried(link, r)' => Carried(link, r)
      BY <1>1, <1>5, <1>7, NamedThen
    <2>2. batches'[link'][t] = batches[link][t]
      BY <1>1, <1>5, <1>7
    <2>3. /\ r \in 1 .. taken'
          /\ \/ r \in ToSet(batches'[link'][t])
             \/ Fits(r, t)' /\ (Carried(link, r)' \/ r > Deleted' + sent')
      BY <1>4, <1>7 DEF Comes
    <2>4. r \in ToSet(batches[link][t]) \/ (Fits(r, t) /\ (Carried(link, r) \/ r > Deleted + sent))
      BY <1>6, <2>1, <2>2, <2>3
    <2> QED
      BY <1>7, <2>4 DEF Comes
  <1>8. CASE ~ Steady
    BY <1>4, <1>6, <1>8 DEF Comes
  <1> QED
    BY <1>7, <1>8

\* What is left of the packet for the live topic stays until it is stored.
LEMMA LiveSame ==
  ASSUME IngestTypeOK, LiveLeft, UNCHANGED <<link, waits, Span>>, aged' \in Nat, aged <= aged',
         link # NoConn /\ Publishing(link)' => Publishing(link) /\ batches'[link] = batches[link]
  PROVE  LiveLeft'
  <1>1. PICK d, S : d = link /\ S = Span
    OBVIOUS
  <1>2. d # NoConn /\ waits = "ack" /\ Publishing(d)' /\ batches'[d]["live"] # << >> =>
          \A r \in S : r > aged => r \in ToSet(batches'[d]["live"])
    BY <1>1 DEF LiveLeft, Publishing
  <1>3. S \subseteq Nat /\ aged \in Nat
    BY <1>1, FlashIs DEF Span
  <1>4. \A r \in S : r > aged' => r > aged
    BY <1>3
  <1> QED
    BY <1>1, <1>2, <1>4 DEF LiveLeft, Publishing

\* What concerns neither a connection nor what the device waits for keeps the order.
LEMMA OrderStays ==
  ASSUME IngestTypeOK, OrderInv, \A d \in Conns : SameConn(d),
         UNCHANGED <<link, waits, sent, Deleted, Span, toDevice, log, faults>>,
         taken' \in Nat, taken <= taken', aged' \in Nat, aged <= aged'
  PROVE  OrderInv'
  <1>1. link # NoConn => link \in Conns
    BY DEF IngestTypeOK
  <1>2. StoredTaken'
    BY StoredSame DEF OrderInv
  <1>3. LiveLeft'
    BY <1>1, LiveSame DEF OrderInv, SameConn, Publishing
  <1>4. ASSUME NEW t \in Topics PROVE OrderBudget(t)'
    <2>1. \A r \in 1 .. taken : Comes(r, t)' => Comes(r, t)
      BY <1>1, ComesSame
    <2>2. NobodyLater(t)
      BY LateSame DEF NobodyLater
    <2>3. Back(t)' => Back(t)
      BY <2>1, BackSame DEF OrderInv
    <2> QED
      BY <2>2, <2>3, OrderKeeps, FlashIs DEF OrderInv
  <1> QED
    BY <1>2, <1>3, <1>4 DEF OrderInv

\* The device takes a record, or time passes.
LEMMA OrderTake ==
  ASSUME IngestTypeOK, OrderInv, TakeRecord \/ Age
  PROVE  OrderInv'
  <1>1. UNCHANGED <<link, waits, sent, toServer, toDevice, serverVars, log, faults>>
    BY DEF TakeRecord, Age, deviceVars
  <1>2. \A d \in Conns : SameConn(d)
    BY <1>1 DEF serverVars, SameConn
  <1>3. Deleted' = Deleted
    <2>1. CASE TakeRecord
      <3>1. Len(flash') = Len(flash) + 1 /\ taken' = taken + 1
        BY <2>1, FlashIs, AppendProperties DEF TakeRecord
      <3> QED
        BY <3>1, FlashIs DEF Deleted
    <2>2. CASE Age
      BY <2>2 DEF Age, deviceVars, Deleted
    <2> QED
      BY <2>1, <2>2
  <1>4. Span' = Span
    BY <1>1, <1>3 DEF Span
  <1>5. taken' \in Nat /\ taken <= taken' /\ aged' \in Nat /\ aged <= aged'
    BY FlashIs DEF TakeRecord, Age, deviceVars
  <1> QED
    BY <1>1, <1>2, <1>3, <1>4, <1>5, OrderStays

\* A step of the server on connection c that stores nothing, loses nothing the device
\* waits for and publishes what the connection has.
LEMMA OrderServer ==
  ASSUME IngestTypeOK, OrderInv, LiveLeft', NEW c \in Conns, \A d \in Conns \ {c} : SameConn(d),
         UNCHANGED <<deviceVars, log, aged, faults>>,
         sock'[c] = sock[c] \/ (sock'[c] = "closed" /\ (c # link \/ (sock[c] # "open" /\ ~ Steady))),
         \A r : Carried(c, r)' => Carried(c, r),
         \A t \in Topics : batches'[c][t] # << >> => batches[c][t] # << >> \/ \E r \in Nat : Carried(c, r),
         \A t \in Topics : \A r \in ToSet(batches'[c][t]) :
           r \in ToSet(batches[c][t]) \/ (Carried(c, r) /\ Fits(r, t)),
         link # c \/ sock[c] # "open" => toDevice'[link] = toDevice[link]
  PROVE  OrderInv'
  <1>1. UNCHANGED <<taken, link, waits, sent, Deleted>>
    BY DEF deviceVars, Deleted
  <1>2. link # NoConn /\ link # c => link \in Conns /\ SameConn(link)
    BY DEF IngestTypeOK
  <1>3. taken' \in Nat /\ taken <= taken' /\ faults' \in Nat /\ faults <= faults'
    BY <1>1, FlashIs
  <1>4. StoredTaken'
    BY <1>3, StoredSame DEF OrderInv
  <1>5. Steady' = Steady
    <2>1. CASE link = c
      BY <1>1, <2>1 DEF Steady
    <2>2. CASE link # c
      BY <1>1, <1>2, <2>2 DEF Steady, SameConn
    <2> QED
      BY <2>1, <2>2
  <1>6. ASSUME NEW t \in Topics PROVE OrderBudget(t)'
    <2>1. \A r : Fits(r, t)' = Fits(r, t)
      BY DEF Fits
    <2>2. ASSUME NEW r \in 1 .. taken, Comes(r, t)' PROVE Comes(r, t)
      <3>1. CASE Steady /\ link = c
        <4>1. /\ r \in ToSet(batches'[c][t]) \/ (Fits(r, t) /\ (Carried(link, r)' \/ r > Deleted + sent))
          BY <1>1, <1>5, <2>1, <2>2, <3>1 DEF Comes
        <4>2. Carried(link, r)' => Carried(c, r)
          BY <1>1, <3>1, NamedThen
        <4>3. r \in ToSet(batches[c][t]) \/ (Fits(r, t) /\ (Carried(c, r) \/ r > Deleted + sent))
          BY <4>1, <4>2
        <4>4. Carried(c, r) => Carried(link, r)
          BY <3>1
        <4> QED
          BY <3>1, <4>3, <4>4 DEF Comes
      <3>2. CASE Steady /\ link # c
        <4>1. SameConn(link) /\ toDevice'[link] = toDevice[link]
          BY <1>2, <3>2 DEF Steady
        <4>2. aged' \in Nat /\ aged <= aged'
          BY FlashIs
        <4> QED
          BY <1>1, <2>2, <4>1, <4>2, ComesSame
      <3>3. CASE ~ Steady
        BY <1>1, <1>5, <2>1, <2>2, <3>3 DEF Comes
      <3> QED
        BY <3>1, <3>2, <3>3
    <2>3. Back(t)' => Back(t)
      BY <1>3, <2>2, BackSame DEF OrderInv
    <2>4. \A d \in Conns \ {c} : IsLate(d, t)' => IsLate(d, t)
      <3> SUFFICES ASSUME NEW d \in Conns \ {c} PROVE IsLate(d, t)' => IsLate(d, t)
        OBVIOUS
      <3>1. d = link => toDevice'[d] = toDevice[d]
        OBVIOUS
      <3> QED
        BY <1>1, <3>1, LateSame
    <2>5. IsLate(c, t)' => IsLate(c, t)
      <3> SUFFICES ASSUME IsLate(c, t)' PROVE IsLate(c, t)
        OBVIOUS
      <3>1. ~ (c = link /\ sock'[c] = "open")
        BY <1>1 DEF IsLate
      <3>2. \/ \E r \in Nat : Carried(c, r)'
            \/ batches'[c][t] # << >>
            \/ c = link /\ sock'[c] = "ended" /\ (waits # "ack" \/ toDevice'[c] # << >>)
        BY <1>1 DEF IsLate
      <3>3. ~ (c = link /\ sock[c] = "open")
        BY <3>1
      <3> QED
        BY <3>2, <3>3 DEF IsLate
    <2>6. NobodyLater(t)
      BY <2>4, <2>5 DEF NobodyLater
    <2> QED
      BY <1>3, <2>3, <2>6, OrderKeeps DEF OrderInv
  <1> QED
    BY <1>4, <1>6 DEF OrderInv

\* The device's connection is lost with something for topic t: what the device sends
\* again does not go further back than what was to come from it.
LEMMA LeaveBack ==
  ASSUME IngestTypeOK, StreamInv, OrderInv, NEW x \in Conns, x = link, sock[x] = "open", NEW t \in Topics,
         (\E q : Carried(x, q)) \/ batches[x][t] # << >>,
         ~ Steady', UNCHANGED <<taken, Deleted, aged>>, log'[t] = log[t]
  PROVE  Back(t)' => Back(t)
  <1> SUFFICES ASSUME log[t] # << >>, NEW r \in Nat, Comes(r, t)', r < log[t][Len(log[t])]
               PROVE  \E q \in Nat : Comes(q, t) /\ q < log[t][Len(log[t])]
    BY DEF Back
  <1>1. r \in 1 .. taken /\ Fits(r, t) /\ r > Deleted
    BY DEF Comes, Fits
  <1>2. log[t][Len(log[t])] \in 1 .. taken /\ taken \in Nat
    BY LastTaken, FlashIs DEF OrderInv
  <1>3. x # NoConn /\ Deleted \in Nat /\ sent \in Nat
    BY IngestAssumption, FlashIs
  <1>4. CASE waits # "ack"
    BY <1>1, <1>4 DEF Comes, Steady
  <1>5. CASE waits = "ack"
    <2>1. Steady
      BY <1>3, <1>5 DEF Steady
    <2>2. CASE r > Deleted + sent
      BY <1>1, <2>1, <2>2 DEF Comes
    <2>3. CASE ~ (r > Deleted + sent)
      <3>1. r \in Span /\ sent \in 1 .. MaxPacket
        <4>1. sent \in 1 .. Len(flash) /\ sent \in 0 .. MaxPacket
          BY <1>5 DEF StreamInv, DeviceInv, IngestTypeOK
        <4> QED
          BY <1>1, <1>3, <2>3, <4>1, IngestAssumption, FlashIs DEF Span
      <3>2. ASSUME NEW q, Carried(x, q) PROVE Carried(x, r)
        <4>1. ~ Idle(x)
          BY <3>2, NotCarried
        <4>2. Carries(x, Interval(Deleted, sent))
          BY <1>3, <1>5, <4>1 DEF StreamInv, LinkInv
        <4>3. r \in Deleted + 1 .. Deleted + sent
          BY <3>1 DEF Span
        <4> QED
          BY <1>3, <3>1, <4>2, <4>3 DEF Carried
      <3>3. ASSUME batches[x][t] # << >>, t = "live" PROVE r \in ToSet(batches[x][t])
        <4>1. Publishing(x)
          <5>1. batches[x] # Nothing
            BY <3>3 DEF Nothing
          <5> QED
            BY <5>1 DEF StreamInv, ConnInv
        <4>2. r > aged
          BY <1>1, <3>3 DEF Fits
        <4> QED
          BY <1>3, <1>5, <3>1, <3>3, <4>1, <4>2 DEF OrderInv, LiveLeft
      <3>4. ASSUME batches[x][t] # << >>, t = "backfill"
            PROVE  Deleted + 1 \in ToSet(batches[x][t]) /\ Deleted + 1 <= r
        <4>1. Publishing(x)
          <5>1. batches[x] # Nothing
            BY <3>4 DEF Nothing
          <5> QED
            BY <5>1 DEF StreamInv, ConnInv
        <4>2. Publishes(x, Deleted, sent)
          BY <1>3, <1>5, <4>1 DEF StreamInv, LinkInv
        <4>3. PICK y \in Deleted .. Deleted + sent : batches[x][t] = Interval(Deleted, y - Deleted)
          BY <3>4, <4>2 DEF Publishes
        <4>4. PICK k \in Nat : k = y - Deleted
          BY <1>3
        <4>5. /\ ToSet(Interval(Deleted, k)) = Deleted + 1 .. Deleted + k
              /\ k = 0 => Interval(Deleted, k) = << >>
          BY <1>3, <4>4, IntervalIs
        <4>6. k # 0 /\ ToSet(batches[x][t]) = Deleted + 1 .. Deleted + k
          BY <3>4, <4>3, <4>4, <4>5
        <4> QED
          BY <1>1, <1>3, <4>6
      <3>5. CASE \E q : Carried(x, q)
        BY <1>1, <2>1, <3>2, <3>5 DEF Comes
      <3>6. CASE batches[x][t] # << >> /\ t = "live"
        BY <1>1, <2>1, <3>3, <3>6 DEF Comes
      <3>7. CASE batches[x][t] # << >> /\ t = "backfill"
        <4>1. Comes(Deleted + 1, t)
          BY <1>1, <1>2, <1>3, <2>1, <3>4, <3>7 DEF Comes
        <4> QED
          BY <1>1, <1>2, <1>3, <3>4, <3>7, <4>1
      <3> QED
        BY <3>5, <3>6, <3>7 DEF Topics
    <2> QED
      BY <2>2, <2>3
  <1> QED
    BY <1>4, <1>5

\* The device's connection fails: it is late with what it has, or the device goes back
\* for what it does not have.
LEMMA OrderFails ==
  ASSUME IngestTypeOK, StreamInv, OrderInv, faults' = faults + 1, LiveLeft',
         UNCHANGED <<taken, Deleted, log, aged>>, NEW x \in Conns, x = link, sock[x] = "open", ~ Steady',
         \A d \in Conns \ {x} : \A t : IsLate(d, t)' => IsLate(d, t),
         \A t \in Topics : IsLate(x, t)' => (\E r : Carried(x, r)) \/ batches[x][t] # << >>
  PROVE  OrderInv'
  <1>1. taken' \in Nat /\ taken <= taken'
    BY FlashIs
  <1>2. StoredTaken'
    BY <1>1, StoredSame DEF OrderInv
  <1>3. ASSUME NEW t \in Topics PROVE OrderBudget(t)'
    <2>1. CASE IsLate(x, t)'
      <3>1. Back(t)' => Back(t)
        BY <2>1, LeaveBack
      <3>2. NoLater(t, x)
        BY DEF NoLater
      <3> QED
        BY <3>1, <3>2, OrderLate DEF OrderInv
    <2>2. CASE ~ IsLate(x, t)'
      <3>1. NobodyLater(t)
        BY <2>2 DEF NobodyLater
      <3> QED
        BY <3>1, OrderBack DEF OrderInv
    <2> QED
      BY <2>1, <2>2
  <1> QED
    BY <1>2, <1>3 DEF OrderInv

\* The device has left its connection: nothing is to come from it any more.
LEMMA OrderHangUp ==
  ASSUME IngestTypeOK, StreamInv, CopyInv, OrderInv, GetRejected \/ LoseLink \/ SeeClose
  PROVE  OrderInv'
  <1>1. PICK c \in Conns : c = link
    BY DEF GetRejected, LoseLink, SeeClose, IngestTypeOK
  <1>2. /\ link' = NoConn /\ c # NoConn
        /\ UNCHANGED <<taken, flash, sent, toServer, sock, framer, todo, batches, count, listening, log, aged>>
    BY <1>1, IngestAssumption DEF GetRejected, LoseLink, SeeClose, HangUp, serverVars
  <1>3. \A d \in Conns : SameConn(d)
    BY <1>2 DEF SameConn
  <1>4. Deleted' = Deleted /\ ~ Steady' /\ LiveLeft'
    BY <1>2 DEF Deleted, Steady, LiveLeft
  <1>5. \A d \in Conns : \A t : IsLate(d, t)' => (\E r \in Nat : Carried(d, r)) \/ batches[d][t] # << >>
    BY <1>2, <1>3, CarriedSame, IngestAssumption DEF IsLate
  <1>6. \A d \in Conns : d # c \/ sock[c] # "open" => \A t : IsLate(d, t)' => IsLate(d, t)
    BY <1>1, <1>5 DEF IsLate
  <1>7. ~ GetRejected
    <2>1. link # NoConn => toDevice[link] = << >> \/ toDevice[link] = <<Accept>> \/ toDevice[link] = <<sent>>
      BY DEF StreamInv, LinkInv, IngestTypeOK
    <2>2. sent # Reject /\ Accept # Reject
      BY FlashIs DEF Accept, Reject
    <2> QED
      BY <2>1, <2>2 DEF GetRejected
  <1>8. CASE LoseLink
    BY <1>1, <1>2, <1>4, <1>5, <1>6, <1>8, OrderFails DEF LoseLink, Fault
  <1>9. CASE SeeClose
    <2>1. sock[c] # "open" /\ faults' = faults /\ taken' \in Nat /\ taken <= taken' /\ faults' \in Nat
          /\ faults <= faults'
      BY <1>1, <1>2, <1>9, FlashIs DEF SeeClose
    <2>2. StoredTaken'
      BY <1>2, <2>1, StoredSame DEF OrderInv
    <2>3. ASSUME NEW t \in Topics PROVE OrderBudget(t)'
      <3>1. NobodyLater(t)
        BY <1>6, <2>1 DEF NobodyLater
      <3>2. CASE ~ Steady
        <4>1. \A r \in 1 .. taken : Comes(r, t)' => Comes(r, t)
          BY <1>2, <1>4, <3>2 DEF Comes, Fits
        <4>2. Back(t)' => Back(t)
          BY <1>2, <2>1, <4>1, BackSame DEF OrderInv
        <4> QED
          BY <1>2, <2>1, <3>1, <4>2, OrderKeeps DEF OrderInv
      <3>3. CASE Steady
        <4>1. /\ waits = "ack" /\ sock[c] = "ended" /\ toDevice[c] # << >>
              /\ Idle(c) /\ ~ Publishing(c)
          BY <1>1, <1>2, <2>1, <3>3 DEF Steady, StreamInv, LinkInv
        <4>2. batches[c][t] = << >>
          BY <4>1 DEF StreamInv, ConnInv, Nothing
        <4>3. \A r : ~ Carried(c, r)
          BY <4>1, NotCarried
        <4>4. IsLate(c, t) /\ ~ IsLate(c, t)'
          BY <1>1, <1>5, <4>1, <4>2, <4>3 DEF IsLate
        <4>5. Descents(t)' \subseteq Descents(t) \cup {0}
          BY <1>2 DEF Descents
        <4> QED
          BY <2>1, <3>1, <4>4, <4>5, OrderLeaves DEF OrderInv
      <3> QED
        BY <3>2, <3>3
    <2> QED
      BY <1>4, <2>2, <2>3 DEF OrderInv
  <1> QED
    BY <1>7, <1>8, <1>9

\* The device deletes what was acknowledged and goes on behind it.
LEMMA OrderReply ==
  ASSUME IngestTypeOK, StreamInv, OrderInv, GetReply
  PROVE  OrderInv'
  <1>1. PICK c \in Conns : c = link
    BY DEF GetReply, IngestTypeOK
  <1>2. /\ toDevice[c] # << >> /\ waits' = "nothing" /\ c # NoConn
        /\ flash' = IF waits = "ack" /\ Head(toDevice[c]) = sent
                       THEN SubSeq(flash, sent + 1, Len(flash)) ELSE flash
        /\ toDevice' = [toDevice EXCEPT ![c] = Tail(@)]
        /\ UNCHANGED <<taken, link, sent, toServer, sock, framer, todo, batches, count, listening, log, faults, aged>>
    BY <1>1, IngestAssumption DEF GetReply, serverVars
  <1>3. \A d \in Conns : SameConn(d)
    BY <1>2 DEF SameConn
  <1>4. ~ Steady' /\ LiveLeft'
    BY <1>2 DEF Steady, LiveLeft
  <1>5. Deleted' = IF waits = "ack" THEN Deleted + sent ELSE Deleted
    <2>1. CASE waits = "ack"
      <3>1. toDevice[c] = <<sent>>
        BY <1>1, <1>2, <2>1 DEF StreamInv, LinkInv
      <3>2. sent \in 1 .. Len(flash) /\ flash' = SubSeq(flash, sent + 1, Len(flash))
        BY <1>2, <2>1, <3>1 DEF StreamInv, DeviceInv
      <3> QED
        BY <1>2, <2>1, <3>2, FirstDeleted
    <2>2. CASE waits # "ack"
      BY <1>2, <2>2 DEF Deleted
    <2> QED
      BY <2>1, <2>2
  <1>6. taken' \in Nat /\ taken <= taken' /\ faults' \in Nat /\ faults <= faults'
    BY <1>2, FlashIs
  <1>7. StoredTaken'
    BY <1>2, <1>6, StoredSame DEF OrderInv
  <1>8. ASSUME NEW t \in Topics PROVE OrderBudget(t)'
    <2>1. ASSUME NEW r \in 1 .. taken, Comes(r, t)' PROVE Comes(r, t)
      <3>1. Fits(r, t) /\ r > Deleted'
        BY <1>2, <1>4, <2>1 DEF Comes, Fits
      <3>2. Deleted \in Nat /\ sent \in Nat
        BY FlashIs
      <3>3. r > Deleted /\ (waits = "ack" => r > Deleted + sent)
        BY <1>5, <3>1, <3>2
      <3> QED
        BY <3>1, <3>3 DEF Comes, Steady
    <2>2. Back(t)' => Back(t)
      BY <1>2, <1>6, <2>1, BackSame DEF OrderInv
    <2>3. NobodyLater(t)
      <3> SUFFICES ASSUME NEW d \in Conns, IsLate(d, t)' PROVE IsLate(d, t)
        BY DEF NobodyLater
      <3>1. ~ (d = link /\ sock[d] = "open")
        BY <1>2 DEF IsLate
      <3>2. (\E r \in Nat : Carried(d, r)) \/ batches[d][t] # << >> \/ (d = link /\ sock[d] = "ended")
        BY <1>2, <1>3, CarriedSame DEF IsLate
      <3> QED
        BY <1>1, <1>2, <3>1, <3>2 DEF IsLate
    <2> QED
      BY <1>2, <1>6, <2>2, <2>3, OrderKeeps DEF OrderInv
  <1> QED
    BY <1>4, <1>7, <1>8 DEF OrderInv

\* A new connection brings what the device has, as it was to come.
LEMMA OrderConnect ==
  ASSUME IngestTypeOK, StreamInv, OrderInv, Connect
  PROVE  OrderInv'
  <1>1. PICK c \in Conns :
          /\ Free(c) /\ link' = c /\ sock' = [sock EXCEPT ![c] = "open"]
          /\ toServer' = [toServer EXCEPT ![c] = HandshakeFrame]
          /\ framer' = [framer EXCEPT ![c] = NewFramer]
    <2>1. Free(CHOOSE x \in Conns : Free(x)) /\ (CHOOSE x \in Conns : Free(x)) \in Conns
      BY DEF Connect
    <2> QED
      BY <2>1 DEF Connect
  <1>2. /\ link = NoConn /\ waits' = "imei"
        /\ UNCHANGED <<taken, flash, sent, todo, batches, count, log, faults, aged>>
    BY DEF Connect
  <1>3. \A d \in Conns \ {c} : SameConn(d)
    BY <1>1, <1>2 DEF SameConn, IngestTypeOK
  <1>4. Deleted' = Deleted /\ sock'[c] = "open" /\ ~ Steady /\ ~ Steady' /\ LiveLeft'
    BY <1>1, <1>2 DEF Deleted, Steady, LiveLeft, IngestTypeOK
  <1>5. taken' \in Nat /\ taken <= taken' /\ faults' \in Nat /\ faults <= faults'
    BY <1>2, FlashIs
  <1>6. StoredTaken'
    BY <1>2, <1>5, StoredSame DEF OrderInv
  <1>7. ASSUME NEW t \in Topics PROVE OrderBudget(t)'
    <2>1. \A r \in 1 .. taken : Comes(r, t)' => Comes(r, t)
      BY <1>2, <1>4 DEF Comes, Fits
    <2>2. Back(t)' => Back(t)
      BY <1>2, <1>5, <2>1, BackSame DEF OrderInv
    <2>3. NobodyLater(t)
      <3> SUFFICES ASSUME NEW d \in Conns, IsLate(d, t)' PROVE IsLate(d, t)
        BY DEF NobodyLater
      <3>1. d # c
        BY <1>1, <1>4 DEF IsLate
      <3>2. (\E r \in Nat : Carried(d, r)) \/ batches[d][t] # << >>
        BY <1>1, <1>3, <3>1, CarriedSame DEF IsLate, SameConn
      <3> QED
        BY <1>2, <3>2, IngestAssumption DEF IsLate
    <2> QED
      BY <1>2, <1>5, <2>2, <2>3, OrderKeeps DEF OrderInv
  <1> QED
    BY <1>4, <1>6, <1>7 DEF OrderInv

\* The device sends the first records that were to come.
LEMMA OrderSend ==
  ASSUME IngestTypeOK, StreamInv, OrderInv, NEW n \in 1 .. MaxPacket, SendPacket(n),
         IngestTypeOK', StreamInv'
  PROVE  OrderInv'
  <1>1. PICK c \in Conns : c = link
    BY DEF SendPacket, IngestTypeOK
  <1>2. /\ waits = "nothing" /\ sent' = n /\ waits' = "ack" /\ c # NoConn /\ link' = c
        /\ toServer' = [toServer EXCEPT ![c] = @ \o AvlFrame(SubSeq(flash, 1, n))]
        /\ UNCHANGED <<taken, flash, link, toDevice, sock, framer, todo, batches, count, listening, log, faults, aged>>
    BY <1>1, IngestAssumption DEF SendPacket, serverVars
  <1>3. \A d \in Conns \ {c} : SameConn(d)
    BY <1>1, <1>2 DEF SameConn, IngestTypeOK
  <1>4. Deleted' = Deleted /\ Span' = Deleted + 1 .. Deleted + n
    BY <1>2 DEF Deleted, Span
  <1>5. ~ Publishing(c) /\ batches[c] = Nothing /\ toDevice[c] = << >> /\ ~ Steady
    BY <1>1, <1>2 DEF StreamInv, LinkInv, ConnInv, Steady
  <1>6. \A r : Carried(c, r)' => r \in Span' /\ sock[c] # "closed"
    <2>1. (IngestTypeOK /\ LinkInv /\ link # NoConn /\ waits = "ack"
             => \A r : Carried(link, r) => r \in Span)'
      BY LinkCarries, PTL
    <2>2. \A r : Carried(link, r)' => r \in Span'
      BY <1>2, <2>1 DEF StreamInv
    <2>3. \A r : Carried(c, r)' => Carried(link, r)'
      BY <1>2, NamedThen
    <2> QED
      BY <1>2, <2>2, <2>3 DEF Carried
  <1>7. LiveLeft'
    BY <1>1, <1>2, <1>5 DEF LiveLeft, Publishing
  <1>8. taken' \in Nat /\ taken <= taken' /\ faults' \in Nat /\ faults <= faults' /\ Deleted \in Nat /\ n \in Nat
    BY <1>2, FlashIs, IngestAssumption
  <1>9. StoredTaken'
    BY <1>2, <1>8, StoredSame DEF OrderInv
  <1>10. ASSUME NEW t \in Topics PROVE OrderBudget(t)'
    <2>1. ASSUME NEW r \in 1 .. taken, Comes(r, t)' PROVE Comes(r, t)
      <3>1. Fits(r, t)' = Fits(r, t)
        BY <1>2 DEF Fits
      <3>2. CASE Steady'
        <4>1. r \in ToSet(batches'[link'][t]) \/ (Fits(r, t) /\ (Carried(link, r)' \/ r > Deleted' + sent'))
          BY <2>1, <3>1, <3>2 DEF Comes
        <4>2. ToSet(batches'[link'][t]) = {}
          BY <1>2, <1>5 DEF Nothing, ToSet
        <4>3. Carried(link, r)' => Carried(c, r)'
          BY <1>2, NamedThen
        <4>4. Fits(r, t) /\ (r \in Deleted + 1 .. Deleted + n \/ r > Deleted + n)
          BY <1>2, <1>4, <1>6, <4>1, <4>2, <4>3
        <4>5. r > Deleted
          BY <1>8, <4>4
        <4> QED
          BY <1>5, <4>4, <4>5 DEF Comes
      <3>3. CASE ~ Steady'
        BY <1>4, <1>5, <2>1, <3>1, <3>3 DEF Comes
      <3> QED
        BY <3>2, <3>3
    <2>2. Back(t)' => Back(t)
      BY <1>2, <1>8, <2>1, BackSame DEF OrderInv
    <2>3. ASSUME NEW d \in Conns \ {c} PROVE IsLate(d, t)' => IsLate(d, t)
      <3>1. d # link /\ d # link' /\ batches'[d] = batches[d]
        BY <1>1, <1>2
      <3>2. \A r : Carried(d, r)' = Carried(d, r)
        BY <1>3, CarriedSame
      <3> QED
        BY <3>1, <3>2 DEF IsLate
    <2>4. IsLate(c, t)' => IsLate(c, t)
      <3> SUFFICES ASSUME IsLate(c, t)' PROVE IsLate(c, t)
        OBVIOUS
      <3>1. sock[c] # "open"
        BY <1>2 DEF IsLate
      <3>2. sock[c] = "ended"
        <4>1. (\E r \in Nat : Carried(c, r)') \/ batches'[c][t] # << >> \/ sock'[c] = "ended"
          BY DEF IsLate
        <4>2. batches'[c][t] = << >>
          BY <1>2, <1>5 DEF Nothing
        <4>3. sock[c] \in {"closed", "open", "ended"}
          BY DEF IngestTypeOK
        <4> QED
          BY <1>2, <1>6, <3>1, <4>1, <4>2, <4>3
      <3> QED
        BY <1>1, <1>2, <3>1, <3>2 DEF IsLate
    <2>5. NobodyLater(t)
      BY <2>3, <2>4 DEF NobodyLater
    <2> QED
      BY <1>2, <1>8, <2>2, <2>5, OrderKeeps DEF OrderInv
  <1> QED
    BY <1>7, <1>9, <1>10 DEF OrderInv

\* A chunk arrives.
LEMMA OrderReceive ==
  ASSUME IngestTypeOK, StreamInv, OrderInv, NEW c \in Conns, NEW n \in 1 .. Len(toServer[c]), Receive(c, n)
  PROVE  OrderInv'
  <1>1. UNCHANGED <<deviceVars, toDevice, sock, batches, count, log, aged, faults>>
    BY DEF Receive
  <1>2. \A d \in Conns \ {c} : SameConn(d)
    BY <1>1 DEF Receive, IngestTypeOK, SameConn
  <1>3. UNCHANGED <<link, waits, Span>> /\ aged' \in Nat /\ aged <= aged'
    BY <1>1, FlashIs DEF deviceVars, Span, Deleted
  <1>4. LiveLeft'
    BY <1>1, <1>3, LiveSame DEF OrderInv, Publishing
  <1>5. \A r : Carried(c, r)' => Carried(c, r)
    BY ReceiveKeeps
  <1> QED
    BY <1>1, <1>2, <1>4, <1>5, OrderServer

\* The handshake is answered.
LEMMA OrderImei ==
  ASSUME IngestTypeOK, StreamInv, OrderInv, NEW c \in Conns, HandleImei(c)
  PROVE  OrderInv'
  <1>1. /\ NextEvent(c, "imei") /\ Write(c, Accept) /\ (sock[c] = "open" => todo' = [todo EXCEPT ![c] = Tail(@)])
        /\ UNCHANGED <<deviceVars, batches, count, log, aged, faults>>
    BY DEF HandleImei
  <1>2. /\ framer[c] = Streaming /\ toServer[c] = << >> /\ Tail(todo[c]) = << >>
        /\ c = link => waits = "imei"
    BY <1>1, EventInHand
  <1>3. \A d \in Conns \ {c} : SameConn(d)
    BY <1>1 DEF Write, Destroy, Unread, IngestTypeOK, SameConn
  <1>4. sock'[c] = sock[c] \/ (sock[c] # "open" /\ sock'[c] = "closed")
    BY <1>1 DEF Write, Destroy, IngestTypeOK
  <1>5. sock'[c] = "closed" \/ Idle(c)'
    BY <1>1, <1>2 DEF Write, Destroy, Idle, IngestTypeOK
  <1>6. \A r : ~ Carried(c, r)'
    BY <1>5, CarriedThen
  <1>7. link # c \/ sock[c] # "open" => toDevice'[link] = toDevice[link]
    BY <1>1 DEF Write
  <1>8. UNCHANGED <<link, waits, Span>> /\ aged' \in Nat /\ aged <= aged'
    BY <1>1, FlashIs DEF deviceVars, Span, Deleted
  <1>9. LiveLeft'
    BY <1>1, <1>8, LiveSame DEF OrderInv, Publishing
  <1>10. c = link => ~ Steady
    BY <1>2 DEF Steady
  <1> QED
    BY <1>1, <1>3, <1>4, <1>6, <1>7, <1>9, <1>10, OrderServer

\* The packet goes into the batches: what is recent to the live topic, all of it to
\* one topic or the other.
LEMMA OrderPacket ==
  ASSUME IngestTypeOK, StreamInv, OrderInv, NEW c \in Conns, HandlePacket(c)
  PROVE  OrderInv'
  <1>1. /\ NextEvent(c, "packet")
        /\ batches' = [batches EXCEPT ![c] = [t \in Topics |-> Batch(Head(todo[c]).records, t)]]
        /\ count' = [count EXCEPT ![c] = Len(Head(todo[c]).records)]
        /\ todo' = [todo EXCEPT ![c] = Tail(@)]
        /\ UNCHANGED <<deviceVars, toServer, toDevice, sock, framer, log, aged, faults>>
    BY DEF HandlePacket
  <1>2. sock[c] # "closed" /\ (c = link => waits = "ack")
    BY <1>1, EventInHand
  <1>3. PICK a \in Nat, n \in 1 .. MaxPacket :
          a + n <= taken /\ Carries(c, Interval(a, n)) /\ todo[c] = <<Packet(Interval(a, n))>>
    BY <1>1, EventInHand
  <1>4. Head(todo[c]).records = Interval(a, n)
    BY <1>3 DEF Packet, Event
  <1>5. n \in Nat /\ Len(Interval(a, n)) = n /\ aged \in Nat /\ n # NotPublishing
    BY IntervalIs, IngestAssumption, FlashIs DEF NotPublishing
  <1>6. PICK x \in a .. a + n :
          /\ Batch(Interval(a, n), "backfill") = Interval(a, x - a)
          /\ Batch(Interval(a, n), "live") = Interval(x, a + n - x)
          /\ \A r \in a + 1 .. a + n : r > x <=> r > aged
    BY <1>5, BatchesOfInterval
  <1>7. /\ batches'[c]["backfill"] = Interval(a, x - a)
        /\ batches'[c]["live"] = Interval(x, a + n - x)
    BY <1>1, <1>4, <1>6 DEF IngestTypeOK, Topics
  <1>8. Publishing(c)'
    BY <1>1, <1>4, <1>5 DEF IngestTypeOK, Publishing
  <1>9. \A d \in Conns \ {c} : SameConn(d)
    BY <1>1 DEF SameConn, IngestTypeOK
  <1>10. /\ ToSet(batches'[c]["backfill"]) = a + 1 .. x
         /\ ToSet(batches'[c]["live"]) = x + 1 .. a + n
    <2>1. x - a \in Nat /\ a + n - x \in Nat /\ x \in Nat /\ a + (x - a) = x /\ x + (a + n - x) = a + n
      BY <1>5
    <2> QED
      BY <1>7, <2>1, IntervalIs
  <1>11. \A r \in a + 1 .. a + n : Carried(c, r)
    BY <1>2, <1>3 DEF Carried
  <1>12. \A r : ~ Carried(c, r)'
    BY <1>8, CarriedThen
  <1>13. \E r \in Nat : Carried(c, r)
    <2>1. a + 1 \in a + 1 .. a + n /\ a + 1 \in Nat
      BY <1>5
    <2> QED
      BY <1>11, <2>1
  <1>14. ASSUME NEW t \in Topics, NEW r \in ToSet(batches'[c][t]) PROVE Carried(c, r) /\ Fits(r, t)
    <2>1. CASE t = "backfill"
      BY <1>5, <1>10, <1>11, <1>14, <2>1 DEF Fits
    <2>2. CASE t = "live"
      <3>1. r \in a + 1 .. a + n /\ r > x
        BY <1>5, <1>10, <1>14, <2>2
      <3> QED
        BY <1>6, <1>11, <3>1 DEF Fits
    <2> QED
      BY <2>1, <2>2 DEF Topics
  <1>15. UNCHANGED <<link, waits, Span>>
    BY <1>1 DEF deviceVars, Span, Deleted
  <1>16. LiveLeft'
    <2>1. CASE c # link
      <3>1. link # NoConn /\ Publishing(link)' => Publishing(link) /\ batches'[link] = batches[link]
        BY <1>9, <1>15, <2>1 DEF IngestTypeOK, SameConn, Publishing
      <3> QED
        BY <1>1, <1>5, <1>15, <3>1, LiveSame DEF OrderInv
    <2>2. CASE c = link
      <3>1. Span = a + 1 .. a + n
        <4>1. c # NoConn /\ ~ Idle(c)
          BY <1>3, IngestAssumption, NotIdle
        <4>2. Carries(c, Interval(Deleted, sent)) /\ Deleted \in Nat /\ sent \in Nat
          BY <1>2, <2>2, <4>1, FlashIs DEF StreamInv, LinkInv
        <4>3. Interval(Deleted, sent) \in Seq(Nat) /\ ToSet(Interval(Deleted, sent)) = Deleted + 1 .. Deleted + sent
          BY <4>2, IntervalIs
        <4>4. Interval(a, n) \in Seq(Nat) /\ ToSet(Interval(a, n)) = a + 1 .. a + n
          BY <1>5, IntervalIs
        <4>5. Interval(Deleted, sent) = Interval(a, n)
          BY <1>3, <4>2, <4>3, <4>4, OnePacket
        <4> QED
          BY <4>3, <4>4, <4>5 DEF Span
      <3>2. \A r \in Span : r > aged => r \in ToSet(batches'[c]["live"])
        BY <1>5, <1>6, <1>10, <3>1
      <3>3. link' = c /\ Span' = Span /\ aged' = aged
        BY <1>1, <1>15, <2>2
      <3> QED
        BY <3>2, <3>3 DEF LiveLeft
    <2> QED
      BY <2>1, <2>2
  <1> QED
    BY <1>1, <1>9, <1>12, <1>13, <1>14, <1>16, OrderServer

\* The publish is over.
LEMMA OrderPublished ==
  ASSUME IngestTypeOK, StreamInv, OrderInv, NEW c \in Conns, Published(c)
  PROVE  OrderInv'
  <1>1. /\ Publishing(c) /\ count' = [count EXCEPT ![c] = NotPublishing]
        /\ Write(c, count[c]) /\ (sock[c] = "open" => UNCHANGED todo)
        /\ UNCHANGED <<deviceVars, batches, log, aged, faults>>
    BY DEF Published
  <1>2. \A d \in Conns \ {c} : SameConn(d)
    BY <1>1 DEF Write, Destroy, Unread, IngestTypeOK, SameConn
  <1>3. sock'[c] = sock[c] \/ (sock[c] # "open" /\ sock'[c] = "closed")
    BY <1>1 DEF Write, Destroy, IngestTypeOK
  <1>4. sock'[c] = "closed" \/ Idle(c)'
    <2>1. CASE sock[c] = "open"
      <3>1. Idle(c)
        BY <1>1, <2>1 DEF StreamInv, ConnInv, Greets, Carries
      <3> QED
        BY <1>1, <2>1, <3>1 DEF Write, Idle
    <2>2. CASE sock[c] # "open"
      BY <1>1, <2>2 DEF Write, Destroy, IngestTypeOK
    <2> QED
      BY <2>1, <2>2
  <1>5. \A r : ~ Carried(c, r)'
    BY <1>4, CarriedThen
  <1>6. link # c \/ sock[c] # "open" => toDevice'[link] = toDevice[link]
    BY <1>1 DEF Write
  <1>7. c = link /\ sock[c] # "open" => ~ Steady
    BY <1>1 DEF StreamInv, LinkInv, Steady
  <1>8. UNCHANGED <<link, waits, Span>> /\ aged' \in Nat /\ aged <= aged'
    BY <1>1, FlashIs DEF deviceVars, Span, Deleted
  <1>9. LiveLeft'
    <2>1. ~ Publishing(c)' /\ \A d \in Conns \ {c} : Publishing(d)' = Publishing(d)
      BY <1>1 DEF Publishing, IngestTypeOK
    <2>2. link # NoConn /\ Publishing(link)' => Publishing(link) /\ batches'[link] = batches[link]
      <3>1. CASE link = c
        BY <1>8, <2>1, <3>1 DEF Publishing
      <3>2. CASE link # c
        BY <1>1, <1>8, <3>2 DEF Publishing, IngestTypeOK
      <3> QED
        BY <3>1, <3>2
    <2> QED
      BY <1>8, <2>2, LiveSame DEF OrderInv
  <1> QED
    BY <1>1, <1>2, <1>3, <1>5, <1>6, <1>7, <1>9, OrderServer

\* The device's connection closes under it, or a late one ends.
LEMMA OrderDrops ==
  ASSUME IngestTypeOK, StreamInv, CopyInv, OrderInv, NEW c \in Conns,
         PublishFails(c) \/ IdleTimeout(c) \/ PeerGone(c)
  PROVE  OrderInv'
  <1>1. Destroy(c) /\ UNCHANGED <<deviceVars, toDevice, listening, log, aged>>
    BY DEF PublishFails, IdleTimeout, PeerGone
  <1>2. sock'[c] = "closed" /\ \A d \in Conns \ {c} : sock'[d] = sock[d]
    BY <1>1 DEF Destroy, IngestTypeOK
  <1>3. \A d \in Conns \ {c} : SameConn(d)
    BY <1>1 DEF Destroy, Unread, PublishFails, IdleTimeout, PeerGone, IngestTypeOK, SameConn
  <1>4. /\ batches'[c] = batches[c] \/ batches'[c] = Nothing
        /\ PublishFails(c) => batches'[c] = Nothing /\ ~ Publishing(c)'
        /\ ~ PublishFails(c) => UNCHANGED <<batches, count>>
    BY DEF PublishFails, IdleTimeout, PeerGone, Publishing, IngestTypeOK
  <1>5. \A r : ~ Carried(c, r)'
    BY <1>2, CarriedThen
  <1>6. UNCHANGED <<taken, link, waits, sent, Deleted, Span>> /\ aged' \in Nat /\ aged <= aged'
    BY <1>1, FlashIs DEF deviceVars, Span, Deleted
  <1>7. LiveLeft'
    <2>1. CASE PublishFails(c) /\ link = c
      BY <1>4, <1>6, <2>1 DEF LiveLeft, Publishing
    <2>2. CASE PublishFails(c) /\ link # c
      <3>1. link # NoConn => link \in Conns /\ SameConn(link)
        BY <1>3, <2>2 DEF IngestTypeOK
      <3>2. link # NoConn /\ Publishing(link)' => Publishing(link) /\ batches'[link] = batches[link]
        BY <1>6, <3>1 DEF SameConn, Publishing
      <3> QED
        BY <1>6, <3>2, LiveSame DEF OrderInv
    <2>3. CASE ~ PublishFails(c)
      BY <1>4, <1>6, <2>3, LiveSame DEF OrderInv, Publishing
    <2> QED
      BY <2>1, <2>2, <2>3
  <1>8. \A d \in Conns \ {c} : \A t : IsLate(d, t)' => IsLate(d, t)
    <2> SUFFICES ASSUME NEW d \in Conns \ {c} PROVE \A t : IsLate(d, t)' => IsLate(d, t)
      OBVIOUS
    <2>1. SameConn(d) /\ toDevice'[d] = toDevice[d]
      BY <1>1, <1>3
    <2> QED
      BY <1>6, <2>1, LateSame
  <1>9. CASE PeerGone(c)
    <2>1. /\ UNCHANGED <<deviceVars, toDevice, batches, log, aged, faults>> /\ c # link
          /\ sock'[c] = "closed" /\ \A r : Carried(c, r)' => Carried(c, r)
      BY <1>2, <1>5, <1>9 DEF PeerGone
    <2> QED
      BY <1>3, <1>7, <2>1, OrderServer
  <1>10. CASE PublishFails(c)
    <2>1. faults' = faults + 1 /\ taken' \in Nat /\ taken <= taken'
      BY <1>6, <1>10, FlashIs DEF PublishFails, Fault
    <2>2. StoredTaken'
      BY <1>1, <2>1, StoredSame DEF OrderInv
    <2>3. ASSUME NEW t \in Topics PROVE OrderBudget(t)'
      <3>1. ~ IsLate(c, t)'
        BY <1>2, <1>4, <1>5, <1>10 DEF IsLate, Nothing
      <3>2. NobodyLater(t)
        BY <1>8, <3>1 DEF NobodyLater
      <3> QED
        BY <1>1, <2>1, <3>2, OrderBack DEF OrderInv
    <2> QED
      BY <1>7, <2>2, <2>3 DEF OrderInv
  <1>11. CASE IdleTimeout(c)
    <2>1. ~ Silent(c)
      <3> SUFFICES ASSUME Silent(c) PROVE FALSE
        OBVIOUS
      <3>1. link = c /\ sock[c] = "open" /\ c # NoConn /\ ~ Idle(c)
        BY <1>11, IngestAssumption DEF IdleTimeout, Silent, CopyInv, Answered
      <3>2. Greets(c) \/ \E s : Carries(c, s)
        BY <3>1 DEF StreamInv, ConnInv
      <3> QED
        BY <3>2 DEF Silent, Greets, Carries
    <2>2. faults' = faults + 1 /\ c = link /\ sock[c] = "open" /\ UNCHANGED batches
      BY <1>11, <2>1 DEF IdleTimeout, Fault
    <2>3. ~ Steady'
      BY <1>2, <1>6, <2>2 DEF Steady
    <2>4. \A t \in Topics : IsLate(c, t)' => batches[c][t] # << >>
      BY <1>2, <1>5, <2>2 DEF IsLate
    <2> QED
      BY <1>1, <1>6, <1>7, <1>8, <2>2, <2>3, <2>4, OrderFails
  <1> QED
    BY <1>9, <1>10, <1>11

\* The sockets are ended, and what they carry is late.
LEMMA OrderShutdown ==
  ASSUME IngestTypeOK, StreamInv, OrderInv, Shutdown
  PROVE  OrderInv'
  <1>1. /\ faults' = faults + 1
        /\ sock' = [c \in Conns |-> IF sock[c] = "open" THEN "ended" ELSE sock[c]]
        /\ UNCHANGED <<deviceVars, toServer, toDevice, framer, todo, batches, count, log, aged>>
    BY DEF Shutdown, Fault
  <1>2. UNCHANGED <<taken, link, waits, sent, Deleted, Span>> /\ aged' \in Nat /\ aged <= aged'
    BY <1>1, FlashIs DEF deviceVars, Deleted, Span
  <1>3. \A d \in Conns : sock'[d] # "open" /\ (sock'[d] = "closed" <=> sock[d] = "closed")
                         /\ (sock[d] # "open" => sock'[d] = sock[d])
    BY <1>1
  <1>4. \A d \in Conns : \A r : Carried(d, r)' = Carried(d, r)
    <2>1. \A d : Publishing(d)' = Publishing(d) /\ Pipe(d)' = Pipe(d)
      BY <1>1 DEF Publishing, Pipe
    <2>2. \A d, s : Carries(d, s)' = Carries(d, s)
      BY <1>1, <2>1 DEF Carries
    <2>3. \A d, a, n : Carries(d, Interval(a, n))' = Carries(d, Interval(a, n))
      BY <2>2 DEF Interval
    <2> QED
      BY <1>3, <2>3 DEF Carried
  <1>5. LiveLeft'
    BY <1>1, <1>2, LiveSame DEF OrderInv, Publishing
  <1>6. link # NoConn => link \in Conns
    BY DEF IngestTypeOK
  <1>7. \A d \in Conns : ~ (d = link /\ sock[d] = "open") => \A t : IsLate(d, t)' => IsLate(d, t)
    <2> SUFFICES ASSUME NEW d \in Conns, ~ (d = link /\ sock[d] = "open"), NEW t, IsLate(d, t)'
                 PROVE  IsLate(d, t)
      OBVIOUS
    <2>1. \/ (\E r \in Nat : Carried(d, r)) \/ batches[d][t] # << >>
          \/ d = link /\ sock'[d] = "ended" /\ (waits # "ack" \/ toDevice[d] # << >>)
      BY <1>1, <1>2, <1>4 DEF IsLate
    <2>2. d = link => sock'[d] = sock[d]
      BY <1>3
    <2> QED
      BY <2>1, <2>2 DEF IsLate
  <1>8. taken' \in Nat /\ taken <= taken'
    BY <1>2, FlashIs
  <1>9. CASE link # NoConn /\ sock[link] = "open" /\ waits = "ack" /\ toDevice[link] = << >>
    <2>1. PICK x \in Conns : x = link
      BY <1>6, <1>9
    <2>2. ~ Steady'
      BY <1>1, <1>2, <1>3, <1>9, <2>1 DEF Steady
    <2>3. \A t : IsLate(x, t)' => (\E r : Carried(x, r)) \/ batches[x][t] # << >>
      BY <1>1, <1>2, <1>4, <1>9, <2>1 DEF IsLate
    <2>4. \A d \in Conns \ {x} : \A t : IsLate(d, t)' => IsLate(d, t)
      BY <1>7, <2>1
    <2> QED
      BY <1>1, <1>2, <1>5, <1>9, <2>1, <2>2, <2>3, <2>4, OrderFails
  <1>10. CASE ~ (link # NoConn /\ sock[link] = "open" /\ waits = "ack" /\ toDevice[link] = << >>)
    <2>1. Steady' = Steady
      <3>1. CASE link = NoConn
        BY <1>2, <3>1 DEF Steady
      <3>2. CASE link # NoConn
        <4>1. sock'[link] = IF sock[link] = "open" THEN "ended" ELSE sock[link]
          BY <1>1, <1>6, <3>2
        <4> QED
          BY <1>1, <1>2, <1>10, <3>2, <4>1 DEF Steady
      <3> QED
        BY <3>1, <3>2
    <2>2. ASSUME NEW t \in Topics PROVE OrderBudget(t)'
      <3>1. \A r : Fits(r, t)' = Fits(r, t)
        BY <1>1 DEF Fits
      <3>2. ASSUME NEW r \in 1 .. taken, Comes(r, t)' PROVE Comes(r, t)
        <4>1. CASE Steady
          <5>1. link \in Conns
            BY <1>6, <4>1 DEF Steady
          <5>2. PICK x \in Conns : x = link
            BY <5>1
          <5>3. Carried(link, r)' => Carried(x, r)'
            BY <1>2, <5>2, NamedThen
          <5>4. Carried(link, r)' => Carried(link, r)
            BY <1>4, <5>2, <5>3
          <5>5. r \in ToSet(batches[link][t]) \/ (Fits(r, t) /\ (Carried(link, r)' \/ r > Deleted + sent))
            BY <1>1, <1>2, <2>1, <3>1, <3>2, <4>1 DEF Comes
          <5> QED
            BY <4>1, <5>4, <5>5 DEF Comes
        <4>2. CASE ~ Steady
          BY <1>2, <2>1, <3>1, <3>2, <4>2 DEF Comes
        <4> QED
          BY <4>1, <4>2
      <3>3. Back(t)' => Back(t)
        BY <1>1, <1>8, <3>2, BackSame DEF OrderInv
      <3>4. NoLater(t, link)
        BY <1>7 DEF NoLater
      <3> QED
        BY <1>1, <3>3, <3>4, OrderLate DEF OrderInv
    <2>3. StoredTaken'
      BY <1>1, <1>8, StoredSame DEF OrderInv
    <2> QED
      BY <1>5, <2>2, <2>3 DEF OrderInv
  <1> QED
    BY <1>9, <1>10

\* Behind the process that ends the device starts again.
LEMMA OrderExit ==
  ASSUME IngestTypeOK, StreamInv, CopyInv, OrderInv, Exit
  PROVE  OrderInv'
  <1>1. /\ IF listening THEN faults' = faults + 1 ELSE faults' = faults
        /\ sock' = [c \in Conns |-> "closed"] /\ batches' = [c \in Conns |-> Nothing]
        /\ count' = [c \in Conns |-> NotPublishing]
        /\ UNCHANGED <<deviceVars, toDevice, log, aged>>
    BY DEF Exit, Fault
  <1>2. UNCHANGED <<taken, link, waits, sent, Deleted>>
    BY <1>1 DEF deviceVars, Deleted
  <1>3. link # NoConn => link \in Conns
    BY DEF IngestTypeOK
  <1>4. ~ Steady' /\ LiveLeft'
    BY <1>1, <1>2, <1>3 DEF Steady, LiveLeft, Publishing
  <1>5. taken' \in Nat /\ taken <= taken' /\ faults' \in Nat /\ faults <= faults'
    BY <1>1, <1>2, FlashIs
  <1>6. StoredTaken'
    BY <1>1, <1>5, StoredSame DEF OrderInv
  <1>7. \A t \in Topics : \A c \in Conns : ~ IsLate(c, t)'
    <2> SUFFICES ASSUME NEW t \in Topics, NEW c \in Conns PROVE ~ IsLate(c, t)'
      OBVIOUS
    <2>1. sock'[c] = "closed" /\ batches'[c][t] = << >>
      BY <1>1 DEF Nothing
    <2>2. \A r : ~ Carried(c, r)'
      BY <2>1, CarriedThen
    <2> QED
      BY <2>1, <2>2 DEF IsLate
  <1>8. ASSUME NEW t \in Topics PROVE OrderBudget(t)'
    <2>1. NobodyLater(t)
      BY <1>7 DEF NobodyLater
    <2>2. CASE listening
      BY <1>1, <2>1, <2>2, OrderBack DEF OrderInv
    <2>3. CASE ~ listening /\ ~ Steady
      <3>1. \A r \in 1 .. taken : Comes(r, t)' => Comes(r, t)
        BY <1>1, <1>2, <1>4, <2>3 DEF Comes, Fits
      <3>2. Back(t)' => Back(t)
        BY <1>1, <1>5, <3>1, BackSame DEF OrderInv
      <3> QED
        BY <1>1, <1>5, <2>1, <3>2, OrderKeeps DEF OrderInv
    <2>4. CASE ~ listening /\ Steady
      <3>1. PICK x \in Conns : x = link
        BY <1>3, <2>4 DEF Steady
      <3>2. sock[x] = "ended" /\ toDevice[x] # << >>
        BY <2>4, <3>1 DEF CopyInv, Down, Steady
      <3>3. IsLate(x, t)
        BY <3>1, <3>2 DEF IsLate
      <3>4. Descents(t)' \subseteq Descents(t) \cup {0}
        BY <1>1 DEF Descents
      <3> QED
        BY <1>1, <1>7, <2>1, <2>4, <3>3, <3>4, OrderLeaves DEF OrderInv
    <2> QED
      BY <2>2, <2>3, <2>4
  <1> QED
    BY <1>4, <1>6, <1>8 DEF OrderInv

\* Where a batch that is stored can take its topic back: at its first record.
LEMMA StoreDescends ==
  ASSUME IngestTypeOK, NEW c \in Conns, NEW t \in Topics, StoreBatch(c, t),
         NEW b \in Nat, NEW m \in Nat, batches[c][t] = Interval(b, m), m # 0
  PROVE  /\ \E p : Descents(t)' \subseteq Descents(t) \cup {p}
         /\ log[t] = << >> \/ log[t][Len(log[t])] <= b + 1 => Descents(t)' \subseteq Descents(t)
         /\ log'[t] # << >> /\ log'[t][Len(log'[t])] = b + m
  <1>1. PICK l \in Nat :
          /\ Len(log[t]) = l /\ DOMAIN log[t] = 1 .. l
          /\ Len(log'[t]) = l + m /\ DOMAIN log'[t] = 1 .. l + m
          /\ \A i \in 1 .. l + m : log'[t][i] = IF i <= l THEN log[t][i] ELSE b + (i - l)
    BY LogThen, ZenonT(40)
  <1>2. PICK u, w : u = log'[t] /\ w = log[t]
    OBVIOUS
  <1>3. \A i \in 1 .. l + m : u[i] = IF i <= l THEN w[i] ELSE b + (i - l)
    BY <1>1, <1>2
  <1>4. /\ Descents(t) = {i \in 1 .. l : i > 1 /\ w[i - 1] > w[i]}
        /\ Descents(t)' = {i \in 1 .. l + m : i > 1 /\ u[i - 1] > u[i]}
    BY <1>1, <1>2 DEF Descents
  <1>5. ASSUME NEW i \in 1 .. l + m, i > 1, u[i - 1] > u[i], i # l + 1
        PROVE  i \in 1 .. l /\ w[i - 1] > w[i]
    <2>1. i - 1 \in 1 .. l + m
      BY <1>5
    <2>2. CASE i <= l
      BY <1>3, <1>5, <2>1, <2>2
    <2>3. CASE i > l + 1
      <3>1. u[i - 1] = b + ((i - 1) - l) /\ u[i] = b + (i - l)
        BY <1>3, <1>5, <2>1, <2>3
      <3> QED
        BY <1>5, <2>3, <3>1
    <2> QED
      BY <1>5, <2>2, <2>3
  <1>6. Descents(t)' \subseteq Descents(t) \cup {l + 1}
    BY <1>4, <1>5
  <1>7. ASSUME log[t] = << >> \/ log[t][Len(log[t])] <= b + 1 PROVE l + 1 \notin Descents(t)'
    <2>1. u[l + 1] = b + 1
      BY <1>3
    <2>2. CASE l = 0
      BY <1>4, <2>2
    <2>3. CASE l # 0
      <3>1. w # << >>
        BY <1>1, <1>2, <2>3
      <3>2. u[l] = w[l] /\ w[l] <= b + 1 /\ w[l] \in Nat
        <4>1. w \in Seq(Nat) /\ l \in DOMAIN w
          BY <1>1, <1>2, <2>3 DEF IngestTypeOK
        <4>2. w[l] \in Nat
          BY <4>1, <1>1, <1>2, ElementOfSeq
        <4> QED
          BY <1>1, <1>2, <1>3, <1>7, <2>3, <3>1, <4>2
      <3> QED
        BY <1>4, <2>1, <3>2
    <2> QED
      BY <2>2, <2>3
  <1>8. u # << >> /\ u[l + m] = b + m
    <2>1. Len(u) # 0
      BY <1>1, <1>2
    <2>2. Len(<< >>) = 0
      OBVIOUS
    <2>3. u # << >>
      BY <2>1, <2>2
    <2> QED
      BY <1>3, <2>3
  <1> QED
    BY <1>1, <1>2, <1>6, <1>7, <1>8

\* A batch is stored: in its place of the device's order, or late.
LEMMA OrderStore ==
  ASSUME IngestTypeOK, StreamInv, OrderInv, NEW c \in Conns, NEW t \in Topics, StoreBatch(c, t)
  PROVE  OrderInv'
  <1>1. /\ batches[c][t] # << >> /\ batches' = [batches EXCEPT ![c][t] = << >>]
        /\ UNCHANGED <<deviceVars, toServer, toDevice, sock, framer, todo, count, aged, faults>>
    BY DEF StoreBatch
  <1>2. UNCHANGED <<taken, link, waits, sent, Deleted, Span>>
    BY <1>1 DEF deviceVars, Deleted, Span
  <1>3. \A d \in Conns \ {c} : SameConn(d)
    BY <1>1 DEF SameConn, IngestTypeOK
  <1>4. batches'[c][t] = << >> /\ \A u \in Topics \ {t} : batches'[c][u] = batches[c][u]
    BY <1>1 DEF IngestTypeOK
  <1>5. Publishing(c) /\ Publishing(c)' /\ (c = link => waits = "ack" /\ toDevice[c] = << >>)
    BY <1>1, BatchInHand DEF Publishing
  <1>6. PICK a \in Nat, n \in 1 .. MaxPacket :
          /\ a + n <= taken /\ (c = link => a = Deleted /\ n = sent)
          /\ \E b \in Nat, m \in Nat \ {0} :
               /\ batches[c][t] = Interval(b, m) /\ ToSet(batches[c][t]) = b + 1 .. b + m
               /\ b + 1 .. b + m \subseteq a + 1 .. a + n
    BY <1>1, BatchInHand
  <1>7. PICK b \in Nat, m \in Nat :
          /\ m # 0 /\ batches[c][t] = Interval(b, m) /\ ToSet(batches[c][t]) = b + 1 .. b + m
          /\ b + 1 .. b + m \subseteq a + 1 .. a + n
    BY <1>6
  <1>8. n \in Nat /\ taken \in Nat /\ b + 1 \in a + 1 .. a + n /\ b + m \in a + 1 .. a + n
        /\ b + 1 \in 1 .. taken
    <2>1. n \in Nat /\ taken \in Nat
      BY FlashIs, IngestAssumption
    <2>2. b + 1 \in b + 1 .. b + m /\ b + m \in b + 1 .. b + m
      BY <1>7
    <2>3. b + 1 \in a + 1 .. a + n /\ b + m \in a + 1 .. a + n
      BY <1>7, <2>2
    <2>4. b + 1 \in 1 .. taken
      BY <1>6, <2>1, <2>3
    <2> QED
      BY <2>1, <2>3, <2>4
  <1>9. /\ \E p : Descents(t)' \subseteq Descents(t) \cup {p}
        /\ log[t] = << >> \/ log[t][Len(log[t])] <= b + 1 => Descents(t)' \subseteq Descents(t)
        /\ log'[t] # << >> /\ log'[t][Len(log'[t])] = b + m
        /\ \A u \in Topics \ {t} : log'[u] = log[u]
    <2>1. batches[c][t] = Interval(b, m) /\ m # 0
      BY <1>7
    <2>2. \A u \in Topics \ {t} : log'[u] = log[u]
      BY DEF StoreBatch, IngestTypeOK
    <2>3. \E p : Descents(t)' \subseteq Descents(t) \cup {p}
      BY <2>1, StoreDescends
    <2>4. log[t] = << >> \/ log[t][Len(log[t])] <= b + 1 => Descents(t)' \subseteq Descents(t)
      BY <2>1, StoreDescends
    <2>5. log'[t] # << >> /\ log'[t][Len(log'[t])] = b + m
      BY <2>1, StoreDescends
    <2> QED
      BY <2>2, <2>3, <2>4, <2>5
  <1>10. StoredTaken'
    <2>1. Stored' = Stored \cup (b + 1 .. b + m)
      BY <1>7, StoreAdds
    <2>2. b + 1 .. b + m \subseteq 1 .. taken
      BY <1>6, <1>7, <1>8
    <2> QED
      BY <1>2, <2>1, <2>2 DEF OrderInv, StoredTaken
  <1>11. LiveLeft'
    <2>1. CASE link # c \/ t = "backfill"
      <3> SUFFICES ASSUME link # NoConn, waits = "ack", Publishing(link)', batches'[link]["live"] # << >>
                   PROVE  \A r \in Span : r > aged => r \in ToSet(batches'[link]["live"])
        BY <1>1, <1>2 DEF LiveLeft
      <3>1. Publishing(link)
        BY <1>1, <1>2 DEF Publishing
      <3>2. batches'[link]["live"] = batches[link]["live"]
        <4>1. CASE link # c
          BY <1>3, <4>1 DEF IngestTypeOK, SameConn
        <4>2. CASE link = c /\ t = "backfill"
          BY <1>4, <4>2 DEF Topics
        <4> QED
          BY <2>1, <4>1, <4>2
      <3> QED
        BY <1>2, <3>1, <3>2 DEF OrderInv, LiveLeft
    <2>2. CASE link = c /\ t = "live"
      BY <1>2, <1>4, <2>2 DEF LiveLeft
    <2> QED
      BY <2>1, <2>2 DEF Topics
  <1>12. Steady' = Steady
    BY <1>1, <1>2 DEF Steady
  <1>13. \A d \in Conns \ {c} : \A u : IsLate(d, u)' => IsLate(d, u)
    <2> SUFFICES ASSUME NEW d \in Conns \ {c} PROVE \A u : IsLate(d, u)' => IsLate(d, u)
      OBVIOUS
    <2>1. SameConn(d) /\ toDevice'[d] = toDevice[d]
      BY <1>1, <1>3
    <2> QED
      BY <1>2, <2>1, LateSame
  <1>14. \A r : ~ Carried(c, r) /\ ~ Carried(c, r)'
    BY <1>5, NotCarried, CarriedThen
  <1>15. ASSUME NEW u \in Topics \ {t} PROVE OrderBudget(u)'
    <2>1. log'[u] = log[u] /\ batches'[c][u] = batches[c][u]
      BY <1>4, <1>9
    <2>2. ASSUME NEW r \in 1 .. taken, Comes(r, u)' PROVE Comes(r, u)
      <3>1. CASE link = c /\ Steady
        <4>1. Carried(link, r)' => Carried(c, r)'
          BY <1>2, <3>1, NamedThen
        <4>2. r \in ToSet(batches'[c][u]) \/ (Fits(r, u)' /\ (Carried(link, r)' \/ r > Deleted + sent))
          BY <1>2, <1>12, <2>2, <3>1 DEF Comes
        <4>3. Fits(r, u)' = Fits(r, u)
          BY <1>1 DEF Fits
        <4> QED
          BY <1>14, <2>1, <3>1, <4>1, <4>2, <4>3 DEF Comes
      <3>2. CASE link # c /\ Steady
        <4>1. SameConn(link) /\ toDevice'[link] = toDevice[link] /\ aged' \in Nat /\ aged <= aged'
          BY <1>1, <1>3, <3>2, FlashIs DEF Steady, IngestTypeOK
        <4> QED
          BY <1>2, <2>2, <4>1, ComesSame
      <3>3. CASE ~ Steady
        BY <1>1, <1>2, <1>12, <2>2, <3>3 DEF Comes, Fits
      <3> QED
        BY <3>1, <3>2, <3>3
    <2>3. taken' \in Nat
      BY <1>2, <1>8
    <2>4. Back(u)' => Back(u)
      BY <2>1, <2>2, <2>3, BackSame DEF OrderInv
    <2>5. IsLate(c, u)' => IsLate(c, u)
      BY <1>1, <1>2, <1>14, <2>1 DEF IsLate
    <2>6. NobodyLater(u)
      BY <1>13, <2>5 DEF NobodyLater
    <2> QED
      BY <1>1, <2>1, <2>4, <2>6, OrderKeeps, FlashIs DEF OrderInv
  <1>16. OrderBudget(t)'
    <2>1. ~ IsLate(c, t)'
      BY <1>1, <1>2, <1>4, <1>5, <1>14 DEF IsLate
    <2>2. NobodyLater(t)
      BY <1>13, <2>1 DEF NobodyLater
    <2>3. PICK p : Descents(t)' \subseteq Descents(t) \cup {p}
      BY <1>9
    <2>4. CASE IsLate(c, t)
      BY <1>1, <2>1, <2>2, <2>3, <2>4, OrderLeaves DEF OrderInv
    <2>5. CASE ~ IsLate(c, t)
      <3>1. c = link /\ sock[c] = "open"
        BY <1>1, <2>5 DEF IsLate
      <3>2. Steady /\ a = Deleted /\ n = sent
        BY <1>5, <1>6, <3>1, IngestAssumption DEF Steady
      <3>3. ~ Back(t)'
        <4> SUFFICES ASSUME NEW r \in Nat, Comes(r, t)', r < b + m PROVE FALSE
          BY <1>9 DEF Back
        <4>1. r \in ToSet(batches'[c][t]) \/ Carried(link, r)' \/ r > Deleted + sent
          BY <1>2, <1>12, <3>1, <3>2 DEF Comes
        <4>2. Carried(link, r)' => Carried(c, r)'
          BY <1>2, <3>1, NamedThen
        <4>3. ToSet(batches'[c][t]) = {}
          BY <1>4 DEF ToSet
        <4>4. r > a + n
          BY <1>14, <3>2, <4>1, <4>2, <4>3
        <4> QED
          BY <1>8, <4>4
      <3>4. Back(t) \/ Descents(t)' \subseteq Descents(t)
        <4> SUFFICES ASSUME ~ Back(t), log[t] # << >> PROVE log[t][Len(log[t])] <= b + 1
          BY <1>9
        <4>1. Comes(b + 1, t)
          <5>1. b + 1 \in ToSet(batches[link][t])
            BY <1>7, <3>1
          <5> QED
            BY <1>8, <3>2, <5>1 DEF Comes
        <4>2. log[t][Len(log[t])] \in Nat
          BY <1>8, LastTaken DEF OrderInv
        <4> QED
          BY <4>1, <4>2 DEF Back
      <3> QED
        BY <1>1, <2>2, <2>3, <3>3, <3>4, OrderGoesOn DEF OrderInv
    <2> QED
      BY <2>4, <2>5
  <1> QED
    BY <1>10, <1>11, <1>15, <1>16 DEF OrderInv

\* At first nothing is stored and nobody is late.
LEMMA OrderInit == IngestInit => OrderInv
  <1> SUFFICES ASSUME IngestInit PROVE OrderInv
    OBVIOUS
  <1>1. StoredTaken
    BY DEF IngestInit, StoredTaken, Stored, ToSet
  <1>2. LiveLeft
    BY DEF IngestInit, LiveLeft
  <1>3. ASSUME NEW t \in Topics PROVE OrderBudget(t)
    <2>1. log[t] = << >>
      BY DEF IngestInit
    <2>2. ~ Back(t) /\ Descents(t) = {}
      BY <2>1 DEF Back, Descents
    <2>3. Late(t) = {}
      <3>1. ASSUME NEW c \in Conns PROVE ~ IsLate(c, t)
        <4>1. sock[c] = "closed" /\ batches[c][t] = << >>
          BY DEF IngestInit, Nothing
        <4> QED
          BY <4>1, NotCarried DEF IsLate
      <3> QED
        BY <3>1 DEF Late
    <2>4. faults = 0
      BY DEF IngestInit
    <2> QED
      BY <2>2, <2>3, <2>4, FS_EmptySet DEF OrderBudget
  <1> QED
    BY <1>1, <1>2, <1>3 DEF OrderInv

\* Every step stays within the budget.
LEMMA OrderNext ==
  ASSUME IngestTypeOK, StreamInv, CopyInv, IngestTypeOK', StreamInv', Clean', OrderInv,
         [IngestNext]_ingestVars
  PROVE  OrderInv'
  <1>1. CASE UNCHANGED ingestVars
    <2>1. /\ \A d \in Conns : SameConn(d)
          /\ UNCHANGED <<taken, aged, link, waits, sent, Deleted, Span, toDevice, log, faults>>
      BY <1>1 DEF ingestVars, deviceVars, serverVars, SameConn, Deleted, Span
    <2>2. taken' \in Nat /\ taken <= taken' /\ aged' \in Nat /\ aged <= aged'
      BY <2>1, FlashIs
    <2> QED
      BY <2>1, <2>2, OrderStays
  <1>2. CASE TakeRecord \/ Age \/ Connect \/ GetReply \/ GetRejected \/ LoseLink \/ SeeClose
             \/ (\E n \in 1 .. MaxPacket : SendPacket(n)) \/ Shutdown \/ Exit
    BY <1>2, OrderTake, OrderConnect, OrderReply, OrderHangUp, OrderSend, OrderShutdown, OrderExit
  <1>3. ASSUME NEW c \in Conns,
               \/ \E i \in 1 .. Len(toServer[c]), u \in Garbage : Damage(c, i, u)
               \/ \E n \in 1 .. Len(toServer[c]) : Receive(c, n)
               \/ Handle(c)
               \/ \E t \in Topics : StoreBatch(c, t)
               \/ Published(c) \/ PublishFails(c)
               \/ IdleTimeout(c) \/ PeerGone(c)
        PROVE  OrderInv'
    <2>1. ~ \E i \in 1 .. Len(toServer[c]), u \in Garbage : Damage(c, i, u)
      BY FlashIs DEF Damage, Fault, Clean
    <2>2. Handle(c) => OrderInv'
      BY OrderImei, OrderPacket, StreamRefuses DEF Handle
    <2> QED
      BY <1>3, <2>1, <2>2, OrderReceive, OrderStore, OrderPublished, OrderDrops
  <1> QED
    BY <1>1, <1>2, <1>3 DEF IngestNext

\* The budget holds as long as no unit can have been damaged.
LEMMA OrderAlways == IngestSpec => [](IngestTypeOK /\ (Clean => OrderInv))
  <1>1. IngestInit => (Clean => OrderInv)
    BY OrderInit
  <1>2. /\ IngestTypeOK /\ (Clean => StreamInv /\ CopyInv)
        /\ (IngestTypeOK /\ (Clean => StreamInv /\ CopyInv))'
        /\ (Clean => OrderInv) /\ [IngestNext]_ingestVars
        => (Clean => OrderInv)'
    <2> SUFFICES ASSUME IngestTypeOK, Clean => StreamInv /\ CopyInv,
                        IngestTypeOK', (Clean => StreamInv /\ CopyInv)',
                        Clean => OrderInv, [IngestNext]_ingestVars, Clean'
                 PROVE  OrderInv'
      OBVIOUS
    <2>1. Clean
      BY FaultsGrow, FlashIs DEF Clean
    <2>2. StreamInv'
      OBVIOUS
    <2> QED
      BY <2>1, <2>2, OrderNext
  <1> QED
    BY <1>1, <1>2, CopyAlways, PTL DEF IngestSpec

\* The records of a device stay in order on a topic (client.ts sends them under one
\* partition key, and handlePacket keeps the packet's order), but for failures: each
\* takes a topic back at most twice - provided that what arrives is what was sent.
THEOREM OrderIsForFailures ==
  ASSUME Garbage = {} PROVE IngestSpec => []TopicsStayInOrder
  <1>1. IngestTypeOK /\ (Clean => OrderInv) => TopicsStayInOrder
    <2> SUFFICES ASSUME IngestTypeOK, OrderInv, NEW t \in Topics
                 PROVE  Cardinality(Descents(t)) <= 2 * faults
      BY DEF Clean, TopicsStayInOrder, Descents
    <2>1. PICK D \in Nat, L \in Nat : D = Cardinality(Descents(t)) /\ L = Cardinality(Late(t))
      BY DescentsFinite, FS_CardinalityType DEF OrderInv, OrderBudget
    <2>2. D + 2 * L + (IF Back(t) THEN 1 ELSE 0) <= 2 * faults /\ faults \in Nat
      BY <2>1, FlashIs DEF OrderInv, OrderBudget
    <2> QED
      BY <2>1, <2>2
  <1> QED
    BY <1>1, OrderAlways, PTL
=============================================================================
