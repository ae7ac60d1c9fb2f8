--------------------------- MODULE TelemetryIngest ---------------------------
(***************************************************************************)
(* One device and the ingest server (apps/telemetry-ingest): connections,  *)
(* stop-and-wait packets, the publish to Kafka and the acknowledgement     *)
(* that lets the device forget.  Connections of different devices share    *)
(* nothing but the producer, so one device is enough; it may leave         *)
(* connections behind whose handlers still publish.                        *)
(*                                                                         *)
(* A record is the place it has in the order the device took its records.  *)
(* The device, the network and the broker are outside the repository and   *)
(* behave as server.ts, ack.ts and docs/TELEMETRY.md rely on.              *)
(***************************************************************************)
EXTENDS TeltonikaFramer, FiniteSets

CONSTANTS
  Conns,       \* connections (reused once their handler has ended)
  NoConn,
  MaxRecords,  \* bound: records the device takes
  MaxPacket,   \* bound: records in one packet
  MaxFaults,   \* bound: failures of the network, the broker and the server
  Garbage      \* bound: what a damaged unit can read as

ASSUME IngestAssumption ==
  /\ NoConn \notin Conns
  /\ MaxRecords \in Nat /\ MaxPacket \in Nat \ {0} /\ MaxFaults \in Nat
  /\ Garbage \subseteq Nat
  /\ MaxPacket + 6 <= MaxFrame  \* a packet is far smaller than maxFrameBytes

VARIABLES
  \* the device
  taken,     \* records taken so far
  flash,     \* those it still keeps, in order
  link,      \* the connection it uses
  waits,     \* what it waits for before it sends again
  sent,      \* records in its last packet
  \* the network: units on their way to the server, replies to the device
  toServer,
  toDevice,
  \* the server, per connection
  sock,      \* the socket
  framer,
  todo,      \* events of the chunk in hand
  batches,   \* what the publish in progress has not stored yet, per topic
  count,     \* records of the packet being published, or NotPublishing
  listening,
  \* Kafka and time
  log,       \* per topic, the device's partition
  aged,      \* records 1 .. aged are older than the backfill threshold
  faults     \* failures so far

deviceVars == <<taken, flash, link, waits, sent>>
serverVars == <<sock, framer, todo, batches, count, listening>>
ingestVars == <<deviceVars, toServer, toDevice, serverVars, log, aged, faults>>

Records == 1 .. MaxRecords
Topics  == {"live", "backfill"}
NotPublishing == 0 - 1
Nothing == [t \in Topics |-> << >>]
Accept  == 0 - 1    \* buildImeiAck(true); record acks are counts
Reject  == 0 - 2    \* buildImeiAck(false)

IngestTypeOK ==
  /\ taken \in 0 .. MaxRecords /\ aged \in 0 .. taken /\ faults \in 0 .. MaxFaults
  /\ flash \in Seq(Records) /\ Len(flash) <= taken
  /\ link \in Conns \cup {NoConn}
  /\ waits \in {"nothing", "imei", "ack"} /\ sent \in 0 .. MaxPacket
  /\ toServer \in [Conns -> Seq(Nat)]
  /\ toDevice \in [Conns -> Seq({Accept, Reject} \cup Nat)]
  /\ sock \in [Conns -> {"closed", "open", "ended"}]
  /\ framer \in [Conns -> Framers]
  /\ todo \in [Conns -> Seq([type : {"imei", "packet", "bad-crc"} \cup Failures,
                             records : Seq(Nat)])]
  /\ batches \in [Conns -> [Topics -> Seq(Nat)]]
  /\ count \in [Conns -> Nat \cup {NotPublishing}]
  /\ listening \in BOOLEAN
  /\ log \in [Topics -> Seq(Nat)]

IngestInit ==
  /\ taken = 0 /\ flash = << >> /\ link = NoConn /\ waits = "nothing" /\ sent = 0
  /\ toServer = [c \in Conns |-> << >>]
  /\ toDevice = [c \in Conns |-> << >>]
  /\ sock = [c \in Conns |-> "closed"]
  /\ framer = [c \in Conns |-> NewFramer]
  /\ todo = [c \in Conns |-> << >>]
  /\ batches = [c \in Conns |-> Nothing]
  /\ count = [c \in Conns |-> NotPublishing]
  /\ listening = TRUE
  /\ log = [t \in Topics |-> << >>]
  /\ aged = 0 /\ faults = 0

Publishing(c) == count[c] # NotPublishing

\* The server runs the events of a chunk to the next await before it turns to
\* anything else.
ServerBusy == \E c \in Conns : todo[c] # << >> /\ ~ Publishing(c)

Fault == faults < MaxFaults /\ faults' = faults + 1

-----------------------------------------------------------------------------
(* The device.                                                             *)

TakeRecord ==
  /\ taken < MaxRecords
  /\ taken' = taken + 1
  /\ flash' = Append(flash, taken + 1)
  /\ UNCHANGED <<link, waits, sent, toServer, toDevice, serverVars, log, aged, faults>>

\* Time passes: the oldest recent record crosses the backfill threshold.
Age ==
  /\ aged < taken
  /\ aged' = aged + 1
  /\ UNCHANGED <<deviceVars, toServer, toDevice, serverVars, log, faults>>

\* A new socket; which of the free names it gets does not matter.
Free(c) == sock[c] = "closed" /\ ~ Publishing(c)

Connect ==
  /\ link = NoConn /\ listening
  /\ \E c \in Conns : Free(c)
  /\ LET c == CHOOSE x \in Conns : Free(x) IN
       /\ link' = c
       /\ toServer' = [toServer EXCEPT ![c] = HandshakeFrame]
       /\ sock' = [sock EXCEPT ![c] = "open"]
       /\ framer' = [framer EXCEPT ![c] = NewFramer]
  /\ waits' = "imei"
  /\ UNCHANGED <<taken, flash, sent, toDevice, todo, batches, count, listening, log, aged, faults>>

\* Stop and wait: the next packet goes out when the last one was answered.
SendPacket(n) ==
  /\ link # NoConn /\ waits = "nothing"
  /\ n <= Len(flash)
  /\ sent' = n /\ waits' = "ack"
  /\ toServer' = [toServer EXCEPT ![link] = @ \o AvlFrame(SubSeq(flash, 1, n))]
  /\ UNCHANGED <<taken, flash, link, toDevice, serverVars, log, aged, faults>>

HangUp ==
  /\ link' = NoConn /\ waits' = "nothing"
  /\ toDevice' = [toDevice EXCEPT ![link] = << >>]
  /\ UNCHANGED <<taken, flash, sent, toServer, serverVars, log, aged>>

\* The device deletes acknowledged records; zero means send again.
GetReply ==
  /\ link # NoConn /\ toDevice[link] # << >>
  /\ Head(toDevice[link]) # Reject
  /\ toDevice' = [toDevice EXCEPT ![link] = Tail(@)]
  /\ flash' = IF waits = "ack" /\ Head(toDevice[link]) = sent
                THEN SubSeq(flash, sent + 1, Len(flash))
                ELSE flash
  /\ waits' = "nothing"
  /\ UNCHANGED <<taken, link, sent, toServer, serverVars, log, aged, faults>>

GetRejected ==
  /\ link # NoConn /\ toDevice[link] # << >> /\ Head(toDevice[link]) = Reject
  /\ HangUp
  /\ UNCHANGED faults

\* Coverage is lost, or the device sees that the server closed.
LoseLink == link # NoConn /\ sock[link] = "open" /\ Fault /\ HangUp
SeeClose == link # NoConn /\ sock[link] # "open" /\ HangUp /\ UNCHANGED faults

\* A unit is damaged on its way.
Damage(c, i, u) ==
  /\ i \in 1 .. Len(toServer[c]) /\ toServer[c][i] # u
  /\ Fault
  /\ toServer' = [toServer EXCEPT ![c][i] = u]
  /\ UNCHANGED <<deviceVars, toDevice, serverVars, log, aged>>

-----------------------------------------------------------------------------
(* The server.                                                             *)

\* The socket is gone: what was not read is lost, and what is left of the chunk
\* in hand is not handled any more.
Unread(c) ==
  /\ toServer' = [toServer EXCEPT ![c] = << >>]
  /\ framer' = [framer EXCEPT ![c] = NewFramer]
  /\ todo' = [todo EXCEPT ![c] = << >>]

Destroy(c) == sock' = [sock EXCEPT ![c] = "closed"] /\ Unread(c)

\* socket.write: bytes for a device that has gone are lost, and writing behind
\* end() destroys the socket.
Write(c, reply) ==
  /\ toDevice' = IF sock[c] = "open" /\ link = c
                   THEN [toDevice EXCEPT ![c] = Append(@, reply)] ELSE toDevice
  /\ IF sock[c] = "open" THEN UNCHANGED <<sock, toServer, framer>> ELSE Destroy(c)

\* Mutant: the data handler forgets the units that do not complete a frame.
ReceiveWithoutBuffer(c, n) ==
  /\ ~ ServerBusy
  /\ sock[c] # "closed" /\ ~ Publishing(c)
  /\ n <= Len(toServer[c])
  /\ LET push == Push(framer[c], SubSeq(toServer[c], 1, n)) IN
       /\ framer' = [framer EXCEPT ![c] = [push.framer EXCEPT !.buffer = << >>]]
       /\ todo' = [todo EXCEPT ![c] = push.events]
  /\ toServer' = [toServer EXCEPT ![c] = SubSeq(@, n + 1, Len(@))]
  /\ UNCHANGED <<deviceVars, toDevice, sock, batches, count, listening, log, aged, faults>>

\* on('data'): the socket is paused until the chunk is dealt with.
Receive(c, n) ==
  /\ ~ ServerBusy
  /\ sock[c] # "closed" /\ ~ Publishing(c)
  /\ n <= Len(toServer[c])
  /\ LET push == Push(framer[c], SubSeq(toServer[c], 1, n)) IN
       /\ framer' = [framer EXCEPT ![c] = push.framer]
       /\ todo' = [todo EXCEPT ![c] = push.events]
  /\ toServer' = [toServer EXCEPT ![c] = SubSeq(@, n + 1, Len(@))]
  /\ UNCHANGED <<deviceVars, toDevice, sock, batches, count, listening, log, aged, faults>>

NextEvent(c, type) ==
  /\ ~ Publishing(c) /\ todo[c] # << >>
  /\ Head(todo[c]).type = type

HandleImei(c) ==
  /\ NextEvent(c, "imei")
  /\ Write(c, Accept)
  /\ sock[c] = "open" => todo' = [todo EXCEPT ![c] = Tail(@)]
  /\ UNCHANGED <<deviceVars, batches, count, listening, log, aged, faults>>

\* Corrupted in transit: acknowledging no record asks for the packet again.
HandleBadCrc(c) ==
  /\ NextEvent(c, "bad-crc")
  /\ Write(c, 0)
  /\ sock[c] = "open" => todo' = [todo EXCEPT ![c] = Tail(@)]
  /\ UNCHANGED <<deviceVars, batches, count, listening, log, aged, faults>>

\* classifyFreshness against the arrival clock, fixed when the packet is read.
Freshness(r) == IF r <= aged THEN "backfill" ELSE "live"

\* The messages of topic t, in the order of the packet.
Batch(records, t) ==
  LET places == {i \in DOMAIN records : Freshness(records[i]) = t}
      Nth(k) == CHOOSE i \in places : Cardinality({j \in places : j <= i}) = k
  IN  [k \in 1 .. Cardinality(places) |-> records[Nth(k)]]

\* Mutant: the packet is acknowledged as soon as its publish has begun.
HandlePacketAckFirst(c) ==
  /\ NextEvent(c, "packet")
  /\ LET records == Head(todo[c]).records IN
       /\ batches' = [batches EXCEPT ![c] =
            [t \in Topics |-> Batch(records, t)]]
       /\ count' = [count EXCEPT ![c] = Len(records)]
       /\ Write(c, Len(records))
  /\ sock[c] = "open" => todo' = [todo EXCEPT ![c] = Tail(@)]
  /\ UNCHANGED <<deviceVars, listening, log, aged, faults>>

\* Mutant: the count acknowledged is that of the live topic's batch.
HandlePacketCountsLive(c) ==
  /\ NextEvent(c, "packet")
  /\ LET records == Head(todo[c]).records IN
       /\ batches' = [batches EXCEPT ![c] =
            [t \in Topics |-> Batch(records, t)]]
       /\ count' = [count EXCEPT ![c] = Len(SelectSeq(records, LAMBDA r : r > aged))]
  /\ todo' = [todo EXCEPT ![c] = Tail(@)]
  /\ UNCHANGED <<deviceVars, toServer, toDevice, sock, framer, listening, log, aged, faults>>

\* Mutant: each topic's batch is built from its end.
HandlePacketNewestFirst(c) ==
  /\ NextEvent(c, "packet")
  /\ LET records == Reverse(Head(todo[c]).records) IN
       /\ batches' = [batches EXCEPT ![c] =
            [t \in Topics |-> Batch(records, t)]]
       /\ count' = [count EXCEPT ![c] = Len(records)]
  /\ todo' = [todo EXCEPT ![c] = Tail(@)]
  /\ UNCHANGED <<deviceVars, toServer, toDevice, sock, framer, listening, log, aged, faults>>

\* handlePacket up to the await of the publish, with one batch per topic.
HandlePacket(c) ==
  /\ NextEvent(c, "packet")
  /\ LET records == Head(todo[c]).records IN
       /\ batches' = [batches EXCEPT ![c] =
            [t \in Topics |-> Batch(records, t)]]
       /\ count' = [count EXCEPT ![c] = Len(records)]
  /\ todo' = [todo EXCEPT ![c] = Tail(@)]
  /\ UNCHANGED <<deviceVars, toServer, toDevice, sock, framer, listening, log, aged, faults>>

\* The framer gave up on the stream: drop the connection, after telling the
\* device when its handshake was not valid.
HandleError(c) ==
  /\ \E reason \in Failures :
       /\ NextEvent(c, reason)
       /\ toDevice' = IF reason = "invalid-imei" /\ sock[c] = "open" /\ link = c
                        THEN [toDevice EXCEPT ![c] = Append(@, Reject)] ELSE toDevice
  /\ Destroy(c)
  /\ UNCHANGED <<deviceVars, batches, count, listening, log, aged, faults>>

\* The broker stores the messages of one topic; the two are not one write.
StoreBatch(c, t) ==
  /\ batches[c][t] # << >>
  /\ log' = [log EXCEPT ![t] = @ \o batches[c][t]]
  /\ batches' = [batches EXCEPT ![c][t] = << >>]
  /\ UNCHANGED <<deviceVars, toServer, toDevice, sock, framer, todo, count, listening, aged, faults>>

\* Mutant: the packet's length is taken for its count, and the framing taken off it.
PublishedLessFraming(c) ==
  /\ ~ ServerBusy
  /\ Publishing(c) /\ batches[c] = Nothing
  /\ count' = [count EXCEPT ![c] = NotPublishing]
  /\ Write(c, count[c] - 6)
  /\ sock[c] = "open" => UNCHANGED todo
  /\ UNCHANGED <<deviceVars, batches, listening, log, aged, faults>>

\* The publish resolved: acknowledge as many records as the packet had.
Published(c) ==
  /\ ~ ServerBusy
  /\ Publishing(c) /\ batches[c] = Nothing
  /\ count' = [count EXCEPT ![c] = NotPublishing]
  /\ Write(c, count[c])
  /\ sock[c] = "open" => UNCHANGED todo
  /\ UNCHANGED <<deviceVars, batches, listening, log, aged, faults>>

\* The publish failed, with none, some or all of it stored: no acknowledgement.
PublishFails(c) ==
  /\ ~ ServerBusy
  /\ Publishing(c) /\ Fault
  /\ Destroy(c)
  /\ count' = [count EXCEPT ![c] = NotPublishing]
  /\ batches' = [batches EXCEPT ![c] = Nothing]
  /\ UNCHANGED <<deviceVars, toDevice, listening, log, aged>>

\* Both sides wait for the other: a frame whose length was damaged.
Silent(c) ==
  /\ link = c /\ waits # "nothing"
  /\ toServer[c] = << >> /\ toDevice[c] = << >>
  /\ ~ Publishing(c) /\ todo[c] = << >>

\* Mutant: the timeout is only logged; Node does not close the socket by itself.
IdleTimeoutOnlyLogs(c) ==
  /\ link = c /\ sock[c] = "open"
  /\ UNCHANGED ingestVars

\* on('timeout'), which does not wait for a publish in progress.
IdleTimeout(c) ==
  /\ ~ ServerBusy
  /\ link = c /\ sock[c] = "open"
  /\ IF Silent(c) THEN UNCHANGED faults ELSE Fault
  /\ Destroy(c)
  /\ UNCHANGED <<deviceVars, toDevice, batches, count, listening, log, aged>>

\* on('close'): the server notices that the device has gone, in time or by the
\* idle timer.
PeerGone(c) ==
  /\ ~ ServerBusy
  /\ link # c /\ sock[c] # "closed"
  /\ Destroy(c)
  /\ UNCHANGED <<deviceVars, toDevice, batches, count, listening, log, aged, faults>>

\* shutdown: no new connections, end() on those there are.
Shutdown ==
  /\ ~ ServerBusy
  /\ listening /\ Fault
  /\ listening' = FALSE
  /\ sock' = [c \in Conns |-> IF sock[c] = "open" THEN "ended" ELSE sock[c]]
  /\ UNCHANGED <<deviceVars, toServer, toDevice, framer, todo, batches, count, log, aged>>

\* The process ends - after a shutdown, by its hard exit, or by a crash - and
\* another takes its place.
Exit ==
  /\ IF listening THEN Fault ELSE UNCHANGED faults
  /\ listening' = TRUE
  /\ sock' = [c \in Conns |-> "closed"]
  /\ todo' = [c \in Conns |-> << >>]
  /\ toServer' = [c \in Conns |-> << >>]
  /\ framer' = [c \in Conns |-> NewFramer]
  /\ count' = [c \in Conns |-> NotPublishing]
  /\ batches' = [c \in Conns |-> Nothing]
  /\ UNCHANGED <<deviceVars, toDevice, log, aged>>

-----------------------------------------------------------------------------

Handle(c) == HandleImei(c) \/ HandleBadCrc(c) \/ HandlePacket(c) \/ HandleError(c)

IngestNext ==
  \/ TakeRecord \/ Age \/ Connect \/ GetReply \/ GetRejected \/ LoseLink \/ SeeClose
  \/ \E n \in 1 .. MaxPacket : SendPacket(n)
  \/ Shutdown \/ Exit
  \/ \E c \in Conns :
       \/ \E i \in 1 .. Len(toServer[c]), u \in Garbage : Damage(c, i, u)
       \/ \E n \in 1 .. Len(toServer[c]) : Receive(c, n)
       \/ Handle(c)
       \/ \E t \in Topics : StoreBatch(c, t)
       \/ Published(c) \/ PublishFails(c)
       \/ IdleTimeout(c) \/ PeerGone(c)

IngestSpec == IngestInit /\ [][IngestNext]_ingestVars

-----------------------------------------------------------------------------
(* What the connection promises.                                           *)

Kept   == ToSet(flash)
Stored == UNION {ToSet(log[t]) : t \in Topics}

\* The acknowledgement is a durability promise: a record the device has deleted
\* is stored, whatever was lost, repeated or restarted on the way (server.ts:32).
AckedIsDurable == \A r \in 1 .. taken : r \in Kept \/ r \in Stored

Copies(r) ==
  Cardinality(UNION {{t} \X {i \in DOMAIN log[t] : log[t][i] = r} : t \in Topics})

\* A record is stored again only on account of a failure: without one, delivery
\* is exactly once.
CopiesAreRetries == \A r \in Records : Copies(r) <= 1 + faults

\* The records of a device stay in order on a topic (client.ts:91-93), but for
\* failures: what the connection that failed stores late, or the next one again,
\* can be older than what is before it, and newer than what comes behind it.
TopicsStayInOrder ==
  \A t \in Topics :
    Cardinality({i \in DOMAIN log[t] : i > 1 /\ log[t][i - 1] > log[t][i]}) <= 2 * faults

\* However a healthy stream is cut into chunks, the framer reads it
\* (framer.ts:15): no packet is refused and no connection is dropped.
HealthyStreamsAreRead ==
  faults = 0 => \A c \in Conns :
    /\ framer[c].state # "failed"
    /\ \A i \in DOMAIN todo[c] : todo[c][i].type \in {"imei", "packet"}

\* Ingest is the inbox: resends, late publishes and restarts are stutters.
Inbox == INSTANCE DeviceInbox WITH kept <- Kept, stored <- Stored
ImplementsInbox == Inbox!InboxSpec

-----------------------------------------------------------------------------
(* Fairness.  As long as something is due, something is done: the device    *)
(* sends, reads and reconnects, the event loop of the server runs its      *)
(* callbacks, the idle timer included, a publish ends, since kafkajs       *)
(* bounds its retries, and a process that shuts down exits and is          *)
(* replaced.  Nothing is assumed of time, new records and failures.        *)

Due ==
  \/ Connect \/ GetReply \/ GetRejected \/ SeeClose
  \/ \E n \in 1 .. MaxPacket : SendPacket(n)
  \/ ~ listening /\ Exit
  \/ \E c \in Conns :
       \/ PeerGone(c)
       \/ Published(c)
       \/ \E t \in Topics : StoreBatch(c, t)
       \/ Handle(c)
       \/ Silent(c) /\ IdleTimeout(c)
       \/ \E n \in 1 .. Len(toServer[c]) : Receive(c, n)

FairIngestSpec == IngestSpec /\ WF_ingestVars(Due)

\* Failures only delay: whenever the device has records, all it has taken are
\* stored and deleted in the end (docs/TELEMETRY.md:29).
EveryRecordArrives == Kept # {} ~> Kept = {} /\ 1 .. taken \subseteq Stored

=============================================================================
