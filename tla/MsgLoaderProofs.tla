--------------------------- MODULE MsgLoaderProofs ---------------------------
(***************************************************************************)
(* Proofs about MsgLoader: for any number of messages, stream errors,      *)
(* deletions and restarts the processor gets the messages in order, at     *)
(* most once, and none is skipped but behind the very first.               *)
(***************************************************************************)
EXTENDS MsgLoader, TLAPS

-----------------------------------------------------------------------------
(* The inductive invariant. *)

\* While nothing was deleted the consumer is never past the message after the
\* last one, so a message that is read and not recognised is the next one.
CursorFollows == logStart = 0 => cursor <= last + 1

IInv == TypeOK /\ InOrder /\ NothingSkipped /\ CursorFollows

\* Everything handed to the processor is a sequence of offsets, and each was
\* either received or is in the channel.
LEMMA HandedType ==
  ASSUME TypeOK
  PROVE  /\ Handed \in Seq(Offsets) /\ Len(Handed) = Len(received) + Len(msgq)
         /\ Range(Handed) = Range(received) \cup Range(msgq)
<1>1. received \in Seq(Offsets) /\ msgq \in Seq(Offsets)  BY DEF TypeOK
<1>2. Handed \in Seq(Offsets) /\ Len(Handed) = Len(received) + Len(msgq)
  BY <1>1 DEF Handed
<1>3. \A i \in 1 .. Len(received) : Handed[i] = received[i]  BY <1>1 DEF Handed
<1>4. \A i \in 1 .. Len(msgq) : Handed[Len(received) + i] = msgq[i]  BY <1>1 DEF Handed
<1>5. Range(Handed) = Range(received) \cup Range(msgq)
  <2>1. ASSUME NEW o \in Range(Handed)
        PROVE  o \in Range(received) \cup Range(msgq)
    <3>1. PICK i \in 1 .. Len(received) + Len(msgq) : o = Handed[i]
      BY <2>1, <1>1, <1>2 DEF Range
    <3>2. CASE i <= Len(received)  BY <3>1, <3>2, <1>1, <1>3 DEF Range
    <3>3. CASE i > Len(received)
      <4>1. i - Len(received) \in 1 .. Len(msgq)  BY <3>1, <3>3, <1>1
      <4>2. o = msgq[i - Len(received)]  BY <4>1, <3>1, <1>1, <1>4
      <4> QED BY <4>1, <4>2, <1>1 DEF Range
    <3> QED BY <3>1, <3>2, <3>3, <1>1
  <2>2. ASSUME NEW o \in Range(received)
        PROVE  o \in Range(Handed)
    <3>1. PICK i \in 1 .. Len(received) : o = received[i]  BY <2>2, <1>1 DEF Range
    <3> QED BY <3>1, <1>1, <1>2, <1>3 DEF Range
  <2>3. ASSUME NEW o \in Range(msgq)
        PROVE  o \in Range(Handed)
    <3>1. PICK i \in 1 .. Len(msgq) : o = msgq[i]  BY <2>3, <1>1 DEF Range
    <3>2. Len(received) + i \in DOMAIN Handed  BY <3>1, <1>1, <1>2
    <3>3. Handed[Len(received) + i] = o  BY <3>1, <1>4
    <3> QED BY <3>2, <3>3 DEF Range
  <2> QED BY <2>1, <2>2, <2>3
<1> QED BY <1>2, <1>5

\* The last offset looked at is published, unless there is none.
LEMMA LastType ==
  ASSUME TypeOK
  PROVE  Len(topic) \in Nat /\ last \in Int /\ last >= -1 /\ last < Len(topic)
<1>1. Len(topic) \in Nat  BY DEF TypeOK
<1> QED BY <1>1 DEF TypeOK, Offsets, NoOffset

\* No offset is looked at for the first time, and the thread is as before, is
\* shut down, or ends at a hole that retention made.
Calm ==
  /\ TypeOK' /\ last' = last /\ Handed' = Handed
  /\ logStart > 0 => logStart' > 0
  /\ \/ loader' = loader
     \/ loader = "up" /\ loader' = "shut down"
     \/ loader = "up" /\ loader' = "offset not continuous" /\ logStart' > 0
  /\ \A o \in Offsets : topic'[o + 1] = topic[o + 1]
  /\ logStart' = 0 => cursor' <= last + 1

\* A calm step keeps the invariant.
LEMMA Undisturbed == IInv /\ Calm => IInv'
<1> SUFFICES ASSUME IInv, Calm PROVE IInv'  OBVIOUS
<1>0. Len(topic) \in Nat /\ last \in Int /\ last >= -1 /\ last < Len(topic)
  BY LastType DEF IInv
<1>1. InOrder'  BY DEF IInv, Calm, InOrder
<1>2. ASSUME NEW o \in Missed'
      PROVE  o \in Missed
  <2>a. last' = last  BY DEF Calm
  <2>b. o \in (0 .. last')  BY <1>2 DEF Missed
  <2>1. o \in 0 .. last /\ o \in Offsets  BY <1>0, <2>a, <2>b DEF Offsets
  <2>2. topic'[o + 1] = topic[o + 1]  BY <2>1 DEF Calm
  <2>3. o \notin Range(Handed)  BY <1>2 DEF Missed, Calm
  <2>4. loader = "send failed" => o # last  BY <1>2 DEF Missed, Calm
  <2> QED BY <1>2, <2>1, <2>2, <2>3, <2>4 DEF Missed, Kind
<1>3. NothingSkipped'
  BY <1>2 DEF IInv, Calm, NothingSkipped
<1> QED BY <1>1, <1>3 DEF IInv, Calm, CursorFollows

\* A new message keeps the types.
LEMMA TypePublish ==
  ASSUME TypeOK, NEW kind \in Kinds, Publish(kind), UNCHANGED receiverUp
  PROVE  TypeOK'
<1>1. topic \in Seq(Kinds)  BY DEF TypeOK
<1>2. topic' \in Seq(Kinds) /\ Len(topic') = Len(topic) + 1  BY <1>1 DEF Publish
<1>3. Offsets \subseteq Offsets'  BY <1>1, <1>2 DEF Offsets
<1>4. msgq' \in Seq(Offsets') /\ received' \in Seq(Offsets')
  BY <1>3 DEF TypeOK, Publish
<1>5. logStart' \in 0 .. Len(topic') /\ cursor' \in 0 .. Len(topic')
  BY <1>1, <1>2 DEF TypeOK, Publish
<1>6. last' \in Offsets' \cup {NoOffset}
  BY <1>3 DEF TypeOK, Publish, threadVars
<1> QED BY <1>2, <1>4, <1>5, <1>6 DEF TypeOK, Publish, threadVars, faultVars

\* Deleting messages and resetting the consumer keep the types.
LEMMA TypeTopic ==
  ASSUME TypeOK, Expire \/ ResetPosition, UNCHANGED receiverUp
  PROVE  TypeOK'
<1>1. Len(topic) \in Nat  BY DEF TypeOK
<1>2. CASE Expire
  BY <1>1, <1>2 DEF TypeOK, Expire, Offsets, threadVars, faultVars
<1>3. CASE ResetPosition
  BY <1>1, <1>3 DEF TypeOK, ResetPosition, Offsets, threadVars, faultVars
<1> QED BY <1>2, <1>3

\* The position assigned for a last offset lies in the topic.
LEMMA AssignedType ==
  ASSUME TypeOK, NEW offset \in Offsets \cup {NoOffset}
  PROVE  /\ Assigned(offset) \in 0 .. Len(topic)
         /\ logStart = 0 => Assigned(offset) <= offset + 1
<1>1. Len(topic) \in Nat /\ logStart \in 0 .. Len(topic)  BY DEF TypeOK
<1> QED BY <1>1 DEF Assigned, Offsets, NoOffset

\* A stream error and a shutdown keep the types.
LEMMA TypeThread ==
  ASSUME TypeOK, StreamError \/ Shutdown, UNCHANGED receiverUp
  PROVE  TypeOK'
<1>1. Len(topic) \in Nat  BY DEF TypeOK
<1>2. CASE StreamError
  <2>1. cursor' \in 0 .. Len(topic)  BY <1>2, AssignedType DEF TypeOK, StreamError
  <2>2. errors' \in 0 .. MaxErrors
    BY <1>2, LoaderAssumption DEF TypeOK, StreamError
  <2> QED BY <2>1, <2>2, <1>2 DEF TypeOK, StreamError, Offsets, threadVars
<1>3. CASE Shutdown
  BY <1>3 DEF TypeOK, Shutdown, Offsets, LoaderEnds, faultVars
<1> QED BY <1>2, <1>3

\* Looking at a message keeps the types.
LEMMA TypeOnMessage ==
  ASSUME TypeOK, OnMessage, UNCHANGED receiverUp
  PROVE  TypeOK'
<1>1. Len(topic) \in Nat /\ Offsets' = Offsets
  BY DEF TypeOK, OnMessage, Consume, Offsets
<1>2. cursor \in Offsets /\ cursor' \in 0 .. Len(topic)
  BY <1>1 DEF TypeOK, OnMessage, Stored, Consume, Offsets
<1>3. last' \in Offsets \cup {NoOffset} /\ loader' \in LoaderEnds /\ msgq' \in Seq(Offsets)
  <2>1. last \in Offsets \cup {NoOffset} /\ loader \in LoaderEnds /\ msgq \in Seq(Offsets)
    BY DEF TypeOK
  <2>2. CASE SkipRewound(cursor)  BY <2>1, <2>2 DEF SkipRewound
  <2>3. CASE PanicOnGap(cursor)  BY <2>1, <2>3 DEF PanicOnGap, LoaderEnds
  <2>4. CASE SkipUnknown(cursor)  BY <1>2, <2>1, <2>4 DEF SkipUnknown
  <2>5. CASE Send(cursor)  BY <1>2, <2>1, <2>5 DEF Send
  <2>6. CASE PanicOnSend(cursor)  BY <1>2, <2>1, <2>6 DEF PanicOnSend, LoaderEnds
  <2> QED BY <2>2, <2>3, <2>4, <2>5, <2>6 DEF OnMessage
<1>4. topic' \in Seq(Kinds) /\ logStart' \in 0 .. Len(topic')
  BY DEF TypeOK, OnMessage, Consume
<1>5. received' \in Seq(Offsets') /\ earliest' \in BOOLEAN /\ receiverUp' \in BOOLEAN
  BY <1>1 DEF TypeOK, OnMessage, Consume
<1>6. errors' \in 0 .. MaxErrors /\ restarts' \in 0 .. MaxRestarts
  BY DEF TypeOK, OnMessage, Consume, faultVars
<1>7. cursor' \in 0 .. Len(topic')  BY <1>2 DEF OnMessage, Consume
<1> QED BY <1>1, <1>3, <1>4, <1>5, <1>6, <1>7 DEF TypeOK

\* The processor moves messages from the channel to its state; the sequence of
\* both together stays.
LEMMA TypeProcessor ==
  ASSUME TypeOK, (Recv /\ UNCHANGED receiverUp) \/ DropReceiver
  PROVE  TypeOK' /\ Handed' = Handed
<1>1. CASE Recv /\ UNCHANGED receiverUp
  <2>1. msgq \in Seq(Offsets) /\ msgq # <<>> /\ received \in Seq(Offsets)
    BY <1>1 DEF TypeOK, Recv
  <2>2. Head(msgq) \in Offsets /\ Tail(msgq) \in Seq(Offsets)  BY <2>1
  <2>3. msgq' \in Seq(Offsets) /\ received' \in Seq(Offsets)
    BY <1>1, <2>1, <2>2 DEF Recv
  <2>4. TypeOK'
    BY <1>1, <2>3 DEF TypeOK, Recv, Offsets, threadVars, faultVars
  <2>5. Handed' = Handed
    <3>1. msgq = <<Head(msgq)>> \o Tail(msgq)  BY <2>1
    <3>2. Append(received, Head(msgq)) = received \o <<Head(msgq)>>  BY <2>1, <2>2
    <3>3. (received \o <<Head(msgq)>>) \o Tail(msgq) = received \o (<<Head(msgq)>> \o Tail(msgq))
      BY <2>1, <2>2
    <3> QED BY <1>1, <3>1, <3>2, <3>3 DEF Handed, Recv
  <2> QED BY <2>4, <2>5
<1>2. CASE DropReceiver
  BY <1>2 DEF TypeOK, DropReceiver, Handed, Offsets, loaderVars, threadVars, faultVars
<1> QED BY <1>1, <1>2

\* What a restarted node keeps is the part of its state up to the offset.
LEMMA KeptType ==
  ASSUME TypeOK, NEW offset \in Range(received) \cup {NoOffset}, Start(offset)
  PROVE  \E n \in 0 .. Len(received) :
           /\ received' \in Seq(Offsets) /\ Len(received') = n
           /\ \A i \in 1 .. n : received'[i] = received[i]
           /\ n > 0 => received[n] <= offset
           /\ \A i \in n + 1 .. Len(received) : received[i] > offset
<1>1. received \in Seq(Offsets)  BY DEF TypeOK
<1>2. PICK n \in 0 .. Len(received) :
        /\ n > 0 => received[n] <= offset
        /\ \A i \in n + 1 .. Len(received) : received[i] > offset
        /\ received' = SubSeq(received, 1, n)
  BY DEF Start, KeepUpTo
<1>3. received' \in Seq(Offsets) /\ Len(received') = n
      /\ \A i \in 1 .. n : received'[i] = received[i]
  BY <1>1, <1>2
<1> QED BY <1>2, <1>3

\* A restart keeps the types.
LEMMA TypeStart ==
  ASSUME TypeOK, NEW offset \in Range(received) \cup {NoOffset}, Start(offset),
         receiverUp' = TRUE
  PROVE  TypeOK' /\ offset \in Offsets \cup {NoOffset}
<1>1. received \in Seq(Offsets)  BY DEF TypeOK
<1>2. offset \in Offsets \cup {NoOffset}  BY <1>1 DEF Range
<1>3. cursor' \in 0 .. Len(topic)  BY <1>2, AssignedType DEF Start
<1>4. received' \in Seq(Offsets)  BY KeptType
<1>5. restarts' \in 0 .. MaxRestarts
  BY LoaderAssumption DEF TypeOK, Start
<1>6. msgq' \in Seq(Offsets)  BY DEF Start
<1> QED BY <1>2, <1>3, <1>4, <1>5, <1>6 DEF TypeOK, Start, Offsets, LoaderEnds

-----------------------------------------------------------------------------
(* The steps that look at no new offset. *)

\* A new message changes nothing the loader has seen.
LEMMA CalmPublish ==
  ASSUME IInv, NEW kind \in Kinds, Publish(kind), UNCHANGED receiverUp
  PROVE  IInv'
<1>1. TypeOK'  BY TypePublish DEF IInv
<1>2. topic \in Seq(Kinds)  BY DEF IInv, TypeOK
<1>3. \A o \in Offsets : topic'[o + 1] = topic[o + 1]
  BY <1>2 DEF Offsets, Publish
<1>4. Handed' = Handed  BY DEF Publish, Handed
<1>5. Calm
  BY <1>1, <1>3, <1>4 DEF Calm, Publish, threadVars, IInv, CursorFollows
<1> QED BY <1>5, Undisturbed

\* Deleting messages only widens what may be missed; a reset happens only behind
\* a deletion.
LEMMA CalmTopic ==
  ASSUME IInv, Expire \/ ResetPosition, UNCHANGED receiverUp
  PROVE  IInv'
<1>1. TypeOK'  BY TypeTopic DEF IInv
<1>2. logStart \in Nat /\ cursor \in Nat  BY DEF IInv, TypeOK
<1>3. Handed' = Handed  BY DEF Expire, ResetPosition, Handed
<1>4. topic' = topic /\ last' = last /\ loader' = loader /\ logStart' >= logStart /\ logStart' > 0
  BY <1>2 DEF Expire, ResetPosition, threadVars
<1>5. Calm  BY <1>1, <1>2, <1>3, <1>4 DEF Calm
<1> QED BY <1>5, Undisturbed

\* A stream error takes the consumer back, never forward.
LEMMA CalmThread ==
  ASSUME IInv, StreamError \/ Shutdown, UNCHANGED receiverUp
  PROVE  IInv'
<1>1. TypeOK'  BY TypeThread DEF IInv
<1>2. Handed' = Handed  BY DEF StreamError, Shutdown, Handed
<1>3. logStart = 0 => cursor' <= last + 1
  BY AssignedType DEF IInv, TypeOK, CursorFollows, StreamError, Shutdown
<1>4. Calm
  BY <1>1, <1>2, <1>3 DEF Calm, StreamError, Shutdown, threadVars
<1> QED BY <1>4, Undisturbed

\* The processor's steps change nothing of what was handed to it.
LEMMA CalmProcessor ==
  ASSUME IInv, (Recv /\ UNCHANGED receiverUp) \/ DropReceiver
  PROVE  IInv'
<1>1. TypeOK' /\ Handed' = Handed  BY TypeProcessor DEF IInv
<1>2. Calm
  BY <1>1 DEF Calm, Recv, DropReceiver, loaderVars, threadVars, IInv, CursorFollows
<1> QED BY <1>2, Undisturbed

\* A message seen before, and one behind a hole, change no offset; the thread
\* sees a hole only where retention made one.
LEMMA CalmMessage ==
  ASSUME IInv, OnMessage, UNCHANGED receiverUp,
         SkipRewound(cursor) \/ PanicOnGap(cursor)
  PROVE  IInv'
<1>1. TypeOK'  BY TypeOnMessage DEF IInv
<1>2. Handed' = Handed  BY DEF OnMessage, Consume, SkipRewound, PanicOnGap, Handed
<1>3. cursor \in Nat /\ last \in Int /\ logStart \in Nat
  BY LastType DEF IInv, TypeOK
<1>4. topic' = topic /\ logStart' = logStart /\ cursor' = cursor + 1 /\ loader = "up"
  BY DEF OnMessage, Consume
<1>5. CASE SkipRewound(cursor)
  <2>1. last' = last /\ loader' = loader /\ Rewound(cursor)  BY <1>5 DEF SkipRewound
  <2>2. cursor' <= last + 1  BY <1>3, <1>4, <2>1 DEF Rewound
  <2>3. Calm  BY <1>1, <1>2, <1>4, <2>1, <2>2 DEF Calm
  <2> QED BY <2>3, Undisturbed
<1>6. CASE PanicOnGap(cursor)
  <2>1. last' = last /\ loader' = "offset not continuous"  BY <1>6 DEF PanicOnGap
  <2>a. ~(cursor <= last)  BY <1>6 DEF PanicOnGap, Rewound
  <2>b. cursor # last + 1  BY <1>6 DEF PanicOnGap, Gap
  <2>2. cursor > last + 1  BY <1>3, <2>a, <2>b
  <2>3. logStart = 0 => cursor <= last + 1  BY DEF IInv, CursorFollows
  <2>4. logStart > 0  BY <1>3, <2>2, <2>3
  <2>5. ~(logStart' = 0) /\ logStart' > 0  BY <1>3, <1>4, <2>4
  <2>6. \A o \in Offsets : topic'[o + 1] = topic[o + 1]  BY <1>4
  <2>7. Calm  BY <1>1, <1>2, <1>4, <2>1, <2>5, <2>6 DEF Calm
  <2> QED BY <2>7, Undisturbed
<1> QED BY <1>5, <1>6

-----------------------------------------------------------------------------
(* A message that is looked at for the first time. *)

\* What follows the last offset is the next one, unless nothing but the very
\* first message was seen and retention deleted what came behind it.
LEMMA NextOffset ==
  ASSUME IInv, Stored(cursor), ~Rewound(cursor), ~Gap(cursor)
  PROVE  /\ cursor \in Offsets /\ last < cursor
         /\ cursor = last + 1 \/ (last = 0 /\ logStart > 0)
<1>1. Len(topic) \in Nat /\ last \in Int /\ logStart \in Nat /\ cursor \in Nat
  BY LastType DEF IInv, TypeOK
<1> QED BY <1>1 DEF IInv, CursorFollows, Stored, Rewound, Gap, Offsets

\* The offset is stored, and the message is handed on or need not be.
Looked ==
  /\ TypeOK' /\ loader = "up" /\ Stored(cursor) /\ ~Rewound(cursor) /\ ~Gap(cursor)
  /\ topic' = topic /\ logStart' = logStart /\ cursor' = cursor + 1 /\ last' = cursor
  /\ \/ Handed' = Handed /\ Kind(cursor) = "unknown" /\ loader' = "up"
     \/ Handed' = Handed /\ loader' = "send failed"
     \/ Handed' = Append(Handed, cursor) /\ loader' = "up"

\* A message looked at for the first time comes after all handed over before.
LEMMA LookedInOrder ==
  ASSUME IInv, Looked
  PROVE  InOrder'
<1>1. Handed \in Seq(Offsets)  BY HandedType DEF IInv
<1>2. last \in Int /\ cursor \in Offsets /\ last < cursor /\ last' = cursor /\ Len(topic) \in Nat
  BY NextOffset, LastType DEF IInv, Looked
<1>3. \A i \in DOMAIN Handed : Handed[i] \in Int /\ Handed[i] <= last
  BY <1>1 DEF IInv, InOrder, Offsets
<1>4. \A i \in DOMAIN Handed : Handed[i] < cursor
  BY <1>2, <1>3 DEF Offsets
<1>5. \A i, j \in DOMAIN Handed : i < j => Handed[i] < Handed[j]
  BY DEF IInv, InOrder
<1>6. CASE Handed' = Handed
  BY <1>2, <1>3, <1>4, <1>5, <1>6 DEF InOrder, Offsets
<1>7. CASE Handed' = Append(Handed, cursor)
  <2>1. Len(Handed') = Len(Handed) + 1 /\ DOMAIN Handed' = 1 .. Len(Handed) + 1
        /\ \A i \in 1 .. Len(Handed) : Handed'[i] = Handed[i]
    BY <1>1, <1>2, <1>7
  <2>b. Handed'[Len(Handed) + 1] = cursor  BY <1>1, <1>2, <1>7
  <2>2. DOMAIN Handed = 1 .. Len(Handed) /\ Len(Handed) \in Nat  BY <1>1
  <2>a. cursor \in Int  BY <1>2 DEF Offsets
  <2>3. ASSUME NEW i \in DOMAIN Handed'
        PROVE  Handed'[i] <= last'
    <3>1. CASE i \in DOMAIN Handed
      <4>1. Handed'[i] = Handed[i] /\ Handed[i] \in Int /\ Handed[i] < cursor
        BY <1>3, <1>4, <2>1, <2>2, <3>1
      <4> QED BY <1>2, <2>a, <4>1
    <3>2. CASE i = Len(Handed) + 1
      <4>2. Handed'[i] = cursor /\ last' = cursor  BY <1>2, <2>b, <3>2, Zenon
      <4> QED BY <2>a, <4>2
    <3> QED BY <2>1, <2>2, <2>3, <3>1, <3>2
  <2>4. ASSUME NEW i \in DOMAIN Handed', NEW j \in DOMAIN Handed', i < j
        PROVE  Handed'[i] < Handed'[j]
    <3>1. i \in DOMAIN Handed /\ Handed'[i] = Handed[i]  BY <2>1, <2>2, <2>4
    <3>2. CASE j = Len(Handed) + 1  BY <1>4, <2>b, <3>1, <3>2
    <3>3. CASE j # Len(Handed) + 1
      <4>1. j \in DOMAIN Handed /\ Handed'[j] = Handed[j]  BY <2>1, <2>2, <3>3
      <4> QED BY <1>5, <2>4, <3>1, <4>1
    <3> QED BY <3>2, <3>3
  <2> QED BY <2>3, <2>4 DEF InOrder
<1> QED BY <1>6, <1>7 DEF Looked

\* Between it and the last one nothing was skipped that NothingSkipped forbids.
LEMMA LookedNothingSkipped ==
  ASSUME IInv, Looked
  PROVE  NothingSkipped'
<1>1. Handed \in Seq(Offsets) /\ Len(topic) \in Nat /\ last \in Int /\ last >= -1
  BY HandedType, LastType DEF IInv
<1>2. cursor \in Offsets /\ last < cursor /\ (cursor = last + 1 \/ (last = 0 /\ logStart > 0))
  BY NextOffset DEF Looked
<1>3. last' = cursor /\ logStart' = logStart /\ topic' = topic /\ loader = "up"
      /\ loader' \in {"up", "send failed"}
  BY DEF Looked
<1>4. ASSUME NEW h \in Range(Handed)
      PROVE  h \in Int /\ h <= last
  BY <1>1, <1>4 DEF IInv, InOrder, Range, Offsets
<1>5. Range(Handed) \subseteq Range(Handed') /\ Range(Handed') \subseteq Range(Handed) \cup {cursor}
      /\ (Handed' # Handed => cursor \in Range(Handed'))
  <2>1. CASE Handed' = Handed  BY <2>1
  <2>2. CASE Handed' = Append(Handed, cursor)
    <3>1. DOMAIN Handed' = 1 .. Len(Handed) + 1 /\ Handed'[Len(Handed) + 1] = cursor
          /\ \A i \in 1 .. Len(Handed) : Handed'[i] = Handed[i]
      BY <1>1, <1>2, <2>2
    <3>2. DOMAIN Handed = 1 .. Len(Handed) /\ Len(Handed) \in Nat  BY <1>1
    <3>3. cursor \in Range(Handed')  BY <3>1, <3>2 DEF Range
    <3>4. Range(Handed) \subseteq Range(Handed')  BY <3>1, <3>2 DEF Range
    <3>5. Range(Handed') \subseteq Range(Handed) \cup {cursor}  BY <3>1, <3>2 DEF Range
    <3> QED BY <3>3, <3>4, <3>5
  <2> QED BY <2>1, <2>2 DEF Looked
<1>6. ASSUME NEW o \in Missed'
      PROVE  logStart > 0 /\ o > 0 /\ \A h \in Range(Handed') : h = 0 \/ h > o
  <2>1. o \in (0 .. last')  BY <1>6 DEF Missed
  <2>a. cursor \in Nat  BY <1>2 DEF Offsets
  <2>b. o \in (0 .. cursor)  BY <1>3, <2>1
  <2>2. o \in Nat /\ o <= cursor /\ cursor \in Nat  BY <2>a, <2>b
  <2>3. topic[o + 1] # "unknown" /\ o \notin Range(Handed')
        /\ ~(loader' = "send failed" /\ o = cursor)
    BY <1>3, <1>6 DEF Missed, Kind
  <2>4. o # cursor
    <3>1. Kind(cursor) = "unknown" \/ loader' = "send failed" \/ Handed' # Handed
          \/ Handed' = Append(Handed, cursor)
      BY DEF Looked
    <3>2. Handed' = Append(Handed, cursor) => Handed' # Handed  BY <1>1, <1>2
    <3> QED BY <1>5, <2>3, <3>1, <3>2 DEF Kind
  <2>5. CASE o <= last
    <3>a. o \in (0 .. last)  BY <1>1, <2>2, <2>5
    <3>b. o \notin Range(Handed) /\ loader # "send failed"  BY <1>3, <1>5, <2>3
    <3>1. o \in Missed  BY <2>3, <3>a, <3>b DEF Missed, Kind
    <3>2. logStart > 0 /\ o > 0 /\ \A h \in Range(Handed) : h = 0 \/ h > o
      BY <3>1 DEF IInv, NothingSkipped
    <3> QED BY <3>2, <1>5, <2>2, <2>4
  <2>6. CASE o > last
    <3>1. last = 0 /\ logStart > 0  BY <1>1, <1>2, <2>2, <2>4, <2>6
    <3>2. \A h \in Range(Handed) : h = 0
      <4>1. \A i \in DOMAIN Handed : Handed[i] \in Nat  BY <1>1 DEF Offsets
      <4>2. \A h \in Range(Handed) : h \in Nat  BY <4>1 DEF Range
      <4> QED BY <1>4, <3>1, <4>2
    <3> QED BY <3>1, <3>2, <1>5, <2>2, <2>4, <2>6
  <2> QED BY <1>1, <2>2, <2>5, <2>6
<1> QED BY <1>3, <1>6 DEF NothingSkipped

\* Looking at a new message keeps the invariant.
LEMMA LookedInv ==
  ASSUME IInv, Looked
  PROVE  IInv'
<1>a. Len(topic) \in Nat /\ cursor \in 0 .. Len(topic)  BY DEF IInv, TypeOK
<1>b. cursor' = cursor + 1 /\ last' = cursor  BY DEF Looked
<1>1. cursor' <= last' + 1  BY <1>a, <1>b
<1> QED BY <1>1, LookedInOrder, LookedNothingSkipped DEF IInv, CursorFollows, Looked

\* on_message looks at a new message in one of three ways.
LEMMA LookedMessage ==
  ASSUME IInv, OnMessage, UNCHANGED receiverUp,
         SkipUnknown(cursor) \/ Send(cursor) \/ PanicOnSend(cursor)
  PROVE  IInv'
<1>1. TypeOK'  BY TypeOnMessage DEF IInv
<1>2. topic' = topic /\ logStart' = logStart /\ cursor' = cursor + 1 /\ loader = "up"
      /\ received' = received /\ Stored(cursor)
  BY DEF OnMessage, Consume
<1>3. CASE SkipUnknown(cursor)
  <2>1. last' = cursor /\ loader' = "up" /\ Handed' = Handed /\ Kind(cursor) = "unknown"
        /\ ~Rewound(cursor) /\ ~Gap(cursor)
    BY <1>2, <1>3 DEF SkipUnknown, Handed
  <2>2. Looked  BY <1>1, <1>2, <2>1 DEF Looked
  <2> QED BY <2>2, LookedInv
<1>4. CASE Send(cursor)
  <2>1. msgq \in Seq(Offsets) /\ received \in Seq(Offsets)  BY DEF IInv, TypeOK
  <2>2. cursor \in Offsets  BY <1>2, <1>4, NextOffset DEF Send
  <2>3. Handed' = Append(Handed, cursor)
    BY <1>2, <1>4, <2>1, <2>2 DEF Handed, Send
  <2>4. last' = cursor /\ loader' = "up" /\ ~Rewound(cursor) /\ ~Gap(cursor)
    BY <1>2, <1>4 DEF Send
  <2>5. Looked  BY <1>1, <1>2, <2>3, <2>4 DEF Looked
  <2> QED BY <2>5, LookedInv
<1>5. CASE PanicOnSend(cursor)
  <2>1. last' = cursor /\ loader' = "send failed" /\ Handed' = Handed
        /\ ~Rewound(cursor) /\ ~Gap(cursor)
    BY <1>2, <1>5 DEF PanicOnSend, Handed
  <2>2. Looked  BY <1>1, <1>2, <2>1 DEF Looked
  <2> QED BY <2>2, LookedInv
<1> QED BY <1>3, <1>4, <1>5

-----------------------------------------------------------------------------
(* Restart. *)

\* The offsets of the kept state are some of those handed out before, and none
\* up to the offset of the dump is lost.
LEMMA KeptRange ==
  ASSUME IInv, NEW offset \in Range(received) \cup {NoOffset}, Start(offset)
  PROVE  /\ Handed' = received' /\ InOrder'
         /\ Range(Handed') \subseteq Range(Handed)
         /\ \A o \in Range(Handed) : offset # NoOffset /\ o <= offset => o \in Range(Handed')
<1>1. received \in Seq(Offsets) /\ msgq \in Seq(Offsets) /\ Len(topic) \in Nat
  BY DEF IInv, TypeOK
<1>2. PICK n \in 0 .. Len(received) :
        /\ received' \in Seq(Offsets) /\ Len(received') = n
        /\ \A i \in 1 .. n : received'[i] = received[i]
        /\ n > 0 => received[n] <= offset
        /\ \A i \in n + 1 .. Len(received) : received[i] > offset
  BY KeptType DEF IInv
<1>3. Handed' = received'  BY <1>2 DEF Start, Handed
<1>4. /\ Handed \in Seq(Offsets) /\ Len(Handed) = Len(received) + Len(msgq)
      /\ \A i \in 1 .. Len(received) : Handed[i] = received[i]
      /\ \A i \in 1 .. Len(msgq) : Handed[Len(received) + i] = msgq[i]
  BY <1>1 DEF Handed
<1>5. DOMAIN received' = 1 .. n /\ n \in Nat /\ n <= Len(received)
      /\ DOMAIN Handed = 1 .. Len(Handed) /\ 1 .. n \subseteq DOMAIN Handed
  BY <1>1, <1>2, <1>4
<1>6. \A i \in 1 .. n : received'[i] = Handed[i]  BY <1>1, <1>2, <1>4
<1>7. \A i, j \in DOMAIN Handed : i < j => Handed[i] < Handed[j]  BY DEF IInv, InOrder
<1>8. InOrder'
  <2>1. \A i, j \in 1 .. n : i < j => received'[i] < received'[j]  BY <1>5, <1>6, <1>7
  <2>2. ASSUME NEW i \in 1 .. n
        PROVE  received'[i] <= offset
    <3>1. n \in DOMAIN Handed /\ i \in DOMAIN Handed /\ n > 0  BY <1>5, <2>2
    <3>2. received[n] = Handed[n] /\ received[n] <= offset  BY <1>2, <1>4, <1>5, <3>1
    <3>3. i = n \/ Handed[i] < Handed[n]  BY <1>5, <1>7, <2>2, <3>1
    <3>4. Handed[i] \in Int /\ Handed[n] \in Int  BY <1>4, <3>1 DEF Offsets
    <3>5. offset \in Int
      <4>1. \A k \in DOMAIN received : received[k] \in Int  BY <1>1 DEF Offsets
      <4> QED BY <4>1 DEF Range, NoOffset
    <3> QED BY <1>6, <2>2, <3>2, <3>3, <3>4, <3>5
  <2>3. last' = offset  BY DEF Start
  <2> QED BY <1>3, <1>5, <2>1, <2>2, <2>3 DEF InOrder
<1>9. Range(Handed') \subseteq Range(Handed)  BY <1>3, <1>5, <1>6 DEF Range
<1>10. ASSUME NEW o \in Range(Handed), offset # NoOffset, o <= offset
       PROVE  o \in Range(Handed')
  <2>1. PICK i \in DOMAIN Handed : o = Handed[i]  BY <1>10 DEF Range
  <2>2. PICK k \in DOMAIN received : offset = received[k]  BY <1>10 DEF Range
  <2>3. k \in 1 .. Len(received) /\ offset = Handed[k]  BY <1>1, <1>4, <2>2
  <2>4. k <= n
    <3>1. offset \in Int  BY <1>1, <2>2 DEF Offsets
    <3>2. ~(k \in n + 1 .. Len(received))  BY <1>2, <2>2, <3>1
    <3> QED BY <1>5, <2>3, <3>2
  <2>5. i <= k
    <3>1. i \in Int /\ k \in DOMAIN Handed /\ k \in Int  BY <1>1, <1>4, <2>1, <2>3
    <3>2. Handed[i] \in Int /\ Handed[k] \in Int  BY <1>4, <2>1, <3>1 DEF Offsets
    <3>3. ~(Handed[k] < Handed[i])  BY <1>10, <2>1, <2>3, <3>2
    <3> QED BY <1>7, <2>1, <3>1, <3>3
  <2>6. i \in 1 .. n  BY <1>5, <2>1, <2>3, <2>4, <2>5
  <2> QED BY <1>3, <1>5, <1>6, <2>1, <2>6 DEF Range
<1> QED BY <1>3, <1>8, <1>9, <1>10

\* A restart from the offset of any message received keeps the invariant.
LEMMA RestartInv == IInv /\ Restart => IInv'
<1> SUFFICES ASSUME IInv, Restart PROVE IInv'  OBVIOUS
<1>1. PICK offset \in Range(received) \cup {NoOffset} : Start(offset) /\ receiverUp' = TRUE
  BY DEF Restart
<1>2. TypeOK' /\ offset \in Offsets \cup {NoOffset}  BY <1>1, TypeStart DEF IInv
<1>3. /\ InOrder' /\ Range(Handed') \subseteq Range(Handed)
      /\ \A o \in Range(Handed) : offset # NoOffset /\ o <= offset => o \in Range(Handed')
  BY <1>1, KeptRange
<1>4. last' = offset /\ topic' = topic /\ logStart' = logStart /\ loader' = "up"
      /\ cursor' = Assigned(offset)
  BY <1>1 DEF Start
<1>5. Len(topic) \in Nat /\ last \in Int  BY LastType DEF IInv
<1>6. ASSUME NEW o \in Missed'
      PROVE  o \in Missed
  <2>1. o \in (0 .. offset) /\ topic[o + 1] # "unknown" /\ o \notin Range(Handed')
    BY <1>4, <1>6 DEF Missed, Kind
  <2>2. offset # NoOffset /\ offset \in Nat /\ o \in Nat /\ o <= offset
    BY <1>2, <2>1 DEF Offsets, NoOffset
  <2>3. o \notin Range(Handed)  BY <1>3, <2>1, <2>2
  <2>4. offset \in Range(Handed)  BY <1>1, <2>2, HandedType DEF IInv
  <2>5. offset <= last /\ o # offset
    <3>1. PICK k \in DOMAIN Handed : offset = Handed[k]  BY <2>4 DEF Range
    <3>2. Handed[k] <= last  BY <3>1 DEF IInv, InOrder
    <3> QED BY <2>3, <2>4, <3>1, <3>2
  <2>6. o \in (0 .. last) /\ o # last  BY <1>5, <2>2, <2>5
  <2> QED BY <2>1, <2>3, <2>6 DEF Missed, Kind
<1>7. NothingSkipped'
  <2>1. ASSUME NEW o \in Missed'
        PROVE  logStart > 0 /\ o > 0 /\ \A h \in Range(Handed') : h = 0 \/ h > o
    BY <1>3, <1>6 DEF IInv, NothingSkipped
  <2> QED BY <1>4, <2>1 DEF NothingSkipped
<1>8. CursorFollows'
  <2>1. logStart = 0 => Assigned(offset) <= offset + 1  BY <1>2, AssignedType DEF IInv
  <2> QED BY <1>4, <2>1 DEF CursorFollows
<1> QED BY <1>2, <1>3, <1>7, <1>8 DEF IInv

-----------------------------------------------------------------------------
\* Initially nothing was read.
LEMMA InitInv == Init => IInv
<1> SUFFICES ASSUME Init PROVE IInv  OBVIOUS
<1>1. TypeOK
  BY LoaderAssumption DEF Init, TypeOK, Offsets, NoOffset, LoaderEnds
<1>2. Handed = <<>>  BY DEF Init, Handed
<1>3. InOrder  BY <1>2 DEF InOrder
<1>4. Missed = {}  BY DEF Init, Missed, NoOffset
<1> QED BY <1>1, <1>3, <1>4 DEF Init, IInv, NothingSkipped, CursorFollows, NoOffset

\* Every step keeps the invariant.
LEMMA NextInv == IInv /\ [Next]_vars => IInv'
<1> SUFFICES ASSUME IInv, [Next]_vars PROVE IInv'  OBVIOUS
<1>1. ASSUME NEW kind \in Kinds, Publish(kind), UNCHANGED receiverUp
      PROVE  IInv'
  BY <1>1, CalmPublish
<1>2. CASE (Expire \/ ResetPosition) /\ UNCHANGED receiverUp  BY <1>2, CalmTopic
<1>3. CASE OnMessage /\ UNCHANGED receiverUp
  <2>1. CASE SkipRewound(cursor) \/ PanicOnGap(cursor)  BY <1>3, <2>1, CalmMessage
  <2>2. CASE SkipUnknown(cursor) \/ Send(cursor) \/ PanicOnSend(cursor)
    BY <1>3, <2>2, LookedMessage
  <2> QED BY <1>3, <2>1, <2>2 DEF OnMessage
<1>4. CASE (StreamError \/ Shutdown) /\ UNCHANGED receiverUp  BY <1>4, CalmThread
<1>5. CASE (Recv /\ UNCHANGED receiverUp) \/ DropReceiver  BY <1>5, CalmProcessor
<1>6. CASE Restart  BY <1>6, RestartInv
<1>7. CASE UNCHANGED vars
  BY <1>7 DEF vars, loaderVars, threadVars, faultVars, IInv, TypeOK, Offsets, InOrder,
              NothingSkipped, Missed, Handed, Kind, CursorFollows
<1> QED BY <1>1, <1>2, <1>3, <1>4, <1>5, <1>6, <1>7 DEF Next

\* The inductive invariant holds in every behaviour.
THEOREM Invariance == Spec => []IInv
<1>1. IInv /\ [Next]_vars => IInv'  BY NextInv
<1> QED BY InitInv, <1>1, PTL DEF Spec

\* Offsets stay within the topic, for any number of messages, stream errors,
\* deletions and restarts.
THEOREM TypeCorrect == Spec => []TypeOK
<1>1. IInv => TypeOK  BY DEF IInv
<1> QED BY Invariance, <1>1, PTL

\* on_message hands every message over at most once and in the topic's order.
THEOREM StaysInOrder == Spec => []InOrder
<1>1. IInv => InOrder  BY DEF IInv
<1> QED BY Invariance, <1>1, PTL

\* on_message skips nothing but what retention deleted behind the very first
\* message, and its continuity panic is never raised by the loader's own rewinds.
THEOREM NeverSkips == Spec => []NothingSkipped
<1>1. IInv => NothingSkipped  BY DEF IInv
<1> QED BY Invariance, <1>1, PTL

=============================================================================
