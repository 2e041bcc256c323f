------------------------------ MODULE MsgLoader ------------------------------
(***************************************************************************)
(* The message loader thread (msg_loader.rs) and the Kafka topic it reads. *)
(*                                                                         *)
(* The loader hands the messages of one partition to the processor thread  *)
(* over an unbounded channel.  It remembers the offset of the last message *)
(* it looked at; after every stream error it assigns the consumer that     *)
(* offset again, so messages come a second time and are skipped by their   *)
(* offset.  A message that does not follow the last one stops the thread.  *)
(*                                                                         *)
(* Kafka is modelled from how the loader uses it: an append-only log whose *)
(* oldest messages may be deleted (retention), a consumer position, stream *)
(* errors at any time.  The processor is modelled by what the loader sees  *)
(* of it: it takes messages off the channel, its end of the channel may be *)
(* dropped, and the node may restart from an offset it has processed.      *)
(***************************************************************************)
EXTENDS Integers, Sequences, SequencesExt

CONSTANTS
  Kinds,        \* kinds of messages the topic carries
  MaxMsgs,      \* bound: messages published
  MaxErrors,    \* bound: stream errors
  MaxExpired,   \* bound: messages deleted by retention
  MaxRestarts   \* bound: restarts of the node

ASSUME LoaderAssumption ==
  /\ Kinds \subseteq {"tx", "self", "order", "unknown"}
  /\ {MaxMsgs, MaxErrors, MaxExpired, MaxRestarts} \subseteq Nat

VARIABLES
  topic,       \* kinds of the messages published; offsets count from 0
  logStart,    \* first offset still stored
  cursor,      \* offset the consumer reads next
  earliest,    \* consumer resets to the earliest message (no offset was given)
  last,        \* MessageWriter.offset
  loader,      \* "up", or why the thread ended
  msgq,        \* channel to the processor, the messages' offsets
  receiverUp,  \* the processor's end of the channel is alive
  received,    \* offsets of the messages the processor's state is made of
  errors, restarts

threadVars == <<earliest, last, loader>>
faultVars  == <<errors, restarts>>
loaderVars == <<topic, logStart, cursor, threadVars, msgq, received, faultVars>>
vars       == <<loaderVars, receiverUp>>

Offsets   == 0 .. Len(topic) - 1
Kind(o)   == topic[o + 1]
Stored(o) == o \in logStart .. Len(topic) - 1

NoOffset == -1   \* offset.unwrap_or(-1)

\* the consumer position assigned for a last offset
Assigned(offset) == IF offset < 0 THEN logStart ELSE offset

-----------------------------------------------------------------------------
(* Kafka. *)

Publish(kind) ==
  /\ Len(topic) < MaxMsgs
  /\ topic' = Append(topic, kind)
  /\ UNCHANGED <<logStart, cursor, threadVars, msgq, received, faultVars>>

\* retention deletes the oldest message
Expire ==
  /\ logStart < MaxExpired /\ logStart < Len(topic)
  /\ logStart' = logStart + 1
  /\ UNCHANGED <<topic, cursor, threadVars, msgq, received, faultVars>>

\* auto.offset.reset: the position is no longer stored
ResetPosition ==
  /\ loader = "up" /\ cursor < logStart
  /\ cursor' = IF earliest THEN logStart ELSE Len(topic)
  /\ UNCHANGED <<topic, logStart, threadVars, msgq, received, faultVars>>

-----------------------------------------------------------------------------
(* MessageWriter::on_message, called with the message at the cursor. *)

Consume(offset) ==
  /\ cursor' = offset + 1
  /\ UNCHANGED <<topic, logStart, earliest, received, faultVars>>

\* Mutant of Rewound: the last message itself is not recognised.
RewoundStrict(offset) == offset < last

Rewound(offset) == offset <= last

\* Mutant of Gap: the first two messages may be followed by any other.
GapAfterSecond(offset) == last > 1 /\ offset # last + 1

Gap(offset) == last # 0 /\ offset # last + 1

\* a message seen before
SkipRewound(offset) ==
  /\ Rewound(offset)
  /\ UNCHANGED <<last, loader, msgq>>

PanicOnGap(offset) ==
  /\ ~Rewound(offset) /\ Gap(offset)
  /\ loader' = "offset not continuous"
  /\ UNCHANGED <<last, msgq>>

\* Mutant of SkipUnknown: returns before the offset is stored.
SkipUnknownEarly(offset) ==
  /\ ~Rewound(offset) /\ ~Gap(offset) /\ Kind(offset) = "unknown"
  /\ UNCHANGED <<last, loader, msgq>>

SkipUnknown(offset) ==
  /\ ~Rewound(offset) /\ ~Gap(offset) /\ Kind(offset) = "unknown"
  /\ last' = offset
  /\ UNCHANGED <<loader, msgq>>

Send(offset) ==
  /\ ~Rewound(offset) /\ ~Gap(offset) /\ Kind(offset) # "unknown"
  /\ receiverUp
  /\ last' = offset
  /\ msgq' = Append(msgq, offset)
  /\ UNCHANGED loader

\* try_send fails when the processor is gone
PanicOnSend(offset) ==
  /\ ~Rewound(offset) /\ ~Gap(offset) /\ Kind(offset) # "unknown"
  /\ ~receiverUp
  /\ last' = offset
  /\ loader' = "send failed"
  /\ UNCHANGED msgq

OnMessage ==
  /\ loader = "up" /\ Stored(cursor)
  /\ Consume(cursor)
  /\ \/ SkipRewound(cursor)
     \/ PanicOnGap(cursor)
     \/ SkipUnknown(cursor)
     \/ Send(cursor)
     \/ PanicOnSend(cursor)

\* Mutant of StreamError: resumes at the consumer's position, not at the last
\* offset, when a fetched batch was lost with the stream.
StreamErrorPastBatch ==
  /\ loader = "up" /\ errors < MaxErrors
  /\ errors' = errors + 1
  /\ cursor' = last + 2
  /\ UNCHANGED <<topic, logStart, threadVars, msgq, received, restarts>>

\* the stream fails and the loop of load_msgs_from_mq assigns the last offset
StreamError ==
  /\ loader = "up" /\ errors < MaxErrors
  /\ errors' = errors + 1
  /\ cursor' = Assigned(last)
  /\ UNCHANGED <<topic, logStart, threadVars, msgq, received, restarts>>

\* ctrl-c ends the thread
Shutdown ==
  /\ loader = "up"
  /\ loader' = "shut down"
  /\ UNCHANGED <<topic, logStart, cursor, earliest, last, msgq, received, faultVars>>

-----------------------------------------------------------------------------
(* The processor's side of the channel. *)

Recv ==
  /\ receiverUp /\ msgq # <<>>
  /\ received' = Append(received, Head(msgq))
  /\ msgq' = Tail(msgq)
  /\ UNCHANGED <<topic, logStart, cursor, threadVars, faultVars>>

DropReceiver ==
  /\ receiverUp
  /\ receiverUp' = FALSE
  /\ UNCHANGED loaderVars

\* the state of a dump is made of the messages up to its offset
KeepUpTo(offset) ==
  \E n \in 0 .. Len(received) :
    /\ n > 0 => received[n] <= offset
    /\ \A i \in n + 1 .. Len(received) : received[i] > offset
    /\ received' = SubSeq(received, 1, n)

\* load_msgs_from_mq of a restarted node, given the Kafka offset of its dump
\* (NoOffset: there is none) and thus a state made of the messages up to it
Start(offset) ==
  /\ restarts < MaxRestarts
  /\ restarts' = restarts + 1
  /\ last' = offset
  /\ earliest' = (offset = NoOffset)
  /\ cursor' = Assigned(offset)
  /\ loader' = "up"
  /\ msgq' = <<>>
  /\ KeepUpTo(offset)
  /\ UNCHANGED <<topic, logStart, errors>>

-----------------------------------------------------------------------------
Init ==
  /\ topic = <<>> /\ logStart = 0 /\ cursor = 0 /\ earliest = TRUE
  /\ last = NoOffset /\ loader = "up" /\ msgq = <<>> /\ received = <<>>
  /\ receiverUp = TRUE /\ errors = 0 /\ restarts = 0

Restart ==
  \E offset \in Range(received) \cup {NoOffset} : Start(offset) /\ receiverUp' = TRUE

Next ==
  \/ /\ \/ \E kind \in Kinds : Publish(kind)
        \/ Expire \/ ResetPosition
        \/ OnMessage \/ StreamError \/ Shutdown
        \/ Recv
     /\ UNCHANGED receiverUp
  \/ DropReceiver
  \/ Restart

Spec == Init /\ [][Next]_vars

\* the threads are scheduled and Kafka delivers what it stores
Fairness ==
  /\ WF_vars(OnMessage /\ UNCHANGED receiverUp)
  /\ WF_vars(ResetPosition /\ UNCHANGED receiverUp)
  /\ WF_vars(Recv /\ UNCHANGED receiverUp)

FairSpec == Spec /\ Fairness

-----------------------------------------------------------------------------
(* Properties. *)

LoaderEnds == {"up", "offset not continuous", "send failed", "shut down"}

\* Offsets stay within the topic; the channel and the processor hold offsets
\* of published messages.
TypeOK ==
  /\ topic \in Seq(Kinds) /\ logStart \in 0 .. Len(topic)
  /\ cursor \in 0 .. Len(topic) /\ last \in Offsets \cup {NoOffset}
  /\ earliest \in BOOLEAN /\ receiverUp \in BOOLEAN /\ loader \in LoaderEnds
  /\ msgq \in Seq(Offsets) /\ received \in Seq(Offsets)
  /\ errors \in 0 .. MaxErrors /\ restarts \in 0 .. MaxRestarts

\* everything handed to the processor
Handed == received \o msgq

\* Whatever is rewound, lost or replayed, the processor gets every message at
\* most once and in the order of the topic.
InOrder ==
  /\ \A i, j \in DOMAIN Handed : i < j => Handed[i] < Handed[j]
  /\ \A i \in DOMAIN Handed : Handed[i] <= last

Missed ==
  {o \in 0 .. last : Kind(o) # "unknown" /\ ~(loader = "send failed" /\ o = last)}
    \ Range(Handed)

\* Every message up to the last offset was handed to the processor ("offset not
\* continuous", the panic of on_message): the thread stops rather than skip one,
\* except where retention opened a hole behind the very first message, the one
\* position at which the continuity check is off.  It stops for nothing else: the
\* loader's own rewinds and restarts never look like a gap.
NothingSkipped ==
  /\ loader = "offset not continuous" => logStart > 0
  /\ \A o \in Missed :
       /\ logStart > 0 /\ o > 0
       /\ \A h \in Range(Handed) : h = 0 \/ h > o

\* Every message of a known kind reaches the processor while the processor is
\* there, the loader is not shut down and nothing was deleted.
EventuallyReceived ==
  \A o \in 0 .. MaxMsgs - 1 :
    (o \in Offsets /\ Kind(o) # "unknown")
      ~> (o \in Range(received) \/ ~receiverUp \/ loader = "shut down" \/ logStart > 0)

=============================================================================
