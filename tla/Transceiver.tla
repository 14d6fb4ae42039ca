---------------------------- MODULE Transceiver -----------------------------
(***************************************************************************)
(* One direction of a connection: AwlSimMessageTransceiver.send at one end *)
(* and receive at the other (awlsim/coreserver/messages.py), over a stream *)
(* of bytes that is cut into pieces at either end and may break at any     *)
(* byte.  A byte is a pair of the message it belongs to and its place in   *)
(* it, which nobody but the properties sees: the receiver knows a header   *)
(* by its magic value and counts.                                          *)
(***************************************************************************)
EXTENDS Naturals, Sequences, SequencesExt

CONSTANTS Messages,     \* [known, decodes : BOOLEAN, size : Nat]; size of the payload
          HdrLen,       \* HDR_LENGTH
          Room,         \* the bytes under way that the connection takes
          MaxSent       \* bound: the messages of a behaviour

ASSUME TransceiverAssumption ==
  /\ Messages \subseteq [known : BOOLEAN, decodes : BOOLEAN, size : Nat]
  /\ \A m \in Messages : ~m.known => m.decodes
  /\ HdrLen \in Nat \ {0} /\ Room \in Nat \ {0} /\ MaxSent \in Nat

VARIABLES atClient,     \* the receiving end is a client, and not the server
          sent,         \* history: the messages given to send()
          txData,       \* data[offset : ], what send() has yet to send
          txOpen,       \* the sending end has neither closed nor failed
          wire,         \* the bytes under way
          rxBuffers, rxByteCnt,
          hdr,          \* the message the header has announced, 0: no header yet
          handled,      \* history: the messages received or refused
          rxOpen        \* the receiving end goes on calling receive()

sender == <<sent, txData, txOpen>>
buffer == <<rxBuffers, rxByteCnt, hdr>>
streamVars == <<atClient, sent, txData, txOpen, wire, rxBuffers, rxByteCnt, hdr, handled, rxOpen>>

Size(i) == HdrLen + sent[i].size
Place(i, k) == [msg |-> i, at |-> k]
\* toBytes of the i-th message, m.
Bytes(i, m) == [k \in 1..(HdrLen + m.size) |-> Place(i, k)]
BytesOf(ms, first) == FlattenSeq([j \in 1..Len(ms) |-> Bytes(first + j - 1, ms[j])])

StreamTypeOK ==
  /\ atClient \in BOOLEAN /\ txOpen \in BOOLEAN /\ rxOpen \in BOOLEAN
  /\ sent \in Seq(Messages) /\ handled \in Seq(Messages)
  /\ hdr \in 0..Len(sent)
  /\ rxByteCnt = Len(rxBuffers) + (IF hdr = 0 THEN 0 ELSE HdrLen)
  /\ rxByteCnt <= (IF hdr = 0 THEN HdrLen - 1 ELSE Size(hdr))
  /\ Len(wire) <= Room

StreamInit ==
  /\ atClient \in BOOLEAN
  /\ sent = <<>> /\ txData = <<>> /\ txOpen = TRUE /\ wire = <<>>
  /\ rxBuffers = <<>> /\ rxByteCnt = 0 /\ hdr = 0 /\ handled = <<>> /\ rxOpen = TRUE

(***************************************************************************)
(* send()                                                                  *)
(***************************************************************************)

\* One message, or a list of them that becomes one piece of data.
SendMessages ==
  /\ txOpen /\ txData = <<>>
  /\ \E ms \in SeqOf(Messages, 2) :
       /\ ms # <<>> /\ Len(sent) + Len(ms) <= MaxSent
       /\ sent' = sent \o ms
       /\ txData' = BytesOf(ms, Len(sent) + 1)
  /\ UNCHANGED <<atClient, txOpen, wire, buffer, handled, rxOpen>>

\* The socket takes some bytes; as long as it takes none the loop tries again.
Fragment ==
  /\ txOpen /\ rxOpen
  /\ \E n \in 1..Len(txData) :
       /\ Len(wire) + n <= Room
       /\ wire' = wire \o SubSeq(txData, 1, n)
       /\ txData' = SubSeq(txData, n + 1, Len(txData))
  /\ UNCHANGED <<atClient, sent, txOpen, buffer, handled, rxOpen>>

\* The sending end closes, dies, or gets an error that is not about blocking,
\* maybe in the middle of a message.  What is under way may be lost.
CloseSender ==
  /\ txOpen
  /\ txOpen' = FALSE /\ txData' = <<>>
  /\ wire' \in {wire, <<>>}
  /\ UNCHANGED <<atClient, sent, buffer, handled, rxOpen>>

(***************************************************************************)
(* receive()                                                               *)
(***************************************************************************)

ResetRxBuf == rxBuffers' = <<>> /\ rxByteCnt' = 0 /\ hdr' = 0

\* Mutant: an unknown message is refused and stays in the buffer.
FinishKnown(i, payload) ==
  IF sent[i].known /\ sent[i].decodes
  THEN /\ handled' = Append(handled, sent[i])
       /\ ResetRxBuf /\ UNCHANGED rxOpen
  ELSE /\ hdr' = i /\ rxBuffers' = payload /\ rxByteCnt' = Size(i)
       /\ rxOpen' = (atClient \/ ~sent[i].known) /\ UNCHANGED handled

\* All bytes of message i are there.  An unknown message is refused.  What
\* fromBytes does not decode leaves the buffer as it is: the server removes
\* the client, a client keeps the connection.
Finish(i, payload) ==
  IF sent[i].decodes
  THEN /\ handled' = Append(handled, sent[i])
       /\ ResetRxBuf /\ UNCHANGED rxOpen
  ELSE /\ hdr' = i /\ rxBuffers' = payload /\ rxByteCnt' = Size(i)
       /\ rxOpen' = atClient /\ UNCHANGED handled

\* Bytes that do not begin a message have the wrong magic value.
IsHeader(bytes) == bytes = [k \in 1..HdrLen |-> Place(bytes[1].msg, k)]

\* Mutant: recv(hdrLen), whatever part of the header is there already.
ReadHeaderAnew ==
  /\ rxOpen /\ rxByteCnt < HdrLen
  /\ \E n \in 1..HdrLen :
       /\ n <= Len(wire)
       /\ wire' = SubSeq(wire, n + 1, Len(wire))
       /\ LET bytes == rxBuffers \o SubSeq(wire, 1, n)
          IN IF Len(bytes) < HdrLen
             THEN /\ rxBuffers' = bytes /\ rxByteCnt' = Len(bytes)
                  /\ UNCHANGED <<hdr, handled, rxOpen>>
             ELSE ResetRxBuf /\ UNCHANGED <<handled, rxOpen>>
  /\ UNCHANGED <<atClient, sender>>

\* One recv() of header bytes.  With a complete header the function returns,
\* unless there is no payload to wait for.
ReadHeader ==
  /\ rxOpen /\ rxByteCnt < HdrLen
  /\ \E n \in 1..(HdrLen - rxByteCnt) :
       /\ n <= Len(wire)
       /\ wire' = SubSeq(wire, n + 1, Len(wire))
       /\ LET bytes == rxBuffers \o SubSeq(wire, 1, n)
              i == bytes[1].msg
          IN CASE Len(bytes) < HdrLen ->
                    /\ rxBuffers' = bytes /\ rxByteCnt' = rxByteCnt + n
                    /\ UNCHANGED <<hdr, handled, rxOpen>>
               [] Len(bytes) = HdrLen /\ ~IsHeader(bytes) ->
                    ResetRxBuf /\ UNCHANGED <<handled, rxOpen>>
               [] Len(bytes) = HdrLen /\ IsHeader(bytes) /\ sent[i].size > 0 ->
                    /\ hdr' = i /\ rxBuffers' = <<>> /\ rxByteCnt' = HdrLen
                    /\ UNCHANGED <<handled, rxOpen>>
               [] OTHER -> Finish(i, <<>>)
  /\ UNCHANGED <<atClient, sender>>

\* One recv() of payload bytes.
ReadPayload ==
  /\ rxOpen /\ hdr # 0 /\ rxByteCnt < Size(hdr)
  /\ \E n \in 1..(Size(hdr) - rxByteCnt) :
       /\ n <= Len(wire)
       /\ wire' = SubSeq(wire, n + 1, Len(wire))
       /\ LET bytes == rxBuffers \o SubSeq(wire, 1, n)
          IN IF rxByteCnt + n < Size(hdr)
             THEN /\ rxBuffers' = bytes /\ rxByteCnt' = rxByteCnt + n
                  /\ UNCHANGED <<hdr, handled, rxOpen>>
             ELSE Finish(hdr, bytes)
  /\ UNCHANGED <<atClient, sender>>

\* A complete message is in the buffer: nothing is read, it is decoded again.
Stuck == hdr # 0 /\ rxByteCnt = Size(hdr)
DecodeAgain ==
  /\ rxOpen /\ Stuck
  /\ Finish(hdr, rxBuffers)
  /\ UNCHANGED <<atClient, sender, wire>>

\* recv() returns nothing: the other end is closed.
EndOfFile ==
  /\ rxOpen /\ ~txOpen /\ wire = <<>> /\ ~Stuck
  /\ rxOpen' = FALSE /\ ResetRxBuf
  /\ UNCHANGED <<atClient, sender, wire, handled>>

\* The connection breaks for both ends, or the receiving end closes it.
Break ==
  /\ rxOpen
  /\ rxOpen' = FALSE /\ ResetRxBuf
  /\ txOpen' = FALSE /\ txData' = <<>> /\ wire' = <<>>
  /\ UNCHANGED <<atClient, sent, handled>>

Receive == ReadHeader \/ ReadPayload \/ DecodeAgain \/ EndOfFile

StreamEnded == ~txOpen /\ ~rxOpen /\ UNCHANGED streamVars

StreamNext == SendMessages \/ Fragment \/ CloseSender \/ Receive \/ Break \/ StreamEnded

\* send() goes on while there is room, and both ends call receive() for ever:
\* the server in its main loop, a client in that of its program.
StreamSpec == StreamInit /\ [][StreamNext]_streamVars /\ WF_streamVars(Fragment) /\ WF_streamVars(Receive)

(***************************************************************************)
(* Properties                                                              *)
(***************************************************************************)

\* However the stream is cut and recv() is left for want of bytes, what is
\* in the buffer, under way and still to be sent is what has been sent and not
\* handled: the receiver never loses a byte, or takes one for a header that is
\* none.  A message that does not decode is not handled.
Received == (IF hdr = 0 THEN <<>> ELSE SubSeq(Bytes(hdr, sent[hdr]), 1, HdrLen)) \o rxBuffers
InSync ==
  txOpen /\ rxOpen =>
    Received \o wire \o txData
      = BytesOf(SubSeq(sent, Len(handled) + 1, Len(sent)), Len(handled) + 1)

\* Sent messages are handled in order, each once, and each of them in the end,
\* unless the connection breaks or one does not decode.
Stream == INSTANCE MessageStream WITH open <- rxOpen
ImplementsStream == Stream!Spec
=============================================================================
