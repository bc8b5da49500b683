-------------------------- MODULE WebSocketStream --------------------------
(***************************************************************************)
(* Data between the two ends of an open WebSocket connection: the sending  *)
(* half of one protocol instance, the byte stream, and the receiving half  *)
(* of the other (both in autobahn/websocket/protocol.py).  The first half  *)
(* writes frames at once or through send_queue, in one piece or streamed;  *)
(* the second half finds the frames again however the stream cuts them.    *)
(*                                                                         *)
(* The stream is a sequence of units: the first two octets of a frame, the *)
(* mask behind them, and single octets of payload.  A payload octet knows  *)
(* its message, its place and its UTF-8 class, and at which position of    *)
(* the mask it was masked.                                                 *)
(***************************************************************************)
EXTENDS PerMessageCompress

CONSTANTS
    Options,       \* the connections considered: records, see OptionType
    MaxItems       \* bound: messages, pings and Closes together (of all options)

Classes == {"ascii", "lead", "cont"}
Codecs == [resets : BOOLEAN, size : Sizes]

OptionType ==
    [isServer : BOOLEAN,            \* the sending half is the server's
     masked : BOOLEAN,              \* its frames are masked
     pmce : {None} \cup [sender : Codecs, receiver : Codecs],
     autoFragmentSize : Nat,        \* 0: messages are not fragmented
     maxMessagePayloadSize : Nat,   \* of both ends; 0: no limit
     autoPing : BOOLEAN,            \* pings are automatic
     \* what the application uses
     sync : BOOLEAN, chop : BOOLEAN, streaming : BOOLEAN, prepared : BOOLEAN,
     closes : BOOLEAN,
     payloads : SUBSET Seq(Classes),
     messages : Nat, pings : Nat]   \* bounds: messages and pings sent

ASSUME StreamAssumption ==
    \A o \in Options :
        /\ o.messages \in Nat /\ o.pings \in Nat /\ o.messages + o.pings < MaxItems
        /\ o.pmce = None \/ o.pmce \in [sender : Codecs, receiver : Codecs]

VARIABLES
    opt,    \* the options of this connection
    snd,    \* the sending half, with what is under way on the stream
    rcv     \* the receiving half

vars == <<opt, snd, rcv>>

compressing == opt.pmce # None

-----------------------------------------------------------------------------
(* Frames.                                                                 *)

Text == 1
Binary == 2
Continuation == 0
CloseOp == 8
PingOp == 9

head(op, fin, rsv, len) ==
    [kind |-> "head", op |-> op, fin |-> fin, rsv |-> rsv, len |-> len, masked |-> opt.masked]

mask == [kind |-> "mask"]

header(op, fin, rsv, len) ==
    <<head(op, fin, rsv, len)>> \o IF opt.masked THEN <<mask>> ELSE <<>>

\* XorMasker.process: octet number pointer + i of the frame.
masked(octets, pointer) ==
    [i \in 1 .. Len(octets) |-> [kind |-> "octet", o |-> octets[i], at |-> pointer + i - 1]]

frame(op, fin, rsv, octets) == header(op, fin, rsv, Len(octets)) \o masked(octets, 0)

Message(id, binary, payload) ==
    [type |-> "message", binary |-> binary,
     octets |-> [i \in 1 .. Len(payload) |-> [message |-> id, at |-> i, class |-> payload[i]]]]

Ping(n) == [type |-> "ping", octets |-> <<[message |-> 0, at |-> n, class |-> "ascii"]>>]
Close == [type |-> "close", octets |-> <<>>]

-----------------------------------------------------------------------------
(* Writing: at once, or through the queue that one delayed call empties.   *)

write(p, units) == [p EXCEPT !.wire = @ \o units]

\* Mutant: the delayed call is not made again.
sendNextOnce(p) ==
    IF p.send_queue = <<>> THEN [p EXCEPT !.triggered = FALSE, !.scheduled = FALSE]
    ELSE LET popped == [p EXCEPT !.send_queue = Tail(@), !.scheduled = FALSE]
         IN  IF p.state = "CLOSED" THEN popped ELSE write(popped, Head(p.send_queue))

sendNext(p) ==
    IF p.send_queue = <<>> THEN [p EXCEPT !.triggered = FALSE, !.scheduled = FALSE]
    ELSE LET popped == [p EXCEPT !.send_queue = Tail(@), !.scheduled = TRUE]
         IN  IF p.state = "CLOSED" THEN popped ELSE write(popped, Head(p.send_queue))

trigger(p) == IF p.triggered THEN p ELSE sendNext([p EXCEPT !.triggered = TRUE])

\* Mutant: what is not synched overtakes the queue.
sendDataOvertaking(p, units, sync, chopsize) ==
    IF chopsize > 0
    THEN trigger([p EXCEPT !.send_queue = @ \o [i \in 1 .. Len(units) |-> <<units[i]>>]])
    ELSE IF sync THEN trigger([p EXCEPT !.send_queue = Append(@, units)])
    ELSE write(p, units)

\* A chopsize is one unit here.
sendData(p, units, sync, chopsize) ==
    IF chopsize > 0
    THEN trigger([p EXCEPT !.send_queue = @ \o [i \in 1 .. Len(units) |-> <<units[i]>>]])
    ELSE IF sync \/ p.send_queue # <<>>
    THEN trigger([p EXCEPT !.send_queue = Append(@, units)])
    ELSE write(p, units)

sendFrame(p, op, octets, fin, rsv, sync, chopsize) ==
    sendData(p, frame(op, fin, rsv, octets), sync, chopsize)

logged(p, item) == [p EXCEPT !.log = Append(@, item)]

-----------------------------------------------------------------------------
(* Sending a message in one call.                                          *)

\* How the loop over a payload longer than pfs cuts it: the last frame holds
\* what is left, and nothing when pfs divides the length.
fragments(octets, pfs) ==
    [k \in 1 .. Len(octets) \div pfs + 1 |->
        SubSeq(octets, (k - 1) * pfs + 1, IF k * pfs > Len(octets) THEN Len(octets) ELSE k * pfs)]

sendFragments(p, op, octets, rsv, sync, pfs) ==
    LET parts == fragments(octets, pfs)
        send(q, k) == sendFrame(q, IF k = 1 THEN op ELSE Continuation, parts[k],
                                k = Len(parts), IF k = 1 THEN rsv ELSE 0, sync, 0)
    IN  FoldLeft(send, p, [k \in 1 .. Len(parts) |-> k])

compressed(p, octets) ==
    LET codec == opt.pmce.sender
        c == compress_message_data(codec, start_message(codec, p.compressor), octets)
    IN  [out |-> c.out, sender |-> [p EXCEPT !.compressor = c.window]]

exceeds(octets) == 0 < opt.maxMessagePayloadSize /\ opt.maxMessagePayloadSize < Len(octets)

\* The compressor has already moved on when a message is found too long.
sendMessage(p, msg, sync, doNotCompress) ==
    LET zip == compressing /\ ~doNotCompress
        c == IF zip THEN compressed(p, msg.octets) ELSE [out |-> msg.octets, sender |-> p]
        op == IF msg.binary THEN Binary ELSE Text
        rsv == IF zip THEN 4 ELSE 0
        pfs == opt.autoFragmentSize
    IN  IF p.state # "OPEN" THEN p
        ELSE IF exceeds(c.out) THEN c.sender
        ELSE logged(IF pfs = 0 \/ Len(c.out) <= pfs
                    THEN sendFrame(c.sender, op, c.out, TRUE, rsv, sync, 0)
                    ELSE sendFragments(c.sender, op, c.out, rsv, sync, pfs),
                    msg)

\* A message framed beforehand is written whatever the state.
sendPreparedMessage(p, msg, doNotCompress) ==
    IF ~compressing \/ doNotCompress
    THEN logged(sendData(p, frame(IF msg.binary THEN Binary ELSE Text, TRUE, 0, msg.octets), FALSE, 0),
                msg)
    ELSE sendMessage(p, msg, FALSE, FALSE)

-----------------------------------------------------------------------------
(* Sending a message in frames, and frames in pieces.                      *)

beginMessage(p, msg, doNotCompress) ==
    IF p.state # "OPEN" \/ p.send_state # "ground" THEN p
    ELSE LET zip == compressing /\ ~doNotCompress IN
         [p EXCEPT !.send_state = "message_begin",
                   !.send_compressed = zip,
                   !.compressor = IF zip THEN start_message(opt.pmce.sender, @) ELSE @,
                   !.message = msg, !.left = msg.octets, !.held = <<>>]

beginMessageFrame(p, length) ==
    IF p.state # "OPEN" \/ p.send_state \notin {"message_begin", "inside_message"} THEN p
    ELSE LET first == p.send_state = "message_begin"
             op == IF ~first THEN Continuation ELSE IF p.message.binary THEN Binary ELSE Text
             rsv == IF first /\ p.send_compressed THEN 4 ELSE 0
         IN  [sendData(p, header(op, FALSE, rsv, length), FALSE, 0)
                  EXCEPT !.send_state = "inside_frame", !.frame_length = length, !.pointer = 0]

\* Octets beyond the announced length are not consumed.
sendMessageFrameData(p, octets, sync) ==
    IF p.state # "OPEN" \/ p.send_state # "inside_frame" THEN p
    ELSE LET room == p.frame_length - p.pointer
             pl == IF Len(octets) > room THEN SubSeq(octets, 1, room) ELSE octets
             sent == [sendData(p, masked(pl, p.pointer), sync, 0) EXCEPT !.pointer = @ + Len(pl)]
         IN  IF sent.pointer >= sent.frame_length
             THEN [sent EXCEPT !.send_state = "inside_message"] ELSE sent

\* What the compressor takes in it gives out at the end of the message.
sendMessageFrame(p, octets, sync) ==
    IF p.state # "OPEN" THEN p
    ELSE IF ~p.send_compressed
    THEN sendMessageFrameData(beginMessageFrame(p, Len(octets)), octets, sync)
    ELSE LET c == compress_message_data(opt.pmce.sender, p.compressor, octets)
             fed == [p EXCEPT !.compressor = c.window, !.held = @ \o c.out]
         IN  sendMessageFrameData(beginMessageFrame(fed, 0), <<>>, sync)

endMessage(p) ==
    IF p.state # "OPEN" THEN p
    ELSE logged([sendFrame(p, Continuation, IF p.send_compressed THEN p.held ELSE <<>>,
                           TRUE, 0, FALSE, 0)
                     EXCEPT !.send_state = "ground", !.held = <<>>],
                p.message)

-----------------------------------------------------------------------------
(* Control frames.                                                         *)

sendPing(p, ping) ==
    IF p.state # "OPEN" THEN p
    ELSE logged(sendFrame(p, PingOp, ping.octets, TRUE, 0, FALSE, 0), ping)

sendCloseFrame(p) ==
    IF p.state # "OPEN" THEN p
    ELSE [logged(sendFrame(p, CloseOp, <<>>, TRUE, 0, FALSE, 0), Close) EXCEPT !.state = "CLOSING"]

\* The peer's Close: replied to, and a server then drops the connection.
onCloseFrame(p) ==
    IF opt.isServer THEN [sendCloseFrame(p) EXCEPT !.state = "CLOSED"] ELSE sendCloseFrame(p)

-----------------------------------------------------------------------------
(* Receiving: the buffer is looked at again after every chunk, and the     *)
(* loop goes on while processData returns TRUE.                            *)

failed(r, why) == [r EXCEPT !.failed = IF @ = "no" THEN why ELSE @, !.more = FALSE,
                            !.state = "CLOSED"]

Garbled == [message |-> 0, at |-> 0, class |-> "ascii"]

\* What the checks of a frame's first two octets refuse.
violates(r, h) ==
    \/ h.kind # "head"
    \/ h.rsv # 0 /\ ~(compressing /\ h.rsv = 4)
    \/ h.op > 7 /\ (~h.fin \/ h.rsv # 0)
    \/ h.op <= 7 /\ (r.inside_message <=> h.op # Continuation)
    \/ h.op <= 7 /\ r.inside_message /\ h.rsv # 0

onMessageFrameBegin(r, length) ==
    LET announced == [r EXCEPT !.message_data_total_length = @ + length]
    IN  IF /\ 0 < opt.maxMessagePayloadSize
           /\ opt.maxMessagePayloadSize < announced.message_data_total_length
        THEN failed(announced, "size") ELSE announced

onMessageBegin(r, h) ==
    LET zip == compressing /\ h.rsv = 4 IN
    [r EXCEPT !.inside_message = TRUE,
              !.isMessageCompressed = zip,
              !.decompressor = IF zip THEN start_message(opt.pmce.receiver, @) ELSE @,
              !.utf8 = IF h.op = Text THEN "accept" ELSE "off",
              !.message_is_binary = (h.op = Binary),
              !.message_data = <<>>,
              !.message_data_total_length = 0]

onFrameBegin(r, h) ==
    IF h.op > 7 THEN [r EXCEPT !.control_frame_data = <<>>]
    ELSE onMessageFrameBegin(IF r.inside_message THEN r ELSE onMessageBegin(r, h), h.len)

\* A header is taken off the buffer when it is complete.
beginFrame(r) ==
    LET h == Head(r.data)
        n == IF h.kind = "head" /\ h.masked THEN 2 ELSE 1
    IN  IF violates(r, h) THEN failed(r, "violation")
        ELSE IF Len(r.data) < n THEN [r EXCEPT !.more = FALSE]
        ELSE LET rest == SubSeq(r.data, n + 1, Len(r.data))
             IN  onFrameBegin([r EXCEPT !.data = rest, !.current_frame = h, !.pointer = 0,
                                        !.more = (h.len = 0 \/ rest # <<>>)], h)

unmasked(units, h, pointer) ==
    [i \in 1 .. Len(units) |->
        IF units[i].kind = "octet" /\ (h.masked => units[i].at = pointer + i - 1)
        THEN units[i].o ELSE Garbled]

\* Utf8Validator.validate, for octets of the three classes.
validate(state, octets) ==
    FoldLeft(LAMBDA u, o : CASE u = "accept" /\ o.class = "ascii" -> "accept"
                             [] u = "accept" /\ o.class = "lead"  -> "cont"
                             [] u = "cont"   /\ o.class = "cont"  -> "accept"
                             [] OTHER                             -> "reject",
             state, octets)

onFrameData(r, octets) ==
    IF r.current_frame.op > 7 THEN [r EXCEPT !.control_frame_data = @ \o octets]
    ELSE LET d == IF r.isMessageCompressed
                  THEN decompress_message_data(opt.pmce.receiver, r.decompressor, octets)
                  ELSE [out |-> octets, window |-> r.decompressor, raised |-> FALSE]
             u == IF r.utf8 = "off" THEN "off" ELSE validate(r.utf8, d.out)
             taken == [r EXCEPT !.decompressor = d.window, !.utf8 = u, !.message_data = @ \o d.out]
         IN  IF d.raised THEN failed(r, "raised")
             ELSE IF u = "reject" THEN failed(taken, "utf8") ELSE taken

delivered(r, item) == [r EXCEPT !.log = Append(@, item)]

\* A Close is replied to (or was the reply), and a server drops the connection.
processControlFrame(r) ==
    CASE r.current_frame.op = CloseOp ->
             [delivered(r, Close) EXCEPT !.state = IF opt.isServer THEN "CLOSING" ELSE "CLOSED"]
      [] r.current_frame.op = PingOp ->
             delivered(r, [type |-> "ping", octets |-> r.control_frame_data])

endMessageReceived(r) ==
    IF r.utf8 = "cont" THEN failed(r, "utf8")
    ELSE [delivered(r, [type |-> "message", binary |-> r.message_is_binary,
                        octets |-> r.message_data])
              EXCEPT !.inside_message = FALSE]

onFrameEnd(r) ==
    LET ended == CASE r.current_frame.op > 7 -> processControlFrame(r)
                   [] r.current_frame.op <= 7 /\ r.current_frame.fin -> endMessageReceived(r)
                   [] OTHER -> r
    IN  [ended EXCEPT !.current_frame = None]

continueFrame(r) ==
    LET h == r.current_frame
        n == IF Len(r.data) < h.len - r.pointer THEN Len(r.data) ELSE h.len - r.pointer
        left == SubSeq(r.data, n + 1, Len(r.data))
        octets == unmasked(SubSeq(r.data, 1, n), h, r.pointer)
        fed == onFrameData([r EXCEPT !.data = left, !.pointer = @ + n, !.more = (left # <<>>)], octets)
    IN  IF fed.failed = "no" /\ fed.pointer = h.len THEN onFrameEnd(fed) ELSE fed

processData(r) ==
    CASE r.current_frame # None -> continueFrame(r)
      [] r.data = <<>>          -> [r EXCEPT !.more = FALSE]
      [] OTHER                  -> beginFrame(r)

\* The loop of consumeData ends with the connection.
consumeStep(r) ==
    LET next == processData(r)
    IN  IF next.state = "CLOSED" THEN [next EXCEPT !.more = FALSE] ELSE next

-----------------------------------------------------------------------------
(* The two halves when the opening handshake is done.                      *)

Init ==
    /\ opt \in Options
    /\ snd = [state |-> "OPEN", send_state |-> "ground", send_compressed |-> FALSE,
              frame_length |-> 0, pointer |-> 0, message |-> None, left |-> <<>>, held |-> <<>>,
              send_queue |-> <<>>, triggered |-> FALSE, scheduled |-> FALSE,
              compressor |-> None, wire |-> <<>>, log |-> <<>>,
              messages |-> 0, pings |-> 0, peerClosed |-> FALSE]
    /\ rcv = [state |-> "OPEN", data |-> <<>>, current_frame |-> None, pointer |-> 0,
              inside_message |-> FALSE, isMessageCompressed |-> FALSE, decompressor |-> None,
              utf8 |-> "off", message_is_binary |-> FALSE, message_data |-> <<>>,
              message_data_total_length |-> 0, control_frame_data |-> <<>>,
              more |-> FALSE, failed |-> "no", log |-> <<>>]

Sends(next) == snd' = next /\ UNCHANGED <<opt, rcv>>

\* The application completes a frame, a message, before it sends another: the
\* calls below do not make it.
BetweenFrames == snd.send_state # "inside_frame"
BetweenMessages == snd.send_state = "ground"

\* Text is handed over encoded, so that it is valid UTF-8.
NewMessages ==
    {m \in {Message(snd.messages + 1, b, p) : b \in BOOLEAN, p \in opt.payloads} :
        m.binary \/ validate("accept", m.octets) = "accept"}

Counted(next) == [next EXCEPT !.messages = @ + 1]

SendMessage ==
    /\ snd.messages < opt.messages /\ BetweenMessages
    /\ \E m \in NewMessages, sync \in {FALSE, opt.sync}, raw \in {FALSE, compressing} :
        Sends(Counted(sendMessage(snd, m, sync, raw)))

SendPreparedMessage ==
    /\ opt.prepared /\ snd.messages < opt.messages /\ BetweenMessages
    /\ \E m \in NewMessages, raw \in BOOLEAN : Sends(Counted(sendPreparedMessage(snd, m, raw)))

\* A message in one frame that is written octet by octet.
SendChopped ==
    /\ opt.chop /\ snd.messages < opt.messages /\ BetweenMessages /\ snd.state = "OPEN"
    /\ \E m \in NewMessages :
        Sends(Counted(logged(sendFrame(snd, IF m.binary THEN Binary ELSE Text, m.octets,
                                       TRUE, 0, FALSE, 1), m)))

BeginMessage ==
    /\ opt.streaming /\ snd.messages < opt.messages /\ BetweenMessages
    /\ \E m \in NewMessages, raw \in {FALSE, compressing} :
        Sends(Counted(beginMessage(snd, m, raw)))

\* Octets streamed into a frame are not compressed.
BeginMessageFrame ==
    /\ opt.streaming
    /\ ~snd.send_compressed /\ snd.send_state \in {"message_begin", "inside_message"}
    /\ \E n \in 1 .. Len(snd.left) : Sends(beginMessageFrame(snd, n))

SendMessageFrameData ==
    /\ opt.streaming
    /\ snd.send_state = "inside_frame"
    /\ \E n \in 1 .. Len(snd.left), sync \in {FALSE, opt.sync} :
        LET next == sendMessageFrameData(snd, SubSeq(snd.left, 1, n), sync)
        IN  Sends([next EXCEPT !.left = SubSeq(@, next.pointer - snd.pointer + 1, Len(@))])

SendMessageFrame ==
    /\ opt.streaming /\ snd.send_state \in {"message_begin", "inside_message"}
    /\ \E n \in 1 .. Len(snd.left), sync \in {FALSE, opt.sync} :
        Sends([sendMessageFrame(snd, SubSeq(snd.left, 1, n), sync)
                   EXCEPT !.left = SubSeq(@, n + 1, Len(@))])

EndMessage ==
    /\ opt.streaming
    /\ snd.send_state = "inside_message" /\ snd.left = <<>>
    /\ Sends(endMessage(snd))

SendPing ==
    /\ ~opt.autoPing /\ snd.pings < opt.pings /\ BetweenFrames
    /\ Sends([sendPing(snd, Ping(snd.pings + 1)) EXCEPT !.pings = @ + 1])

\* _sendAutoPing does not look at the send state.
AutoPing ==
    /\ opt.autoPing /\ snd.pings < opt.pings
    /\ Sends([sendPing(snd, Ping(snd.pings + 1)) EXCEPT !.pings = @ + 1])

SendClose == opt.closes /\ snd.state = "OPEN" /\ BetweenFrames /\ Sends(sendCloseFrame(snd))

\* The receiving half's application closes; its Close, or its reply, arrives.
PeerSendsClose ==
    /\ opt.closes
    /\ rcv.state = "OPEN" /\ ~rcv.more
    /\ rcv' = [rcv EXCEPT !.state = "CLOSING"]
    /\ UNCHANGED <<opt, snd>>

ReceiveClose ==
    /\ rcv.state # "OPEN" /\ rcv.failed = "no" /\ ~snd.peerClosed
    /\ BetweenFrames
    /\ Sends([onCloseFrame(snd) EXCEPT !.peerClosed = TRUE])

\* The delayed call of the queue.
QueuedWrite == snd.scheduled /\ Sends(sendNext(snd))

\* A chunk arrives, cut anywhere.
DataReceived ==
    /\ ~rcv.more
    /\ \E n \in 1 .. Len(snd.wire) :
        /\ snd' = [snd EXCEPT !.wire = SubSeq(@, n + 1, Len(@))]
        /\ rcv' = IF rcv.state = "CLOSED" THEN rcv
                  ELSE [rcv EXCEPT !.data = @ \o SubSeq(snd.wire, 1, n), !.more = TRUE]
    /\ UNCHANGED opt

ConsumeData ==
    /\ rcv.more
    /\ rcv' = consumeStep(rcv)
    /\ UNCHANGED <<opt, snd>>

Application ==
    \/ SendMessage \/ SendPreparedMessage \/ SendChopped
    \/ BeginMessage \/ BeginMessageFrame \/ SendMessageFrameData \/ SendMessageFrame \/ EndMessage
    \/ SendPing \/ SendClose \/ PeerSendsClose

Next ==
    \/ Application
    \/ AutoPing \/ ReceiveClose \/ QueuedWrite \/ DataReceived \/ ConsumeData

Spec == Init /\ [][Next]_vars

\* Delayed calls run, what is written arrives, and the loop of consumeData goes
\* on: ConsumeData is enabled while rcv.more, so that the last conjunct says
\* WF_vars(ConsumeData), in a form that is cheap to evaluate.
FairSpec ==
    /\ Spec
    /\ WF_vars(QueuedWrite)
    /\ WF_vars(DataReceived)
    /\ []<>(~rcv.more) \/ []<><<ConsumeData>>_vars

-----------------------------------------------------------------------------
(* Properties.                                                             *)

\* The two halves are well typed, and the queue's delayed call is outstanding
\* exactly while the queue counts as triggered.
StreamTypeOK ==
    /\ opt \in Options
    /\ snd.state \in {"OPEN", "CLOSING", "CLOSED"}
    /\ snd.send_state \in {"ground", "message_begin", "inside_message", "inside_frame"}
    /\ snd.pointer \in 0 .. snd.frame_length
    /\ snd.triggered = snd.scheduled
    /\ rcv.state \in {"OPEN", "CLOSING", "CLOSED"}
    /\ rcv.failed \in {"no", "violation", "size", "utf8", "raised"}
    /\ rcv.utf8 \in {"off", "accept", "cont", "reject"}
    /\ rcv.current_frame # None => rcv.pointer \in 0 .. rcv.current_frame.len

\* The peer's callbacks fire for what was sent, whole and in order, however the
\* stream was cut, queued, fragmented, compressed or interleaved with pings.
ReceivedAsSent == IsPrefix(rcv.log, snd.log)

\* A peer never fails a connection on which an application writes that keeps
\* its frames and messages apart.
NothingRefused == rcv.failed = "no"

\* Everything sent is received, unless an end has dropped the connection.
SentIsReceived ==
    \A i \in 1 .. MaxItems :
        Len(snd.log) >= i ~> (Len(rcv.log) >= i \/ snd.state = "CLOSED" \/ rcv.state = "CLOSED")

\* No frame follows a Close.
CloseIsLast ==
    \A i \in 1 .. Len(snd.log) : snd.log[i] = Close => i = Len(snd.log)

\* A Close received is answered: the reply reaches the peer.
CloseIsAnswered == snd.peerClosed ~> \E i \in 1 .. Len(rcv.log) : rcv.log[i] = Close
=============================================================================
