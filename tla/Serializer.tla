----------------------------- MODULE Serializer -----------------------------
(***************************************************************************)
(* The serializers of autobahn/wamp/serializer.py: WAMP messages to octets *)
(* and back, one at a time or in batches, with statistics.                 *)
(*                                                                         *)
(* A message is a record [nr, size, kind]: the number its sender gave it,  *)
(* the octets it is serialized to, and what the receiver makes of it.      *)
(* Its octets carry the format they are in; what decodes them is abstract. *)
(***************************************************************************)
EXTENDS Integers, SequencesExt

CONSTANTS Rated     \* octets of one rated message (512)

Kinds == {"accepted", "unwelcome", "cancelled", "malformed"}

\* A format, and whether messages are batched.
type(format, batched) == [format |-> format, batched |-> batched]

RAWSOCKET_SERIALIZER_ID ==
    [json |-> 1, msgpack |-> 2, cbor |-> 3, ubjson |-> 4]

ids(t) == RAWSOCKET_SERIALIZER_ID[t.format]

\* What the factories offer: the asyncio RawSocket factories know no batches.
defaultSerializers(formats, batches) ==
    IF batches THEN FlattenSeq([i \in DOMAIN formats |->
                                <<type(formats[i], TRUE), type(formats[i], FALSE)>>])
               ELSE [i \in DOMAIN formats |-> type(formats[i], FALSE)]

-----------------------------------------------------------------------------
(* Octets                                                                  *)

body(format, m) == [i \in 1 .. m.size |-> [format |-> format, m |-> m]]

length(n) == [length |-> n]           \* "!L"
end == [end |-> TRUE]                 \* b'\30'

\* The serialize() of the object serializers.
serializeObject(t, m) ==
    CASE ~t.batched -> body(t.format, m)
      [] t.batched /\ t.format = "json" -> Append(body(t.format, m), end)
      [] OTHER -> <<length(m.size)>> \o body(t.format, m)

\* _loads, _unpackb, ...: all octets of one message, in the right format.  What
\* raises instead, like the batch format errors, is a message nobody accepts.
Garbage == [kind |-> "malformed"]
decode(format, data) ==
    IF /\ data # <<>> /\ "m" \in DOMAIN data[1]
       /\ data = body(format, data[1].m)
    THEN data[1].m ELSE Garbage

\* The JSON object serializer splits at the end marks, and drops what is behind the last.
chunks(payload) ==
    LET step(c, o) == IF o = end THEN [done |-> Append(c.done, decode("json", c.open)), open |-> <<>>]
                      ELSE [c EXCEPT !.open = Append(@, o)]
    IN FoldLeft(step, [done |-> <<>>, open |-> <<>>], payload).done

\* The others walk from one length prefix to the next.
prefixed(format, payload) ==
    LET N == Len(payload)
        from[i \in 1 .. N + 1] ==
            IF i = N + 1 THEN <<>>
            ELSE IF "length" \notin DOMAIN payload[i] \/ i + payload[i].length > N THEN <<Garbage>>
            ELSE LET next == i + payload[i].length + 1
                 IN <<decode(format, SubSeq(payload, i + 1, next - 1))>> \o from[next]
    IN from[1]

\* The unserialize() of the object serializers.
unserializeObject(t, payload) ==
    CASE ~t.batched -> <<decode(t.format, payload)>>
      [] t.batched /\ t.format = "json" -> IF end \in ToSet(payload) THEN chunks(payload) ELSE <<Garbage>>
      [] OTHER -> prefixed(t.format, payload)

-----------------------------------------------------------------------------
(* The serializer of one connection: the copy of the factory's, with its   *)
(* counters, and the reports its autoreset callback was given.             *)

noStats == [bytes |-> 0, messages |-> 0, rated |-> 0]

Serializer(t, autoreset) ==
    [type |-> t, serialized |-> noStats, unserialized |-> noStats,
     autoreset |-> autoreset, reports |-> <<>>]

sum(x, y) == [f \in DOMAIN x |-> x[f] + y[f]]

counted(octets, messages) ==
    [bytes |-> octets, messages |-> messages, rated |-> (octets + Rated - 1) \div Rated]

stats(s) == [s EXCEPT !.reports = Append(@, sum(s.serialized, s.unserialized)),
                      !.serialized = noStats, !.unserialized = noStats]

maybeReset(s) ==
    IF s.autoreset # 0 /\ sum(s.serialized, s.unserialized).rated >= s.autoreset
    THEN stats(s) ELSE s

serialize(s, m) ==
    LET data == serializeObject(s.type, m)
    IN [data |-> data,
        s |-> maybeReset([s EXCEPT !.serialized = sum(@, counted(Len(data), 1))])]

\* ProtocolError: nothing is counted, and of a batch nothing is returned.
unserialize(s, payload) ==
    LET msgs == unserializeObject(s.type, payload)
    IN IF \E i \in DOMAIN msgs : msgs[i].kind = "malformed"
       THEN [raised |-> TRUE, msgs |-> <<>>, s |-> s]
       ELSE [raised |-> FALSE, msgs |-> msgs,
             s |-> maybeReset([s EXCEPT !.unserialized = sum(@, counted(Len(payload), Len(msgs)))])]

\* Everything a serializer has counted, in reports and since the last one.
total(s) == FoldSeq(sum, sum(s.serialized, s.unserialized), s.reports)
=============================================================================
