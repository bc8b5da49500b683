---------------------------- MODULE WampMessages ----------------------------
(***************************************************************************)
(* The WAMP messages of autobahn/wamp/message.py, from the options object  *)
(* an application gives (types.py) through the message, its wire form and  *)
(* back to the message and the details object the handler gets.            *)
(*                                                                         *)
(* A value is one of a few names that the checks of the code tell apart,   *)
(* and a type of Python is a set of them.  Every class has three tables:   *)
(*   X_init     what its constructor asserts of every attribute;           *)
(*   X_parse    the positions of its list, what parse() takes there, and   *)
(*              what it takes under every key of the options dictionary;   *)
(*   X_marshal  for every key, the values marshal() leaves out.            *)
(***************************************************************************)
EXTENDS Integers, Sequences, FiniteSets

CONSTANTS ClassesUsed, \* the message classes of the instance
          Timeouts,    \* the timeouts applications give in CallOptions
          SetAtMost,   \* bound: attributes given to one message beyond its base
          GarbleAtMost,\* bound: attributes given to a message that is garbled
          Garbled      \* the values a garbled element may take

VARIABLES class,     \* the class of the message under way
          asked,     \* what the application or the router gave, by attribute
          message,   \* what the constructor made of that
          wire,      \* the list and the options that marshal() made of it
          got        \* what the receiver's parse() made of that

messageVars == <<class, asked, message, wire, got>>

-----------------------------------------------------------------------------
\* f, with the values of g where it has none; f, with the value v of a
f ++ g == [a \in DOMAIN f \cup DOMAIN g |-> IF a \in DOMAIN f THEN f[a] ELSE g[a]]
with(f, a, v) == [b \in DOMAIN f \cup {a} |-> IF b = a THEN v ELSE f[b]]

-----------------------------------------------------------------------------
(* The values and their types. *)

int  == {"zero", "one", "negative", "huge"}          \* huge: beyond 2^53
bool == {"false", "true"}
match == {"exact", "prefix", "wildcard"}
uri  == match \cup {"single", "word"}                 \* well-formed, no empty component
str  == uri \cup {"emptyStr", "openEnd", "gap", "text"} \* "com.", "com..x", "not a uri"
hops == {"emptyList", "hops", "anonymousHops"}        \* anonymous: authid is None
list == hops \cup {"ints", "strs", "badHops"}
extra == {"emptyDict", "dict", "roles", "badRoles"}   \* dictionaries with string keys
dict == extra \cup {"oddDict"}
bytes == {"emptyBytes", "bytes"}
opaque == str \cup bytes
Values == int \cup {"float", "none"} \cup bool \cup str \cup list \cup dict \cup bytes

Falsy == {"none", "zero", "false", "emptyStr", "emptyList", "emptyDict", "emptyBytes"}

optional(type) == type \cup {"none"}

\* check_or_raise_id
id == int \ {"negative", "huge"}

\* check_or_raise_uri with allow_empty_components, and with allow_last_empty
uri_gaps == uri \cup {"emptyStr", "openEnd", "gap"}
uri_open == uri \cup {"emptyStr", "openEnd"}

\* is_valid_enc_algo and is_valid_enc_serializer
known == {"word"}

\* features of a role must be Boolean, unknown ones are dropped (_check_all_bool)
features == {"roles"}

ints == {"emptyList", "ints"}
strs == {"emptyList", "strs"}

(* What the forward_for check of parse() accepts: it means to accept hops   *)
(* only, but its "valid = True" is reached after every break too.           *)
forward_for == list

-----------------------------------------------------------------------------
(* The parts classes share: a payload in one of three forms. *)

Payload == {"args", "kwargs", "payload"}
Enc == {"enc_algo", "enc_key", "enc_serializer"}

Payload_init == [args |-> optional(list), kwargs |-> optional(dict), payload |-> optional(bytes),
                 enc_algo |-> optional(known), enc_key |-> optional(str),
                 enc_serializer |-> optional(known)]

Enc_parse == [enc_algo |-> known \cup Falsy, enc_key |-> str \cup Falsy,
              enc_serializer |-> known \cup Falsy]

Enc_marshal == [a \in Enc |-> {"none"}]

given(attributes) == [a \in attributes |-> {"none"}]
truthy(attributes) == [a \in attributes |-> Falsy]

\* positions, how many of them must be there, and the tail a payload adds
Layout(positions, least) == [positions |-> positions, least |-> least,
                             payload |-> {}, args |-> {}, kwargs |-> {}]
PayloadAfter(positions, payload, args, kwargs) ==
  [positions |-> positions, least |-> Len(positions),
   payload |-> payload, args |-> args, kwargs |-> kwargs]

-----------------------------------------------------------------------------
(* Opening and closing a session. *)

Hello_init == [realm |-> optional(str), roles |-> {"roles"}, authmethods |-> optional(strs),
               authid |-> optional(str), authrole |-> optional(str), authextra |-> optional(dict),
               resumable |-> optional(bool), resume_session |-> optional(int),
               resume_token |-> optional(str)]
Hello_parse == [layout |-> Layout(<<"realm", "options">>, 2),
  takes |-> [realm |-> optional(uri), roles |-> features, authmethods |-> strs,
             authid |-> str, authrole |-> str, authextra |-> dict, resumable |-> bool,
             resume_session |-> int, resume_token |-> str]]
Hello_marshal == [roles |-> {}] ++
  given({"authmethods", "authid", "authrole", "authextra", "resumable",
         "resume_session", "resume_token"})

Welcome_init == [session |-> int, roles |-> {"roles"}, realm |-> optional(str),
                 authid |-> optional(str), authrole |-> optional(str), authmethod |-> optional(str),
                 authprovider |-> optional(str), authextra |-> optional(dict),
                 resumed |-> optional(bool), resumable |-> optional(bool),
                 resume_token |-> optional(str)]
Welcome_parse == [layout |-> Layout(<<"session", "options">>, 2),
  takes |-> [session |-> id, roles |-> features, realm |-> Values, authid |-> Values,
             authrole |-> Values, authmethod |-> Values, authprovider |-> Values,
             authextra |-> Values, resumed |-> bool, resumable |-> bool,
             resume_token |-> str]]
Welcome_marshal == [roles |-> {}, authmethod |-> {}] ++
  truthy({"realm", "authid", "authrole", "authprovider", "authextra", "resumed",
          "resumable", "resume_token"})

Abort_init == [reason |-> str, message |-> optional(str)]
Abort_parse == [layout |-> Layout(<<"options", "reason">>, 2),
                takes |-> [reason |-> uri, message |-> str]]
Abort_marshal == truthy({"message"})

Challenge_init == [method |-> str, extra |-> optional(dict)]
Challenge_parse == [layout |-> Layout(<<"method", "extra">>, 2),
                    takes |-> [method |-> str, extra |-> extra]]
Challenge_marshal == <<>>

Authenticate_init == [signature |-> str, extra |-> optional(dict)]
Authenticate_parse == [layout |-> Layout(<<"signature", "extra">>, 2),
                       takes |-> [signature |-> str, extra |-> extra]]
Authenticate_marshal == <<>>

Goodbye_init == [reason |-> str, message |-> optional(str), resumable |-> optional(bool)]
Goodbye_parse == [layout |-> Layout(<<"options", "reason">>, 2),
                  takes |-> [reason |-> uri, message |-> str, resumable |-> bool]]
Goodbye_marshal == truthy({"message", "resumable"})

Error_init == Payload_init ++
  [request_type |-> int, request |-> int, error |-> str, callee |-> optional(int),
   callee_authid |-> optional(str), callee_authrole |-> optional(str), forward_for |-> optional(hops)]
\* of the integers, "one" stands for a type of message that has requests
Error_parse ==
  [layout |-> PayloadAfter(<<"request_type", "request", "options", "error">>, bytes, optional(list), dict),
   takes |-> Enc_parse ++ [request_type |-> {"one"}, request |-> id, error |-> uri, callee |-> int,
              callee_authid |-> str, callee_authrole |-> str, forward_for |-> forward_for]]
Error_marshal == Enc_marshal ++
  given({"callee", "callee_authid", "callee_authrole", "forward_for"})

-----------------------------------------------------------------------------
(* Publish and subscribe. *)

Publish_init ==
  [args |-> optional(list \cup opaque), kwargs |-> optional(dict \cup opaque)] ++ Payload_init ++
  [request |-> optional(int), topic |-> optional(str), acknowledge |-> optional(bool),
   exclude_me |-> optional(bool), exclude |-> optional(ints), exclude_authid |-> optional(strs),
   exclude_authrole |-> optional(strs), eligible |-> optional(ints), eligible_authid |-> optional(strs),
   eligible_authrole |-> optional(strs), retain |-> optional(bool), transaction_hash |-> optional(str),
   forward_for |-> optional(hops)]
Publish_parse ==
  [layout |-> PayloadAfter(<<"request", "options", "topic">>, opaque, list \cup opaque,
                           dict \cup opaque),
   takes |-> Enc_parse ++
     [request |-> id, topic |-> uri, acknowledge |-> bool, exclude_me |-> bool,
      exclude |-> ints, exclude_authid |-> strs, exclude_authrole |-> strs,
      eligible |-> ints, eligible_authid |-> strs, eligible_authrole |-> strs,
      retain |-> bool, transaction_hash |-> str, forward_for |-> forward_for]]
Publish_marshal == Enc_marshal ++
  given({"acknowledge", "exclude_me", "exclude", "exclude_authid", "exclude_authrole",
         "eligible", "eligible_authid", "eligible_authrole", "retain",
         "transaction_hash", "forward_for"})

Published_init == [request |-> int, publication |-> int]
Published_parse == [layout |-> Layout(<<"request", "publication">>, 2),
                    takes |-> [request |-> id, publication |-> id]]
Published_marshal == <<>>

Subscribe_init == [request |-> int, topic |-> str, match |-> optional(match),
                   get_retained |-> optional(bool), forward_for |-> optional(hops)]
Subscribe_parse == [layout |-> Layout(<<"request", "options", "topic">>, 3),
  takes |-> [request |-> id, topic |-> uri_gaps, match |-> match,
             get_retained |-> bool, forward_for |-> forward_for]]
Subscribe_marshal == [match |-> {"none", "exact"}] ++ given({"get_retained", "forward_for"})

Subscribed_init == [request |-> int, subscription |-> int]
Subscribed_parse == [layout |-> Layout(<<"request", "subscription">>, 2),
                     takes |-> [request |-> id, subscription |-> id]]
Subscribed_marshal == <<>>

Unsubscribe_init == [request |-> int, subscription |-> int, forward_for |-> optional(hops)]
Unsubscribe_parse == [layout |-> Layout(<<"request", "subscription", "options">>, 2),
  takes |-> [request |-> id, subscription |-> id, forward_for |-> forward_for]]
Unsubscribe_marshal == truthy({"forward_for"})

Unsubscribed_init == [request |-> int, subscription |-> optional(int), reason |-> optional(str)]
Unsubscribed_parse == [layout |-> Layout(<<"request", "options">>, 1),
  takes |-> [request |-> id, subscription |-> int, reason |-> uri]]
Unsubscribed_marshal == given({"subscription", "reason"})

Event_init == Payload_init ++
  [subscription |-> optional(int), publication |-> optional(int), publisher |-> optional(int),
   publisher_authid |-> optional(str), publisher_authrole |-> optional(str), topic |-> optional(str),
   retained |-> optional(bool), transaction_hash |-> optional(str),
   x_acknowledged_delivery |-> optional(bool), forward_for |-> optional(hops)]
Event_parse ==
  [layout |-> PayloadAfter(<<"subscription", "publication", "options">>, bytes, optional(list), dict),
   takes |-> Enc_parse ++
     [subscription |-> id, publication |-> id, publisher |-> int,
      publisher_authid |-> str, publisher_authrole |-> str, topic |-> str,
      retained |-> bool, transaction_hash |-> str, x_acknowledged_delivery |-> bool,
      forward_for |-> forward_for]]
Event_marshal == Enc_marshal ++
  given({"publisher", "publisher_authid", "publisher_authrole", "topic", "retained",
         "transaction_hash", "x_acknowledged_delivery", "forward_for"})

EventReceived_init == [publication |-> int]
EventReceived_parse == [layout |-> Layout(<<"publication">>, 1),
                        takes |-> [publication |-> id]]
EventReceived_marshal == <<>>

-----------------------------------------------------------------------------
(* Calls and registrations. *)

Call_init == Payload_init ++
  [request |-> int, procedure |-> str, timeout |-> optional(int), receive_progress |-> optional(bool),
   transaction_hash |-> optional(str), caller |-> optional(int), caller_authid |-> optional(str),
   caller_authrole |-> optional(str), forward_for |-> optional(hops)]
Call_parse ==
  [layout |-> PayloadAfter(<<"request", "options", "procedure">>, opaque, optional(list), dict),
   takes |-> Enc_parse ++
     [request |-> id, procedure |-> uri, timeout |-> int \ {"negative"},
      receive_progress |-> bool, transaction_hash |-> str, caller |-> int,
      caller_authid |-> str, caller_authrole |-> str, forward_for |-> forward_for]]
Call_marshal == Enc_marshal ++
  given({"timeout", "receive_progress", "transaction_hash", "caller", "caller_authid",
         "caller_authrole", "forward_for"})

\* of the texts, "word" stands for a mode
Cancel_init == [request |-> int, mode |-> optional(known), forward_for |-> optional(hops)]
Cancel_parse == [layout |-> Layout(<<"request", "options">>, 2),
  takes |-> [request |-> id, mode |-> known, forward_for |-> forward_for]]
Cancel_marshal == given({"mode", "forward_for"})

Result_init == Payload_init ++
  [request |-> int, progress |-> optional(bool), callee |-> optional(int), callee_authid |-> optional(str),
   callee_authrole |-> optional(str), forward_for |-> optional(hops)]
Result_parse ==
  [layout |-> PayloadAfter(<<"request", "options">>, opaque, optional(list), dict),
   takes |-> Enc_parse ++
     [request |-> id, progress |-> bool, callee |-> int, callee_authid |-> str,
      callee_authrole |-> str, forward_for |-> forward_for]]
Result_marshal == Enc_marshal ++
  given({"progress", "callee", "callee_authid", "callee_authrole", "forward_for"})

Register_init == [request |-> int, procedure |-> str, match |-> optional(match),
                  invoke |-> optional({"single", "word"}), concurrency |-> optional({"one", "huge"}),
                  force_reregister |-> optional(bool \cup {"zero", "one"}),
                  forward_for |-> optional(hops)]
Register_parse == [layout |-> Layout(<<"request", "options", "procedure">>, 3),
  takes |-> [request |-> id, procedure |-> uri_gaps, match |-> match,
             invoke |-> {"single", "word"}, concurrency |-> {"one", "huge"},
             force_reregister |-> optional(bool \cup {"zero", "one"}), forward_for |-> forward_for]]
Register_marshal == [match |-> {"none", "exact"}, invoke |-> {"none", "single"}] ++
  truthy({"concurrency"}) ++ given({"force_reregister", "forward_for"})

Registered_init == [request |-> int, registration |-> int]
Registered_parse == [layout |-> Layout(<<"request", "registration">>, 2),
                     takes |-> [request |-> id, registration |-> id]]
Registered_marshal == <<>>

Unregister_init == [request |-> int, registration |-> int, forward_for |-> optional(hops)]
Unregister_parse == [layout |-> Layout(<<"request", "registration", "options">>, 2),
  takes |-> [request |-> id, registration |-> id, forward_for |-> forward_for]]
Unregister_marshal == truthy({"forward_for"})

Unregistered_init == [request |-> int, registration |-> optional(int), reason |-> optional(str)]
Unregistered_parse == [layout |-> Layout(<<"request", "options">>, 1),
  takes |-> [request |-> id, registration |-> int, reason |-> uri]]
Unregistered_marshal == given({"registration", "reason"})

Invocation_init == Payload_init ++
  [request |-> int, registration |-> int, timeout |-> optional(int), receive_progress |-> optional(bool),
   caller |-> optional(int), caller_authid |-> optional(str), caller_authrole |-> optional(str),
   procedure |-> optional(str), transaction_hash |-> optional(str), forward_for |-> optional(hops)]
Invocation_parse ==
  [layout |-> PayloadAfter(<<"request", "registration", "options">>, bytes, optional(list), dict),
   takes |-> Enc_parse ++
     [request |-> id, registration |-> id, timeout |-> int \ {"negative"},
      receive_progress |-> bool, caller |-> int, caller_authid |-> str,
      caller_authrole |-> str, procedure |-> str, transaction_hash |-> str,
      forward_for |-> forward_for]]
Invocation_marshal == Enc_marshal ++
  given({"timeout", "receive_progress", "caller", "caller_authid", "caller_authrole",
         "procedure", "transaction_hash", "forward_for"})

Interrupt_init == [request |-> int, mode |-> optional(known), reason |-> optional(str),
                   forward_for |-> optional(hops)]
Interrupt_parse == [layout |-> Layout(<<"request", "options">>, 2),
  takes |-> [request |-> id, mode |-> known, reason |-> uri, forward_for |-> forward_for]]
Interrupt_marshal == given({"mode", "reason", "forward_for"})

Yield_init == Payload_init ++
  [request |-> int, progress |-> optional(bool), callee |-> optional(int), callee_authid |-> optional(str),
   callee_authrole |-> optional(str), forward_for |-> optional(hops)]
Yield_parse ==
  [layout |-> PayloadAfter(<<"request", "options">>, bytes, optional(list), dict),
   takes |-> Enc_parse ++
     [request |-> id, progress |-> bool, callee |-> int, callee_authid |-> str,
      callee_authrole |-> str, forward_for |-> forward_for]]
Yield_marshal == Enc_marshal ++
  given({"progress", "callee", "callee_authid", "callee_authrole", "forward_for"})

-----------------------------------------------------------------------------
(* The details objects marshalled into dictionaries: of a transport, of a   *)
(* session, and the extra data of a cryptosign authentication.              *)


\* codes (numbers here) are written as names, keys (octets here) as hexadecimal text
named   == [zero |-> "nullName", one |-> "name"]
hexed   == [raw |-> "hex"]
unnamed == [nullName |-> "zero", name |-> "one"]
unhexed == [hex |-> "raw"]

Codes == {"channel_type", "channel_framing", "channel_serializer"}

TransportDetails_init ==
  [a \in Codes |-> optional({"zero", "one"})] ++
  [a \in {"own", "peer", "websocket_protocol", "http_cbtid"} |-> optional(str)] ++
  [a \in {"own_pid", "own_tid", "own_fd"} |-> optional(int)] ++
  [a \in {"is_server", "is_secure"} |-> optional(bool)] ++
  [a \in {"peer_cert", "http_headers_received", "http_headers_sent"} |-> optional(dict)] ++
  [channel_id |-> optional({"raw"}), websocket_extensions_in_use |-> optional(list)]
TransportDetails_parse == [layout |-> Layout(<<"options">>, 1),
  takes |-> [a \in Codes |-> optional({"nullName", "name"})] ++
    [a \in DOMAIN TransportDetails_init \ (Codes \cup {"peer_cert"}) |->
       IF a = "channel_id" THEN optional({"hex"}) ELSE TransportDetails_init[a]],
  reads |-> [a \in Codes |-> unnamed] ++ [channel_id |-> unhexed]]
TransportDetails_marshal == [a \in DOMAIN TransportDetails_init |-> {}]
TransportDetails_writes == [a \in Codes |-> named]

SessionDetails_init ==
  [a \in {"realm", "authid", "authrole", "authmethod", "authprovider", "serializer",
          "resume_token"} |-> optional(str)] ++
  [session |-> optional(int), authextra |-> optional(extra), resumed |-> optional(bool),
   resumable |-> optional(bool)]
SessionDetails_parse == [layout |-> Layout(<<"options">>, 1), takes |-> SessionDetails_init]
SessionDetails_marshal == [a \in DOMAIN SessionDetails_init |-> {}]

Keys == {"pubkey", "challenge", "channel_id", "trustroot", "realm", "delegate", "seeder",
         "signature"}
Numbers == {"chain_id", "block_no", "bandwidth"}
CryptosignAuthextra_init == [a \in Keys |-> optional({"raw"})] ++ [a \in Numbers |-> optional(int)] ++
                            [channel_binding |-> optional(known)]
CryptosignAuthextra_parse == [layout |-> Layout(<<"options">>, 1),
  takes |-> [a \in Keys |-> optional({"hex"})] ++ [a \in Numbers |-> optional(int)] ++
            [channel_binding |-> optional(known)],
  reads |-> [a \in Keys |-> unhexed]]
CryptosignAuthextra_marshal == given(DOMAIN CryptosignAuthextra_init)
CryptosignAuthextra_writes == [a \in Keys |-> hexed]

-----------------------------------------------------------------------------
(* What the options objects of an application take, and the attributes that *)
(* message_attr() makes of them.                                            *)

PublishOptions == [acknowledge |-> optional(bool), exclude_me |-> optional(bool),
  exclude |-> optional(int \cup ints), exclude_authid |-> optional(str \cup strs),
  exclude_authrole |-> optional(str \cup strs), eligible |-> optional(int \cup ints),
  eligible_authid |-> optional(str \cup strs), eligible_authrole |-> optional(str \cup strs),
  retain |-> optional(bool), transaction_hash |-> optional(str),
  forward_for |-> optional(hops \ {"anonymousHops"})]

SubscribeOptions == [match |-> optional(match), get_retained |-> optional(bool),
                     forward_for |-> optional(hops)]

RegisterOptions == [match |-> optional(match), invoke |-> optional({"single", "word"}),
  concurrency |-> optional({"one", "huge"}),
  force_reregister |-> optional(bool \cup {"zero", "one"}), forward_for |-> optional(hops)]

\* receive_progress stands for on_progress, a callable
CallOptions == [timeout |-> optional(Timeouts), receive_progress |-> optional({"callable"}),
  transaction_hash |-> optional(str), caller |-> optional(int), caller_authid |-> optional(str),
  caller_authrole |-> optional(str), forward_for |-> optional(hops)]

options == [Publish |-> PublishOptions, Subscribe |-> SubscribeOptions,
            Register |-> RegisterOptions, Call |-> CallOptions]

Scalars == {"exclude", "exclude_authid", "exclude_authrole",
            "eligible", "eligible_authid", "eligible_authrole"}

PublishOptions_message_attr(a, v) ==
  CASE a \in Scalars /\ v \in int -> "ints"
    [] a \in Scalars /\ v \in str -> "strs"
    [] OTHER -> v

CallOptions_message_attr(a, v) == IF v = "callable" THEN "true" ELSE v

message_attr(c, a, v) == CASE c = "Publish" -> PublishOptions_message_attr(a, v)
                           [] c = "Call"    -> CallOptions_message_attr(a, v)
                           [] OTHER -> v

\* The details objects an event handler, an endpoint and a caller get: the
\* attributes copied out of the message, and what their constructors assert.
EventDetails == [publisher |-> optional(int), publisher_authid |-> optional(str),
  publisher_authrole |-> optional(str), topic |-> optional(str), retained |-> optional(bool),
  transaction_hash |-> optional(str), enc_algo |-> optional(str), forward_for |-> optional(hops)]
CallDetails == [caller |-> optional(int), caller_authid |-> optional(str),
  caller_authrole |-> optional(str), procedure |-> optional(str), transaction_hash |-> optional(str),
  enc_algo |-> optional(str)]
CallResult == [callee |-> optional(int), callee_authid |-> optional(str),
  callee_authrole |-> optional(str), forward_for |-> optional(hops)]
details == [Event |-> EventDetails, Invocation |-> CallDetails, Result |-> CallResult]

-----------------------------------------------------------------------------
(* MESSAGE_TYPE_MAP: the tables by class. *)

empty == <<>>   \* the empty function
table(i, p, m) == [init |-> i, takes |-> p.takes, layout |-> p.layout, omits |-> m,
                   reads |-> empty, writes |-> empty]
coded(i, p, m, w) == [table(i, p, m) EXCEPT !.reads = p.reads, !.writes = w]

MESSAGE_TYPE_MAP ==
  [Hello        |-> table(Hello_init, Hello_parse, Hello_marshal),
   Welcome      |-> table(Welcome_init, Welcome_parse, Welcome_marshal),
   Abort        |-> table(Abort_init, Abort_parse, Abort_marshal),
   Challenge    |-> table(Challenge_init, Challenge_parse, Challenge_marshal),
   Authenticate |-> table(Authenticate_init, Authenticate_parse, Authenticate_marshal),
   Goodbye      |-> table(Goodbye_init, Goodbye_parse, Goodbye_marshal),
   Error        |-> table(Error_init, Error_parse, Error_marshal),
   Publish      |-> table(Publish_init, Publish_parse, Publish_marshal),
   Published    |-> table(Published_init, Published_parse, Published_marshal),
   Subscribe    |-> table(Subscribe_init, Subscribe_parse, Subscribe_marshal),
   Subscribed   |-> table(Subscribed_init, Subscribed_parse, Subscribed_marshal),
   Unsubscribe  |-> table(Unsubscribe_init, Unsubscribe_parse, Unsubscribe_marshal),
   Unsubscribed |-> table(Unsubscribed_init, Unsubscribed_parse, Unsubscribed_marshal),
   Event        |-> table(Event_init, Event_parse, Event_marshal),
   EventReceived |-> table(EventReceived_init, EventReceived_parse, EventReceived_marshal),
   Call         |-> table(Call_init, Call_parse, Call_marshal),
   Cancel       |-> table(Cancel_init, Cancel_parse, Cancel_marshal),
   Result       |-> table(Result_init, Result_parse, Result_marshal),
   Register     |-> table(Register_init, Register_parse, Register_marshal),
   Registered   |-> table(Registered_init, Registered_parse, Registered_marshal),
   Unregister   |-> table(Unregister_init, Unregister_parse, Unregister_marshal),
   Unregistered |-> table(Unregistered_init, Unregistered_parse, Unregistered_marshal),
   Invocation   |-> table(Invocation_init, Invocation_parse, Invocation_marshal),
   Interrupt    |-> table(Interrupt_init, Interrupt_parse, Interrupt_marshal),
   Yield        |-> table(Yield_init, Yield_parse, Yield_marshal),
   TransportDetails |-> coded(TransportDetails_init, TransportDetails_parse,
                              TransportDetails_marshal, TransportDetails_writes),
   SessionDetails |-> table(SessionDetails_init, SessionDetails_parse, SessionDetails_marshal),
   CryptosignAuthextra |-> coded(CryptosignAuthextra_init, CryptosignAuthextra_parse,
                             CryptosignAuthextra_marshal, CryptosignAuthextra_writes)]

ASSUME ClassesAssumption == ClassesUsed \subseteq DOMAIN MESSAGE_TYPE_MAP

Positions(c) == MESSAGE_TYPE_MAP[c].layout.positions
Positioned(c) == {Positions(c)[i] : i \in 1..Len(Positions(c))}
Attributes(c) == DOMAIN MESSAGE_TYPE_MAP[c].init
HasPayload(c) == "payload" \in Attributes(c)
code(tables, a, v) == IF a \in DOMAIN tables /\ v \in DOMAIN tables[a] THEN tables[a][v] ELSE v

-----------------------------------------------------------------------------
(* Construction. *)

Nothing == [is |-> "nothing"]
Rejected == [is |-> "refused"]           \* ProtocolError, InvalidUriError or ValueError
AssertionError == [is |-> "asserted"]

\* the assertions about more than one attribute
consistent(c, m) ==
  /\ HasPayload(c) =>
       /\ m.payload # "none" => m.args = "none" /\ m.kwargs = "none"
       /\ \/ \A a \in Enc : m[a] = "none"
          \/ m.payload # "none" /\ m.enc_algo # "none"
  /\ c = "Unsubscribed" => IF m.request = "zero" THEN m.subscription # "zero"
                                                 ELSE m.subscription = "none"
  /\ c = "Unregistered" => IF m.request = "zero" THEN m.registration # "zero"
                                                 ELSE m.registration = "none"

\* the attributes a constructor gives a default to
default(a, v) == CASE v \in Falsy /\ a = "match"  -> "exact"
                   [] v \in Falsy /\ a = "invoke" -> "single"
                   [] v \in Falsy /\ a = "extra"  -> "emptyDict"
                   [] OTHER -> v

constructed(c, m) ==
  IF consistent(c, m) /\ \A a \in Attributes(c) : m[a] \in MESSAGE_TYPE_MAP[c].init[a]
  THEN [is |-> "message", m |-> [a \in Attributes(c) |-> default(a, m[a])]]
  ELSE AssertionError

-----------------------------------------------------------------------------
(* marshal() *)

\* Mutant: keyword arguments are sent without the list that goes before them.
tail_kwargsFirst(m) ==
  IF m.payload \notin Falsy THEN <<m.payload>>
  ELSE IF m.kwargs \notin Falsy /\ m.args = "emptyList" THEN <<m.kwargs>>
  ELSE IF m.kwargs \notin Falsy THEN <<m.args, m.kwargs>>
  ELSE IF m.args \notin Falsy THEN <<m.args>> ELSE <<>>

\* the payload in transparent form, or keyword and positional arguments
tail(m) ==
  IF m.payload \notin Falsy THEN <<m.payload>>
  ELSE IF m.kwargs \notin Falsy THEN <<m.args, m.kwargs>>
  ELSE IF m.args \notin Falsy THEN <<m.args>> ELSE <<>>

written(c, m) == {a \in DOMAIN MESSAGE_TYPE_MAP[c].omits :
  /\ m[a] \notin MESSAGE_TYPE_MAP[c].omits[a]
  /\ a \in Enc => m.payload \notin Falsy
  /\ c = "Welcome" /\ a = "authmethod" => m.authrole \notin Falsy}

marshal(c, m) ==
  LET keys  == written(c, m)
      least == MESSAGE_TYPE_MAP[c].layout.least
      head  == [i \in 1..Len(Positions(c)) |->
                  IF Positions(c)[i] = "options" THEN "dict" ELSE m[Positions(c)[i]]]
  IN [list |-> IF HasPayload(c) THEN head \o tail(m)
               ELSE IF keys = {} THEN SubSeq(head, 1, least) ELSE head,
      options |-> [a \in keys |-> code(MESSAGE_TYPE_MAP[c].writes, a, m[a])]]

-----------------------------------------------------------------------------
(* parse() *)

rightLength(c, list_) ==
  /\ Len(list_) >= MESSAGE_TYPE_MAP[c].layout.least
  /\ Len(list_) <= Len(Positions(c)) + (IF HasPayload(c) THEN 2 ELSE 0)

\* the payload is in transparent form if it is alone and octets (or text)
transparent(c, w) ==
  /\ Len(w.list) = Len(Positions(c)) + 1
  /\ w.list[Len(w.list)] \in MESSAGE_TYPE_MAP[c].layout.payload

at(w, i) == IF i <= Len(w.list) THEN w.list[i] ELSE "none"

\* The value of every attribute on the wire, before any check.
found(c, w) ==
  LET n == Len(Positions(c)) IN
  [a \in Attributes(c) |->
    CASE a \in Positioned(c) -> at(w, CHOOSE i \in 1..n : Positions(c)[i] = a)
      [] a = "payload" -> IF transparent(c, w) THEN at(w, n + 1) ELSE "none"
      [] a = "args"    -> IF transparent(c, w) THEN "none" ELSE at(w, n + 1)
      [] a = "kwargs"  -> at(w, n + 2)
      [] a \in Enc /\ ~transparent(c, w) -> "none"
      [] OTHER -> IF a \in DOMAIN w.options \cap DOMAIN MESSAGE_TYPE_MAP[c].takes
                  THEN code(MESSAGE_TYPE_MAP[c].reads, a, w.options[a]) ELSE "none"]

elementsTaken(c, w) ==
  LET n == Len(Positions(c)) IN
  \A i \in 1..Len(w.list) :
    IF i <= n
    THEN w.list[i] \in IF Positions(c)[i] = "options" THEN extra
                       ELSE MESSAGE_TYPE_MAP[c].takes[Positions(c)[i]]
    ELSE \/ transparent(c, w)
         \/ w.list[i] \in IF i = n + 1 THEN MESSAGE_TYPE_MAP[c].layout.args
                         ELSE MESSAGE_TYPE_MAP[c].layout.kwargs

keysTaken(c, w) ==
  \A a \in (DOMAIN w.options \cap DOMAIN MESSAGE_TYPE_MAP[c].takes) \ Positioned(c) :
     (a \in Enc => transparent(c, w)) => w.options[a] \in MESSAGE_TYPE_MAP[c].takes[a]

\* Mutant: the pattern a procedure is registered with does not relax its URI check.
procedureUri_exact(pattern) == uri

procedureUri(pattern) == CASE pattern = "prefix"   -> uri_open
                           [] pattern = "wildcard" -> uri_gaps
                           [] OTHER -> uri

\* the checks of one element against another
elementsAgree(c, w, m) ==
  /\ c \in {"Hello", "Welcome"} => "roles" \in DOMAIN w.options
  /\ c = "Hello" /\ m.resume_session \notin Falsy => "resume_token" \in DOMAIN w.options
  /\ c = "Welcome" /\ m.resumable = "true" => "resume_token" \in DOMAIN w.options
  /\ c = "Register" => m.procedure \in procedureUri(m.match)

parse(c, w) ==
  LET m == found(c, w) IN
  IF rightLength(c, w.list) /\ elementsTaken(c, w) /\ keysTaken(c, w) /\ elementsAgree(c, w, m)
  THEN constructed(c, m) ELSE Rejected

-----------------------------------------------------------------------------
(* A message from the application of one peer to the session of the other. *)

MessageInit ==
  /\ class \in ClassesUsed
  /\ asked = empty /\ message = Nothing /\ got = Nothing
  /\ wire = [list |-> <<>>, options |-> empty, garbled |-> FALSE]

\* Every class requires something: what its positions need and a word, a one or roles there.
required(c) == [a \in Attributes(c) |->
  LET fits == MESSAGE_TYPE_MAP[c].init[a] \cap {"one", "word", "roles"}
  IN IF a \in Positioned(c) \cup {"roles"} /\ fits # {} THEN CHOOSE v \in fits : TRUE
     ELSE "none"]

Giveable(c, a) ==
  LET taken == IF c \in DOMAIN options /\ a \in DOMAIN options[c] THEN options[c][a]
               ELSE IF a \in Payload THEN Payload_init[a] ELSE MESSAGE_TYPE_MAP[c].init[a]
  IN taken \ {"negative", "huge", "oddDict", "badRoles", "badHops",
              IF a \in {"match", "invoke"} THEN "text" ELSE "exact"}

\* URIs are well-formed, unless a pattern allows a gap
wellFormed(c, a, v, given_) ==
  LET pattern == IF "match" \in DOMAIN given_ THEN given_.match ELSE "exact" IN
  /\ a \in {"realm", "reason", "error", "topic", "procedure"} /\ c # "SessionDetails"
       => v \in {"word", "none"} \cup
            CASE c = "Register" /\ a = "procedure" /\ pattern = "prefix" -> {"openEnd"}
              [] c = "Register" /\ a = "procedure" /\ pattern = "wildcard" -> {"gap"}
              [] c = "Subscribe" /\ a = "topic" /\ pattern # "exact" -> {"gap"}
              [] OTHER -> {}
  /\ v \in {"openEnd", "gap"} => a \in {"procedure", "topic"}
  /\ a # "request_type"
  /\ v \in {"prefix", "wildcard", "single"} => a \in {"match", "invoke"}

Give(a, v) ==
  /\ message = Nothing /\ Cardinality(DOMAIN asked) < SetAtMost
  /\ a \in Attributes(class) \ (DOMAIN asked \cup Enc)
  /\ v \in Giveable(class, a) /\ v # required(class)[a]
  /\ wellFormed(class, a, v, asked)
  /\ v = "none" => a \notin Positioned(class)
  /\ asked' = with(asked, a, v)
  /\ UNCHANGED <<class, message, wire, got>>

\* A payload codec's EncodedPayload replaces the arguments.
Encode(payload, key, serializer) ==
  /\ message = Nothing /\ Cardinality(DOMAIN asked) < SetAtMost
  /\ HasPayload(class) /\ DOMAIN asked \cap (Payload \cup Enc) = {}
  /\ asked' = [payload |-> payload, enc_algo |-> "word", enc_key |-> key,
               enc_serializer |-> serializer] ++ asked
  /\ UNCHANGED <<class, message, wire, got>>

\* The session makes the message and its transport sends it.
Send ==
  LET made == constructed(class, [a \in DOMAIN asked |-> message_attr(class, a, asked[a])]
                               ++ required(class))
  IN /\ message = Nothing
     /\ message' = made
     /\ wire' = IF made = AssertionError THEN wire
                ELSE [garbled |-> FALSE] ++ marshal(class, made.m)
     /\ UNCHANGED <<class, asked, got>>

\* Another implementation writes one element otherwise, leaves one out or adds one.
Garble ==
  /\ message # Nothing /\ message # AssertionError /\ got = Nothing
  /\ ~wire.garbled /\ Cardinality(DOMAIN asked \ Enc) <= GarbleAtMost
  /\ \/ \E i \in 1..Len(wire.list), v \in Garbled :
          wire' = [wire EXCEPT !.list[i] = v, !.garbled = TRUE]
     \/ /\ wire.list # <<>>
        /\ wire' = [wire EXCEPT !.list = SubSeq(@, 1, Len(@) - 1), !.garbled = TRUE]
     \/ \E v \in Garbled : wire' = [wire EXCEPT !.list = Append(@, v), !.garbled = TRUE]
     \/ \E a \in DOMAIN MESSAGE_TYPE_MAP[class].takes, v \in Garbled :
          wire' = [wire EXCEPT !.options = with(@, a, v), !.garbled = TRUE]
     \/ \E a \in DOMAIN wire.options :
          wire' = [wire EXCEPT !.options = [k \in DOMAIN @ \ {a} |-> @[k]], !.garbled = TRUE]
  /\ UNCHANGED <<class, asked, message, got>>

Receive ==
  /\ message # Nothing /\ message # AssertionError /\ got = Nothing
  /\ got' = parse(class, wire)
  /\ UNCHANGED <<class, asked, message, wire>>

MessageNext ==
  \/ \E a \in Attributes(class), v \in Values \cup {"raw", "callable"} : Give(a, v)
  \/ \E payload \in bytes, key, serializer \in {"none", "word"} : Encode(payload, key, serializer)
  \/ Send
  \/ Garble
  \/ Receive

MessageSpec == MessageInit /\ [][MessageNext]_messageVars

-----------------------------------------------------------------------------
(* Properties *)

\* A value that is false in Python may be left out on the wire; nothing else may change.
Same(x, y) == x = y \/ (x \in Falsy /\ y = "none")

\* The messages whose loss is known: a resumption asked for without its token and
\* keyword arguments without the list before them are refused, a session's
\* authmethod is sent only next to an authrole, the channel id of a transport is
\* written raw and read as hexadecimal, its certificate is not read at all, the
\* octets of an empty payload are left out with what says how to decode them, and
\* the text that only PUBLISH takes for arguments is read as a payload when it is alone.
NotCarried(c, m) ==
  \/ c = "Hello" /\ m.resume_session \notin Falsy /\ m.resume_token = "none"
  \/ c = "Welcome" /\ m.resumable = "true" /\ m.resume_token \in Falsy
  \/ c = "Welcome" /\ m.authmethod # "none" /\ m.authrole \in Falsy
  \/ c = "TransportDetails" /\ (m.channel_id # "none" \/ m.peer_cert # "none")
  \/ c = "Publish" /\ m.kwargs \notin Falsy /\ m.args = "none"
  \/ c = "Publish" /\ m.kwargs \in Falsy /\ m.args \in opaque \ Falsy
  \/ HasPayload(c) /\ m.payload = "emptyBytes" /\ m.enc_algo # "none"

\* Whatever an application asks for in an options object and a message holds
\* reaches the other peer: the message is accepted there and every attribute is
\* the one that was sent, for every pair of attributes that are given together.
Delivered ==
  got # Nothing /\ ~wire.garbled /\ ~NotCarried(class, message.m)
    => /\ got.is = "message"
       /\ \A a \in Attributes(class) : Same(message.m[a], got.m[a])

\* The checks that are known to be missing from parse(): of what is within
\* forward_for, of what says how to decode a payload when it is false in Python,
\* of a payload that is text, and of what WELCOME says of the session.
Unchecked(c) ==
  {"forward_for"} \cup Enc
    \cup (IF c \in {"Publish", "Call", "Result"} THEN {"payload"} ELSE {})
    \cup (IF c = "Welcome" THEN {"realm", "authid", "authrole", "authmethod", "authprovider",
                                "authextra"} ELSE {})

\* Whatever another implementation sends: what parse() does not refuse is what
\* the constructor asserts of each attribute, other than those above, and does not
\* end in an assertion where an error of the protocol is due; and a message that
\* parse() accepts can be used: the details object for its handler can be made,
\* and the message is marshalled (by a router, say) into one that the next peer
\* accepts as the same.
AcceptedIsUsable ==
  /\ got \notin {Nothing, Rejected} =>
       \A a \in Attributes(class) \ Unchecked(class) :
          found(class, wire)[a] \in MESSAGE_TYPE_MAP[class].init[a]
  /\ got.is = "message" =>
       /\ class \in DOMAIN details =>
            \A a \in DOMAIN details[class] : got.m[a] \in details[class][a]
       /\ NotCarried(class, got.m) \/
          LET again == parse(class, marshal(class, got.m)) IN
            /\ again.is = "message"
            /\ \A a \in Attributes(class) : Same(got.m[a], again.m[a])

\* An options object that its own constructor accepted makes a message; nothing
\* that was asked for ends in an assertion when the message is made.
OptionsMakeMessages == message # AssertionError
=============================================================================
