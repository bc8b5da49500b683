-------------------------- MODULE ComponentProofs --------------------------
(***************************************************************************)
(* Proofs about Component: for all configurations, any number of           *)
(* transports, connections and starts.                                     *)
(*                                                                         *)
(* Loop says what is under way in the reconnect loop, Fit what every       *)
(* connection has been dialled with and its authenticators are; Good puts  *)
(* them together and is kept by every method.  Fine is what an entry from  *)
(* the event loop leaves behind before the closed connections are swept.   *)
(***************************************************************************)
EXTENDS Component, FiniteSetTheorems, WellFoundedInduction, TLAPS

ComponentFields ==
    {"done_f", "outcome", "stopping", "starts", "check", "delay_f", "next", "candidate", "stops",
     "completed", "left", "connect_attempts", "permanent", "accepted", "raised", "session",
     "attempts"}

AttemptFields ==
    {"transport", "dialled", "phase", "done", "attached", "goodbye_sent", "aborted", "session",
     "main", "auths", "hello", "extra", "method", "signature", "joinedBy"}

Shaped(p) ==
    /\ DOMAIN p = ComponentFields
    /\ \A i \in DOMAIN p.attempts : DOMAIN p.attempts[i] = AttemptFields

\* The attempts whose futures start() waits for.
Pending(p) == {i \in DOMAIN p.attempts : p.attempts[i].done = "pending"}

\* OneThingUnderWay, of a component.
Loop(p) ==
    p.done_f = "pending" =>
        \/ p.check /\ p.delay_f = None /\ Pending(p) = {}
        \/ ~p.check /\ p.delay_f # None /\ Pending(p) = {}
        \/ ~p.check /\ p.delay_f = None /\ \E i : Pending(p) = {i}

\* Only a component that was accepted is ever started.
Allowed(p) ==
    /\ p.accepted => \A t \in Transports : accepts(opt.transports[t], opt.twisted)
    /\ \/ p.accepted
       \/ /\ p.done_f = "none" /\ ~p.check /\ p.delay_f = None /\ DOMAIN p.attempts = {}
          /\ \A t \in Transports : ~p.raised[t]

Placed(p) ==
    /\ p.candidate \in Transports /\ p.next \in Transports
    /\ DOMAIN p.raised = Transports
    /\ \A t \in Transports :
          p.raised[t] => connect_transport(opt.transports[t], opt.twisted).raised

\* The authenticators are those of the configuration, and a password was salted
\* from its secret.
Honest(a) ==
    /\ \A k \in DOMAIN a.auths :
          /\ k \in DOMAIN opt.configs /\ a.auths[k].config = opt.configs[k]
          /\ DOMAIN a.auths[k] = {"config", "client_nonce", "auth_message", "salted_password"}
          /\ a.auths[k].salted_password # None =>
                a.auths[k].salted_password.salted = opt.configs[k].secret
    /\ a.signature # None => DOMAIN a.auths # {}

\* Who joined by WAMP-SCRAM has had the router prove itself.
Mutual(a) ==
    a.attached /\ a.joinedBy = "scram" =>
        \E k \in DOMAIN opt.configs :
            opt.configs[k].name = "scram" /\ opt.configs[k].secret = opt.router

Fit(a) ==
    /\ a.transport \in Transports
    /\ a.dialled = connect_transport(opt.transports[a.transport], opt.twisted)
    /\ a.dialled.raised => a.phase = "closed"
    /\ Honest(a) /\ Mutual(a)

Sound(p) ==
    /\ Shaped(p) /\ Allowed(p) /\ Placed(p)
    /\ \A i \in DOMAIN p.attempts : Fit(p.attempts[i])

Good(p) == Sound(p) /\ Loop(p)

\* No connection is closed.
Open(p) == \A i \in DOMAIN p.attempts : p.attempts[i].phase # "closed"

\* What is closed is over.
Fine(p) == Good(p) /\ \A i \in DOMAIN p.attempts : p.attempts[i].phase = "closed" => over(p.attempts[i])

\* q opens and closes no connection, and takes back no result of one.
Tame(p, q) ==
    /\ DOMAIN q.attempts = DOMAIN p.attempts
    /\ \A i \in DOMAIN p.attempts :
          /\ q.attempts[i].phase = "closed" <=> p.attempts[i].phase = "closed"
          /\ over(p.attempts[i]) => over(q.attempts[i])

LEMMA TameFine ==
    ASSUME NEW p, Fine(p), NEW q, Good(q), Tame(p, q)
    PROVE  Fine(q)
BY DEF Fine, Tame, over

\* The same, but for one attempt.
Beside(p, q, i) ==
    /\ DOMAIN q.attempts = DOMAIN p.attempts
    /\ \A j \in DOMAIN p.attempts \ {i} :
          /\ q.attempts[j].phase = "closed" <=> p.attempts[j].phase = "closed"
          /\ over(p.attempts[j]) => over(q.attempts[j])

LEMMA BesideFine ==
    ASSUME NEW p, Fine(p), NEW i, NEW q, Good(q), Beside(p, q, i), over(q.attempts[i])
    PROVE  Fine(q)
BY DEF Fine, Beside, over

LEMMA BesideOnward ==
    ASSUME NEW p, NEW q, NEW r, NEW i, Beside(p, q, i), Tame(q, r)
    PROVE  Beside(p, r, i)
BY DEF Tame, Beside

LEMMA TameOnward ==
    ASSUME NEW p, NEW q, NEW r, Tame(p, q), Tame(q, r)
    PROVE  Tame(p, r)
BY DEF Tame

\* q agrees with p on what Good speaks of beside Loop and the attempts.
Settings(p, q) ==
    /\ DOMAIN q = DOMAIN p /\ q.accepted = p.accepted /\ q.raised = p.raised
    /\ q.candidate = p.candidate /\ q.next = p.next

\* The reconnect loop is where it was.
Same(p, q) ==
    /\ Settings(p, q)
    /\ q.done_f = p.done_f /\ q.check = p.check /\ q.delay_f = p.delay_f

LEMMA SameGood ==
    ASSUME NEW p, Good(p), NEW q, Same(p, q), q.attempts = p.attempts
    PROVE  Good(q) /\ Tame(p, q)
<1>1. Pending(q) = Pending(p)
  BY DEF Pending, Same
<1>2. Shaped(q) /\ Loop(q) /\ Allowed(q) /\ Placed(q)
  BY <1>1 DEF Good, Sound, Shaped, Loop, Allowed, Placed, Same, Settings
<1> QED
  BY <1>2 DEF Good, Sound, Tame

\* What is not about the authenticators may change freely.
LEMMA FitKept ==
    ASSUME NEW a, Fit(a), NEW b, b.transport = a.transport, b.dialled = a.dialled,
           a.phase = "closed" => b.phase = "closed",
           b.auths = a.auths, b.signature = a.signature,
           b.attached /\ b.joinedBy = "scram" => a.attached /\ a.joinedBy = "scram"
    PROVE  Fit(b)
BY DEF Fit, Honest, Mutual

\* One attempt changes, but not its result.
LEMMA ReplaceGood ==
    ASSUME NEW p, Good(p), NEW i \in DOMAIN p.attempts, NEW a, DOMAIN a = AttemptFields,
           Fit(a), a.done = p.attempts[i].done,
           NEW q, Same(p, q), q.attempts = [p.attempts EXCEPT ![i] = a]
    PROVE  /\ Good(q) /\ DOMAIN q.attempts = DOMAIN p.attempts /\ q.attempts[i] = a
           /\ \A j \in DOMAIN p.attempts : j # i => q.attempts[j] = p.attempts[j]
           /\ (a.phase = "closed" <=> p.attempts[i].phase = "closed") => Tame(p, q)
           /\ Beside(p, q, i)
<1>3. /\ DOMAIN q.attempts = DOMAIN p.attempts /\ q.attempts[i] = a
      /\ \A j \in DOMAIN p.attempts : j # i => q.attempts[j] = p.attempts[j]
  OBVIOUS
<1>5. Pending(q) = Pending(p)
  BY <1>3 DEF Pending
<1>6. Shaped(q) /\ Loop(q) /\ Allowed(q) /\ Placed(q)
  BY <1>3, <1>5 DEF Good, Sound, Shaped, Loop, Allowed, Placed, Same, Settings
<1>7. \A j \in DOMAIN q.attempts : Fit(q.attempts[j])
  BY <1>3 DEF Good, Sound
<1>8. (a.phase = "closed" <=> p.attempts[i].phase = "closed") => Tame(p, q)
  BY <1>3 DEF Tame, over
<1>9. Beside(p, q, i)
  BY <1>3 DEF Beside
<1> QED
  BY <1>3, <1>6, <1>7, <1>8, <1>9 DEF Good, Sound

-----------------------------------------------------------------------------
(* The results of attempts and of the component.                           *)

\* Only results differ.
Results(p, q) ==
    /\ DOMAIN q.attempts = DOMAIN p.attempts
    /\ \A i \in DOMAIN p.attempts :
          \/ q.attempts[i] = p.attempts[i]
          \/ /\ p.attempts[i].done = "pending"
             /\ \E done \in {"success", "failed"} :
                   q.attempts[i] = [p.attempts[i] EXCEPT !.done = done]

LEMMA ResultsFit ==
    ASSUME NEW p, Good(p), NEW q, Results(p, q)
    PROVE  /\ Tame(p, q)
           /\ \A i \in DOMAIN q.attempts : DOMAIN q.attempts[i] = AttemptFields /\ Fit(q.attempts[i])
<1> SUFFICES ASSUME NEW i \in DOMAIN p.attempts
             PROVE  /\ q.attempts[i].phase = p.attempts[i].phase
                    /\ over(p.attempts[i]) => over(q.attempts[i])
                    /\ DOMAIN q.attempts[i] = AttemptFields /\ Fit(q.attempts[i])
  BY DEF Results, Tame
<1>1. DOMAIN p.attempts[i] = AttemptFields /\ Fit(p.attempts[i])
  BY DEF Good, Sound, Shaped
<1>2. CASE q.attempts[i] = p.attempts[i]
  BY <1>1, <1>2
<1>3. ASSUME NEW done \in {"success", "failed"}, p.attempts[i].done = "pending",
             q.attempts[i] = [p.attempts[i] EXCEPT !.done = done]
      PROVE  /\ q.attempts[i].phase = p.attempts[i].phase
             /\ over(p.attempts[i]) => over(q.attempts[i])
             /\ DOMAIN q.attempts[i] = AttemptFields /\ Fit(q.attempts[i])
  <2> DEFINE a == p.attempts[i]
             b == q.attempts[i]
  <2>1. DOMAIN b = AttemptFields /\ \A f \in AttemptFields \ {"done"} : b[f] = a[f]
    BY <1>1, <1>3
  <2>2. /\ b.transport = a.transport /\ b.dialled = a.dialled /\ b.phase = a.phase
        /\ b.auths = a.auths /\ b.signature = a.signature /\ b.attached = a.attached
        /\ b.joinedBy = a.joinedBy
    BY <2>1 DEF AttemptFields
  <2>3. a.done = "pending" /\ DOMAIN a = AttemptFields /\ Fit(a)
    BY <1>1, <1>3
  <2> HIDE DEF a, b
  <2>4. Fit(b) /\ (over(a) => over(b))
    BY <2>2, <2>3 DEF Fit, Honest, Mutual, over
  <2> QED
    BY <2>1, <2>2, <2>4 DEF a, b
<1> QED
  BY <1>2, <1>3 DEF Results

LEMMA ResultsGood ==
    ASSUME NEW p, Good(p), NEW q, Settings(p, q), Results(p, q), Loop(q), p.accepted
    PROVE  Good(q) /\ Tame(p, q)
<1>1. /\ Tame(p, q)
      /\ \A i \in DOMAIN q.attempts : DOMAIN q.attempts[i] = AttemptFields /\ Fit(q.attempts[i])
  BY ResultsFit
<1>2. Shaped(q) /\ Allowed(q) /\ Placed(q)
  BY <1>1 DEF Good, Sound, Shaped, Allowed, Placed, Settings
<1> QED
  BY <1>1, <1>2 DEF Good, Sound

LEMMA ResolveDoneLoop ==
    ASSUME NEW p, DOMAIN p = ComponentFields, NEW outcome
    PROVE  LET q == resolveDone(p, outcome)
           IN  /\ q.done_f = "none" /\ Settings(p, q) /\ q.attempts = p.attempts
               /\ q.check = p.check /\ q.delay_f = p.delay_f
BY DEF resolveDone, Settings, ComponentFields

LEMMA SucceededGood ==
    ASSUME NEW p, Good(p), NEW i \in DOMAIN p.attempts
    PROVE  LET q == succeeded(p, i)
           IN  /\ Good(q) /\ Tame(p, q) /\ Results(p, q)
               /\ q.attempts[i].done # "pending"
<1> DEFINE a == [p.attempts[i] EXCEPT !.done = "success"]
           x == [p EXCEPT !.attempts[i].done = "success"]
           q == resolveDone(x, "success")
<1>0. /\ DOMAIN p = ComponentFields /\ DOMAIN p.attempts[i] = AttemptFields
      /\ p.accepted
  BY DEF Good, Sound, Shaped, Allowed
<1>1. CASE p.attempts[i].done # "pending"
  BY <1>1 DEF succeeded, Tame, Results
<1>2. CASE p.attempts[i].done = "pending"
  <2>1. x.attempts = [p.attempts EXCEPT ![i] = a] /\ Settings(p, x)
    BY <1>0 DEF Settings, ComponentFields
  <2>2. DOMAIN x = ComponentFields
    BY <1>0
  <2>3. succeeded(p, i) = q
    BY <1>2 DEF succeeded
  <2>4. a.done = "success"
    BY <1>0 DEF AttemptFields
  <2> HIDE DEF x
  <2>5. q.done_f = "none" /\ Settings(x, q) /\ q.attempts = x.attempts
    BY <2>2, ResolveDoneLoop
  <2> HIDE DEF q
  <2>6. Results(p, q) /\ q.attempts[i].done # "pending"
    <3>1. q.attempts = [p.attempts EXCEPT ![i] = a]
      BY <2>1, <2>5
    <3>2. q.attempts[i] = a /\ \A j \in DOMAIN p.attempts : j # i => q.attempts[j] = p.attempts[j]
      BY <3>1
    <3>3. DOMAIN q.attempts = DOMAIN p.attempts
      BY <3>1
    <3> QED
      BY <1>2, <2>4, <3>2, <3>3 DEF Results
  <2>7. Settings(p, q) /\ Loop(q)
    BY <2>1, <2>5 DEF Settings, Loop
  <2> QED
    BY <1>0, <2>3, <2>6, <2>7, ResultsGood
<1> QED
  BY <1>1, <1>2

LEMMA RejectedGood ==
    ASSUME NEW p, Good(p), NEW i \in DOMAIN p.attempts, NEW fatal \in BOOLEAN
    PROVE  LET q == rejected(p, i, fatal)
           IN  /\ Good(q) /\ Tame(p, q) /\ Results(p, q)
               /\ q.attempts[i].done # "pending"
<1> DEFINE a == [p.attempts[i] EXCEPT !.done = "failed"]
           q == [p EXCEPT !.attempts[i].done = "failed", !.check = TRUE,
                          !.permanent[p.candidate] = @ \/ fatal]
<1>0. /\ DOMAIN p = ComponentFields /\ DOMAIN p.attempts[i] = AttemptFields
      /\ p.accepted
  BY DEF Good, Sound, Shaped, Allowed
<1>1. CASE p.attempts[i].done # "pending"
  BY <1>1 DEF rejected, Tame, Results
<1>2. CASE p.attempts[i].done = "pending"
  <2>1. /\ q.attempts = [p.attempts EXCEPT ![i] = a] /\ Settings(p, q)
        /\ q.check /\ q.done_f = p.done_f /\ q.delay_f = p.delay_f
    BY <1>0 DEF Settings, ComponentFields
  <2>2. rejected(p, i, fatal) = q
    BY <1>2 DEF rejected
  <2>3. a.done = "failed"
    BY <1>0 DEF AttemptFields
  <2> HIDE DEF q
  <2>4. q.attempts[i] = a /\ \A j \in DOMAIN p.attempts : j # i => q.attempts[j] = p.attempts[j]
    BY <2>1
  <2>5. DOMAIN q.attempts = DOMAIN p.attempts
    BY <2>1
  <2>6. Results(p, q) /\ q.attempts[i].done # "pending"
    BY <1>2, <2>3, <2>4, <2>5 DEF Results
  <2>7. Pending(q) = Pending(p) \ {i} /\ i \in Pending(p)
    BY <1>2, <2>3, <2>4, <2>5 DEF Pending
  <2>8. Loop(q)
    BY <2>1, <2>7 DEF Good, Sound, Loop
  <2> QED
    BY <1>0, <2>1, <2>2, <2>6, <2>8, ResultsGood
<1> QED
  BY <1>1, <1>2

-----------------------------------------------------------------------------
(* The session of an attempt.                                              *)

\* One attempt changes, but neither its result nor its authenticators.
LEMMA TouchGood ==
    ASSUME NEW p, Good(p), NEW i \in DOMAIN p.attempts, NEW a, a = p.attempts[i],
           NEW b, DOMAIN b = AttemptFields,
           b.transport = a.transport, b.dialled = a.dialled, b.done = a.done,
           b.auths = a.auths, b.signature = a.signature,
           b.phase = "closed" <=> a.phase = "closed",
           b.attached /\ b.joinedBy = "scram" => a.attached /\ a.joinedBy = "scram",
           NEW q, Same(p, q), q.attempts = [p.attempts EXCEPT ![i] = b]
    PROVE  Good(q) /\ Tame(p, q)
<1>1. Fit(p.attempts[i])
  BY DEF Good, Sound
<1>2. Fit(b)
  BY <1>1, FitKept
<1> QED
  BY <1>2, ReplaceGood

LEMMA DisconnectGood ==
    ASSUME NEW p, Good(p), NEW i \in DOMAIN p.attempts
    PROVE  Good(disconnect(p, i)) /\ Tame(p, disconnect(p, i))
<1> DEFINE a == p.attempts[i]
           b == [a EXCEPT !.phase = "closing"]
           q == [p EXCEPT !.attempts[i].phase = "closing"]
<1>0. DOMAIN p = ComponentFields /\ DOMAIN a = AttemptFields
  BY DEF Good, Sound, Shaped
<1>1. CASE a.phase # "session"
  BY <1>1 DEF disconnect, Tame
<1>2. CASE a.phase = "session"
  <2>1. Same(p, q) /\ q.attempts = [p.attempts EXCEPT ![i] = b]
    BY <1>0 DEF Same, Settings, ComponentFields
  <2>2. /\ DOMAIN b = AttemptFields
        /\ b.transport = a.transport /\ b.dialled = a.dialled /\ b.done = a.done
        /\ b.auths = a.auths /\ b.signature = a.signature /\ b.phase = "closing"
        /\ b.attached = a.attached /\ b.joinedBy = a.joinedBy
    BY <1>0 DEF AttemptFields
  <2>3. disconnect(p, i) = q
    BY <1>2 DEF disconnect
  <2> HIDE DEF b, q
  <2> QED
    BY <1>2, <2>1, <2>2, <2>3, TouchGood
<1> QED
  BY <1>1, <1>2

LEMMA DetachedGood ==
    ASSUME NEW p, Good(p), NEW i \in DOMAIN p.attempts
    PROVE  LET q == [p EXCEPT !.attempts[i].attached = FALSE]
           IN  Good(q) /\ Tame(p, q)
<1> DEFINE a == p.attempts[i]
           b == [a EXCEPT !.attached = FALSE]
           q == [p EXCEPT !.attempts[i].attached = FALSE]
<1>0. DOMAIN p = ComponentFields /\ DOMAIN a = AttemptFields
  BY DEF Good, Sound, Shaped
<1>1. Same(p, q) /\ q.attempts = [p.attempts EXCEPT ![i] = b]
  BY <1>0 DEF Same, Settings, ComponentFields
<1>2. /\ DOMAIN b = AttemptFields
      /\ b.transport = a.transport /\ b.dialled = a.dialled /\ b.done = a.done
      /\ b.auths = a.auths /\ b.signature = a.signature /\ b.phase = a.phase
      /\ b.attached = FALSE
  BY <1>0 DEF AttemptFields
<1> HIDE DEF b, q
<1>3. Good(q) /\ Tame(p, q)
  BY <1>1, <1>2, TouchGood
<1> QED
  BY <1>3 DEF q

LEMMA OnLeaveGood ==
    ASSUME NEW p, Good(p), NEW i \in DOMAIN p.attempts, NEW reason, NEW fatal \in BOOLEAN
    PROVE  LET q == on_leave(p, i, reason, fatal)
           IN  Good(q) /\ Tame(p, q) /\ q.attempts[i].done # "pending"
<1> DEFINE x == [p EXCEPT !.left = TRUE]
           q == on_leave(p, i, reason, fatal)
<1>1. CASE reason \in {"wamp.close.normal", "wamp.close.goodbye_and_out"}
  <2>1. Same(p, x) /\ x.attempts = p.attempts
    BY DEF Good, Sound, Shaped, Same, Settings, ComponentFields
  <2>2. q = succeeded(x, i)
    BY <1>1 DEF on_leave
  <2> HIDE DEF x
  <2>3. Good(x) /\ Tame(p, x) /\ i \in DOMAIN x.attempts
    BY <2>1, SameGood
  <2>4. Good(q) /\ Tame(x, q) /\ q.attempts[i].done # "pending"
    BY <2>2, <2>3, SucceededGood
  <2> QED
    BY <2>3, <2>4, TameOnward
<1>2. CASE reason \notin {"wamp.close.normal", "wamp.close.goodbye_and_out"}
  <2>1. q = rejected(p, i, fatal)
    BY <1>2 DEF on_leave
  <2> QED
    BY <2>1, RejectedGood
<1> QED
  BY <1>1, <1>2

LEMMA LeaveSessionGood ==
    ASSUME NEW p, Good(p), NEW i \in DOMAIN p.attempts, NEW reason, NEW fatal \in BOOLEAN
    PROVE  LET q == leaveSession(p, i, reason, fatal)
           IN  Good(q) /\ Tame(p, q) /\ q.attempts[i].done # "pending"
<1> DEFINE x == disconnect(p, i)
           y == [x EXCEPT !.attempts[i].attached = FALSE]
           q == on_leave(y, i, reason, fatal)
<1>1. Good(x) /\ Tame(p, x)
  BY DisconnectGood
<1>2. i \in DOMAIN x.attempts
  BY <1>1 DEF Tame
<1>3. Good(y) /\ Tame(x, y)
  <2> HIDE DEF x
  <2> QED
    BY <1>1, <1>2, DetachedGood
<1>4. i \in DOMAIN y.attempts
  <2> HIDE DEF y
  <2> QED
    BY <1>2, <1>3 DEF Tame
<1>5. Good(q) /\ Tame(y, q) /\ q.attempts[i].done # "pending"
  <2> HIDE DEF y
  <2> QED
    BY <1>3, <1>4, OnLeaveGood
<1>6. leaveSession(p, i, reason, fatal) = q
  BY DEF leaveSession
<1> HIDE DEF x, y, q
<1>7. Tame(p, q)
  BY <1>1, <1>3, <1>5, TameOnward
<1> QED
  BY <1>5, <1>6, <1>7

LEMMA LeaveGood ==
    ASSUME NEW p, Good(p), NEW i \in DOMAIN p.attempts
    PROVE  Good(leave(p, i)) /\ Tame(p, leave(p, i))
<1> DEFINE a == p.attempts[i]
           b == [a EXCEPT !.goodbye_sent = TRUE]
           q == [p EXCEPT !.attempts[i].goodbye_sent = TRUE]
<1>0. DOMAIN p = ComponentFields /\ DOMAIN a = AttemptFields
  BY DEF Good, Sound, Shaped
<1>1. Same(p, q) /\ q.attempts = [p.attempts EXCEPT ![i] = b]
  BY <1>0 DEF Same, Settings, ComponentFields
<1>2. /\ DOMAIN b = AttemptFields
      /\ b.transport = a.transport /\ b.dialled = a.dialled /\ b.done = a.done
      /\ b.auths = a.auths /\ b.signature = a.signature /\ b.phase = a.phase
      /\ b.attached = a.attached /\ b.joinedBy = a.joinedBy
  BY <1>0 DEF AttemptFields
<1>3. Good(q) /\ Tame(p, q)
  <2> HIDE DEF b, q
  <2> QED
    BY <1>1, <1>2, TouchGood
<1>4. Tame(p, p)
  BY DEF Tame
<1> QED
  BY <1>3, <1>4 DEF leave

LEMMA MainErrorGood ==
    ASSUME NEW p, Good(p), NEW i \in DOMAIN p.attempts, NEW fatal \in BOOLEAN
    PROVE  LET q == main_error(p, i, fatal)
           IN  Good(q) /\ Tame(p, q)
<1> DEFINE x == rejected(p, i, fatal)
<1>1. Good(x) /\ Tame(p, x) /\ i \in DOMAIN x.attempts
  BY RejectedGood DEF Tame
<1> HIDE DEF x
<1>2. Good(disconnect(x, i)) /\ Tame(x, disconnect(x, i))
  BY <1>1, DisconnectGood
<1>3. Tame(p, disconnect(x, i))
  BY <1>1, <1>2, TameOnward
<1>4. Tame(p, p)
  BY DEF Tame
<1> QED
  BY <1>2, <1>3, <1>4 DEF main_error, x

-----------------------------------------------------------------------------
(* The authenticators of a session.                                        *)

LEMMA AuthenticatorsHonest ==
    ASSUME NEW nonce
    PROVE  LET auths == authenticators(opt.configs, nonce)
           IN  /\ DOMAIN auths = DOMAIN opt.configs
               /\ \A k \in DOMAIN auths :
                     /\ auths[k].config = opt.configs[k]
                     /\ DOMAIN auths[k] = {"config", "client_nonce", "auth_message", "salted_password"}
                     /\ auths[k].salted_password = None
BY DEF authenticators, mint, create_authenticator

LEMMA OpenSessionGood ==
    ASSUME NEW p, Good(p), NEW i \in DOMAIN p.attempts, p.attempts[i].phase = "handshake",
           NEW fatal \in BOOLEAN
    PROVE  Good(openSession(p, i, fatal)) /\ Tame(p, openSession(p, i, fatal))
<1>1. CASE ~addable(opt.configs)
  <2> DEFINE x == rejected(p, i, fatal)
             a == x.attempts[i]
             b == [a EXCEPT !.phase = "closing"]
             q == [x EXCEPT !.attempts[i].phase = "closing", !.session = i]
  <2>1. Good(x) /\ Tame(p, x) /\ i \in DOMAIN x.attempts /\ a.phase # "closed"
    BY RejectedGood DEF Tame
  <2>2. DOMAIN x = ComponentFields /\ DOMAIN a = AttemptFields
    BY <2>1 DEF Good, Sound, Shaped
  <2>3. openSession(p, i, fatal) = q
    BY <1>1 DEF openSession
  <2> HIDE DEF x
  <2>4. Same(x, q) /\ q.attempts = [x.attempts EXCEPT ![i] = b]
    BY <2>2 DEF Same, Settings, ComponentFields
  <2>5. /\ DOMAIN b = AttemptFields
        /\ b.transport = a.transport /\ b.dialled = a.dialled /\ b.done = a.done
        /\ b.auths = a.auths /\ b.signature = a.signature /\ b.phase = "closing"
        /\ b.attached = a.attached /\ b.joinedBy = a.joinedBy
    BY <2>2 DEF AttemptFields
  <2>6. Good(q) /\ Tame(x, q)
    <3> HIDE DEF b, q
    <3> QED
      BY <2>1, <2>4, <2>5, TouchGood
  <2>7. Tame(p, q)
    <3> HIDE DEF q
    <3> QED
      BY <2>1, <2>6, TameOnward
  <2> QED
    BY <2>3, <2>6, <2>7
<1>2. CASE addable(opt.configs)
  <2> DEFINE auths == authenticators(opt.configs, [client |-> i])
             h == hello(auths)
             a == p.attempts[i]
             b == [a EXCEPT !.phase = "session", !.session = TRUE, !.auths = auths, !.hello = h]
             q == [p EXCEPT !.attempts[i].phase = "session", !.attempts[i].session = TRUE,
                            !.attempts[i].auths = auths, !.attempts[i].hello = h, !.session = i]
  <2>1. DOMAIN p = ComponentFields /\ DOMAIN a = AttemptFields /\ Fit(a)
    BY DEF Good, Sound, Shaped
  <2>2. openSession(p, i, fatal) = q
    BY <1>2 DEF openSession
  <2>3. /\ DOMAIN auths = DOMAIN opt.configs
        /\ \A k \in DOMAIN auths :
              /\ auths[k].config = opt.configs[k]
              /\ DOMAIN auths[k] = {"config", "client_nonce", "auth_message", "salted_password"}
              /\ auths[k].salted_password = None
    BY AuthenticatorsHonest
  <2> HIDE DEF auths, h
  <2>4. Same(p, q) /\ q.attempts = [p.attempts EXCEPT ![i] = b]
    BY <2>1 DEF Same, Settings, ComponentFields, AttemptFields
  <2>5. /\ DOMAIN b = AttemptFields
        /\ b.transport = a.transport /\ b.dialled = a.dialled /\ b.done = a.done
        /\ b.auths = auths /\ b.signature = a.signature /\ b.phase = "session"
        /\ b.attached = a.attached /\ b.joinedBy = a.joinedBy
    BY <2>1 DEF AttemptFields
  <2> HIDE DEF b, q
  <2>6. Honest(b)
    BY <2>1, <2>3, <2>5 DEF Fit, Honest
  <2>7. a.phase = "handshake"
    OBVIOUS
  <2>8. Fit(b)
    BY <2>1, <2>5, <2>6, <2>7 DEF Fit, Mutual
  <2>9. Good(q) /\ ((b.phase = "closed" <=> p.attempts[i].phase = "closed") => Tame(p, q))
    BY <2>4, <2>5, <2>8, ReplaceGood
  <2> QED
    BY <2>2, <2>5, <2>9
<1> QED
  BY <1>1, <1>2

\* What a challenge changes of an authenticator.
LEMMA OnChallengeKeeps ==
    ASSUME NEW a, DOMAIN a = {"config", "client_nonce", "auth_message", "salted_password"},
           a.config.name \in Methods, NEW extra, NEW channel
    PROVE  LET r == on_challenge(a, extra, channel)
           IN  ~r.raised => /\ DOMAIN r.a = DOMAIN a /\ r.a.config = a.config
                            /\ \/ r.a.salted_password = a.salted_password
                               \/ r.a.salted_password.salted = a.config.secret
<1>1. CASE a.config.name = "anonymous"
  BY <1>1 DEF on_challenge, raised
<1>2. CASE a.config.name = "ticket"
  BY <1>2 DEF on_challenge, answer
<1>3. CASE a.config.name = "wampcra"
  BY <1>3 DEF on_challenge, on_challenge_wampcra, answer
<1>4. CASE a.config.name = "cryptosign"
  BY <1>4 DEF on_challenge, on_challenge_cryptosign, answer, raised
<1>5. CASE a.config.name = "scram"
  <2> DEFINE message == auth_message(a.config.authid, a.client_nonce, extra)
             password == salted(a.config.secret, extra)
             b == [a EXCEPT !.auth_message = message, !.salted_password = password]
             r == on_challenge_scram(a, extra)
  <2>1. on_challenge(a, extra, channel) = r
    BY <1>5 DEF on_challenge
  <2>2. password.salted = a.config.secret
    BY DEF salted
  <2> HIDE DEF message, password
  <2>3. DOMAIN b = DOMAIN a /\ b.config = a.config /\ b.salted_password = password
    OBVIOUS
  <2>4. ~r.raised => r.a = b
    BY DEF on_challenge_scram, answer, raised, message, password
  <2> HIDE DEF b, r
  <2> QED
    BY <2>1, <2>2, <2>3, <2>4
<1> QED
  BY <1>1, <1>2, <1>3, <1>4, <1>5 DEF Methods

LEMMA ConfigNames ==
    ASSUME opt \in OptionType, NEW k \in DOMAIN opt.configs
    PROVE  opt.configs[k].name \in Methods
<1> DEFINE C == [name : Methods, authid : {None, "joe"}, authrole : {None, "user"},
                 secret : {None, "secret"}, binding : {None, "tls-unique"}]
<1>1. opt.configs \in Seq(C)
  BY DEF OptionType
<1> HIDE DEF C
<1>2. opt.configs[k] \in C
  BY <1>1
<1> QED
  BY <1>2 DEF C

LEMMA ChallengedGood ==
    ASSUME opt \in OptionType, NEW p, Good(p), NEW i \in DOMAIN p.attempts,
           NEW method, NEW extra, NEW fatal \in BOOLEAN
    PROVE  LET q == challenged(p, i, method, extra, fatal)
           IN  Good(q) /\ Tame(p, q)
<1> DEFINE a == p.attempts[i]
           asked == [p EXCEPT !.attempts[i].method = method, !.attempts[i].extra = extra]
           aborted == [asked EXCEPT !.attempts[i].aborted = TRUE]
           deny == leaveSession(aborted, i, "wamp.error.cannot_authenticate", fatal)
           k == CHOOSE j \in chosen(a.auths, method) : TRUE
           r == on_challenge(a.auths[k], extra, channel_id)
           b == [a EXCEPT !.method = method, !.extra = extra]
           d == [b EXCEPT !.aborted = TRUE]
           e == [b EXCEPT !.auths = [b.auths EXCEPT ![k] = r.a], !.signature = r.signature]
           signed == [asked EXCEPT !.attempts[i].auths[k] = r.a, !.attempts[i].signature = r.signature]
<1>0. DOMAIN p = ComponentFields /\ DOMAIN a = AttemptFields /\ Fit(a)
  BY DEF Good, Sound, Shaped
<1>1. /\ Same(p, asked) /\ asked.attempts = [p.attempts EXCEPT ![i] = b]
      /\ DOMAIN asked = ComponentFields
  BY <1>0 DEF Same, Settings, ComponentFields, AttemptFields
<1>2. /\ DOMAIN b = AttemptFields
      /\ b.transport = a.transport /\ b.dialled = a.dialled /\ b.done = a.done
      /\ b.auths = a.auths /\ b.signature = a.signature /\ b.phase = a.phase
      /\ b.attached = a.attached /\ b.joinedBy = a.joinedBy
  BY <1>0 DEF AttemptFields
<1>3. Good(deny) /\ Tame(p, deny)
  <2> HIDE DEF asked
  <2>1. Same(p, aborted) /\ aborted.attempts = [p.attempts EXCEPT ![i] = d]
    BY <1>1 DEF Same, Settings, ComponentFields
  <2>2. /\ DOMAIN d = AttemptFields
        /\ d.transport = b.transport /\ d.dialled = b.dialled /\ d.done = b.done
        /\ d.auths = b.auths /\ d.signature = b.signature /\ d.phase = b.phase
        /\ d.attached = b.attached /\ d.joinedBy = b.joinedBy
    BY <1>2 DEF AttemptFields
  <2> HIDE DEF b, d, aborted
  <2>3. Good(aborted) /\ Tame(p, aborted)
    BY <1>2, <2>1, <2>2, TouchGood
  <2>4. i \in DOMAIN aborted.attempts
    BY <2>3 DEF Tame
  <2>5. Good(deny) /\ Tame(aborted, deny)
    BY <2>3, <2>4, LeaveSessionGood
  <2> QED
    BY <2>3, <2>5, TameOnward
<1>4. ASSUME chosen(a.auths, method) # {}, ~r.raised
      PROVE  Good(signed) /\ Tame(p, signed)
  <2>1. k \in DOMAIN a.auths
    BY <1>4 DEF chosen
  <2>2. /\ DOMAIN a.auths[k] = {"config", "client_nonce", "auth_message", "salted_password"}
        /\ a.auths[k].config = opt.configs[k] /\ k \in DOMAIN opt.configs
        /\ a.auths[k].salted_password # None => a.auths[k].salted_password.salted = opt.configs[k].secret
    BY <1>0, <2>1 DEF Fit, Honest
  <2>3. a.auths[k].config.name \in Methods
    BY <2>2, ConfigNames
  <2> HIDE DEF k
  <2>4. /\ DOMAIN r.a = DOMAIN a.auths[k] /\ r.a.config = a.auths[k].config
        /\ \/ r.a.salted_password = a.auths[k].salted_password
           \/ r.a.salted_password.salted = a.auths[k].config.secret
    <3> DEFINE au == a.auths[k]
               channel == channel_id
    <3> HIDE DEF au, channel
    <3>1. DOMAIN au = {"config", "client_nonce", "auth_message", "salted_password"}
          /\ au.config.name \in Methods
      BY <2>2, <2>3 DEF au
    <3>2. LET s == on_challenge(au, extra, channel)
          IN  ~s.raised => /\ DOMAIN s.a = DOMAIN au /\ s.a.config = au.config
                           /\ \/ s.a.salted_password = au.salted_password
                              \/ s.a.salted_password.salted = au.config.secret
      BY <3>1, OnChallengeKeeps
    <3> QED
      BY <1>4, <3>2 DEF au, channel
  <2> HIDE DEF r, asked
  <2>5. Same(p, signed) /\ signed.attempts = [p.attempts EXCEPT ![i] = e]
    <3>1. asked.attempts[i] = b
      BY <1>1
    <3>2. signed.attempts = [asked.attempts EXCEPT ![i] = e]
      BY <1>1, <1>2, <3>1 DEF ComponentFields, AttemptFields
    <3> QED
      BY <1>1, <3>2 DEF Same, Settings, ComponentFields
  <2>6. /\ DOMAIN e = AttemptFields
        /\ e.transport = a.transport /\ e.dialled = a.dialled /\ e.done = a.done
        /\ e.phase = a.phase /\ e.attached = a.attached /\ e.joinedBy = a.joinedBy
        /\ e.auths = [a.auths EXCEPT ![k] = r.a]
    BY <1>2 DEF AttemptFields
  <2> HIDE DEF b, e, signed
  <2>7. DOMAIN e.auths = DOMAIN a.auths /\ e.auths[k] = r.a
        /\ \A j \in DOMAIN a.auths : j # k => e.auths[j] = a.auths[j]
    BY <2>1, <2>6
  <2>8. Honest(e)
    <3> SUFFICES ASSUME NEW j \in DOMAIN e.auths
                 PROVE  /\ j \in DOMAIN opt.configs /\ e.auths[j].config = opt.configs[j]
                        /\ DOMAIN e.auths[j] = {"config", "client_nonce", "auth_message", "salted_password"}
                        /\ e.auths[j].salted_password # None =>
                              e.auths[j].salted_password.salted = opt.configs[j].secret
      BY <2>1, <2>7 DEF Honest
    <3>1. CASE j = k
      BY <2>2, <2>4, <2>7, <3>1
    <3>2. CASE j # k
      BY <1>0, <2>7, <3>2 DEF Fit, Honest
    <3> QED
      BY <3>1, <3>2
  <2>9. Fit(e)
    BY <1>0, <2>6, <2>8 DEF Fit, Mutual
  <2>10. Good(signed) /\ ((e.phase = "closed" <=> p.attempts[i].phase = "closed") => Tame(p, signed))
    BY <2>5, <2>6, <2>9, ReplaceGood
  <2> QED
    BY <2>6, <2>10
<1>5. challenged(p, i, method, extra, fatal) =
          IF chosen(a.auths, method) = {} THEN deny ELSE IF r.raised THEN deny ELSE signed
  BY DEF challenged
<1> HIDE DEF deny, signed, r
<1> QED
  BY <1>3, <1>4, <1>5

\* Who accepts a router's proof has the secret it was made with.
LEMMA ProofMeansSecret ==
    ASSUME NEW a, a.config.name = "scram", NEW secret, NEW extra, NEW message, NEW proof,
           proof = scramSign(serverKey(salted(secret, extra)), message),
           on_welcome(a, proof) = "accepted"
    PROVE  a.salted_password # None /\ a.salted_password.salted = secret
<1>1. a.salted_password # None /\ proof = scramSign(serverKey(a.salted_password), a.auth_message)
  BY DEF on_welcome
<1>2. \A x, y : scramSign(serverKey(x), message) = scramSign(serverKey(y), a.auth_message) => x = y
  <2> SUFFICES ASSUME NEW x, NEW y,
                      scramSign(serverKey(x), message) = scramSign(serverKey(y), a.auth_message)
               PROVE  x = y
    OBVIOUS
  <2>1. serverKey(x) = serverKey(y)
    <3>1. scramSign(serverKey(x), message).hmac = scramSign(serverKey(y), a.auth_message).hmac
      OBVIOUS
    <3> QED
      BY <3>1 DEF scramSign
  <2>2. serverKey(x).server_key = serverKey(y).server_key
    BY <2>1
  <2> QED
    BY <2>2 DEF serverKey
<1>3. salted(secret, extra) = a.salted_password
  BY <1>1, <1>2
<1>4. salted(secret, extra).salted = secret
  BY DEF salted
<1> QED
  BY <1>1, <1>3, <1>4

LEMMA WelcomedGood ==
    ASSUME NEW p, Good(p), NEW i \in DOMAIN p.attempts, NEW method, NEW proof, NEW message,
           \/ method = None
           \/ /\ p.attempts[i].signature # None
              /\ method = "scram" =>
                    proof = scramSign(serverKey(salted(opt.router, p.attempts[i].extra)), message)
    PROVE  Good(welcomed(p, i, method, proof)) /\ Tame(p, welcomed(p, i, method, proof))
<1> DEFINE a == p.attempts[i]
           k == CHOOSE j \in chosen(a.auths, method) : TRUE
           verdict == IF method = None \/ a.auths = <<>> THEN "accepted"
                      ELSE IF chosen(a.auths, method) = {} THEN "raised"
                      ELSE on_welcome(a.auths[k], proof)
           denied == [p EXCEPT !.attempts[i].aborted = TRUE]
           joined == [p EXCEPT !.attempts[i].attached = TRUE, !.attempts[i].joinedBy = method]
           running == [joined EXCEPT !.connect_attempts[a.transport] = 0,
                                     !.attempts[i].main = "running"]
           x == [a EXCEPT !.aborted = TRUE]
           b == [a EXCEPT !.attached = TRUE, !.joinedBy = method]
           d == [b EXCEPT !.main = "running"]
<1>0. DOMAIN p = ComponentFields /\ DOMAIN a = AttemptFields /\ Fit(a)
  BY DEF Good, Sound, Shaped
<1>1. Good(denied) /\ Tame(p, denied)
  <2>1. Same(p, denied) /\ denied.attempts = [p.attempts EXCEPT ![i] = x]
    BY <1>0 DEF Same, Settings, ComponentFields
  <2>2. /\ DOMAIN x = AttemptFields
        /\ x.transport = a.transport /\ x.dialled = a.dialled /\ x.done = a.done
        /\ x.auths = a.auths /\ x.signature = a.signature /\ x.phase = a.phase
        /\ x.attached = a.attached /\ x.joinedBy = a.joinedBy
    BY <1>0 DEF AttemptFields
  <2> HIDE DEF x, denied
  <2> QED
    BY <2>1, <2>2, TouchGood
<1>2. ASSUME verdict = "accepted", method = "scram"
      PROVE  \E j \in DOMAIN opt.configs :
                opt.configs[j].name = "scram" /\ opt.configs[j].secret = opt.router
  <2>1. method # None
    BY <1>2, NoneAssumption DEF Methods
  <2>2. a.auths # <<>>
    BY <1>0, <2>1 DEF Fit, Honest
  <2>3. k \in DOMAIN a.auths /\ a.auths[k].config.name = "scram" /\ on_welcome(a.auths[k], proof) = "accepted"
    BY <1>2, <2>1, <2>2 DEF chosen
  <2> HIDE DEF k
  <2>4. proof = scramSign(serverKey(salted(opt.router, a.extra)), message)
    BY <1>2, <2>1
  <2>5. a.auths[k].salted_password # None /\ a.auths[k].salted_password.salted = opt.router
    BY <2>3, <2>4, ProofMeansSecret
  <2>6. /\ k \in DOMAIN opt.configs /\ a.auths[k].config = opt.configs[k]
        /\ a.auths[k].salted_password.salted = opt.configs[k].secret
    BY <1>0, <2>3, <2>5 DEF Fit, Honest
  <2> QED
    BY <2>3, <2>5, <2>6
<1>3. ASSUME verdict = "accepted"
      PROVE  Good(joined) /\ Tame(p, joined) /\ Good(running) /\ Tame(p, running)
  <2>1. /\ DOMAIN b = AttemptFields
        /\ b.transport = a.transport /\ b.dialled = a.dialled /\ b.done = a.done
        /\ b.auths = a.auths /\ b.signature = a.signature /\ b.phase = a.phase
        /\ b.joinedBy = method
    BY <1>0 DEF AttemptFields
  <2>2. Same(p, joined) /\ joined.attempts = [p.attempts EXCEPT ![i] = b] /\ DOMAIN joined = ComponentFields
    BY <1>0 DEF Same, Settings, ComponentFields, AttemptFields
  <2>3. Mutual(b)
    BY <1>2, <1>3, <2>1 DEF Mutual
  <2> HIDE DEF joined, b, verdict
  <2>4. Fit(b)
    BY <1>0, <2>1, <2>3 DEF Fit, Honest
  <2>5. Good(joined) /\ ((b.phase = "closed" <=> p.attempts[i].phase = "closed") => Tame(p, joined))
    BY <2>1, <2>2, <2>4, ReplaceGood
  <2>6. Same(p, running) /\ running.attempts = [p.attempts EXCEPT ![i] = d]
    BY <1>0, <2>2 DEF Same, Settings, ComponentFields
  <2>7. /\ DOMAIN d = AttemptFields
        /\ d.transport = b.transport /\ d.dialled = b.dialled /\ d.done = b.done
        /\ d.auths = b.auths /\ d.signature = b.signature /\ d.phase = b.phase
        /\ d.attached = b.attached /\ d.joinedBy = b.joinedBy
    BY <2>1 DEF AttemptFields
  <2> HIDE DEF d, running
  <2>8. Fit(d)
    BY <2>4, <2>7, FitKept
  <2>9. Good(running) /\ ((d.phase = "closed" <=> p.attempts[i].phase = "closed") => Tame(p, running))
    BY <2>1, <2>6, <2>7, <2>8, ReplaceGood
  <2> QED
    BY <2>1, <2>5, <2>7, <2>9
<1>4. welcomed(p, i, method, proof) =
          IF verdict # "accepted" THEN denied ELSE IF ~opt.main THEN joined ELSE running
  BY DEF welcomed
<1> HIDE DEF denied, joined, running, verdict
<1> QED
  BY <1>1, <1>3, <1>4

-----------------------------------------------------------------------------
(* The end of a connection.                                                *)

\* A connection is closed and its attempt fails, or has ended before.
LEMMA ClosedGood ==
    ASSUME NEW p, Good(p), NEW i \in DOMAIN p.attempts
    PROVE  LET q == [p EXCEPT !.attempts[i].phase = "closed"]
           IN  Good(q) /\ Beside(p, q, i) /\ q.attempts[i].phase = "closed"
<1> DEFINE a == p.attempts[i]
           b == [a EXCEPT !.phase = "closed"]
           q == [p EXCEPT !.attempts[i].phase = "closed"]
<1>0. DOMAIN p = ComponentFields /\ DOMAIN a = AttemptFields /\ Fit(a)
  BY DEF Good, Sound, Shaped
<1>1. Same(p, q) /\ q.attempts = [p.attempts EXCEPT ![i] = b]
  BY <1>0 DEF Same, Settings, ComponentFields
<1>2. /\ DOMAIN b = AttemptFields
      /\ b.transport = a.transport /\ b.dialled = a.dialled /\ b.done = a.done
      /\ b.auths = a.auths /\ b.signature = a.signature /\ b.phase = "closed"
      /\ b.attached = a.attached /\ b.joinedBy = a.joinedBy
  BY <1>0 DEF AttemptFields
<1> HIDE DEF b, q
<1>3. Fit(b)
  BY <1>0, <1>2, FitKept
<1>4. Good(q) /\ Beside(p, q, i) /\ q.attempts[i] = b
  BY <1>1, <1>2, <1>3, ReplaceGood
<1>5. Good(q) /\ Beside(p, q, i) /\ q.attempts[i].phase = "closed"
  BY <1>2, <1>4
<1> QED
  BY <1>5 DEF q

\* What is rejected once it is closed is over.
LEMMA RejectedOver ==
    ASSUME NEW p, Fine(p), NEW i \in DOMAIN p.attempts, NEW x, Good(x), Beside(p, x, i),
           x.attempts[i].phase = "closed", NEW fatal \in BOOLEAN
    PROVE  Fine(rejected(x, i, fatal))
<1> DEFINE q == rejected(x, i, fatal)
<1>1. i \in DOMAIN x.attempts
  BY DEF Beside
<1>2. Good(q) /\ Tame(x, q) /\ q.attempts[i].done # "pending"
  BY <1>1, RejectedGood
<1> HIDE DEF q
<1>3. Beside(p, q, i)
  BY <1>2, BesideOnward
<1>4. q.attempts[i].phase = "closed"
  BY <1>1, <1>2 DEF Tame
<1>5. Fine(q)
  BY <1>2, <1>3, <1>4, BesideFine DEF over
<1> QED
  BY <1>5 DEF q

LEMMA LostFine ==
    ASSUME NEW p, Fine(p), NEW i \in DOMAIN p.attempts, NEW clean \in BOOLEAN, NEW fatal \in BOOLEAN
    PROVE  Fine(lost(p, i, clean, fatal))
<1> DEFINE a == p.attempts[i]
           closed == [p EXCEPT !.attempts[i].phase = "closed"]
           left == IF a.attached
                   THEN leaveSession(closed, i, "wamp.close.transport_lost", fatal) ELSE closed
           disconnected == IF a.session /\ clean THEN succeeded(left, i) ELSE left
           failed == rejected(closed, i, fatal)
           detached == [failed EXCEPT !.attempts[i].attached = FALSE]
<1>0. Good(p)
  BY DEF Fine
<1>1. Good(closed) /\ Beside(p, closed, i) /\ closed.attempts[i].phase = "closed"
  BY <1>0, ClosedGood
<1> HIDE DEF closed
<1>2. i \in DOMAIN closed.attempts
  BY <1>1 DEF Beside
<1>3. Good(left) /\ Tame(closed, left)
  <2>1. Tame(closed, closed)
    BY DEF Tame
  <2> QED
    BY <1>1, <1>2, <2>1, LeaveSessionGood
<1> HIDE DEF left
<1>4. Beside(p, left, i) /\ left.attempts[i].phase = "closed" /\ i \in DOMAIN left.attempts
  <2>1. Beside(p, left, i)
    BY <1>1, <1>3, BesideOnward
  <2> QED
    BY <1>1, <1>2, <1>3, <2>1 DEF Tame
<1>5. Good(disconnected) /\ Tame(left, disconnected)
  <2>1. Tame(left, left)
    BY DEF Tame
  <2> QED
    BY <1>3, <1>4, <2>1, SucceededGood
<1> HIDE DEF disconnected
<1>6. Beside(p, disconnected, i) /\ disconnected.attempts[i].phase = "closed"
  <2>1. Beside(p, disconnected, i)
    BY <1>4, <1>5, BesideOnward
  <2> QED
    BY <1>4, <1>5, <2>1 DEF Tame
<1>7. Fine(rejected(disconnected, i, fatal))
  BY <1>5, <1>6, RejectedOver
<1>8. Fine(failed)
  BY <1>1, RejectedOver
<1>9. i \in DOMAIN failed.attempts
  BY <1>1, <1>2, RejectedGood DEF Tame
<1> HIDE DEF failed
<1>10. Good(detached) /\ Tame(failed, detached)
  BY <1>8, <1>9, DetachedGood DEF Fine
<1> HIDE DEF detached
<1>11. Fine(detached)
  BY <1>8, <1>10, TameFine
<1>12. lost(p, i, clean, fatal) = IF opt.twisted THEN rejected(disconnected, i, fatal) ELSE detached
  BY DEF lost, closed, left, disconnected, failed, detached
<1> QED
  BY <1>7, <1>11, <1>12

-----------------------------------------------------------------------------
(* The reconnect loop.                                                     *)

LEMMA TransportsRange ==
    ASSUME opt \in Options
    PROVE  /\ Len(opt.transports) \in Nat \ {0} /\ Transports = 1 .. Len(opt.transports)
           /\ opt \in OptionType
<1>1. opt \in OptionType /\ opt.transports # <<>>
  BY ComponentAssumption
<1>2. opt.transports \in Seq(TransportType)
  BY <1>1 DEF OptionType
<1> QED
  BY <1>1, <1>2 DEF Transports

\* The cycle comes to every transport.
LEMMA CycleCovers ==
    ASSUME opt \in Options, NEW p, p.next \in Transports, NEW t \in Transports
    PROVE  /\ \A k \in Transports : cycle(p)[k] \in Transports
           /\ \E k \in Transports : cycle(p)[k] = t
<1> DEFINE n == Len(opt.transports)
           k == IF t >= p.next THEN t - p.next + 1 ELSE t - p.next + 1 + n
<1>1. n \in Nat /\ Transports = 1 .. n /\ p.next \in 1 .. n /\ t \in 1 .. n
  BY TransportsRange
<1>2. cycle(p) = [j \in Transports |-> IF p.next + j - 1 <= n THEN p.next + j - 1 ELSE p.next + j - 1 - n]
  BY DEF cycle
<1> HIDE DEF n
<1>3. ASSUME NEW j \in Transports
      PROVE  cycle(p)[j] \in Transports
  <2>1. cycle(p)[j] = IF p.next + j - 1 <= n THEN p.next + j - 1 ELSE p.next + j - 1 - n
    BY <1>2
  <2>2. j \in 1 .. n
    BY <1>1
  <2>3. (IF p.next + j - 1 <= n THEN p.next + j - 1 ELSE p.next + j - 1 - n) \in 1 .. n
    BY <1>1, <2>2
  <2> QED
    BY <1>1, <2>1, <2>3
<1>4. k \in 1 .. n
  BY <1>1
<1>5. cycle(p)[k] = IF p.next + k - 1 <= n THEN p.next + k - 1 ELSE p.next + k - 1 - n
  BY <1>1, <1>2, <1>4
<1>6. cycle(p)[k] = t
  BY <1>1, <1>5
<1> QED
  BY <1>1, <1>3, <1>4, <1>6

\* There is a first transport that can reconnect, when there is one at all.
LEMMA FirstReconnects ==
    ASSUME opt \in Options, NEW p, p.next \in Transports,
           ~ \A t \in Transports : ~can_reconnect(p, t)
    PROVE  LET order == cycle(p)
               k == CHOOSE i \in Transports :
                        /\ can_reconnect(p, order[i])
                        /\ \A j \in 1 .. i - 1 : ~can_reconnect(p, order[j])
           IN  /\ order[k] \in Transports /\ can_reconnect(p, order[k])
               /\ k \in Transports /\ \A j \in 1 .. k - 1 : ~can_reconnect(p, order[j])
<1> DEFINE order == cycle(p)
           T == {i \in Transports : can_reconnect(p, order[i])}
           k == CHOOSE i \in Transports :
                    /\ can_reconnect(p, order[i])
                    /\ \A j \in 1 .. i - 1 : ~can_reconnect(p, order[j])
<1> HIDE DEF order
<1>1. PICK t \in Transports : can_reconnect(p, t)
  OBVIOUS
<1>2. /\ \A i \in Transports : order[i] \in Transports
      /\ \E i \in Transports : order[i] = t
  BY CycleCovers DEF order
<1>3. T # {}
  BY <1>1, <1>2
<1>4. T \subseteq Nat /\ Transports = 1 .. Len(opt.transports) /\ Len(opt.transports) \in Nat
  BY TransportsRange
<1>5. \E x \in T : \A y \in T : ~ (<<y, x>> \in OpToRel(<, Nat))
  BY <1>3, <1>4, NatLessThanWellFounded, WFMin
<1>6. PICK x \in T : \A y \in T : ~(y < x)
  BY <1>4, <1>5 DEF OpToRel
<1>7. /\ x \in Transports /\ can_reconnect(p, order[x])
      /\ \A j \in 1 .. x - 1 : ~can_reconnect(p, order[j])
  <2> SUFFICES ASSUME NEW j \in 1 .. x - 1
               PROVE  ~can_reconnect(p, order[j])
    OBVIOUS
  <2>1. j \in Transports /\ j < x
    BY <1>4
  <2> QED
    BY <1>6, <2>1
<1>8. /\ k \in Transports /\ can_reconnect(p, order[k])
      /\ \A j \in 1 .. k - 1 : ~can_reconnect(p, order[j])
  BY <1>7
<1> QED
  BY <1>2, <1>8 DEF order

\* The future is resolved.
LEMMA ResolvedGood ==
    ASSUME NEW p, Sound(p), NEW outcome
    PROVE  LET q == resolveDone(p, outcome)
           IN  Good(q) /\ q.attempts = p.attempts
<1> DEFINE q == resolveDone(p, outcome)
<1>1. /\ q.done_f = "none" /\ Settings(p, q) /\ q.attempts = p.attempts
      /\ q.check = p.check /\ q.delay_f = p.delay_f
  BY ResolveDoneLoop DEF Sound, Shaped
<1> HIDE DEF q
<1>2. Good(q)
  BY <1>1 DEF Good, Sound, Shaped, Allowed, Placed, Settings, Loop
<1> QED
  BY <1>1, <1>2 DEF q

\* Nothing is under way but the call of transport_check.
Ready(p) ==
    /\ Sound(p) /\ p.accepted
    /\ p.done_f = "pending" => p.delay_f = None /\ Pending(p) = {}

LEMMA TransportCheckGood ==
    ASSUME opt \in Options, NEW p, Ready(p)
    PROVE  LET q == transport_check(p)
           IN  Good(q) /\ q.attempts = p.attempts
<1> DEFINE x == [p EXCEPT !.check = FALSE]
           order == cycle(p)
           k == CHOOSE i \in Transports :
                    /\ can_reconnect(p, order[i])
                    /\ \A j \in 1 .. i - 1 : ~can_reconnect(p, order[j])
           n == IF order[k] = Len(opt.transports) THEN 1 ELSE order[k] + 1
           y == [p EXCEPT !.check = FALSE, !.candidate = order[k], !.next = n,
                          !.delay_f = "sleeping"]
<1>0. DOMAIN p = ComponentFields
  BY DEF Ready, Sound, Shaped
<1>1. Sound(x) /\ x.attempts = p.attempts
  <2>1. Settings(p, x) /\ x.attempts = p.attempts
    BY <1>0 DEF Settings, ComponentFields
  <2> HIDE DEF x
  <2> QED
    BY <2>1 DEF Ready, Sound, Shaped, Allowed, Placed, Settings
<1>2. CASE \A t \in Transports : ~can_reconnect(p, t)
  <2>1. transport_check(p) = resolveDone(x, "failed")
    BY <1>2 DEF transport_check
  <2> HIDE DEF x
  <2> QED
    BY <1>1, <2>1, ResolvedGood
<1>3. CASE ~ \A t \in Transports : ~can_reconnect(p, t)
  <2>1. transport_check(p) = y
    BY <1>3 DEF transport_check
  <2>2. order[k] \in Transports
    BY <1>3, FirstReconnects DEF Ready, Sound, Placed
  <2> HIDE DEF k, order
  <2>3. n \in Transports
    BY <2>2, TransportsRange
  <2> HIDE DEF n
  <2>4. /\ DOMAIN y = DOMAIN p /\ y.accepted = p.accepted /\ y.raised = p.raised
        /\ y.candidate = order[k] /\ y.next = n /\ y.check = FALSE /\ y.delay_f = "sleeping"
        /\ y.attempts = p.attempts /\ y.done_f = p.done_f
    BY <1>0 DEF ComponentFields
  <2> HIDE DEF y
  <2>5. Sound(y)
    BY <2>2, <2>3, <2>4 DEF Ready, Sound, Shaped, Allowed, Placed
  <2>6. Loop(y)
    BY <2>4, ComponentAssumption DEF Ready, Loop, Pending
  <2> QED
    BY <2>1, <2>4, <2>5, <2>6 DEF Good
<1> QED
  BY <1>2, <1>3

LEMMA ErrorGood ==
    ASSUME NEW p, Sound(p), p.accepted
    PROVE  Good(error(p)) /\ error(p).attempts = p.attempts
<1> DEFINE x == [p EXCEPT !.delay_f = None]
           outcome == IF p.stopping THEN "success" ELSE "failed"
<1>1. Settings(p, x) /\ x.attempts = p.attempts
  BY DEF Sound, Shaped, Settings, ComponentFields
<1>2. error(p) = resolveDone(x, outcome)
  BY DEF error
<1> HIDE DEF x, outcome
<1>3. Sound(x)
  BY <1>1 DEF Sound, Shaped, Allowed, Placed, Settings
<1> QED
  BY <1>1, <1>2, <1>3, ResolvedGood

\* A new attempt is what the reconnect loop waits for, or has failed.
LEMMA ConnectingFine ==
    ASSUME NEW p, Ready(p), Open(p), p.done_f = "pending" => ~p.check, NEW fatal \in BOOLEAN
    PROVE  Fine(connecting(p, fatal))
<1> DEFINE t == p.candidate
           i == number(p)
           a == attempt(t)
           attempts == [j \in DOMAIN p.attempts \cup {i} |-> IF j = i THEN a ELSE p.attempts[j]]
           q == [p EXCEPT !.attempts = attempts]
           b == [a EXCEPT !.phase = "closed"]
           y == [q EXCEPT !.attempts[i].phase = "closed", !.raised[t] = TRUE]
<1>0. DOMAIN p = ComponentFields /\ t \in Transports
  BY DEF Ready, Sound, Shaped, Placed
<1>1. /\ DOMAIN a = AttemptFields
      /\ a.transport = t /\ a.dialled = connect_transport(opt.transports[t], opt.twisted)
      /\ a.phase = "connecting" /\ a.done = "pending" /\ a.attached = FALSE
      /\ a.auths = <<>> /\ a.signature = None
  BY DEF attempt, AttemptFields
<1> HIDE DEF a, i
<1>2. /\ q.attempts = attempts /\ DOMAIN q = ComponentFields
      /\ q.done_f = p.done_f /\ q.check = p.check /\ q.delay_f = p.delay_f
      /\ q.accepted = p.accepted /\ q.raised = p.raised
      /\ q.candidate = p.candidate /\ q.next = p.next
  BY <1>0 DEF ComponentFields
<1>3. /\ DOMAIN attempts = DOMAIN p.attempts \cup {i} /\ attempts[i] = a
      /\ \A j \in DOMAIN p.attempts : j # i => attempts[j] = p.attempts[j]
  OBVIOUS
<1> HIDE DEF q, attempts
<1>4. connecting(p, fatal) = IF ~a.dialled.raised THEN q ELSE rejected(y, i, fatal)
  BY <1>2, <1>3 DEF connecting, q, a, i, attempts
<1>5. Honest(a) /\ Mutual(a)
  BY <1>1 DEF Honest, Mutual
<1>6. Placed(q) /\ Allowed(q) /\ Shaped(q)
  BY <1>1, <1>2, <1>3 DEF Ready, Sound, Placed, Allowed, Shaped
<1>7. CASE ~a.dialled.raised
  <2>1. Fit(a)
    BY <1>0, <1>1, <1>5, <1>7 DEF Fit
  <2>2. Sound(q)
    BY <1>2, <1>3, <1>6, <2>1 DEF Ready, Sound
  <2>3. p.done_f = "pending" => Pending(q) = {i}
    BY <1>1, <1>2, <1>3 DEF Ready, Pending
  <2>4. Loop(q)
    BY <1>2, <2>3 DEF Ready, Loop
  <2>5. \A j \in DOMAIN q.attempts : q.attempts[j].phase # "closed"
    BY <1>1, <1>2, <1>3 DEF Open
  <2> QED
    BY <1>4, <1>7, <2>2, <2>4, <2>5 DEF Fine, Good
<1>8. CASE a.dialled.raised
  <2>1. /\ y.attempts = [attempts EXCEPT ![i] = b] /\ DOMAIN y = ComponentFields
        /\ y.raised = [p.raised EXCEPT ![t] = TRUE]
        /\ y.done_f = p.done_f /\ y.check = p.check /\ y.delay_f = p.delay_f
        /\ y.accepted = p.accepted /\ y.candidate = p.candidate /\ y.next = p.next
    BY <1>2, <1>3 DEF ComponentFields
  <2>2. /\ DOMAIN b = AttemptFields /\ b.transport = a.transport /\ b.dialled = a.dialled
        /\ b.phase = "closed" /\ b.done = a.done /\ b.attached = a.attached
        /\ b.auths = a.auths /\ b.signature = a.signature
    BY <1>1 DEF AttemptFields
  <2> HIDE DEF y, b
  <2>3. /\ DOMAIN y.attempts = DOMAIN p.attempts \cup {i} /\ y.attempts[i] = b
        /\ \A j \in DOMAIN p.attempts : j # i => y.attempts[j] = p.attempts[j]
    BY <1>3, <2>1
  <2>4. Fit(b)
    BY <1>0, <1>1, <2>2 DEF Fit, Honest, Mutual
  <2>5. Placed(y)
    <3>1. DOMAIN p.raised = Transports
      BY DEF Ready, Sound, Placed
    <3>2. /\ DOMAIN y.raised = Transports
          /\ \A s \in Transports : y.raised[s] => p.raised[s] \/ s = t
      BY <2>1, <3>1
    <3>3. connect_transport(opt.transports[t], opt.twisted).raised
      BY <1>1, <1>8
    <3> QED
      BY <2>1, <3>2, <3>3 DEF Ready, Sound, Placed
  <2>6. Allowed(y) /\ Shaped(y)
    BY <2>1, <2>2, <2>3 DEF Ready, Sound, Allowed, Shaped
  <2>7. Sound(y)
    BY <2>3, <2>4, <2>5, <2>6 DEF Ready, Sound
  <2>8. p.done_f = "pending" => Pending(y) = {i}
    BY <1>1, <2>2, <2>3 DEF Ready, Pending
  <2>9. Loop(y)
    BY <2>1, <2>8 DEF Ready, Loop
  <2>10. LET r == rejected(y, i, fatal)
         IN  Good(r) /\ Tame(y, r) /\ r.attempts[i].done # "pending"
    BY <2>3, <2>7, <2>9, RejectedGood DEF Good
  <2> DEFINE r == rejected(y, i, fatal)
  <2> HIDE DEF r
  <2>11. Good(r) /\ Tame(y, r) /\ r.attempts[i].done # "pending"
    BY <2>10 DEF r
  <2>12. \A j \in DOMAIN r.attempts : r.attempts[j].phase = "closed" => j = i
    BY <2>3, <2>11 DEF Tame, Open
  <2>13. Fine(r)
    BY <2>11, <2>12 DEF Fine, over
  <2> QED
    BY <1>4, <1>8, <2>13 DEF r
<1> QED
  BY <1>7, <1>8

LEMMA AttemptConnectFine ==
    ASSUME NEW p, Good(p), Open(p), p.delay_f # None, NEW fatal \in BOOLEAN
    PROVE  Fine(attempt_connect(p, fatal))
<1> DEFINE count == IF max_retries(p.candidate) = -1 THEN 1 ELSE p.connect_attempts[p.candidate] + 1
           x == [p EXCEPT !.delay_f = None, !.connect_attempts[p.candidate] = count]
<1>0. DOMAIN p = ComponentFields /\ p.accepted
  BY DEF Good, Sound, Shaped, Allowed
<1>1. attempt_connect(p, fatal) = connecting(x, fatal)
  BY <1>0 DEF attempt_connect, ComponentFields
<1> HIDE DEF count
<1>2. /\ Settings(p, x) /\ x.attempts = p.attempts
      /\ x.delay_f = None /\ x.check = p.check /\ x.done_f = p.done_f
  BY <1>0 DEF Settings, ComponentFields
<1> HIDE DEF x
<1>3. Sound(x) /\ x.accepted
  BY <1>0, <1>2 DEF Good, Sound, Shaped, Allowed, Placed, Settings
<1>4. Ready(x) /\ (x.done_f = "pending" => ~x.check)
  BY <1>2, <1>3 DEF Ready, Good, Loop, Pending
<1>5. Open(x)
  BY <1>2 DEF Open
<1> QED
  BY <1>1, <1>4, <1>5, ConnectingFine

LEMMA StopFine ==
    ASSUME NEW p, Good(p), Open(p), p.done_f = "pending"
    PROVE  Fine([stop(p) EXCEPT !.stops = 1])
<1> DEFINE q == [p EXCEPT !.stopping = TRUE]
           r == stop(p)
           s == [r EXCEPT !.stops = 1]
<1>0. DOMAIN p = ComponentFields /\ p.accepted
  BY DEF Good, Sound, Shaped, Allowed
<1>1. Same(p, q) /\ q.attempts = p.attempts
  BY <1>0 DEF Same, Settings, ComponentFields
<1>2. r = IF p.session \in DOMAIN p.attempts /\ p.attempts[p.session].attached
          THEN leave(q, p.session)
          ELSE IF p.delay_f # None THEN error(q) ELSE resolveDone(q, "success")
  BY DEF stop
<1> HIDE DEF q, r
<1>3. Good(q) /\ q.accepted
  BY <1>0, <1>1, SameGood DEF Same, Settings
<1>4. Open(q)
  BY <1>1 DEF Open
<1>5. Good(r) /\ Open(r)
  <2>1. CASE r = leave(q, p.session) /\ p.session \in DOMAIN p.attempts
    <3>1. Good(leave(q, p.session)) /\ Tame(q, leave(q, p.session))
      BY <1>1, <1>3, <2>1, LeaveGood
    <3> QED
      BY <1>4, <2>1, <3>1 DEF Tame, Open
  <2>2. CASE r = error(q)
    BY <1>3, <1>4, <2>2, ErrorGood DEF Good, Open
  <2>3. CASE r = resolveDone(q, "success")
    <3>1. Good(resolveDone(q, "success")) /\ resolveDone(q, "success").attempts = q.attempts
      BY <1>3, ResolvedGood DEF Good
    <3> QED
      BY <1>4, <2>3, <3>1 DEF Open
  <2> QED
    BY <1>2, <2>1, <2>2, <2>3
<1>6. Same(r, s) /\ s.attempts = r.attempts
  BY <1>5 DEF Good, Sound, Shaped, Same, Settings, ComponentFields
<1> HIDE DEF s
<1>7. Good(s)
  BY <1>5, <1>6, SameGood
<1>8. Fine(s)
  BY <1>5, <1>6, <1>7 DEF Fine, Open
<1> QED
  BY <1>8 DEF s, r

-----------------------------------------------------------------------------
(* Closed connections are forgotten.                                       *)

LEMMA SweptGood ==
    ASSUME NEW p, Fine(p)
    PROVE  Good(swept(p)) /\ Open(swept(p))
<1> DEFINE D == {j \in DOMAIN p.attempts : ~over(p.attempts[j])}
           attempts == [i \in D |-> p.attempts[i]]
           q == [p EXCEPT !.attempts = attempts]
<1>0. DOMAIN p = ComponentFields /\ Good(p)
  BY DEF Fine, Good, Sound, Shaped
<1>1. swept(p) = q
  BY DEF swept
<1>2. /\ q.attempts = attempts /\ Settings(p, q)
      /\ q.done_f = p.done_f /\ q.check = p.check /\ q.delay_f = p.delay_f
  BY <1>0 DEF Settings, ComponentFields
<1>3. /\ DOMAIN attempts \subseteq DOMAIN p.attempts
      /\ \A i \in DOMAIN attempts : attempts[i] = p.attempts[i] /\ ~over(p.attempts[i])
      /\ \A i \in DOMAIN p.attempts : ~over(p.attempts[i]) => i \in DOMAIN attempts
  OBVIOUS
<1> HIDE DEF q, attempts
<1>4. Pending(q) = Pending(p)
  BY <1>2, <1>3 DEF Pending, over
<1>5. Shaped(q) /\ Allowed(q) /\ Placed(q) /\ Loop(q)
  BY <1>0, <1>2, <1>3, <1>4 DEF Good, Sound, Shaped, Allowed, Placed, Loop, Settings
<1>6. \A i \in DOMAIN q.attempts : Fit(q.attempts[i])
  BY <1>0, <1>2, <1>3 DEF Good, Sound
<1>7. Open(q)
  BY <1>2, <1>3 DEF Fine, Open
<1> QED
  BY <1>1, <1>5, <1>6, <1>7 DEF Good, Sound

-----------------------------------------------------------------------------
(* Every step.                                                             *)

Inv == opt \in Options /\ Good(c) /\ Open(c)

LEMMA InitInv ==
    ASSUME Init
    PROVE  Inv
<1>1. opt \in Options /\ Len(opt.transports) \in Nat \ {0} /\ Transports = 1 .. Len(opt.transports)
  BY TransportsRange DEF Init
<1>2. 1 \in Transports
  BY <1>1
<1>3. /\ DOMAIN c = ComponentFields /\ DOMAIN c.attempts = {}
      /\ c.done_f = "none" /\ c.check = FALSE /\ c.delay_f = None
      /\ c.next = 1 /\ c.candidate = 1
      /\ c.accepted = (\A t \in Transports : accepts(opt.transports[t], opt.twisted))
      /\ c.raised = [t \in Transports |-> FALSE]
  BY DEF Init, ComponentFields
<1>4. Shaped(c) /\ Loop(c) /\ Placed(c) /\ Open(c)
  BY <1>2, <1>3 DEF Shaped, Loop, Placed, Open
<1>5. Allowed(c)
  BY <1>3 DEF Allowed
<1> QED
  BY <1>1, <1>3, <1>4, <1>5 DEF Inv, Good, Sound

\* What is good for opt and q is good in the next state.
LEMMA Landed ==
    ASSUME Inv, NEW p, Fine(p), To(p), UNCHANGED opt
    PROVE  Inv'
<1> DEFINE q == swept(p)
<1>1. Good(q) /\ Open(q)
  BY SweptGood
<1>2. c' = q /\ opt' = opt
  BY DEF To
<1> HIDE DEF q
<1>3. (Shaped(c))'
  BY <1>1, <1>2 DEF Good, Sound, Shaped
<1>4. (Loop(c))'
  BY <1>1, <1>2 DEF Good, Loop, Pending
<1>5. Transports' = Transports
  BY <1>2 DEF Transports
<1>6. (Allowed(c))'
  BY <1>1, <1>2, <1>5 DEF Good, Sound, Allowed
<1>7. (Placed(c))'
  BY <1>1, <1>2, <1>5 DEF Good, Sound, Placed
<1>8. \A i \in DOMAIN c'.attempts : (Fit(c.attempts[i]))'
  BY <1>1, <1>2, <1>5 DEF Good, Sound, Fit, Honest, Mutual
<1>9. (Open(c))'
  BY <1>1, <1>2 DEF Open
<1> QED
  BY <1>2, <1>3, <1>4, <1>6, <1>7, <1>8, <1>9 DEF Inv, Good, Sound

\* A state without closed connections stays fine when none is closed.
LEMMA TamelyLanded ==
    ASSUME Inv, NEW p, Good(p), Tame(c, p), To(p), UNCHANGED opt
    PROVE  Inv'
<1>1. Fine(p)
  BY DEF Inv, Open, Fine, Tame
<1> QED
  BY <1>1, Landed

LEMMA FatalIsBoolean ==
    ASSUME opt \in Options, NEW fatal \in Fatal
    PROVE  fatal \in BOOLEAN
<1>1. opt \in OptionType
  BY TransportsRange
<1>2. opt.fatal \in BOOLEAN
  BY <1>1, Zenon DEF OptionType
<1> QED
  BY <1>2 DEF Fatal

LEMMA StartKeeps ==
    ASSUME Inv, Start
    PROVE  Inv'
<1> DEFINE p == [c EXCEPT !.starts = @ + 1, !.done_f = "pending", !.outcome = None, !.next = 1]
<1>0. /\ DOMAIN c = ComponentFields /\ c.accepted /\ Idle
      /\ To(transport_check(p)) \/ To(error(p))
      /\ UNCHANGED opt
  BY DEF Inv, Good, Sound, Shaped, Start
<1>1. /\ p.attempts = c.attempts /\ DOMAIN p = ComponentFields /\ p.accepted = c.accepted
      /\ p.raised = c.raised /\ p.candidate = c.candidate /\ p.next = 1
      /\ p.check = c.check /\ p.delay_f = c.delay_f
  BY <1>0 DEF ComponentFields
<1> HIDE DEF p
<1>2. 1 \in Transports
  BY TransportsRange DEF Inv
<1>3. Sound(p)
  BY <1>0, <1>1, <1>2 DEF Inv, Good, Sound, Shaped, Allowed, Placed
<1>4. DOMAIN c.attempts = {} /\ p.delay_f = None
  BY <1>0, <1>1 DEF Idle, Attempts
<1>5. Ready(p) /\ p.accepted
  BY <1>0, <1>1, <1>3, <1>4 DEF Ready, Pending
<1>6. CASE To(transport_check(p))
  <2>1. Good(transport_check(p)) /\ transport_check(p).attempts = p.attempts
    BY <1>5, TransportCheckGood DEF Inv
  <2>2. Fine(transport_check(p))
    BY <1>1, <1>4, <2>1 DEF Fine
  <2> QED
    BY <1>0, <1>6, <2>2, Landed
<1>7. CASE To(error(p))
  <2>1. Good(error(p)) /\ error(p).attempts = p.attempts
    BY <1>3, <1>5, ErrorGood
  <2>2. Fine(error(p))
    BY <1>1, <1>4, <2>1 DEF Fine
  <2> QED
    BY <1>0, <1>7, <2>2, Landed
<1> QED
  BY <1>0, <1>6, <1>7

LEMMA LoopKeeps ==
    ASSUME Inv, Stop \/ TransportCheck \/ DelayOver
    PROVE  Inv'
<1>1. CASE Stop
  <2>1. Fine([stop(c) EXCEPT !.stops = 1])
    BY <1>1, StopFine DEF Inv, Stop
  <2> QED
    BY <1>1, <2>1, Landed DEF Stop
<1>2. CASE TransportCheck
  <2>1. Ready(c)
    BY <1>2 DEF TransportCheck, Inv, Good, Sound, Allowed, Loop, Ready
  <2>2. Good(transport_check(c)) /\ transport_check(c).attempts = c.attempts
    BY <2>1, TransportCheckGood DEF Inv
  <2>3. Tame(c, transport_check(c))
    BY <2>2 DEF Tame
  <2> QED
    BY <1>2, <2>2, <2>3, TamelyLanded DEF TransportCheck
<1>3. CASE DelayOver
  <2>1. PICK fatal \in Fatal : To(attempt_connect(c, fatal))
    BY <1>3 DEF DelayOver, Fatal
  <2>2. fatal \in BOOLEAN
    BY FatalIsBoolean DEF Inv
  <2>3. Fine(attempt_connect(c, fatal))
    BY <1>3, <2>2, AttemptConnectFine DEF Inv, DelayOver
  <2> QED
    BY <1>3, <2>1, <2>3, Landed DEF DelayOver
<1> QED
  BY <1>1, <1>2, <1>3

LEMMA ConnectingKeeps ==
    ASSUME Inv, NEW i \in Attempts, ConnectFails(i) \/ Connects(i) \/ OnOpen(i)
    PROVE  Inv'
<1>0. i \in DOMAIN c.attempts /\ Good(c) /\ Open(c) /\ opt \in Options
  BY DEF Inv, Attempts
<1>1. CASE ConnectFails(i)
  <2> DEFINE x == [c EXCEPT !.attempts[i].phase = "closed"]
  <2>1. PICK fatal \in Fatal : To(rejected(x, i, fatal))
    BY <1>1 DEF ConnectFails
  <2>2. fatal \in BOOLEAN
    BY <1>0, FatalIsBoolean
  <2>3. Fine(c)
    BY <1>0 DEF Fine, Open
  <2>4. Good(x) /\ Beside(c, x, i) /\ x.attempts[i].phase = "closed"
    BY <1>0, ClosedGood
  <2> HIDE DEF x
  <2>5. Fine(rejected(x, i, fatal))
    BY <1>0, <2>2, <2>3, <2>4, RejectedOver
  <2> QED
    BY <1>1, <2>1, <2>5, Landed DEF ConnectFails
<1>2. CASE Connects(i)
  <2> DEFINE a == c.attempts[i]
             b == [a EXCEPT !.phase = "handshake"]
             q == [c EXCEPT !.attempts[i].phase = "handshake"]
  <2>1. DOMAIN c = ComponentFields /\ DOMAIN a = AttemptFields /\ a.phase = "connecting"
    BY <1>0, <1>2 DEF Good, Sound, Shaped, Connects
  <2>2. Same(c, q) /\ q.attempts = [c.attempts EXCEPT ![i] = b]
    BY <2>1 DEF Same, Settings, ComponentFields
  <2>3. /\ DOMAIN b = AttemptFields
        /\ b.transport = a.transport /\ b.dialled = a.dialled /\ b.done = a.done
        /\ b.auths = a.auths /\ b.signature = a.signature /\ b.phase = "handshake"
        /\ b.attached = a.attached /\ b.joinedBy = a.joinedBy
    BY <2>1 DEF AttemptFields
  <2>4. To(q) /\ UNCHANGED opt
    BY <1>2 DEF Connects
  <2> HIDE DEF b, q
  <2>5. Good(q) /\ Tame(c, q)
    BY <1>0, <2>1, <2>2, <2>3, TouchGood
  <2> QED
    BY <2>4, <2>5, TamelyLanded
<1>3. CASE OnOpen(i)
  <2>1. PICK fatal \in Fatal : To(openSession(c, i, fatal))
    BY <1>3 DEF OnOpen
  <2>2. fatal \in BOOLEAN
    BY <1>0, FatalIsBoolean
  <2>3. Good(openSession(c, i, fatal)) /\ Tame(c, openSession(c, i, fatal))
    BY <1>0, <1>3, <2>2, OpenSessionGood DEF OnOpen
  <2> QED
    BY <1>3, <2>1, <2>3, TamelyLanded DEF OnOpen
<1> QED
  BY <1>1, <1>2, <1>3

LEMMA RouterKeeps ==
    ASSUME Inv, NEW i \in Attempts,
           RouterChallenges(i) \/ RouterWelcomes(i) \/ RouterAborts(i) \/ RouterSaysGoodbye(i)
    PROVE  Inv'
<1>0. i \in DOMAIN c.attempts /\ Good(c) /\ opt \in Options
  BY DEF Inv, Attempts
<1>1. CASE RouterChallenges(i)
  <2>1. PICK method, extra : \E fatal \in Fatal : To(challenged(c, i, method, extra, fatal))
    BY <1>1 DEF RouterChallenges
  <2>2. PICK fatal \in Fatal : To(challenged(c, i, method, extra, fatal))
    BY <2>1
  <2>3. fatal \in BOOLEAN /\ opt \in OptionType
    BY <1>0, FatalIsBoolean, TransportsRange
  <2>4. LET q == challenged(c, i, method, extra, fatal) IN Good(q) /\ Tame(c, q)
    BY <1>0, <2>3, ChallengedGood
  <2> QED
    BY <1>1, <2>2, <2>4, TamelyLanded DEF RouterChallenges
<1>2. CASE RouterWelcomes(i)
  <2> DEFINE a == c.attempts[i]
             message == auth_message(a.hello.authid, valueOf(a.hello.authextra, "nonce"), a.extra)
             proof == IF a.method = "scram" THEN serverProof(opt.router, a.hello, a.extra) ELSE None
  <2>1. \/ To(welcomed(c, i, None, None))
        \/ a.signature # None /\ To(welcomed(c, i, a.method, proof))
    BY <1>2 DEF RouterWelcomes
  <2>2. CASE To(welcomed(c, i, None, None))
    <3>1. Good(welcomed(c, i, None, None)) /\ Tame(c, welcomed(c, i, None, None))
      BY <1>0, WelcomedGood
    <3> QED
      BY <1>2, <2>2, <3>1, TamelyLanded DEF RouterWelcomes
  <2>3. CASE a.signature # None /\ To(welcomed(c, i, a.method, proof))
    <3>1. a.method = "scram" => proof = scramSign(serverKey(salted(opt.router, a.extra)), message)
      BY DEF serverProof
    <3> HIDE DEF proof, message
    <3>2. Good(welcomed(c, i, a.method, proof)) /\ Tame(c, welcomed(c, i, a.method, proof))
      BY <1>0, <2>3, <3>1, WelcomedGood
    <3> QED
      BY <1>2, <2>3, <3>2, TamelyLanded DEF RouterWelcomes
  <2> QED
    BY <2>1, <2>2, <2>3
<1>3. CASE RouterAborts(i) \/ RouterSaysGoodbye(i)
  <2>0. PICK reason : \E fatal \in Fatal : To(leaveSession(c, i, reason, fatal))
    BY <1>3 DEF RouterAborts, RouterSaysGoodbye
  <2>1. PICK fatal \in Fatal : To(leaveSession(c, i, reason, fatal))
    BY <2>0
  <2>2. fatal \in BOOLEAN
    BY <1>0, FatalIsBoolean
  <2>3. LET q == leaveSession(c, i, reason, fatal) IN Good(q) /\ Tame(c, q)
    BY <1>0, <2>2, LeaveSessionGood
  <2> QED
    BY <1>3, <2>1, <2>3, TamelyLanded DEF RouterAborts, RouterSaysGoodbye
<1> QED
  BY <1>1, <1>2, <1>3

LEMMA MainKeeps ==
    ASSUME Inv, NEW i \in Attempts,
           MainReturns(i) \/ LeaveAfterMain(i) \/ MainRaises(i) \/ ConnectionLost(i)
    PROVE  Inv'
<1>0. i \in DOMAIN c.attempts /\ Good(c) /\ Open(c) /\ opt \in Options
      /\ DOMAIN c = ComponentFields /\ DOMAIN c.attempts[i] = AttemptFields
  BY DEF Inv, Attempts, Good, Sound, Shaped
<1> DEFINE a == c.attempts[i]
<1>1. CASE MainReturns(i)
  <2> DEFINE b == [a EXCEPT !.main = "returned"]
             q == [c EXCEPT !.attempts[i].main = "returned", !.completed = TRUE]
  <2>2. Same(c, q) /\ q.attempts = [c.attempts EXCEPT ![i] = b]
    BY <1>0 DEF Same, Settings, ComponentFields
  <2>3. /\ DOMAIN b = AttemptFields
        /\ b.transport = a.transport /\ b.dialled = a.dialled /\ b.done = a.done
        /\ b.auths = a.auths /\ b.signature = a.signature /\ b.phase = a.phase
        /\ b.attached = a.attached /\ b.joinedBy = a.joinedBy
    BY <1>0 DEF AttemptFields
  <2>4. To(q) /\ UNCHANGED opt
    BY <1>1 DEF MainReturns
  <2> HIDE DEF b, q
  <2>5. Good(q) /\ Tame(c, q)
    BY <1>0, <2>2, <2>3, TouchGood
  <2> QED
    BY <2>4, <2>5, TamelyLanded
<1>2. \A p : Good(p) /\ Tame(c, p) =>
         LET q == [p EXCEPT !.attempts[i].main = "over"] IN Good(q) /\ Tame(c, q)
  <2> SUFFICES ASSUME NEW p, Good(p), Tame(c, p)
               PROVE  LET q == [p EXCEPT !.attempts[i].main = "over"] IN Good(q) /\ Tame(c, q)
    OBVIOUS
  <2> DEFINE d == p.attempts[i]
             b == [d EXCEPT !.main = "over"]
             q == [p EXCEPT !.attempts[i].main = "over"]
  <2>1. DOMAIN p = ComponentFields /\ i \in DOMAIN p.attempts /\ DOMAIN d = AttemptFields
    BY <1>0 DEF Good, Sound, Shaped, Tame
  <2>2. Same(p, q) /\ q.attempts = [p.attempts EXCEPT ![i] = b]
    BY <2>1 DEF Same, Settings, ComponentFields
  <2>3. /\ DOMAIN b = AttemptFields
        /\ b.transport = d.transport /\ b.dialled = d.dialled /\ b.done = d.done
        /\ b.auths = d.auths /\ b.signature = d.signature /\ b.phase = d.phase
        /\ b.attached = d.attached /\ b.joinedBy = d.joinedBy
    BY <2>1 DEF AttemptFields
  <2> HIDE DEF b, q
  <2>5. Good(q) /\ Tame(p, q)
    BY <2>1, <2>2, <2>3, TouchGood
  <2>6. Tame(c, q)
    BY <2>5, TameOnward
  <2> QED
    BY <2>5, <2>6 DEF q
<1>3. CASE LeaveAfterMain(i)
  <2>1. Good(leave(c, i)) /\ Tame(c, leave(c, i))
    BY <1>0, LeaveGood
  <2> DEFINE q == [leave(c, i) EXCEPT !.attempts[i].main = "over"]
  <2>2. Good(q) /\ Tame(c, q)
    BY <1>2, <2>1
  <2>3. To(q) /\ UNCHANGED opt
    BY <1>3 DEF LeaveAfterMain
  <2> QED
    BY <2>2, <2>3, TamelyLanded
<1>4. CASE MainRaises(i)
  <2> DEFINE x == [c EXCEPT !.attempts[i].main = "over"]
  <2>1. PICK fatal \in Fatal : To(main_error(x, i, fatal))
    BY <1>4 DEF MainRaises
  <2>2. fatal \in BOOLEAN
    BY <1>0, FatalIsBoolean
  <2>3. Tame(c, c)
    BY DEF Tame
  <2>4. Good(x) /\ Tame(c, x)
    BY <1>0, <1>2, <2>3
  <2> HIDE DEF x
  <2>5. i \in DOMAIN x.attempts
    BY <1>0, <2>4 DEF Tame
  <2>6. Good(main_error(x, i, fatal)) /\ Tame(x, main_error(x, i, fatal))
    BY <2>2, <2>4, <2>5, MainErrorGood
  <2>7. Tame(c, main_error(x, i, fatal))
    BY <2>4, <2>6, TameOnward
  <2> QED
    BY <1>4, <2>1, <2>6, <2>7, TamelyLanded DEF MainRaises
<1>5. CASE ConnectionLost(i)
  <2>1. PICK fatal \in Fatal, clean \in BOOLEAN : To(lost(c, i, clean, fatal))
    BY <1>5 DEF ConnectionLost
  <2>2. fatal \in BOOLEAN
    BY <1>0, FatalIsBoolean
  <2>3. Fine(c)
    BY <1>0 DEF Fine, Open
  <2>4. Fine(lost(c, i, clean, fatal))
    BY <1>0, <2>2, <2>3, LostFine
  <2> QED
    BY <1>5, <2>1, <2>4, Landed DEF ConnectionLost
<1> QED
  BY <1>1, <1>3, <1>4, <1>5

LEMMA NextInv ==
    ASSUME Inv, [Next]_vars
    PROVE  Inv'
<1>1. CASE UNCHANGED vars
  BY <1>1 DEF vars, Inv, Good, Sound, Shaped, Loop, Allowed, Placed, Open, Fit, Honest, Mutual,
              Pending, Transports
<1>2. CASE \E i \in Attempts : Connection(i)
  BY <1>2, ConnectingKeeps, RouterKeeps, MainKeeps DEF Connection
<1> QED
  BY <1>1, <1>2, StartKeeps, LoopKeeps DEF Next

LEMMA AlwaysInv == Spec => []Inv
BY InitInv, NextInv, PTL DEF Spec

-----------------------------------------------------------------------------
(* What a component is sure of.                                            *)

\* While start()'s future is outstanding exactly one thing is under way that can
\* bring the component on: transport_check, the delay or an attempt
\* (component.py:597-722), whatever transports there are and however the router,
\* the network and main behave.
THEOREM NeverTwoLoops == Spec => []OneThingUnderWay
<1>1. Inv => OneThingUnderWay
  <2> SUFFICES ASSUME Inv, c.done_f = "pending"
               PROVE  (IF c.check THEN 1 ELSE 0) + (IF c.delay_f # None THEN 1 ELSE 0)
                        + Cardinality({i \in Attempts : /\ c.attempts[i].done = "pending"
                                                        /\ c.attempts[i].phase # "closed"}) = 1
    BY DEF OneThingUnderWay
  <2>1. {i \in Attempts : c.attempts[i].done = "pending" /\ c.attempts[i].phase # "closed"} = Pending(c)
    BY DEF Inv, Open, Pending, Attempts
  <2>2. /\ Pending(c) = {} => Cardinality(Pending(c)) = 0
        /\ \A i : Pending(c) = {i} => Cardinality(Pending(c)) = 1
    BY FS_EmptySet, FS_Singleton
  <2>3. \/ c.check /\ c.delay_f = None /\ Pending(c) = {}
        \/ ~c.check /\ c.delay_f # None /\ Pending(c) = {}
        \/ ~c.check /\ c.delay_f = None /\ \E i : Pending(c) = {i}
    BY DEF Inv, Good, Loop
  <2> DEFINE n == Cardinality(Pending(c))
             check == IF c.check THEN 1 ELSE 0
             delay == IF c.delay_f # None THEN 1 ELSE 0
  <2>4. \/ check = 1 /\ delay = 0 /\ n = 0
        \/ check = 0 /\ delay = 1 /\ n = 0
        \/ check = 0 /\ delay = 0 /\ n = 1
    BY <2>2, <2>3
  <2> HIDE DEF n, check, delay
  <2>5. check + delay + n = 1
    BY <2>4
  <2> QED
    BY <2>1, <2>5 DEF n, check, delay
<1> QED
  BY <1>1, AlwaysInv, PTL

\* A session that joined by WAMP-SCRAM has had the router prove that it has the
\* principal's secret (auth.py:330), whatever authenticators it has beside it
\* and whether the router lies.
THEOREM ScramIsMutual == Spec => []JoinedIsMutual
<1>1. Inv => JoinedIsMutual
  BY DEF Inv, Good, Sound, Fit, Mutual, JoinedIsMutual, Attempts
<1> QED
  BY <1>1, AlwaysInv, PTL

\* What component.py does otherwise than its documentation says is left aside:
\* the endpoint of a RawSocket transport is not looked at (component.py:227),
\* without an endpoint RawSocket never has TLS (component.py:203-225), and a
\* WebSocket URL of a Unix domain socket is taken for a host (component.py:170-178).
Straight(cfg) ==
    /\ kind(cfg) = "rawsocket" => "endpoint" \notin cfg.given /\ ~isSecure(cfg.url)
    /\ kind(cfg) = "websocket" /\ "endpoint" \notin cfg.given => cfg.url.host # "unix"

LEMMA ConnectsToRouter ==
    ASSUME NEW cfg \in TransportType, NEW twisted \in BOOLEAN, accepts(cfg, twisted), Straight(cfg)
    PROVE  \/ connect_transport(cfg, twisted).raised
           \/ connect_transport(cfg, twisted) = router(cfg)
<1> DEFINE e == endpoint(cfg)
<1>1. CASE factoryRaises(cfg) \/ "proxy" \in cfg.given
  BY <1>1 DEF connect_transport, router, Raised, target
<1>2. CASE ~factoryRaises(cfg) /\ "proxy" \notin cfg.given
  <2>1. connect_transport(cfg, twisted) = connected(e, twisted)
    BY <1>2 DEF connect_transport
  <2>2. CASE "endpoint" \in cfg.given
    <3>1. e = cfg.endpoint
      BY <2>2 DEF endpoint
    <3>2. \/ connected(e, twisted) = Raised
          \/ connected(e, twisted) = IF e.native THEN target("native", "elsewhere", 0, FALSE)
                                     ELSE IF e.type = "unix" THEN target("unix", "unix", 0, FALSE)
                                     ELSE target("tcp", e.host, e.port, secured(e))
      BY DEF connected
    <3>3. router(cfg) = IF e.native THEN target("native", "elsewhere", 0, FALSE)
                        ELSE IF e.type = "unix" THEN target("unix", "unix", 0, FALSE)
                        ELSE target("tcp", e.host, e.port, secured(e))
      BY <1>2, <2>2, <3>1 DEF router, secured
    <3>4. Raised.raised
      BY DEF Raised
    <3> QED
      BY <2>1, <3>2, <3>3, <3>4
  <2>3. CASE "endpoint" \notin cfg.given /\ kind(cfg) = "rawsocket" /\ cfg.url.host = "unix"
    <3>1. e = unix
      BY <2>3 DEF endpoint
    <3>2. unix.native = FALSE /\ unix.type = "unix"
      BY DEF unix, tcp
    <3>3. connected(e, twisted) = Raised \/ connected(e, twisted) = target("unix", "unix", 0, FALSE)
      BY <3>1, <3>2 DEF connected
    <3>4. Raised.raised
      BY DEF Raised
    <3> QED
      BY <1>2, <2>1, <2>3, <3>3, <3>4 DEF router
  <2>4. CASE "endpoint" \notin cfg.given /\ ~(kind(cfg) = "rawsocket" /\ cfg.url.host = "unix")
    <3> DEFINE tls == IF kind(cfg) = "websocket" /\ isSecure(cfg.url) THEN "yes" ELSE "no"
               odd == IF cfg.url.host = "unix" THEN {"port"} ELSE {}
    <3>1. e = tcp(cfg.url.host, port(cfg.url), tls, odd)
      BY <2>4 DEF endpoint
    <3>2. /\ e.native = FALSE /\ e.type = "tcp" /\ e.host = cfg.url.host
          /\ e.port = port(cfg.url) /\ e.tls = tls /\ "tls" \in e.given
      BY <3>1 DEF tcp
    <3>3. cfg.url.host # "unix" /\ (tls = "yes" <=> isSecure(cfg.url))
      BY <2>4 DEF Straight, accepts
    <3>4. \/ connected(e, twisted) = Raised
          \/ connected(e, twisted) = target("tcp", cfg.url.host, port(cfg.url), secured(e))
      BY <3>2 DEF connected
    <3>5. secured(e) <=> isSecure(cfg.url)
      BY <3>2, <3>3 DEF secured
    <3>6. router(cfg) = target("tcp", cfg.url.host, port(cfg.url), isSecure(cfg.url))
      BY <1>2, <2>4, <3>3 DEF router, port, isSecure
    <3>7. secured(e) = isSecure(cfg.url)
      BY <3>5 DEF secured, isSecure
    <3>8. Raised.raised
      BY DEF Raised
    <3> QED
      BY <2>1, <3>4, <3>6, <3>7, <3>8
  <2> QED
    BY <2>2, <2>3, <2>4
<1> QED
  BY <1>1, <1>2

LEMMA RightConnects ==
    ASSUME NEW cfg \in TransportType, NEW twisted \in BOOLEAN, accepts(cfg, twisted), Straight(cfg),
           "serializer" \in cfg.given => cfg.serializers # <<>>,
           valuesAreRight(cfg, twisted)
    PROVE  ~connect_transport(cfg, twisted).raised
<1> DEFINE e == endpoint(cfg)
<1>1. ~factoryRaises(cfg)
  <2>1. kind(cfg) = "websocket" => parses(cfg.url, {"ws", "wss"})
    BY DEF accepts, valuesAreRight, parses
  <2>2. ToSet(serializerIds(cfg)) \subseteq SERID_TO_SER
    <3>1. ToSet(cfg.serializers) \subseteq SERID_TO_SER
      BY DEF valuesAreRight
    <3>2. "serializer" \in cfg.given => ToSet(<<Head(cfg.serializers)>>) \subseteq SERID_TO_SER
      <4> SUFFICES ASSUME "serializer" \in cfg.given
                   PROVE  ToSet(<<Head(cfg.serializers)>>) \subseteq SERID_TO_SER
        OBVIOUS
      <4>1. cfg.serializers \in Seq(STRING) /\ cfg.serializers # <<>>
        BY DEF TransportType
      <4>2. Head(cfg.serializers) \in ToSet(cfg.serializers)
        BY <4>1 DEF ToSet
      <4>3. ToSet(<<Head(cfg.serializers)>>) = {Head(cfg.serializers)}
        BY DEF ToSet
      <4> QED
        BY <3>1, <4>2, <4>3
    <3>3. ToSet(<<"cbor", "json">>) \subseteq SERID_TO_SER /\ ToSet(<<"cbor">>) \subseteq SERID_TO_SER
      BY DEF ToSet, SERID_TO_SER
    <3> QED
      BY <3>1, <3>2, <3>3 DEF serializerIds
  <2>3. ~("options" \in cfg.given /\ "misspelt" \in cfg.options)
    BY DEF valuesAreRight
  <2> QED
    BY <2>1, <2>2, <2>3 DEF factoryRaises
<1>2. ~target("proxy", "proxy", 0, FALSE).raised
  BY DEF target
<1>3. CASE "endpoint" \in cfg.given
  <2>1. e = cfg.endpoint /\ kind(cfg) = "websocket" /\ validate_endpoint(e, twisted)
    BY <1>3 DEF endpoint, Straight, accepts
  <2>2. /\ e.odd = {} /\ e.tls # "odd" /\ e.version \in {4, 6}
        /\ e.version = 6 => e.tls = "no" \/ ~twisted
    BY <1>3, <2>1 DEF valuesAreRight
  <2>3. ~connected(e, twisted).raised
    <3>1. e.native => twisted
      BY <2>1 DEF validate_endpoint, _check_native_endpoint
    <3>2. ~e.native => ~endpointRaises(e, twisted)
      BY <2>1, <2>2 DEF validate_endpoint, endpointRaises, secured
    <3> QED
      BY <3>1, <3>2 DEF connected, target
  <2> QED
    BY <1>1, <1>2, <2>2, <2>3 DEF connect_transport
<1>4. CASE "endpoint" \notin cfg.given
  <2>1. "timeout" \notin e.given /\ ~connected(e, twisted).raised
    <3>1. CASE kind(cfg) = "rawsocket" /\ cfg.url.host = "unix"
      <4>1. e = unix /\ unix.native = FALSE /\ unix.type = "unix" /\ unix.given = {"type", "path"}
        BY <1>4, <3>1 DEF endpoint, unix, tcp
      <4>2. ~endpointRaises(e, twisted)
        BY <4>1 DEF endpointRaises
      <4> QED
        BY <4>1, <4>2 DEF connected, target
    <3>2. CASE ~(kind(cfg) = "rawsocket" /\ cfg.url.host = "unix")
      <4> DEFINE tls == IF kind(cfg) = "websocket" /\ isSecure(cfg.url) THEN "yes" ELSE "no"
                 odd == IF cfg.url.host = "unix" THEN {"port"} ELSE {}
      <4>1. e = tcp(cfg.url.host, port(cfg.url), tls, odd)
        BY <1>4, <3>2 DEF endpoint
      <4>2. odd = {} /\ tls # "odd"
        BY <1>4, <3>2 DEF Straight, accepts
      <4>3. /\ e.native = FALSE /\ e.type = "tcp" /\ e.odd = {} /\ e.tls # "odd"
            /\ e.given = {"type", "host", "port", "tls"}
        BY <4>1, <4>2 DEF tcp
      <4>4. ~endpointRaises(e, twisted)
        BY <4>3 DEF endpointRaises, secured
      <4> QED
        BY <4>3, <4>4 DEF connected, target
    <3> QED
      BY <3>1, <3>2
  <2> QED
    BY <1>1, <1>2, <2>1 DEF connect_transport
<1> QED
  BY <1>3, <1>4

\* Where _connect_transport (twisted/component.py:269, asyncio/component.py:140)
\* dials is where the configuration says, and what Component() accepted it
\* can connect when the values are right.
THEOREM ConnectionsAreRight ==
    ASSUME \A o \in Options : \A t \in DOMAIN o.transports : Straight(o.transports[t])
    PROVE  Spec => []DialsItsRouter
<1>1. Inv => DialsItsRouter
  <2> SUFFICES ASSUME Inv PROVE DialsItsRouter
    OBVIOUS
  <2>1. opt \in OptionType /\ opt \in Options
    BY TransportsRange DEF Inv
  <2>2. opt.transports \in Seq(TransportType) /\ opt.twisted \in BOOLEAN
    BY <2>1, Zenon DEF OptionType
  <2>3. \A t \in Transports : /\ opt.transports[t] \in TransportType /\ Straight(opt.transports[t])
                              /\ "serializer" \in opt.transports[t].given =>
                                    opt.transports[t].serializers # <<>>
    BY <2>1, <2>2, ComponentAssumption DEF Transports
  <2>4. ASSUME NEW i \in Attempts
        PROVE  c.attempts[i].dialled = router(opt.transports[c.attempts[i].transport])
    <3>1. /\ Fit(c.attempts[i]) /\ c.attempts[i].phase # "closed" /\ c.accepted
      BY DEF Inv, Good, Sound, Allowed, Open, Attempts
    <3> DEFINE t == c.attempts[i].transport
    <3>2. /\ t \in Transports /\ accepts(opt.transports[t], opt.twisted)
          /\ c.attempts[i].dialled = connect_transport(opt.transports[t], opt.twisted)
          /\ ~connect_transport(opt.transports[t], opt.twisted).raised
      BY <3>1 DEF Inv, Good, Sound, Allowed, Fit
    <3> HIDE DEF t
    <3>3. connect_transport(opt.transports[t], opt.twisted) = router(opt.transports[t])
      BY <2>2, <2>3, <3>2, ConnectsToRouter
    <3> QED
      BY <3>2, <3>3 DEF t
  <2>5. ASSUME NEW t \in Transports, c.raised[t]
        PROVE  ~valuesAreRight(opt.transports[t], opt.twisted)
    <3>1. accepts(opt.transports[t], opt.twisted)
      BY <2>5 DEF Inv, Good, Sound, Allowed
    <3>2. connect_transport(opt.transports[t], opt.twisted).raised
      BY <2>5 DEF Inv, Good, Sound, Placed
    <3> QED
      BY <2>2, <2>3, <3>1, <3>2, RightConnects
  <2> QED
    BY <2>4, <2>5 DEF DialsItsRouter
<1> QED
  BY <1>1, AlwaysInv, PTL

-----------------------------------------------------------------------------
(* The authentication of a component's sessions: a router with the same   *)
(* secret accepts every answer to a challenge, and the session accepts     *)
(* this router.                                                            *)


\* None is a value of its own.
NoneIsApart ==
    \A x, y, z : None # [salted |-> x, kdf |-> y, salt |-> z] /\ None # [hmac |-> x, of |-> y]

\* The configurations come from a dictionary with the methods for keys.
ByName(configs) ==
    \A j, k \in DOMAIN configs : configs[j].name = configs[k].name => j = k

\* What AuthScram (auth.py:246-265) does not ask for but cannot answer without,
\* and the authid in the authenticator that HELLO takes it from (protocol.py:1861).
Complete(configs) ==
    addable(configs) =>
        /\ \A k \in DOMAIN configs :
              configs[k].name = "scram" => configs[k].secret # None /\ configs[k].authid # None
        /\ \A k \in DOMAIN configs :
              configs[k].name \in {"ticket", "wampcra", "scram"} => configs[Len(configs)].authid # None

ConfigType ==
    [name : Methods, authid : {None, "joe"}, authrole : {None, "user"},
     secret : {None, "secret"}, binding : {None, "tls-unique"}]

\* The configurations of sessions that get as far as HELLO.
Usable(configs) ==
    configs \in Seq(ConfigType) /\ ByName(configs) /\ Complete(configs) /\ addable(configs)

-----------------------------------------------------------------------------
(* Terms.                                                                  *)

LEMMA XorTwice ==
    ASSUME NEW x, NEW y
    PROVE  xor(xor(x, y), y) = x
BY DEF xor

LEMMA ConfigFields ==
    ASSUME NEW configs, Usable(configs), NEW k \in DOMAIN configs
    PROVE  /\ configs[k].name \in Methods /\ configs[k].authid \in {None, "joe"}
           /\ configs[k].secret \in {None, "secret"}
           /\ configs[k].name \in {"ticket", "wampcra", "cryptosign"} => configs[k].secret = "secret"
           /\ configs[k].name = "scram" => configs[k].secret = "secret" /\ configs[k].authid = "joe"
           /\ configs[k].name \in {"ticket", "wampcra", "scram"} => configs[Len(configs)].authid = "joe"
<1>1. configs \in Seq(ConfigType)
  BY DEF Usable
<1>2. configs[k] \in ConfigType /\ Len(configs) \in DOMAIN configs
  BY <1>1
<1>3. configs[Len(configs)] \in ConfigType
  BY <1>1, <1>2
<1>4. /\ configs[k].name \in Methods /\ configs[k].authid \in {None, "joe"}
      /\ configs[k].secret \in {None, "secret"} /\ configs[Len(configs)].authid \in {None, "joe"}
  BY <1>2, <1>3 DEF ConfigType
<1>5. configs[k].name \in {"ticket", "wampcra", "cryptosign"} => configs[k].secret # None
  <2>1. creatable(configs[k])
    BY DEF Usable, addable
  <2>2. configs[k].name \in {"ticket", "wampcra", "cryptosign"} => "secret" \in required(configs[k].name)
    BY DEF required
  <2> QED
    BY <2>1, <2>2 DEF creatable
<1> QED
  BY <1>4, <1>5 DEF Usable, Complete

\* The authenticators of a session before any challenge.
LEMMA FreshAuthenticators ==
    ASSUME NEW configs, NEW nonce
    PROVE  LET auths == authenticators(configs, nonce)
           IN  /\ DOMAIN auths = DOMAIN configs
               /\ \A k \in DOMAIN auths :
                     /\ auths[k].config = configs[k]
                     /\ DOMAIN auths[k] = {"config", "client_nonce", "auth_message", "salted_password"}
                     /\ configs[k].name = "scram" => auths[k].client_nonce = nonce
BY DEF authenticators, mint, create_authenticator

\* HELLO announces what the authenticator of the method has.
LEMMA HelloOf ==
    ASSUME NEW configs, Usable(configs), NEW nonce, NEW k \in DOMAIN configs
    PROVE  LET h == hello(authenticators(configs, nonce))
           IN  /\ configs[k].name \in {"ticket", "wampcra", "scram"} => h.authid = "joe"
               /\ configs[k].name = "scram" => valueOf(h.authextra, "nonce") = nonce
               /\ configs[k].name = "cryptosign" =>
                     /\ valueOf(h.authextra, "pubkey") = [public |-> "secret"]
                     /\ (\E p \in h.authextra : p[1] = "channel_binding") <=> configs[k].binding # None
<1> DEFINE auths == authenticators(configs, nonce)
           h == hello(auths)
<1>1. /\ DOMAIN auths = DOMAIN configs
      /\ \A j \in DOMAIN configs :
            /\ auths[j].config = configs[j]
            /\ configs[j].name = "scram" => auths[j].client_nonce = nonce
  BY FreshAuthenticators
<1>2. /\ Len(auths) = Len(configs) /\ auths # <<>> /\ Len(configs) \in DOMAIN configs
  <2>1. configs \in Seq(ConfigType)
    BY DEF Usable
  <2>2. Len(configs) \in Nat /\ DOMAIN configs = 1 .. Len(configs)
    BY <2>1
  <2>3. auths = [j \in 1 .. Len(configs) |-> auths[j]]
    BY <2>2 DEF authenticators
  <2> HIDE DEF auths
  <2> QED
    BY <1>1, <2>2, <2>3
<1>3. h.authid = configs[Len(configs)].authid /\ h.authextra = merged_authextra(auths)
  BY <1>1, <1>2 DEF hello
<1> HIDE DEF auths, h
<1>4. merged_authextra(auths) = UNION {authextra(auths[j]) : j \in DOMAIN configs}
  BY <1>1 DEF merged_authextra
<1>5. \A j \in DOMAIN configs : configs[j].name \in Methods
  BY ConfigFields
<1>6. \A j \in DOMAIN configs :
        /\ configs[j].name = "scram" => authextra(auths[j]) = {<<"nonce", nonce>>}
        /\ configs[j].name = "cryptosign" =>
              authextra(auths[j]) = {<<"pubkey", [public |-> configs[j].secret]>>}
                  \cup IF configs[j].binding = None THEN {}
                       ELSE {<<"channel_binding", configs[j].binding>>}
        /\ configs[j].name \notin {"scram", "cryptosign"} => authextra(auths[j]) = {}
  BY <1>1, <1>5 DEF authextra
<1>7. configs[k].name \in {"ticket", "wampcra", "scram"} => h.authid = "joe"
  BY <1>3, ConfigFields
<1>8. ASSUME configs[k].name = "scram"
      PROVE  valueOf(h.authextra, "nonce") = nonce
  <2>1. \A p \in h.authextra : p[1] = "nonce" => p = <<"nonce", nonce>>
    BY <1>3, <1>4, <1>6
  <2>2. <<"nonce", nonce>> \in h.authextra
    BY <1>3, <1>4, <1>6, <1>8
  <2> QED
    BY <2>1, <2>2 DEF valueOf
<1>9. ASSUME configs[k].name = "cryptosign"
      PROVE  /\ valueOf(h.authextra, "pubkey") = [public |-> "secret"]
             /\ (\E p \in h.authextra : p[1] = "channel_binding") <=> configs[k].binding # None
  <2>1. \A j \in DOMAIN configs : configs[j].name = "cryptosign" => j = k
    BY <1>9 DEF Usable, ByName
  <2>2. configs[k].secret = "secret"
    BY <1>9, ConfigFields
  <2>3. \A p \in h.authextra : p[1] = "pubkey" => p = <<"pubkey", [public |-> "secret"]>>
    BY <1>3, <1>4, <1>6, <2>1, <2>2
  <2>4. <<"pubkey", [public |-> "secret"]>> \in h.authextra
    BY <1>3, <1>4, <1>6, <1>9, <2>2
  <2>5. valueOf(h.authextra, "pubkey") = [public |-> "secret"]
    BY <2>3, <2>4 DEF valueOf
  <2>6. ASSUME NEW p \in h.authextra, p[1] = "channel_binding"
        PROVE  configs[k].binding # None
    BY <1>3, <1>4, <1>6, <2>1, <2>6
  <2>7. ASSUME configs[k].binding # None
        PROVE  \E p \in h.authextra : p[1] = "channel_binding"
    <3>1. <<"channel_binding", configs[k].binding>> \in h.authextra
      BY <1>3, <1>4, <1>6, <1>9, <2>7
    <3> QED
      BY <3>1
  <2> QED
    BY <2>5, <2>6, <2>7
<1> QED
  BY <1>7, <1>8, <1>9 DEF h, auths

\* What an authenticator that was challenged answers, the router accepts, and
\* WAMP-SCRAM keeps what the router's proof is looked at with.
AnswersWell(configs, nonce, k, extra, channel) ==
    LET auths == authenticators(configs, nonce)
        h == hello(auths)
        r == on_challenge(auths[k], extra, channel)
    IN  /\ ~r.raised
        /\ verifies("secret", configs[k].name, h, extra, channel, r.signature)
        /\ configs[k].name = "scram" =>
              /\ r.a.salted_password = salted("secret", extra)
              /\ r.a.auth_message = auth_message(h.authid, valueOf(h.authextra, "nonce"), extra)

LEMMA AnswerIsVerified ==
    ASSUME NEW configs, Usable(configs), NEW nonce, NEW k \in DOMAIN configs,
           configs[k].name # "anonymous", NEW x, NEW extra \in challengeExtra(x),
           conforming(configs[k].name, extra), NEW channel,
           configs[k].binding # None => channel # None
    PROVE  AnswersWell(configs, nonce, k, extra, channel)
<1> DEFINE auths == authenticators(configs, nonce)
           h == hello(auths)
           a == auths[k]
           r == on_challenge(a, extra, channel)
<1> SUFFICES /\ ~r.raised
             /\ verifies("secret", configs[k].name, h, extra, channel, r.signature)
             /\ configs[k].name = "scram" =>
                   /\ r.a.salted_password = salted("secret", extra)
                   /\ r.a.auth_message = auth_message(h.authid, valueOf(h.authextra, "nonce"), extra)
  BY DEF AnswersWell
<1>1. /\ a.config = configs[k]
      /\ DOMAIN a = {"config", "client_nonce", "auth_message", "salted_password"}
      /\ configs[k].name = "scram" => a.client_nonce = nonce
  BY FreshAuthenticators
<1>2. /\ configs[k].name \in {"ticket", "wampcra", "scram"} => h.authid = "joe"
      /\ configs[k].name = "scram" => valueOf(h.authextra, "nonce") = nonce
      /\ configs[k].name = "cryptosign" =>
            /\ valueOf(h.authextra, "pubkey") = [public |-> "secret"]
            /\ (\E p \in h.authextra : p[1] = "channel_binding") <=> configs[k].binding # None
  BY HelloOf
<1>3. /\ configs[k].name \in Methods
      /\ configs[k].name \in {"ticket", "wampcra", "cryptosign"} => configs[k].secret = "secret"
      /\ configs[k].name = "scram" => configs[k].secret = "secret" /\ configs[k].authid = "joe"
  BY ConfigFields
<1>4. "joe" # None \/ configs[k].name \notin {"ticket", "wampcra", "scram"}
  <2> SUFFICES ASSUME configs[k].name \in {"ticket", "wampcra", "scram"}
               PROVE  "joe" # None
    OBVIOUS
  <2>1. configs[Len(configs)].authid # None
    BY DEF Usable, Complete
  <2>2. configs[Len(configs)].authid = "joe"
    BY ConfigFields
  <2> QED
    BY <2>1, <2>2
<1> HIDE DEF a, h
<1>5. CASE configs[k].name = "ticket"
  <2>1. ~r.raised /\ r.signature = "secret"
    BY <1>1, <1>3, <1>5 DEF on_challenge, answer
  <2>2. verifies("secret", "ticket", h, extra, channel, "secret")
    BY <1>2, <1>4, <1>5 DEF verifies
  <2> QED
    BY <1>5, <2>1, <2>2 DEF a, h
<1>6. CASE configs[k].name = "wampcra"
  <2> DEFINE s == compute_wcs(IF extra.salt = None THEN plain("secret")
                              ELSE derive_key("secret", extra.salt), extra.challenge)
  <2>1. ~r.raised /\ r.signature = s
    BY <1>1, <1>3, <1>6 DEF on_challenge, on_challenge_wampcra, answer
  <2>2. verifies("secret", "wampcra", h, extra, channel, s)
    BY <1>2, <1>4, <1>6 DEF verifies
  <2> HIDE DEF s
  <2> QED
    BY <1>6, <2>1, <2>2 DEF a, h
<1>7. CASE configs[k].name = "cryptosign"
  <2> DEFINE data == IF configs[k].binding = None THEN {[challenge |-> extra.challenge]}
                     ELSE xor({[challenge |-> extra.challenge]}, {[channel |-> channel]})
             s == sign("secret", data)
  <2>1. ~r.raised /\ r.signature = s
    BY <1>1, <1>3, <1>7 DEF on_challenge, on_challenge_cryptosign, answer
  <2>2. verifies("secret", "cryptosign", h, extra, channel, s)
    BY <1>2, <1>7 DEF verifies
  <2> HIDE DEF s
  <2> QED
    BY <1>7, <2>1, <2>2 DEF a, h
<1>8. CASE configs[k].name = "scram"
  <2> DEFINE message == auth_message("joe", nonce, extra)
             password == salted("secret", extra)
             key == clientKey(password)
             stored == storedKey(key)
             s == xor({key}, {scramSign(stored, message)})
             b == [a EXCEPT !.auth_message = message, !.salted_password = password]
  <2>1. extra.kdf \in {"argon2id-13", "pbkdf2"} /\ ~(extra.kdf = "argon2id-13" /\ extra.memory = None)
    BY <1>8 DEF challengeExtra, conforming
  <2>2. configs[k].secret # None /\ configs[k].authid # None
    BY <1>8 DEF Usable, Complete
  <2>3. r = answer(b, s)
    BY <1>1, <1>3, <1>8, <2>1, <2>2 DEF on_challenge, on_challenge_scram
  <2>4. ~r.raised /\ r.signature = s /\ r.a = b
    BY <2>3 DEF answer
  <2>5. b.salted_password = password /\ b.auth_message = message
    BY <1>1
  <2>6. xor(s, {scramSign(stored, message)}) = {key}
    BY XorTwice
  <2>7. verifies("secret", "scram", h, extra, channel, s)
    <3>1. h.authid = "joe" /\ "joe" # None /\ valueOf(h.authextra, "nonce") = nonce
      BY <1>2, <1>4, <1>8
    <3> HIDE DEF s
    <3>2. \E ky \in xor(s, {scramSign(stored, message)}) : storedKey(ky) = stored
      BY <2>6
    <3> QED
      BY <3>1, <3>2 DEF verifies
  <2>8. auth_message(h.authid, valueOf(h.authextra, "nonce"), extra) = message
    BY <1>2, <1>8
  <2> HIDE DEF s, b, password, message
  <2> QED
    BY <1>8, <2>4, <2>5, <2>7, <2>8 DEF a, h, password
<1> QED
  BY <1>3, <1>5, <1>6, <1>7, <1>8 DEF Methods

-----------------------------------------------------------------------------
(* What a session has of its authentication.                               *)

\* The hypothesis of CredentialsAccepted.
Valid ==
    /\ opt.router = "secret"
    /\ \A k \in DOMAIN opt.configs : opt.configs[k].binding # None => opt.tls

\* What is signed is verified, and what the router proves will be believed.
Cred(i, a) ==
    /\ ~a.aborted
    /\ a.phase \in {"connecting", "handshake"} => a.method = None
    /\ a.method = None => a.signature = None
    /\ a.method = None /\ a.phase = "session" =>
          /\ addable(opt.configs)
          /\ a.auths = authenticators(opt.configs, [client |-> i])
          /\ a.hello = hello(a.auths)
    /\ a.signature # None =>
          /\ verifies(opt.router, a.method, a.hello, a.extra, channel_id, a.signature)
          /\ chosen(a.auths, a.method) # {}
          /\ a.method = "scram" =>
                \A k \in chosen(a.auths, "scram") :
                    /\ a.auths[k].salted_password = salted(opt.router, a.extra)
                    /\ a.auths[k].auth_message =
                          auth_message(a.hello.authid, valueOf(a.hello.authextra, "nonce"), a.extra)

Creds(p) ==
    /\ DOMAIN p = ComponentFields
    /\ \A i \in DOMAIN p.attempts : DOMAIN p.attempts[i] = AttemptFields /\ Cred(i, p.attempts[i])

\* q has the attempts of p, and their credentials are in order.
Onward(p, q) == Creds(q) /\ DOMAIN q.attempts = DOMAIN p.attempts

LEMMA PutCreds ==
    ASSUME NEW p, Creds(p), NEW i \in DOMAIN p.attempts, NEW b, DOMAIN b = AttemptFields, Cred(i, b),
           NEW q, DOMAIN q = ComponentFields, q.attempts = [p.attempts EXCEPT ![i] = b]
    PROVE  Onward(p, q)
BY DEF Creds, Onward

LEMMA SameCreds ==
    ASSUME NEW p, Creds(p), NEW q, DOMAIN q = ComponentFields, q.attempts = p.attempts
    PROVE  Onward(p, q)
BY DEF Creds, Onward

\* A connection comes nearer to its end.
LEMMA TouchCreds ==
    ASSUME NEW p, Creds(p), NEW i \in DOMAIN p.attempts, NEW a, a = p.attempts[i],
           NEW b, DOMAIN b = AttemptFields, b.phase \in {a.phase, "closing", "closed"},
           b.aborted = a.aborted, b.method = a.method, b.signature = a.signature,
           b.auths = a.auths, b.hello = a.hello, b.extra = a.extra,
           NEW q, DOMAIN q = ComponentFields, q.attempts = [p.attempts EXCEPT ![i] = b]
    PROVE  Onward(p, q)
<1>1. Cred(i, a)
  BY DEF Creds
<1>2. Cred(i, b)
  BY <1>1 DEF Cred
<1> QED
  BY <1>2, PutCreds

LEMMA ResolvedCreds ==
    ASSUME NEW p, Creds(p), NEW outcome
    PROVE  Onward(p, resolveDone(p, outcome))
<1> DEFINE q == resolveDone(p, outcome)
<1>1. DOMAIN q = ComponentFields /\ q.attempts = p.attempts
  BY DEF Creds, resolveDone, ComponentFields
<1> HIDE DEF q
<1>2. Onward(p, q)
  BY <1>1, SameCreds
<1> QED
  BY <1>2 DEF q

LEMMA SucceededCreds ==
    ASSUME NEW p, Creds(p), NEW i \in DOMAIN p.attempts
    PROVE  Onward(p, succeeded(p, i))
<1> DEFINE a == p.attempts[i]
           b == [a EXCEPT !.done = "success"]
           x == [p EXCEPT !.attempts[i].done = "success"]
<1>1. CASE a.done # "pending"
  BY <1>1 DEF succeeded, Onward
<1>2. CASE a.done = "pending"
  <2>1. /\ DOMAIN p = ComponentFields /\ DOMAIN a = AttemptFields
    BY DEF Creds
  <2>2. DOMAIN x = ComponentFields /\ x.attempts = [p.attempts EXCEPT ![i] = b]
    BY <2>1 DEF ComponentFields
  <2>3. /\ DOMAIN b = AttemptFields /\ b.phase = a.phase
        /\ b.aborted = a.aborted /\ b.method = a.method /\ b.signature = a.signature
        /\ b.auths = a.auths /\ b.hello = a.hello /\ b.extra = a.extra
    BY <2>1 DEF AttemptFields
  <2>4. succeeded(p, i) = resolveDone(x, "success")
    BY <1>2 DEF succeeded
  <2> HIDE DEF b, x
  <2>5. Onward(p, x)
    BY <2>2, <2>3, TouchCreds
  <2>6. Onward(x, resolveDone(x, "success"))
    BY <2>5, ResolvedCreds DEF Onward
  <2> QED
    BY <2>4, <2>5, <2>6 DEF Onward
<1> QED
  BY <1>1, <1>2

LEMMA RejectedCreds ==
    ASSUME NEW p, Creds(p), NEW i \in DOMAIN p.attempts, NEW fatal
    PROVE  Onward(p, rejected(p, i, fatal))
<1> DEFINE a == p.attempts[i]
           b == [a EXCEPT !.done = "failed"]
           q == [p EXCEPT !.attempts[i].done = "failed", !.check = TRUE,
                          !.permanent[p.candidate] = @ \/ fatal]
<1>1. CASE a.done # "pending"
  BY <1>1 DEF rejected, Onward
<1>2. CASE a.done = "pending"
  <2>1. /\ DOMAIN p = ComponentFields /\ DOMAIN a = AttemptFields
    BY DEF Creds
  <2>2. DOMAIN q = ComponentFields /\ q.attempts = [p.attempts EXCEPT ![i] = b]
    BY <2>1 DEF ComponentFields
  <2>3. /\ DOMAIN b = AttemptFields /\ b.phase = a.phase
        /\ b.aborted = a.aborted /\ b.method = a.method /\ b.signature = a.signature
        /\ b.auths = a.auths /\ b.hello = a.hello /\ b.extra = a.extra
    BY <2>1 DEF AttemptFields
  <2>4. rejected(p, i, fatal) = q
    BY <1>2 DEF rejected
  <2> HIDE DEF b, q
  <2>5. Onward(p, q)
    BY <2>2, <2>3, TouchCreds
  <2> QED
    BY <2>4, <2>5
<1> QED
  BY <1>1, <1>2

\* The attributes of an attempt that have nothing to do with its credentials.
LEMMA FieldsCreds ==
    ASSUME NEW p, Creds(p), NEW i \in DOMAIN p.attempts
    PROVE  /\ Onward(p, [p EXCEPT !.attempts[i].attached = FALSE])
           /\ Onward(p, [p EXCEPT !.attempts[i].goodbye_sent = TRUE])
           /\ \A main : Onward(p, [p EXCEPT !.attempts[i].main = main])
           /\ \A phase \in {"closing", "closed"} : Onward(p, [p EXCEPT !.attempts[i].phase = phase])
<1> DEFINE a == p.attempts[i]
<1>0. /\ DOMAIN p = ComponentFields /\ DOMAIN a = AttemptFields
  BY DEF Creds
<1>1. Onward(p, [p EXCEPT !.attempts[i].attached = FALSE])
  <2> DEFINE b == [a EXCEPT !.attached = FALSE]
             q == [p EXCEPT !.attempts[i].attached = FALSE]
  <2>1. DOMAIN q = ComponentFields /\ q.attempts = [p.attempts EXCEPT ![i] = b]
    BY <1>0 DEF ComponentFields
  <2>2. /\ DOMAIN b = AttemptFields /\ b.phase = a.phase
        /\ b.aborted = a.aborted /\ b.method = a.method /\ b.signature = a.signature
        /\ b.auths = a.auths /\ b.hello = a.hello /\ b.extra = a.extra
    BY <1>0 DEF AttemptFields
  <2> HIDE DEF b, q
  <2>3. Onward(p, q)
    BY <2>1, <2>2, TouchCreds
  <2> QED
    BY <2>3 DEF q
<1>2. Onward(p, [p EXCEPT !.attempts[i].goodbye_sent = TRUE])
  <2> DEFINE b == [a EXCEPT !.goodbye_sent = TRUE]
             q == [p EXCEPT !.attempts[i].goodbye_sent = TRUE]
  <2>1. DOMAIN q = ComponentFields /\ q.attempts = [p.attempts EXCEPT ![i] = b]
    BY <1>0 DEF ComponentFields
  <2>2. /\ DOMAIN b = AttemptFields /\ b.phase = a.phase
        /\ b.aborted = a.aborted /\ b.method = a.method /\ b.signature = a.signature
        /\ b.auths = a.auths /\ b.hello = a.hello /\ b.extra = a.extra
    BY <1>0 DEF AttemptFields
  <2> HIDE DEF b, q
  <2>3. Onward(p, q)
    BY <2>1, <2>2, TouchCreds
  <2> QED
    BY <2>3 DEF q
<1>3. ASSUME NEW main
      PROVE  Onward(p, [p EXCEPT !.attempts[i].main = main])
  <2> DEFINE b == [a EXCEPT !.main = main]
             q == [p EXCEPT !.attempts[i].main = main]
  <2>1. DOMAIN q = ComponentFields /\ q.attempts = [p.attempts EXCEPT ![i] = b]
    BY <1>0 DEF ComponentFields
  <2>2. /\ DOMAIN b = AttemptFields /\ b.phase = a.phase
        /\ b.aborted = a.aborted /\ b.method = a.method /\ b.signature = a.signature
        /\ b.auths = a.auths /\ b.hello = a.hello /\ b.extra = a.extra
    BY <1>0 DEF AttemptFields
  <2> HIDE DEF b, q
  <2>3. Onward(p, q)
    BY <2>1, <2>2, TouchCreds
  <2> QED
    BY <2>3 DEF q
<1>4. ASSUME NEW phase \in {"closing", "closed"}
      PROVE  Onward(p, [p EXCEPT !.attempts[i].phase = phase])
  <2> DEFINE b == [a EXCEPT !.phase = phase]
             q == [p EXCEPT !.attempts[i].phase = phase]
  <2>1. DOMAIN q = ComponentFields /\ q.attempts = [p.attempts EXCEPT ![i] = b]
    BY <1>0 DEF ComponentFields
  <2>2. /\ DOMAIN b = AttemptFields /\ b.phase = phase
        /\ b.aborted = a.aborted /\ b.method = a.method /\ b.signature = a.signature
        /\ b.auths = a.auths /\ b.hello = a.hello /\ b.extra = a.extra
    BY <1>0 DEF AttemptFields
  <2> HIDE DEF b, q
  <2>3. Onward(p, q)
    BY <2>1, <2>2, TouchCreds
  <2> QED
    BY <2>3 DEF q
<1> QED
  BY <1>1, <1>2, <1>3, <1>4

LEMMA DisconnectCreds ==
    ASSUME NEW p, Creds(p), NEW i \in DOMAIN p.attempts
    PROVE  Onward(p, disconnect(p, i))
BY FieldsCreds DEF disconnect, Onward

LEMMA LeaveSessionCreds ==
    ASSUME NEW p, Creds(p), NEW i \in DOMAIN p.attempts, NEW reason, NEW fatal
    PROVE  Onward(p, leaveSession(p, i, reason, fatal))
<1> DEFINE x == disconnect(p, i)
           y == [x EXCEPT !.attempts[i].attached = FALSE]
           z == [y EXCEPT !.left = TRUE]
<1>1. Onward(p, x)
  BY DisconnectCreds
<1>2. Onward(x, y)
  <2> HIDE DEF x
  <2> QED
    BY <1>1, FieldsCreds DEF Onward
<1>3. Onward(y, z)
  <2> HIDE DEF y
  <2>1. DOMAIN z = ComponentFields /\ z.attempts = y.attempts
    BY <1>2 DEF Onward, Creds, ComponentFields
  <2> QED
    BY <1>2, <2>1, SameCreds DEF Onward
<1> HIDE DEF x, y, z
<1>4. i \in DOMAIN y.attempts /\ i \in DOMAIN z.attempts /\ Creds(y) /\ Creds(z)
      /\ DOMAIN y.attempts = DOMAIN p.attempts /\ DOMAIN z.attempts = DOMAIN p.attempts
  BY <1>1, <1>2, <1>3 DEF Onward
<1>5. Onward(z, succeeded(z, i)) /\ Onward(y, rejected(y, i, fatal))
  BY <1>4, SucceededCreds, RejectedCreds
<1>6. \/ leaveSession(p, i, reason, fatal) = succeeded(z, i)
      \/ leaveSession(p, i, reason, fatal) = rejected(y, i, fatal)
  BY DEF leaveSession, on_leave, x, y, z
<1> QED
  BY <1>4, <1>5, <1>6 DEF Onward

LEMMA LostCreds ==
    ASSUME NEW p, Creds(p), NEW i \in DOMAIN p.attempts, NEW clean, NEW fatal
    PROVE  Onward(p, lost(p, i, clean, fatal))
<1> DEFINE a == p.attempts[i]
           closed == [p EXCEPT !.attempts[i].phase = "closed"]
           left == IF a.attached
                   THEN leaveSession(closed, i, "wamp.close.transport_lost", fatal) ELSE closed
           disconnected == IF a.session /\ clean THEN succeeded(left, i) ELSE left
           failed == rejected(closed, i, fatal)
           detached == [failed EXCEPT !.attempts[i].attached = FALSE]
<1>1. Onward(p, closed) /\ i \in DOMAIN closed.attempts
  BY FieldsCreds DEF Onward
<1> HIDE DEF closed
<1>2. Onward(p, left) /\ i \in DOMAIN left.attempts
  BY <1>1, LeaveSessionCreds DEF Onward
<1> HIDE DEF left
<1>3. Onward(p, disconnected) /\ i \in DOMAIN disconnected.attempts
  BY <1>2, SucceededCreds DEF Onward
<1> HIDE DEF disconnected
<1>4. Onward(p, rejected(disconnected, i, fatal))
  BY <1>3, RejectedCreds DEF Onward
<1>5. Onward(p, failed) /\ i \in DOMAIN failed.attempts
  BY <1>1, RejectedCreds DEF Onward
<1> HIDE DEF failed
<1>6. Onward(p, detached)
  BY <1>5, FieldsCreds DEF Onward
<1> HIDE DEF detached
<1>7. lost(p, i, clean, fatal) = IF opt.twisted THEN rejected(disconnected, i, fatal) ELSE detached
  BY DEF lost, closed, left, disconnected, failed, detached
<1> QED
  BY <1>4, <1>6, <1>7

LEMMA MainErrorCreds ==
    ASSUME NEW p, Creds(p), NEW i \in DOMAIN p.attempts, NEW fatal
    PROVE  Onward(p, main_error(p, i, fatal))
<1>1. Onward(p, rejected(p, i, fatal))
  BY RejectedCreds
<1>2. Onward(rejected(p, i, fatal), disconnect(rejected(p, i, fatal), i))
  BY <1>1, DisconnectCreds DEF Onward
<1> QED
  BY <1>1, <1>2 DEF main_error, Onward

LEMMA LeaveCreds ==
    ASSUME NEW p, Creds(p), NEW i \in DOMAIN p.attempts
    PROVE  Onward(p, leave(p, i))
BY FieldsCreds DEF leave, Onward

LEMMA TransportCheckCreds ==
    ASSUME NEW p, Creds(p)
    PROVE  Onward(p, transport_check(p))
<1> DEFINE x == [p EXCEPT !.check = FALSE]
<1>1. DOMAIN p = ComponentFields
  BY DEF Creds
<1>2. DOMAIN x = ComponentFields /\ x.attempts = p.attempts
  BY <1>1 DEF ComponentFields
<1>3. Onward(p, resolveDone(x, "failed"))
  <2> HIDE DEF x
  <2>1. Onward(p, x)
    BY <1>2, SameCreds
  <2> QED
    BY <2>1, ResolvedCreds DEF Onward
<1>4. CASE \A t \in Transports : ~can_reconnect(p, t)
  BY <1>3, <1>4 DEF transport_check
<1>5. CASE ~ \A t \in Transports : ~can_reconnect(p, t)
  <2> DEFINE order == cycle(p)
             k == CHOOSE i \in Transports :
                      /\ can_reconnect(p, order[i])
                      /\ \A j \in 1 .. i - 1 : ~can_reconnect(p, order[j])
             n == IF order[k] = Len(opt.transports) THEN 1 ELSE order[k] + 1
             y == [p EXCEPT !.check = FALSE, !.candidate = order[k], !.next = n,
                            !.delay_f = "sleeping"]
  <2>1. transport_check(p) = y
    BY <1>5 DEF transport_check
  <2> HIDE DEF k, order, n
  <2>2. DOMAIN y = ComponentFields /\ y.attempts = p.attempts
    BY <1>1 DEF ComponentFields
  <2> HIDE DEF y
  <2> QED
    BY <2>1, <2>2, SameCreds
<1> QED
  BY <1>4, <1>5

LEMMA ErrorCreds ==
    ASSUME NEW p, Creds(p)
    PROVE  Onward(p, error(p))
<1> DEFINE x == [p EXCEPT !.delay_f = None]
<1>1. DOMAIN x = ComponentFields /\ x.attempts = p.attempts
  BY DEF Creds, ComponentFields
<1>2. error(p) = resolveDone(x, IF p.stopping THEN "success" ELSE "failed")
  BY DEF error
<1> HIDE DEF x
<1>3. Onward(p, x)
  BY <1>1, SameCreds
<1> QED
  BY <1>2, <1>3, ResolvedCreds DEF Onward

LEMMA StopCreds ==
    ASSUME NEW p, Creds(p)
    PROVE  Onward(p, [stop(p) EXCEPT !.stops = 1])
<1> DEFINE q == [p EXCEPT !.stopping = TRUE]
           r == stop(p)
           s == [r EXCEPT !.stops = 1]
<1>1. DOMAIN q = ComponentFields /\ q.attempts = p.attempts
  BY DEF Creds, ComponentFields
<1>2. r = IF p.session \in DOMAIN p.attempts /\ p.attempts[p.session].attached
          THEN leave(q, p.session)
          ELSE IF p.delay_f # None THEN error(q) ELSE resolveDone(q, "success")
  BY DEF stop
<1> HIDE DEF q, r
<1>3. Onward(p, q)
  BY <1>1, SameCreds
<1>4. Onward(p, r)
  <2>1. p.session \in DOMAIN p.attempts => Onward(q, leave(q, p.session))
    BY <1>3, LeaveCreds DEF Onward
  <2>2. Onward(q, error(q)) /\ Onward(q, resolveDone(q, "success"))
    BY <1>3, ErrorCreds, ResolvedCreds DEF Onward
  <2> QED
    BY <1>2, <1>3, <2>1, <2>2 DEF Onward
<1>5. DOMAIN s = ComponentFields /\ s.attempts = r.attempts
  BY <1>4 DEF Onward, Creds, ComponentFields
<1> HIDE DEF s
<1>6. Onward(r, s)
  BY <1>4, <1>5, SameCreds DEF Onward
<1>7. Onward(p, s)
  BY <1>4, <1>6 DEF Onward
<1> QED
  BY <1>7 DEF s, r

LEMMA SweptCreds ==
    ASSUME NEW p, Creds(p)
    PROVE  Creds(swept(p))
<1> DEFINE D == {j \in DOMAIN p.attempts : ~over(p.attempts[j])}
           attempts == [i \in D |-> p.attempts[i]]
           q == [p EXCEPT !.attempts = attempts]
<1>1. swept(p) = q
  BY DEF swept
<1>2. DOMAIN q = ComponentFields /\ q.attempts = attempts
  BY DEF Creds, ComponentFields
<1>3. DOMAIN attempts \subseteq DOMAIN p.attempts /\ \A i \in DOMAIN attempts : attempts[i] = p.attempts[i]
  OBVIOUS
<1> HIDE DEF q, attempts
<1>4. Creds(q)
  BY <1>2, <1>3 DEF Creds
<1> QED
  BY <1>1, <1>4

\* A new attempt has no credentials yet.
LEMMA ConnectingCreds ==
    ASSUME NEW p, Creds(p), NEW fatal
    PROVE  Creds(connecting(p, fatal))
<1> DEFINE t == p.candidate
           i == number(p)
           a == attempt(t)
           attempts == [j \in DOMAIN p.attempts \cup {i} |-> IF j = i THEN a ELSE p.attempts[j]]
           q == [p EXCEPT !.attempts = attempts]
           b == [a EXCEPT !.phase = "closed"]
           y == [q EXCEPT !.attempts[i].phase = "closed", !.raised[t] = TRUE]
<1>1. /\ DOMAIN a = AttemptFields /\ a.phase = "connecting" /\ a.aborted = FALSE
      /\ a.method = None /\ a.signature = None
  BY DEF attempt, AttemptFields
<1> HIDE DEF a, i
<1>2. Cred(i, a)
  BY <1>1 DEF Cred
<1>3. q.attempts = attempts /\ DOMAIN q = ComponentFields
  BY DEF Creds, ComponentFields
<1>4. /\ DOMAIN attempts = DOMAIN p.attempts \cup {i} /\ attempts[i] = a
      /\ \A j \in DOMAIN p.attempts : j # i => attempts[j] = p.attempts[j]
  OBVIOUS
<1> HIDE DEF q, attempts
<1>5. Creds(q)
  BY <1>1, <1>2, <1>3, <1>4 DEF Creds
<1>6. connecting(p, fatal) = IF ~a.dialled.raised THEN q ELSE rejected(y, i, fatal)
  BY <1>3, <1>4 DEF connecting, q, a, i, attempts
<1>7. Creds(y) /\ i \in DOMAIN y.attempts
  <2>1. DOMAIN y = ComponentFields /\ y.attempts = [q.attempts EXCEPT ![i] = b]
    BY <1>3, <1>4 DEF ComponentFields
  <2>2. /\ DOMAIN b = AttemptFields /\ b.phase = "closed"
        /\ b.aborted = a.aborted /\ b.method = a.method /\ b.signature = a.signature
        /\ b.auths = a.auths /\ b.hello = a.hello /\ b.extra = a.extra
    BY <1>1 DEF AttemptFields
  <2>3. i \in DOMAIN q.attempts /\ q.attempts[i] = a
    BY <1>3, <1>4
  <2> HIDE DEF b, y
  <2>4. Onward(q, y)
    BY <1>5, <2>1, <2>2, <2>3, TouchCreds
  <2> QED
    BY <2>3, <2>4 DEF Onward
<1> HIDE DEF y
<1>8. Creds(rejected(y, i, fatal))
  BY <1>7, RejectedCreds DEF Onward
<1> QED
  BY <1>5, <1>6, <1>8

LEMMA AttemptConnectCreds ==
    ASSUME NEW p, Creds(p), NEW fatal
    PROVE  Creds(attempt_connect(p, fatal))
<1> DEFINE count == IF max_retries(p.candidate) = -1 THEN 1 ELSE p.connect_attempts[p.candidate] + 1
           x == [p EXCEPT !.delay_f = None, !.connect_attempts[p.candidate] = count]
<1>0. DOMAIN p = ComponentFields
  BY DEF Creds
<1>1. attempt_connect(p, fatal) = connecting(x, fatal)
  BY <1>0 DEF attempt_connect, ComponentFields
<1> HIDE DEF count
<1>2. DOMAIN x = ComponentFields /\ x.attempts = p.attempts
  BY <1>0 DEF ComponentFields
<1> HIDE DEF x
<1>3. Creds(x)
  BY <1>2, SameCreds DEF Onward
<1> QED
  BY <1>1, <1>3, ConnectingCreds

-----------------------------------------------------------------------------
(* The handshake of a session.                                             *)

LEMMA OpenSessionCreds ==
    ASSUME NEW p, Creds(p), NEW i \in DOMAIN p.attempts, p.attempts[i].phase = "handshake", NEW fatal
    PROVE  Onward(p, openSession(p, i, fatal))
<1>1. CASE ~addable(opt.configs)
  <2> DEFINE x == rejected(p, i, fatal)
             y == [x EXCEPT !.attempts[i].phase = "closing"]
             q == [y EXCEPT !.session = i]
  <2>1. Onward(p, x)
    BY RejectedCreds
  <2>2. openSession(p, i, fatal) = q
    BY <1>1 DEF openSession
  <2> HIDE DEF x
  <2>3. Onward(p, y)
    BY <2>1, FieldsCreds DEF Onward
  <2> HIDE DEF y
  <2>4. DOMAIN q = ComponentFields /\ q.attempts = y.attempts
    BY <2>3 DEF Onward, Creds, ComponentFields
  <2> HIDE DEF q
  <2>5. Onward(y, q)
    BY <2>3, <2>4, SameCreds DEF Onward
  <2> QED
    BY <2>2, <2>3, <2>5 DEF Onward
<1>2. CASE addable(opt.configs)
  <2> DEFINE auths == authenticators(opt.configs, [client |-> i])
             h == hello(auths)
             a == p.attempts[i]
             b == [a EXCEPT !.phase = "session", !.session = TRUE, !.auths = auths, !.hello = h]
             q == [p EXCEPT !.attempts[i].phase = "session", !.attempts[i].session = TRUE,
                            !.attempts[i].auths = auths, !.attempts[i].hello = h, !.session = i]
  <2>1. DOMAIN p = ComponentFields /\ DOMAIN a = AttemptFields /\ Cred(i, a)
    BY DEF Creds
  <2>2. openSession(p, i, fatal) = q
    BY <1>2 DEF openSession
  <2>3. h = hello(auths) /\ auths = authenticators(opt.configs, [client |-> i])
    OBVIOUS
  <2> HIDE DEF auths, h
  <2>4. DOMAIN q = ComponentFields /\ q.attempts = [p.attempts EXCEPT ![i] = b]
    BY <2>1 DEF ComponentFields, AttemptFields
  <2>5. /\ DOMAIN b = AttemptFields /\ b.phase = "session" /\ b.auths = auths /\ b.hello = h
        /\ b.aborted = a.aborted /\ b.method = a.method /\ b.signature = a.signature
        /\ b.extra = a.extra
    BY <2>1 DEF AttemptFields
  <2> HIDE DEF b, q
  <2>6. a.method = None /\ a.signature = None /\ ~a.aborted
    BY <2>1 DEF Cred
  <2>7. Cred(i, b)
    BY <1>2, <2>3, <2>5, <2>6 DEF Cred
  <2> QED
    BY <2>2, <2>4, <2>5, <2>7, PutCreds
<1> QED
  BY <1>1, <1>2

LEMMA ConfigsUsable ==
    ASSUME opt \in Options, Complete(opt.configs), addable(opt.configs)
    PROVE  Usable(opt.configs)
<1>1. opt.configs \in Seq(ConfigType)
  BY TransportsRange DEF OptionType, ConfigType
<1> QED
  BY <1>1, ComponentAssumption DEF Usable, ByName

\* A router with the same secret challenges: the answer is made, and verified.
LEMMA ChallengedCreds ==
    ASSUME opt \in Options, Complete(opt.configs), Valid,
           NEW p, Creds(p), NEW i \in DOMAIN p.attempts, NEW fatal,
           p.attempts[i].phase = "session", p.attempts[i].method = None,
           NEW method \in p.attempts[i].hello.authmethods \ {"anonymous"},
           NEW x, NEW extra \in challengeExtra(x), conforming(method, extra)
    PROVE  Onward(p, challenged(p, i, method, extra, fatal))
<1> DEFINE a == p.attempts[i]
           configs == opt.configs
           ch == channel_id
           k == CHOOSE j \in chosen(a.auths, method) : TRUE
           r == on_challenge(a.auths[k], extra, ch)
           asked == [p EXCEPT !.attempts[i].method = method, !.attempts[i].extra = extra]
           signed == [asked EXCEPT !.attempts[i].auths[k] = r.a, !.attempts[i].signature = r.signature]
           b == [a EXCEPT !.method = method, !.extra = extra]
           e == [b EXCEPT !.auths = [b.auths EXCEPT ![k] = r.a], !.signature = r.signature]
<1>0. DOMAIN p = ComponentFields /\ DOMAIN a = AttemptFields /\ Cred(i, a)
  BY DEF Creds
<1>1. /\ addable(configs) /\ a.auths = authenticators(configs, [client |-> i])
      /\ a.hello = hello(a.auths)
  BY <1>0 DEF Cred
<1>2. Usable(configs)
  BY <1>1, ConfigsUsable
<1>3. /\ DOMAIN a.auths = DOMAIN configs
      /\ \A j \in DOMAIN configs :
            /\ a.auths[j].config = configs[j]
            /\ DOMAIN a.auths[j] = {"config", "client_nonce", "auth_message", "salted_password"}
  BY <1>1, FreshAuthenticators
<1>4. chosen(a.auths, method) # {}
  <2>1. a.hello.authmethods = {a.auths[j].config.name : j \in DOMAIN a.auths}
    BY <1>1 DEF hello
  <2> QED
    BY <2>1 DEF chosen
<1>5. k \in DOMAIN configs /\ configs[k].name = method /\ method \in Methods /\ method # "anonymous"
  <2>1. k \in DOMAIN configs /\ configs[k].name = method
    BY <1>3, <1>4 DEF chosen
  <2>2. configs[k].name \in Methods
    BY <1>2, <2>1, ConfigFields
  <2> QED
    BY <2>1, <2>2
<1> HIDE DEF k
<1>6. configs[k].binding # None => ch # None
  BY <1>5, ComponentAssumption DEF Valid, channel_id
<1> HIDE DEF ch
<1>7. /\ ~r.raised
      /\ verifies("secret", method, a.hello, extra, ch, r.signature)
      /\ method = "scram" =>
            /\ r.a.salted_password = salted("secret", extra)
            /\ r.a.auth_message = auth_message(a.hello.authid, valueOf(a.hello.authextra, "nonce"), extra)
  <2> DEFINE nonce == [client |-> i]
             auths == authenticators(configs, nonce)
             h == hello(auths)
             s == on_challenge(auths[k], extra, ch)
  <2> HIDE DEF configs, r, nonce
  <2>1. /\ ~s.raised
        /\ verifies("secret", configs[k].name, h, extra, ch, s.signature)
        /\ configs[k].name = "scram" =>
              /\ s.a.salted_password = salted("secret", extra)
              /\ s.a.auth_message = auth_message(h.authid, valueOf(h.authextra, "nonce"), extra)
    <3>1. configs[k].name # "anonymous" /\ conforming(configs[k].name, extra)
      BY <1>5
    <3>2. k \in DOMAIN configs /\ Usable(configs)
      BY <1>2, <1>5
    <3>3. AnswersWell(configs, nonce, k, extra, ch)
      BY <1>6, <3>1, <3>2, AnswerIsVerified
    <3> QED
      BY <3>3 DEF AnswersWell
  <2>2. auths = a.auths /\ h = a.hello
    BY <1>1 DEF nonce
  <2>3. s = r
    BY <2>2 DEF r
  <2> HIDE DEF auths, h, s
  <2> QED
    BY <1>5, <2>1, <2>2, <2>3
<1>8. challenged(p, i, method, extra, fatal) = signed
  BY <1>4, <1>7 DEF challenged, k, ch
<1>9. r.a.config = configs[k]
  <2> DEFINE au == a.auths[k]
  <2>1. /\ DOMAIN au = {"config", "client_nonce", "auth_message", "salted_password"}
        /\ au.config = configs[k] /\ au.config.name \in Methods
    BY <1>3, <1>5
  <2>2. r = on_challenge(au, extra, ch)
    OBVIOUS
  <2> HIDE DEF au, r
  <2>3. LET s == on_challenge(au, extra, ch)
        IN  ~s.raised => s.a.config = au.config
    BY <2>1, OnChallengeKeeps
  <2> QED
    BY <1>7, <2>1, <2>2, <2>3
<1> HIDE DEF r, configs
<1>10. /\ DOMAIN asked = ComponentFields /\ asked.attempts = [p.attempts EXCEPT ![i] = b]
  BY <1>0 DEF ComponentFields, AttemptFields
<1>11. /\ DOMAIN b = AttemptFields /\ b.phase = a.phase /\ b.aborted = a.aborted
       /\ b.method = method /\ b.extra = extra /\ b.auths = a.auths /\ b.hello = a.hello
  BY <1>0 DEF AttemptFields
<1> HIDE DEF asked
<1>12. DOMAIN signed = ComponentFields /\ signed.attempts = [p.attempts EXCEPT ![i] = e]
  <2>1. asked.attempts[i] = b
    BY <1>10
  <2>2. signed.attempts = [asked.attempts EXCEPT ![i] = e] /\ DOMAIN signed = ComponentFields
    BY <1>10, <1>11, <2>1 DEF ComponentFields, AttemptFields
  <2> QED
    BY <1>10, <2>2
<1>13. /\ DOMAIN e = AttemptFields /\ e.phase = a.phase /\ e.aborted = a.aborted
       /\ e.method = method /\ e.extra = extra /\ e.hello = a.hello /\ e.signature = r.signature
       /\ e.auths = [a.auths EXCEPT ![k] = r.a]
  BY <1>11 DEF AttemptFields
<1> HIDE DEF b, e, signed
<1>14. /\ DOMAIN e.auths = DOMAIN configs /\ e.auths[k] = r.a
       /\ \A j \in DOMAIN configs : j # k => e.auths[j] = a.auths[j]
  BY <1>3, <1>5, <1>13
<1>15. chosen(e.auths, method) = {k}
  <2>1. \A j \in DOMAIN configs : e.auths[j].config.name = configs[j].name
    BY <1>3, <1>9, <1>14
  <2>2. \A j \in DOMAIN configs : configs[j].name = method => j = k
    BY <1>2, <1>5 DEF Usable, ByName
  <2> QED
    BY <1>5, <1>14, <2>1, <2>2 DEF chosen
<1>16. method # None
  BY <1>5, NoneAssumption
<1>17. Cred(i, e)
  <2>1. opt.router = "secret"
    BY DEF Valid
  <2>2. verifies(opt.router, e.method, e.hello, e.extra, channel_id, e.signature)
    BY <1>7, <1>13, <2>1 DEF ch
  <2>3. e.method = "scram" =>
           \A j \in chosen(e.auths, "scram") :
              /\ e.auths[j].salted_password = salted(opt.router, e.extra)
              /\ e.auths[j].auth_message =
                    auth_message(e.hello.authid, valueOf(e.hello.authextra, "nonce"), e.extra)
    BY <1>7, <1>13, <1>14, <1>15, <2>1
  <2>4. chosen(e.auths, e.method) # {}
    BY <1>13, <1>15
  <2> QED
    BY <1>0, <1>13, <1>16, <2>2, <2>3, <2>4 DEF Cred
<1>18. Onward(p, signed)
  BY <1>12, <1>13, <1>17, PutCreds
<1> QED
  BY <1>8, <1>18

\* The session accepts the router that proves itself.
LEMMA WelcomedCreds ==
    ASSUME NoneIsApart, opt \in Options, NEW p, Creds(p), NEW i \in DOMAIN p.attempts,
           NEW method, NEW proof,
           \/ method = None
           \/ /\ p.attempts[i].signature # None /\ method = p.attempts[i].method
              /\ method = "scram" =>
                    proof = serverProof(opt.router, p.attempts[i].hello, p.attempts[i].extra)
    PROVE  Onward(p, welcomed(p, i, method, proof))
<1> DEFINE a == p.attempts[i]
           k == CHOOSE j \in chosen(a.auths, method) : TRUE
           verdict == IF method = None \/ a.auths = <<>> THEN "accepted"
                      ELSE IF chosen(a.auths, method) = {} THEN "raised"
                      ELSE on_welcome(a.auths[k], proof)
           b == [a EXCEPT !.attached = TRUE, !.joinedBy = method]
           e == [b EXCEPT !.main = "running"]
           joined == [p EXCEPT !.attempts[i].attached = TRUE, !.attempts[i].joinedBy = method]
           run == [joined EXCEPT !.connect_attempts[a.transport] = 0, !.attempts[i].main = "running"]
<1>0. DOMAIN p = ComponentFields /\ DOMAIN a = AttemptFields /\ Cred(i, a)
  BY DEF Creds
<1>1. verdict = "accepted"
  <2>1. CASE method = None
    BY <2>1
  <2>2. CASE method # None
    <3>1. a.signature # None /\ method = a.method /\ chosen(a.auths, method) # {}
      BY <1>0, <2>2 DEF Cred
    <3>2. k \in chosen(a.auths, method)
      BY <3>1
    <3> HIDE DEF k
    <3>3. a.auths[k].config.name = method
      BY <3>2 DEF chosen
    <3>4. on_welcome(a.auths[k], proof) = "accepted"
      <4>1. CASE method # "scram"
        BY <3>3, <4>1 DEF on_welcome
      <4>2. CASE method = "scram"
        <5> DEFINE s == salted(opt.router, a.extra)
                   m == auth_message(a.hello.authid, valueOf(a.hello.authextra, "nonce"), a.extra)
        <5>1. a.auths[k].salted_password = s /\ a.auths[k].auth_message = m
          BY <1>0, <3>1, <3>2, <4>2 DEF Cred
        <5>2. proof = scramSign(serverKey(s), m)
          BY <2>2, <4>2 DEF serverProof
        <5>3. s # None
          BY DEF NoneIsApart, salted
        <5>4. scramSign(serverKey(s), m) # None
          BY DEF NoneIsApart, scramSign
        <5> HIDE DEF s, m
        <5> QED
          BY <3>3, <4>2, <5>1, <5>2, <5>3, <5>4 DEF on_welcome
      <4> QED
        BY <4>1, <4>2
    <3> QED
      BY <2>2, <3>1, <3>4
  <2> QED
    BY <2>1, <2>2
<1>2. welcomed(p, i, method, proof) = IF ~opt.main THEN joined ELSE run
  BY <1>1 DEF welcomed
<1> HIDE DEF verdict
<1>3. DOMAIN joined = ComponentFields /\ joined.attempts = [p.attempts EXCEPT ![i] = b]
  BY <1>0 DEF ComponentFields, AttemptFields
<1>4. DOMAIN run = ComponentFields /\ run.attempts = [p.attempts EXCEPT ![i] = e]
  <2> HIDE DEF joined
  <2>1. joined.attempts[i] = b
    BY <1>3
  <2>2. DOMAIN run = ComponentFields /\ run.attempts = [joined.attempts EXCEPT ![i] = e]
    BY <1>3, <2>1 DEF ComponentFields
  <2> QED
    BY <1>3, <2>2
<1>5. /\ DOMAIN b = AttemptFields /\ b.phase = a.phase
      /\ b.aborted = a.aborted /\ b.method = a.method /\ b.signature = a.signature
      /\ b.auths = a.auths /\ b.hello = a.hello /\ b.extra = a.extra
  BY <1>0 DEF AttemptFields
<1>6. /\ DOMAIN e = AttemptFields /\ e.phase = a.phase
      /\ e.aborted = a.aborted /\ e.method = a.method /\ e.signature = a.signature
      /\ e.auths = a.auths /\ e.hello = a.hello /\ e.extra = a.extra
  <2> HIDE DEF b
  <2> QED
    BY <1>5 DEF AttemptFields
<1> HIDE DEF b, e, joined, run
<1>7. Onward(p, joined) /\ Onward(p, run)
  BY <1>3, <1>4, <1>5, <1>6, TouchCreds
<1> QED
  BY <1>2, <1>7

LEMMA ConnectedCreds ==
    ASSUME NEW p, Creds(p), NEW i \in DOMAIN p.attempts, p.attempts[i].phase = "connecting"
    PROVE  Onward(p, [p EXCEPT !.attempts[i].phase = "handshake"])
<1> DEFINE a == p.attempts[i]
           b == [a EXCEPT !.phase = "handshake"]
           q == [p EXCEPT !.attempts[i].phase = "handshake"]
<1>0. DOMAIN p = ComponentFields /\ DOMAIN a = AttemptFields /\ Cred(i, a)
  BY DEF Creds
<1>1. DOMAIN q = ComponentFields /\ q.attempts = [p.attempts EXCEPT ![i] = b]
  BY <1>0 DEF ComponentFields
<1>2. /\ DOMAIN b = AttemptFields /\ b.phase = "handshake"
      /\ b.aborted = a.aborted /\ b.method = a.method /\ b.signature = a.signature
      /\ b.auths = a.auths /\ b.hello = a.hello /\ b.extra = a.extra
  BY <1>0 DEF AttemptFields
<1> HIDE DEF b, q
<1>3. Cred(i, b)
  BY <1>0, <1>2 DEF Cred
<1>4. Onward(p, q)
  BY <1>1, <1>2, <1>3, PutCreds
<1> QED
  BY <1>4 DEF q

-----------------------------------------------------------------------------
(* Every state has its credentials in order.                               *)

CredInv == opt \in Options /\ (Valid => Creds(c))

LEMMA InitCreds ==
    ASSUME Init
    PROVE  CredInv
BY DEF Init, CredInv, Creds, ComponentFields

\* What is in order for opt and p is in order in the next state.
LEMMA CredsLanded ==
    ASSUME opt \in Options, NEW p, Creds(p), To(p), UNCHANGED opt
    PROVE  CredInv'
<1> DEFINE q == swept(p)
<1>1. Creds(q)
  BY SweptCreds
<1>2. c' = q /\ opt' = opt
  BY DEF To
<1> HIDE DEF q
<1>3. channel_id' = channel_id
  BY <1>2 DEF channel_id
<1>4. ASSUME NEW i \in DOMAIN c'.attempts
      PROVE  (Cred(i, c.attempts[i]))'
  BY <1>1, <1>2, <1>3 DEF Creds, Cred
<1>5. (Creds(c))'
  BY <1>1, <1>2, <1>4 DEF Creds
<1> QED
  BY <1>2, <1>5 DEF CredInv

\* The hypothesis does not come to hold later.
LEMMA StaysInvalid ==
    ASSUME opt \in Options, ~Valid, UNCHANGED opt
    PROVE  CredInv'
BY DEF CredInv, Valid

LEMMA LoopCreds ==
    ASSUME opt \in Options, Creds(c), Start \/ Stop \/ TransportCheck \/ DelayOver
    PROVE  CredInv'
<1>1. CASE Start
  <2> DEFINE p == [c EXCEPT !.starts = @ + 1, !.done_f = "pending", !.outcome = None, !.next = 1]
  <2>1. /\ To(transport_check(p)) \/ To(error(p))
        /\ UNCHANGED opt
    BY <1>1 DEF Start
  <2>2. DOMAIN p = ComponentFields /\ p.attempts = c.attempts
    BY DEF Creds, ComponentFields
  <2> HIDE DEF p
  <2>3. Creds(p)
    BY <2>2, SameCreds DEF Onward
  <2>4. Creds(transport_check(p)) /\ Creds(error(p))
    BY <2>3, TransportCheckCreds, ErrorCreds DEF Onward
  <2> QED
    BY <2>1, <2>4, CredsLanded
<1>2. CASE Stop
  <2>1. Creds([stop(c) EXCEPT !.stops = 1])
    BY StopCreds DEF Onward
  <2> QED
    BY <1>2, <2>1, CredsLanded DEF Stop
<1>3. CASE TransportCheck
  <2>1. Creds(transport_check(c))
    BY TransportCheckCreds DEF Onward
  <2> QED
    BY <1>3, <2>1, CredsLanded DEF TransportCheck
<1>4. CASE DelayOver
  <2>1. PICK fatal : To(attempt_connect(c, fatal))
    BY <1>4 DEF DelayOver
  <2>2. Creds(attempt_connect(c, fatal))
    BY AttemptConnectCreds
  <2> QED
    BY <1>4, <2>1, <2>2, CredsLanded DEF DelayOver
<1> QED
  BY <1>1, <1>2, <1>3, <1>4

LEMMA OpeningCreds ==
    ASSUME opt \in Options, Creds(c), NEW i \in Attempts,
           ConnectFails(i) \/ Connects(i) \/ OnOpen(i)
    PROVE  CredInv'
<1>0. i \in DOMAIN c.attempts
  BY DEF Attempts
<1>1. CASE ConnectFails(i)
  <2> DEFINE x == [c EXCEPT !.attempts[i].phase = "closed"]
  <2>1. PICK fatal \in Fatal : To(rejected(x, i, fatal))
    BY <1>1 DEF ConnectFails
  <2>2. Onward(c, x)
    BY <1>0, FieldsCreds
  <2> HIDE DEF x
  <2>3. Creds(rejected(x, i, fatal))
    BY <1>0, <2>2, RejectedCreds DEF Onward
  <2> QED
    BY <1>1, <2>1, <2>3, CredsLanded DEF ConnectFails
<1>2. CASE Connects(i)
  <2>1. Creds([c EXCEPT !.attempts[i].phase = "handshake"])
    BY <1>0, <1>2, ConnectedCreds DEF Connects, Onward
  <2> QED
    BY <1>2, <2>1, CredsLanded DEF Connects
<1>3. CASE OnOpen(i)
  <2>1. PICK fatal \in Fatal : To(openSession(c, i, fatal))
    BY <1>3 DEF OnOpen
  <2>2. Creds(openSession(c, i, fatal))
    BY <1>0, <1>3, OpenSessionCreds DEF OnOpen, Onward
  <2> QED
    BY <1>3, <2>1, <2>2, CredsLanded DEF OnOpen
<1> QED
  BY <1>1, <1>2, <1>3

LEMMA RouterCreds ==
    ASSUME NoneIsApart, opt \in Options, Complete(opt.configs), Valid, Creds(c), NEW i \in Attempts,
           RouterChallenges(i) \/ RouterWelcomes(i) \/ RouterAborts(i) \/ RouterSaysGoodbye(i)
    PROVE  CredInv'
<1>0. i \in DOMAIN c.attempts
  BY DEF Attempts
<1>1. CASE RouterChallenges(i)
  <2>1. PICK method \in c.attempts[i].hello.authmethods \ {"anonymous"} :
          \E extra \in challengeExtra([router |-> i]), fatal \in Fatal :
             conforming(method, extra) /\ To(challenged(c, i, method, extra, fatal))
    BY <1>1 DEF RouterChallenges
  <2>2. PICK extra \in challengeExtra([router |-> i]) :
          \E fatal \in Fatal :
             conforming(method, extra) /\ To(challenged(c, i, method, extra, fatal))
    BY <2>1
  <2>3. PICK fatal : conforming(method, extra) /\ To(challenged(c, i, method, extra, fatal))
    BY <2>2
  <2>4. c.attempts[i].phase = "session" /\ c.attempts[i].method = None /\ UNCHANGED opt
    BY <1>1 DEF RouterChallenges, awaits
  <2>5. Creds(challenged(c, i, method, extra, fatal))
    BY <1>0, <2>3, <2>4, ChallengedCreds DEF Onward
  <2> QED
    BY <2>3, <2>4, <2>5, CredsLanded
<1>2. CASE RouterWelcomes(i)
  <2> DEFINE a == c.attempts[i]
             proof == IF a.method = "scram" THEN serverProof(opt.router, a.hello, a.extra) ELSE None
  <2>1. \/ To(welcomed(c, i, None, None))
        \/ a.signature # None /\ To(welcomed(c, i, a.method, proof))
    BY <1>2 DEF RouterWelcomes
  <2>2. Creds(welcomed(c, i, None, None))
    BY <1>0, WelcomedCreds DEF Onward
  <2>3. a.method = "scram" => proof = serverProof(opt.router, a.hello, a.extra)
    OBVIOUS
  <2> HIDE DEF proof
  <2>4. a.signature # None => Creds(welcomed(c, i, a.method, proof))
    BY <1>0, <2>3, WelcomedCreds DEF Onward
  <2> QED
    BY <1>2, <2>1, <2>2, <2>4, CredsLanded DEF RouterWelcomes
<1>3. CASE RouterAborts(i) \/ RouterSaysGoodbye(i)
  <2>1. PICK reason : \E fatal \in Fatal : To(leaveSession(c, i, reason, fatal))
    BY <1>3 DEF RouterAborts, RouterSaysGoodbye
  <2>2. PICK fatal \in Fatal : To(leaveSession(c, i, reason, fatal))
    BY <2>1
  <2>3. Creds(leaveSession(c, i, reason, fatal))
    BY <1>0, LeaveSessionCreds DEF Onward
  <2> QED
    BY <1>3, <2>2, <2>3, CredsLanded DEF RouterAborts, RouterSaysGoodbye
<1> QED
  BY <1>1, <1>2, <1>3

LEMMA MainCreds ==
    ASSUME opt \in Options, Creds(c), NEW i \in Attempts,
           MainReturns(i) \/ LeaveAfterMain(i) \/ MainRaises(i) \/ ConnectionLost(i)
    PROVE  CredInv'
<1>0. i \in DOMAIN c.attempts
  BY DEF Attempts
<1>1. CASE MainReturns(i)
  <2> DEFINE x == [c EXCEPT !.attempts[i].main = "returned"]
             q == [c EXCEPT !.attempts[i].main = "returned", !.completed = TRUE]
  <2>1. Onward(c, x)
    BY <1>0, FieldsCreds
  <2>2. DOMAIN q = ComponentFields /\ q.attempts = x.attempts
    BY DEF Creds, ComponentFields
  <2>3. To(q) /\ UNCHANGED opt
    BY <1>1 DEF MainReturns
  <2> HIDE DEF x, q
  <2>4. Creds(q)
    BY <2>1, <2>2, SameCreds DEF Onward
  <2> QED
    BY <2>3, <2>4, CredsLanded
<1>2. CASE LeaveAfterMain(i)
  <2> DEFINE x == leave(c, i)
             q == [x EXCEPT !.attempts[i].main = "over"]
  <2>1. Onward(c, x)
    BY <1>0, LeaveCreds
  <2>2. To(q) /\ UNCHANGED opt
    BY <1>2 DEF LeaveAfterMain
  <2> HIDE DEF x
  <2>3. Creds(q)
    BY <1>0, <2>1, FieldsCreds DEF Onward
  <2> QED
    BY <2>2, <2>3, CredsLanded
<1>3. CASE MainRaises(i)
  <2> DEFINE x == [c EXCEPT !.attempts[i].main = "over"]
  <2>1. PICK fatal \in Fatal : To(main_error(x, i, fatal))
    BY <1>3 DEF MainRaises
  <2>2. Onward(c, x)
    BY <1>0, FieldsCreds
  <2> HIDE DEF x
  <2>3. Creds(main_error(x, i, fatal))
    BY <1>0, <2>2, MainErrorCreds DEF Onward
  <2> QED
    BY <1>3, <2>1, <2>3, CredsLanded DEF MainRaises
<1>4. CASE ConnectionLost(i)
  <2>1. PICK fatal \in Fatal, clean \in BOOLEAN : To(lost(c, i, clean, fatal))
    BY <1>4 DEF ConnectionLost
  <2>2. Creds(lost(c, i, clean, fatal))
    BY <1>0, LostCreds DEF Onward
  <2> QED
    BY <1>4, <2>1, <2>2, CredsLanded DEF ConnectionLost
<1> QED
  BY <1>1, <1>2, <1>3, <1>4

\* Client and router with the same secret accept each other: the router verifies
\* every answer to its challenge (auth.py:138-604), and the session never denies
\* this router (protocol.py:1872-1908), whatever the method, the parameters of the
\* challenge and the session's other authenticators.
THEOREM CredentialsAlwaysAccepted ==
    ASSUME NoneIsApart, \A o \in Options : Complete(o.configs)
    PROVE  Spec => []CredentialsAccepted
<1>1. CredInv /\ [Next]_vars => CredInv'
  <2> SUFFICES ASSUME CredInv, [Next]_vars
               PROVE  CredInv'
    OBVIOUS
  <2>1. opt \in Options /\ Complete(opt.configs)
    BY DEF CredInv
  <2>2. UNCHANGED opt
    BY DEF vars, Next, Start, Stop, TransportCheck, DelayOver, Connection, ConnectFails, Connects,
           OnOpen, RouterChallenges, RouterWelcomes, RouterAborts, RouterSaysGoodbye, MainReturns,
           LeaveAfterMain, MainRaises, ConnectionLost
  <2>3. CASE ~Valid
    BY <2>1, <2>2, <2>3, StaysInvalid
  <2>4. CASE Valid /\ UNCHANGED vars
    <3>1. c' = c /\ opt' = opt
      BY <2>4 DEF vars
    <3> QED
      BY <2>1, <2>4, <3>1 DEF CredInv, Valid, Creds, Cred, channel_id
  <2>5. CASE Valid /\ Next
    <3>1. Creds(c)
      BY <2>5 DEF CredInv
    <3>2. CASE Start \/ Stop \/ TransportCheck \/ DelayOver
      BY <2>1, <3>1, <3>2, LoopCreds
    <3>3. CASE \E i \in Attempts : Connection(i)
      BY <2>1, <2>5, <3>1, <3>3, OpeningCreds, RouterCreds, MainCreds DEF Connection
    <3> QED
      BY <2>5, <3>2, <3>3 DEF Next
  <2> QED
    BY <2>3, <2>4, <2>5
<1>2. CredInv => CredentialsAccepted
  BY DEF CredInv, Valid, Creds, Cred, CredentialsAccepted, verified, Attempts
<1> QED
  BY <1>1, <1>2, InitCreds, PTL DEF Spec
=============================================================================
