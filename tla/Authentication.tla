--------------------------- MODULE Authentication ---------------------------
(***************************************************************************)
(* The authenticators of autobahn/wamp/auth.py and their use by a session: *)
(* what HELLO announces, how a CHALLENGE is answered and what a WELCOME    *)
(* must bring.  Hashes, keyed hashes and signatures are external and free  *)
(* of collisions: terms that are equal when they are made of equal parts.  *)
(***************************************************************************)
EXTENDS Naturals, Sequences, FiniteSets

CONSTANT None      \* Python's None: a value of its own

Methods == {"anonymous", "ticket", "wampcra", "cryptosign", "scram"}

ASSUME NoneAssumption == None \notin Methods

\* What each authenticator cannot be made without.
required(name) ==
    CASE name \in {"ticket", "cryptosign"} -> {"secret"}
      [] name = "wampcra"                  -> {"secret", "authid"}
      [] name \in {"anonymous", "scram"}   -> {}

\* create_authenticator: a configuration is the arguments of the constructor;
\* the rest is filled in while a session uses the authenticator.
creatable(config) ==
    /\ config.name \in Methods
    /\ \A k \in required(config.name) : config[k] # None

create_authenticator(config) ==
    [config |-> config, client_nonce |-> None, auth_message |-> None, salted_password |-> None]

-----------------------------------------------------------------------------
(* The session's list of authenticators.                                   *)

\* The nonce of WAMP-SCRAM is made when authextra is first asked for.
mint(a, nonce) ==
    IF a.config.name = "scram" /\ a.client_nonce = None
    THEN [a EXCEPT !.client_nonce = nonce] ELSE a

authextra(a) ==
    CASE a.config.name = "scram" -> {<<"nonce", a.client_nonce>>}
      [] a.config.name = "cryptosign" ->
             {<<"pubkey", [public |-> a.config.secret]>>}
                 \cup IF a.config.binding = None THEN {}
                      ELSE {<<"channel_binding", a.config.binding>>}
      [] OTHER -> {}

merged_authextra(auths) == UNION {authextra(auths[i]) : i \in DOMAIN auths}

at_most_one(configs, field) ==
    Cardinality({configs[i][field] : i \in DOMAIN configs} \ {None}) <= 1

consistent(extras) == \A p, q \in extras : p[1] = q[1] => p[2] = q[2]

\* add_authenticator, for each of a session's configurations in turn.
addable(configs) ==
    /\ \A i \in DOMAIN configs : creatable(configs[i])
    /\ at_most_one(configs, "authid")
    /\ at_most_one(configs, "authrole")
    /\ consistent(merged_authextra([i \in DOMAIN configs |->
                      mint(create_authenticator(configs[i]), 0)]))

\* The session's authenticators when its HELLO is sent; nonces are fresh.
authenticators(configs, nonce) ==
    [i \in DOMAIN configs |-> mint(create_authenticator(configs[i]), nonce)]

\* onConnect: the last authenticator gives authid and authrole.
hello(auths) ==
    LET last == auths[Len(auths)].config
    IN  [authmethods |-> {auths[i].config.name : i \in DOMAIN auths},
         authid |-> IF auths = <<>> THEN None ELSE last.authid,
         authrole |-> IF auths = <<>> THEN None ELSE last.authrole,
         authextra |-> merged_authextra(auths)]

\* onChallenge and onWelcome look the authenticator up by its method.
chosen(auths, method) == {i \in DOMAIN auths : auths[i].config.name = method}

-----------------------------------------------------------------------------
(* Terms, for client and router alike.                                     *)

derive_key(secret, salt) == [derived |-> secret, salt |-> salt]
plain(secret) == [secret |-> secret]
compute_wcs(key, challenge) == [wcs |-> key, of |-> challenge]
sign(privkey, data) == [signature |-> privkey, of |-> data]

\* Exclusive or: what occurs twice cancels out.
xor(x, y) == (x \ y) \cup (y \ x)

salted(secret, extra) == [salted |-> secret, kdf |-> extra.kdf, salt |-> extra.salt]
clientKey(password) == [client_key |-> password]
serverKey(password) == [server_key |-> password]
storedKey(key) == [stored_key |-> key]
scramSign(key, message) == [hmac |-> key, of |-> message]

auth_message(authid, client_nonce, extra) ==
    [authid |-> authid, client_nonce |-> client_nonce, server_nonce |-> extra.nonce,
     salt |-> extra.salt]

-----------------------------------------------------------------------------
(* on_challenge: the signature and the authenticator afterwards, or raised.*)

answer(a, signature) == [raised |-> FALSE, signature |-> signature, a |-> a]
raised(a) == [raised |-> TRUE, signature |-> None, a |-> a]

\* Mutant: the salt of the challenge is not looked at.
on_challenge_wampcra_unsalted(a, extra) ==
    answer(a, compute_wcs(plain(a.config.secret), extra.challenge))

on_challenge_wampcra(a, extra) ==
    answer(a, compute_wcs(IF extra.salt = None THEN plain(a.config.secret)
                          ELSE derive_key(a.config.secret, extra.salt), extra.challenge))

\* sign_challenge: with channel binding the transport must have a channel id.
\* What was signed goes with the signature.
on_challenge_cryptosign(a, extra, channel_id) ==
    LET data == IF a.config.binding = None THEN {[challenge |-> extra.challenge]}
                ELSE xor({[challenge |-> extra.challenge]}, {[channel |-> channel_id]})
    IN  IF a.config.binding # None /\ channel_id = None THEN raised(a)
        ELSE answer(a, sign(a.config.secret, data))

on_challenge_scram(a, extra) ==
    LET message == auth_message(a.config.authid, a.client_nonce, extra)
        password == salted(a.config.secret, extra)
        key == clientKey(password)
    IN  IF \/ a.config.secret = None \/ a.config.authid = None
           \/ extra.kdf \notin {"argon2id-13", "pbkdf2"}
           \/ extra.kdf = "argon2id-13" /\ extra.memory = None
        THEN raised(a)
        ELSE answer([a EXCEPT !.auth_message = message, !.salted_password = password],
                    xor({key}, {scramSign(storedKey(key), message)}))

on_challenge(a, extra, channel_id) ==
    CASE a.config.name = "anonymous"  -> raised(a)
      [] a.config.name = "ticket"     -> answer(a, a.config.secret)
      [] a.config.name = "wampcra"    -> on_challenge_wampcra(a, extra)
      [] a.config.name = "cryptosign" -> on_challenge_cryptosign(a, extra, channel_id)
      [] a.config.name = "scram"      -> on_challenge_scram(a, extra)

\* Mutant: the router's proof is not looked at.
on_welcome_trusting(a, proof) ==
    IF a.config.name = "scram" /\ a.salted_password = None THEN "raised" ELSE "accepted"

\* on_welcome: only WAMP-SCRAM has the router prove itself, and only after it
\* was challenged.
on_welcome(a, proof) ==
    CASE a.config.name # "scram"        -> "accepted"
      [] a.config.name = "scram" /\ a.salted_password = None -> "raised"
      [] a.config.name = "scram" /\ proof = None -> "raised"
      [] OTHER ->
             IF proof = scramSign(serverKey(a.salted_password), a.auth_message)
             THEN "accepted" ELSE "denied"

-----------------------------------------------------------------------------
(* A router that has the secret of the principal, or another one.          *)

\* The extra of its challenge, with a nonce or random value of its own.
challengeExtra(nonce) ==
    {[challenge |-> nonce, nonce |-> nonce, salt |-> s, kdf |-> k, memory |-> m] :
     s \in {None, "salt"}, k \in {"argon2id-13", "pbkdf2"}, m \in {None, 512}}

conforming(method, extra) ==
    CASE method = "scram"   -> extra.salt # None /\ (extra.kdf = "pbkdf2") = (extra.memory = None)
      [] method = "wampcra" -> extra.kdf = "pbkdf2" /\ extra.memory = None
      [] OTHER              -> extra.salt = None /\ extra.kdf = "pbkdf2" /\ extra.memory = None

valueOf(extras, key) == (CHOOSE p \in extras : p[1] = key)[2]

\* Whether the signature of AUTHENTICATE is the principal's, who is known by the
\* public key or else by the authid.
verifies(secret, method, announced, extra, channel_id, signature) ==
    CASE method # "cryptosign" /\ announced.authid = None -> FALSE
      [] method = "ticket"  -> signature = secret
      [] method = "wampcra" ->
             signature = compute_wcs(IF extra.salt = None THEN plain(secret)
                                     ELSE derive_key(secret, extra.salt), extra.challenge)
      [] method = "cryptosign" ->
             /\ valueOf(announced.authextra, "pubkey") = [public |-> secret]
             /\ signature =
                    sign(secret, IF \E p \in announced.authextra : p[1] = "channel_binding"
                                 THEN xor({[challenge |-> extra.challenge]},
                                          {[channel |-> channel_id]})
                                 ELSE {[challenge |-> extra.challenge]})
      [] method = "scram" ->
             LET message == auth_message(announced.authid,
                                         valueOf(announced.authextra, "nonce"), extra)
                 stored == storedKey(clientKey(salted(secret, extra)))
             IN  \E key \in xor(signature, {scramSign(stored, message)}) :
                     storedKey(key) = stored

serverProof(secret, announced, extra) ==
    scramSign(serverKey(salted(secret, extra)),
              auth_message(announced.authid, valueOf(announced.authextra, "nonce"), extra))
=============================================================================
