-------------------------- MODULE SecurityModule --------------------------
(***************************************************************************)
(* A security module in memory (autobahn/xbr/_secmod.py), the keys in it   *)
(* (EthereumKey, and CryptosignKey of autobahn/wamp/cryptosign.py), and an *)
(* application that signs typed data and certificates with keys it took    *)
(* from the module, keeps the certificates in files and reads them again.  *)
(***************************************************************************)
EXTENDS XbrTypedData, FiniteSetsExt

CONSTANTS
    Owners,      \* the applications considered: records, see OwnerType
    MaxKeys,     \* bound: keys ever made
    MaxLog       \* bound: signatures and files kept

OwnerType ==
    [given : Seq({"ethereum", "cryptosign"}),    \* keys passed to the constructor
     created : SUBSET {"ethereum", "cryptosign"},   \* types of the keys created
     signed : SUBSET Types,                      \* what is signed
     last : BOOLEAN,                             \* only the key with the last number is deleted
     locks : BOOLEAN]                            \* the module is locked and closed

ASSUME OwnerAssumption == Owners \subseteq OwnerType

\* Keys created in the module look at its lock; those of type cryptosign do not.
Guarded == \A o \in Owners : "cryptosign" \notin o.created

VARIABLES
    owner,    \* the application with its module
    sm,       \* the module
    log       \* the application: signatures it has, certificates in files

moduleVars == <<owner, sm, log>>

\* A key object; the id stands for its secret.  Keys that are passed to the
\* constructor know of no module and no number.
KeyObject(id, type, module) == [id |-> id, type |-> type, module |-> module]

module0 ==
    [is_open |-> FALSE, is_locked |-> TRUE, made |-> Len(owner.given),
     keys |-> [n \in 0..(Len(owner.given) - 1) |-> KeyObject(n + 1, owner.given[n + 1], FALSE)]]

log0 == [granted |-> FALSE, signatures |-> {}, files |-> {}, grants |-> {}]

-----------------------------------------------------------------------------
(* The module.  "granted": unlock() was called after the last open(),      *)
(* close() and lock().                                                     *)

open ==
    /\ ~sm.is_open
    /\ sm' = [sm EXCEPT !.is_open = TRUE]
    /\ log' = [log EXCEPT !.granted = FALSE]
    /\ UNCHANGED owner

closed(m) == [m EXCEPT !.is_open = FALSE, !.is_locked = TRUE]

close ==
    /\ owner.locks
    /\ sm.is_open
    /\ sm' = closed(sm)
    /\ log' = [log EXCEPT !.granted = FALSE]
    /\ UNCHANGED owner

lock ==
    /\ owner.locks
    /\ sm.is_open /\ ~sm.is_locked
    /\ sm' = [sm EXCEPT !.is_locked = TRUE]
    /\ log' = [log EXCEPT !.granted = FALSE]
    /\ UNCHANGED owner

unlock ==
    /\ sm.is_open /\ sm.is_locked
    /\ sm' = [sm EXCEPT !.is_locked = FALSE]
    /\ log' = [log EXCEPT !.granted = TRUE]
    /\ UNCHANGED owner

\* The number of a new key is the number of keys there are.
create_key(type) ==
    LET key_no == Cardinality(DOMAIN sm.keys) IN
    /\ sm.is_open
    /\ type \in owner.created /\ sm.made < MaxKeys
    /\ sm' = [sm EXCEPT !.made = @ + 1,
                        !.keys = [n \in DOMAIN @ \cup {key_no} |->
                                    IF n = key_no THEN KeyObject(sm.made + 1, type, TRUE) ELSE @[n]]]
    /\ UNCHANGED <<owner, log>>

delete_key(key_no) ==
    /\ sm.is_open
    /\ key_no \in DOMAIN sm.keys
    /\ owner.last => key_no = Cardinality(DOMAIN sm.keys) - 1
    /\ sm' = [sm EXCEPT !.keys = [n \in DOMAIN @ \ {key_no} |-> @[n]]]
    /\ UNCHANGED <<owner, log>>

-----------------------------------------------------------------------------
(* Signing.  A key of a module can be used while the module is open and    *)
(* unlocked; what has no module, and a CryptosignKey, looks at neither.    *)

canSign(k) == k.type = "ethereum" /\ k.module => sm.is_open /\ ~sm.is_locked

\* Arguments of a message: all "a", or with one of them "b" or left out.
base(type) == [a \in Range(Structs[type].args) |-> "a"]
variants(type) ==
    {base(type)} \cup {[base(type) EXCEPT ![a] = "b"] : a \in Range(Structs[type].args)}
                 \cup {[base(type) EXCEPT ![a] = Null] : a \in Optional(type)}

\* sign_typed_data() of a key that the application took from the module before.
SignTypedData(key_no, type) ==
    LET k == sm.keys[key_no] IN
    /\ key_no \in DOMAIN sm.keys /\ k.type = "ethereum"
    /\ canSign(k)
    /\ Encodable(type)
    /\ Cardinality(log.signatures) < MaxLog
    /\ \E args \in {base(type)} \cup {[base(type) EXCEPT ![a] = Null] : a \in Optional(type)} :
          log' = [log EXCEPT
                    !.signatures = @ \cup {[args |-> args, signature |-> sign_eip712(type, k.id, args)]},
                    !.grants = @ \cup (IF k.module THEN {log.granted} ELSE {})]
    /\ UNCHANGED <<owner, sm>>

\* sign() of a CryptosignKey; what it signs is of no concern here.
SignChallenge(key_no) ==
    LET k == sm.keys[key_no] IN
    /\ key_no \in DOMAIN sm.keys /\ k.type = "cryptosign"
    /\ canSign(k)
    /\ log' = [log EXCEPT !.grants = @ \cup (IF k.module THEN {log.granted} ELSE {})]
    /\ UNCHANGED <<owner, sm>>

\* A certificate with a signature of it is written to a file.
SaveCertificate(s) ==
    LET type == s.signature.hash.type
        cert == [certificate(type, s.args) EXCEPT !.signatures = <<s.signature>>] IN
    /\ s \in log.signatures /\ type \in Certificates
    /\ log' = [log EXCEPT !.files = @ \cup {[of |-> cert, file |-> save(cert)]}]
    /\ UNCHANGED <<owner, sm>>

-----------------------------------------------------------------------------
ModuleInit ==
    /\ owner \in Owners
    /\ sm = module0
    /\ log = log0

ModuleNext ==
    \/ open \/ close \/ lock \/ unlock
    \/ \E type \in {"ethereum", "cryptosign"} : create_key(type)
    \/ \E key_no \in DOMAIN sm.keys : delete_key(key_no) \/ SignChallenge(key_no)
    \/ \E key_no \in DOMAIN sm.keys, type \in owner.signed : SignTypedData(key_no, type)
    \/ \E s \in log.signatures : SaveCertificate(s)

ModuleSpec == ModuleInit /\ [][ModuleNext]_moduleVars

-----------------------------------------------------------------------------
(* Properties.                                                             *)

\* The arguments that are no part of what is signed (_eip712_market_create.py).
Unsigned == {"providerSecurity", "consumerSecurity"}
sameMessage(args, other) ==
    \A a \in DOMAIN args \ Unsigned :
        (IF args[a] = Null THEN "" ELSE args[a]) = (IF other[a] = Null THEN "" ELSE other[a])

\* A signature is of one key and one message: recover_eip712_* gives the signer
\* for the arguments that were signed, and nobody for a message that differs in
\* one argument or is of another type.
SignatureBinds ==
    \A s \in log.signatures : \A type \in {t \in owner.signed : Encodable(t)} :
        \A args \in variants(type) :
        (recover_eip712(type, args, s.signature) = s.signature.by)
            <=> (type = s.signature.hash.type /\ sameMessage(args, s.args))

\* A certificate comes out of its file, and of its text form, as it was: with
\* the same hash, and with signatures of which recover() gives the signers.
CertificatesSurvive ==
    \A f \in log.files :
        LET text == marshal_certificate(f.of, FALSE)
            chain == parse_certificate_chain(<<<<f.of.hash, text, f.of.signatures[1]>>>>)
            loaded == load(f.of.type, f.file) IN
        /\ chain[1] # Null /\ chain[1].hash = f.of.hash
        /\ f.of.type = "AuthorityCertificate" =>
              /\ loaded # Null /\ loaded.hash = f.of.hash /\ loaded.signatures # <<>>
              /\ \A i \in DOMAIN loaded.signatures :
                    recover_eip712(loaded.type, loaded.args, loaded.signatures[i])
                        = f.of.signatures[i].by

\* A key that lives in the module signs only while the module is unlocked for
\* it: open, and unlocked since it was opened ("security module must be open and
\* unlocked", _secmod.py:133).
SignsWhenUnlocked == FALSE \notin log.grants

\* A signature is of one key and one message, is made only while the module is open
\* and unlocked, and what it signs comes out of a file as it was.
SignaturesHold == SignatureBinds /\ CertificatesSurvive /\ SignsWhenUnlocked

\* Creating a key leaves the other keys alone: "Create a new public-private
\* asymmetric key pair, stored within the security module" (interfaces.py:1018).
CreatingKeepsKeys ==
    [][sm'.made > sm.made => \A n \in DOMAIN sm.keys : sm'.keys[n] = sm.keys[n]]_moduleVars
=============================================================================
