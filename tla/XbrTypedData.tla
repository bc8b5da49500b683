---------------------------- MODULE XbrTypedData ----------------------------
(***************************************************************************)
(* The typed data of XBR (autobahn/xbr/_eip712_*.py): what is signed of a  *)
(* transaction or a certificate, and whose signature it is.  Every file    *)
(* has three functions of the same arguments: create_eip712_*, which builds *)
(* the data, sign_eip712_* and recover_eip712_*, which build it and sign it *)
(* or recover its signer.  They differ from file to file in a table only.  *)
(* A value is only told from other values of its argument: "a", "b", or    *)
(* Null for a text that is left out.                                       *)
(***************************************************************************)
EXTENDS Sequences, Naturals, FiniteSets, Functions

CONSTANT Null

-----------------------------------------------------------------------------
(* The tables.  args: the arguments, and the Python types of their values  *)
(* (asserted in most files); fields: the members of the EIP-712 struct,    *)
(* with their types; message: the members that the data is given.          *)

\* The type of the value that each of the assertions of _eip712_base.py lets pass.
fits ==
    [uint256 |-> {"int"}, uint64 |-> {"int"}, uint32 |-> {"int"}, uint8 |-> {"int"},
     address |-> {"bytes20"}, bytes16 |-> {"bytes16"}, bytes32 |-> {"bytes32"},
     string |-> {"str"}, bool |-> {"bool"}]

is(type) == CHOOSE v \in {"int", "bytes20", "bytes16", "bytes32", "str", "bool"} : v \in fits[type]

\* A struct with the given members, each of them an argument of its own type.
struct(domain, names, types) ==
    [domain |-> domain, fields |-> names, types |-> [i \in DOMAIN names |-> types[i]],
     args |-> names, values |-> [i \in DOMAIN names |-> is(types[i])], message |-> names]

Xbr(names, types) ==
    struct("XBR", <<"chainId", "verifyingContract">> \o names, <<"uint256", "address">> \o types)
Wmp(names, types) ==
    struct("WMP", <<"chainId", "verifyingContract">> \o names, <<"uint256", "address">> \o types)

ApiPublish ==
    Xbr(<<"member", "published", "catalogId", "apiId", "schema", "meta">>,
        <<"address", "uint256", "bytes16", "bytes16", "string", "string">>)

CatalogCreate ==
    Xbr(<<"member", "created", "catalogId", "terms", "meta">>,
        <<"address", "uint256", "bytes16", "string", "string">>)

\* Mutant: the number of the close is an argument, but no member of the struct.
ChannelClose_unnumbered ==
    LET s == Xbr(<<"closeAt", "marketId", "channelId", "channelSeq", "balance", "isFinal">>,
                 <<"uint256", "bytes16", "bytes16", "uint32", "uint256", "bool">>) IN
    [s EXCEPT !.fields = SelectSeq(@, LAMBDA f : f # "channelSeq"),
              !.types = SubSeq(@, 1, 5) \o SubSeq(@, 7, 8)]

ChannelClose ==
    Xbr(<<"closeAt", "marketId", "channelId", "channelSeq", "balance", "isFinal">>,
        <<"uint256", "bytes16", "bytes16", "uint32", "uint256", "bool">>)

ChannelOpen ==
    Xbr(<<"ctype", "openedAt", "marketId", "channelId", "actor", "delegate", "marketmaker",
          "recipient", "amount">>,
        <<"uint8", "uint256", "bytes16", "bytes16", "address", "address", "address",
          "address", "uint256">>)

Consent ==
    Xbr(<<"member", "updated", "marketId", "delegate", "delegateType", "apiCatalog", "consent",
          "servicePrefix">>,
        <<"address", "uint256", "bytes16", "address", "uint8", "bytes16", "bool", "string">>)

DomainCreate ==
    Xbr(<<"member", "created", "domainId", "domainKey", "license", "terms", "meta">>,
        <<"address", "uint256", "bytes16", "bytes32", "string", "string", "string">>)

\* The two securities are arguments, and no members of the struct.
MarketCreate ==
    LET s == Xbr(<<"member", "created", "marketId", "coin", "terms", "meta", "maker", "marketFee">>,
                 <<"address", "uint256", "bytes16", "address", "string", "string", "address",
                   "uint256">>) IN
    [s EXCEPT !.args = @ \o <<"providerSecurity", "consumerSecurity">>,
              !.values = @ \o <<"int", "int">>]

MarketJoin ==
    Xbr(<<"member", "joined", "marketId", "actorType", "meta">>,
        <<"address", "uint256", "bytes16", "uint8", "string">>)

MarketLeave ==
    Xbr(<<"member", "left", "marketId", "actorType">>,
        <<"address", "uint256", "bytes16", "uint8">>)

MarketMemberLogin == struct("XBR", <<"member", "client_pubkey">>, <<"address", "bytes32">>)

MemberLogin ==
    Xbr(<<"member", "loggedIn", "timestamp", "member_email", "client_pubkey">>,
        <<"address", "uint256", "uint64", "string", "bytes32">>)

MemberRegister ==
    Xbr(<<"member", "registered", "eula", "profile">>,
        <<"address", "uint256", "string", "string">>)

\* The struct has a member "retired", the message has "paired" in its place.
MemberUnregister ==
    LET s == Xbr(<<"member", "retired">>, <<"address", "uint256">>) IN
    [s EXCEPT !.message[4] = "paired"]

\* The node's key has 32 octets, its member of the struct 16.
NodePair ==
    LET s == Xbr(<<"member", "paired", "nodeId", "domainId", "nodeType", "nodeKey", "amount",
                   "config">>,
                 <<"address", "uint256", "bytes16", "bytes16", "uint8", "bytes16", "uint256",
                   "string">>) IN
    [s EXCEPT !.values[8] = "bytes32"]

AuthorityCertificate ==
    Wmp(<<"validFrom", "issuer", "subject", "realm", "capabilities", "meta">>,
        <<"uint256", "address", "address", "address", "uint64", "string">>)

DelegateCertificate ==
    Wmp(<<"validFrom", "delegate", "csPubKey", "bootedAt", "meta">>,
        <<"uint256", "address", "bytes32", "uint64", "string">>)

Structs ==
    [ApiPublish |-> ApiPublish, CatalogCreate |-> CatalogCreate, ChannelClose |-> ChannelClose,
     ChannelOpen |-> ChannelOpen, Consent |-> Consent, DomainCreate |-> DomainCreate,
     MarketCreate |-> MarketCreate, MarketJoin |-> MarketJoin, MarketLeave |-> MarketLeave,
     MarketMemberLogin |-> MarketMemberLogin, MemberLogin |-> MemberLogin,
     MemberRegister |-> MemberRegister, MemberUnregister |-> MemberUnregister,
     NodePair |-> NodePair, AuthorityCertificate |-> AuthorityCertificate,
     DelegateCertificate |-> DelegateCertificate]

Types == DOMAIN Structs

\* The texts that may be left out: an empty one is signed instead.
Optional(type) ==
    Range(Structs[type].args) \cap
        (IF type = "ApiPublish" THEN {} ELSE {"meta", "profile", "servicePrefix", "config"})

-----------------------------------------------------------------------------
(* Building, signing and recovering.                                       *)

position(seq, name) == CHOOSE i \in DOMAIN seq : seq[i] = name

\* create_eip712_*: the data for the arguments, a function of their names.
create(type, args) ==
    LET s == Structs[type] IN
    [primaryType |-> type,
     message |-> [name \in Range(s.message) |->
                    LET arg == s.args[position(s.message, name)] IN
                    IF args[arg] = Null THEN "" ELSE args[arg]]]

\* A member that the message lacks, or that its value does not fit, is an error.
Encodable(type) ==
    LET s == Structs[type] IN
    \A i \in DOMAIN s.fields :
        /\ s.fields[i] \in Range(s.message)
        /\ s.values[position(s.args, s.fields[i])] \in fits[s.types[i]]

\* The hash: of the domain, the struct and the members' values.
encode_typed_data(data) ==
    [domain |-> Structs[data.primaryType].domain, type |-> data.primaryType,
     values |-> [name \in Range(Structs[data.primaryType].fields) |-> data.message[name]]]

sign(by, data) == [by |-> by, hash |-> encode_typed_data(data)]

\* The address that made a signature, given the data that was signed; given other
\* data an address that belongs to nobody, 0.
recover(data, signature) ==
    IF signature.hash = encode_typed_data(data) THEN signature.by ELSE 0

sign_eip712(type, by, args) == sign(by, create(type, args))
recover_eip712(type, args, signature) == recover(create(type, args), signature)

-----------------------------------------------------------------------------
(* Certificates: the object, its data as a dict, and a file of it.         *)

Certificates == {"AuthorityCertificate", "DelegateCertificate"}

\* The object; its hash is made when it is.
certificate(type, args) ==
    [type |-> type, args |-> args, signatures |-> <<>>, hash |-> encode_typed_data(create(type, args))]

\* The dict of a certificate.  In its text form the octets are hex, with a
\* check-sum and 0x for addresses and without for a public key.
octets(type) ==
    LET s == Structs[type] IN
    {s.fields[i] : i \in {j \in DOMAIN s.fields : s.types[j] \in {"address", "bytes32"}}}

forms(type, binary) ==
    [name \in Range(Structs[type].message) |->
        IF name \in octets(type) /\ ~binary THEN "hex" ELSE "native"]

marshal_certificate(cert, binary) ==
    [primaryType |-> cert.type, message |-> create(cert.type, cert.args).message,
     forms |-> forms(cert.type, binary)]

\* parse() of either class: the type is its own, the attributes are those of the
\* struct, each in the form that is expected; Null stands for the ValueError.  The
\* object has no signatures.
parsed(type, obj, binary) ==
    IF obj.primaryType = type /\ obj.forms = forms(type, binary)
    THEN certificate(type, obj.message)
    ELSE Null

AuthorityCertificate_parse(obj, binary) == parsed("AuthorityCertificate", obj, binary)

\* A delegate certificate is only read in text form.
DelegateCertificate_parse(obj) == parsed("DelegateCertificate", obj, FALSE)

\* Null is none of the values, and no certificate.
signedValues(type) == [Range(Structs[type].args) -> {"", "a"}]
HashType(type) == [domain : {"XBR", "WMP"}, type : {type}, values : signedValues(type)]
CertificateType(type) ==
    [type : {type}, args : signedValues(type), hash : HashType(type),
     signatures : Seq([by : Nat, hash : HashType(type)])]

ASSUME NullAssumption ==
    /\ Null \notin {"", "a", "b"}
    /\ \A type \in Certificates : Null \notin CertificateType(type)

save(cert) ==
    [hash |-> cert.hash, obj |-> marshal_certificate(cert, TRUE), signatures |-> cert.signatures]

AuthorityCertificate_load(file) ==
    LET cert == AuthorityCertificate_parse(file.obj, TRUE) IN
    IF cert = Null \/ cert.hash # file.hash THEN Null
    ELSE [cert EXCEPT !.signatures = file.signatures]

\* load() of a delegate certificate asks its parse() for the binary form, which
\* that has no parameter for: TypeError, whatever is in the file.
DelegateCertificate_load(file) == Null

load(type, file) ==
    IF type = "AuthorityCertificate" THEN AuthorityCertificate_load(file)
    ELSE DelegateCertificate_load(file)

\* parse_certificate_chain(), of triples of a hash, the data and a signature: the
\* data one by one.  Hashes, signatures and what the rules for chains say are not
\* looked at.
parse_certificate_chain(certificates) ==
    [i \in DOMAIN certificates |->
        LET data == certificates[i][2] IN
        IF data.primaryType = "DelegateCertificate" THEN DelegateCertificate_parse(data)
        ELSE AuthorityCertificate_parse(data, FALSE)]
=============================================================================
