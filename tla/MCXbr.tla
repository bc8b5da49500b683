------------------------------- MODULE MCXbr -------------------------------
(***************************************************************************)
(* XBR for TLC: markets, and what a user of them keeps: keys in a security *)
(* module, keys and profiles in files, and schemas.  The four have nothing *)
(* to do with each other; a behaviour is one of the one that part names.   *)
(***************************************************************************)
EXTENDS XbrMarket, KeyFiles, SecurityModule, TLC

\* What the options are to a market, option is to schemas.
VARIABLES part, option, repo, checked

schemaVars == <<option, repo, checked>>

-----------------------------------------------------------------------------
(* Markets: what trading depends on, and what the seller's life depends    *)
(* on, each with little of the other.                                      *)

market ==
    [prices |-> <<1>>, max_price |-> 2, funds |-> 3, keys |-> 1, answers |-> {"ok"}, restarts |-> FALSE,
     loses |-> FALSE, patient |-> TRUE, eager |-> FALSE]

\* Two APIs; a channel that runs empty; keys too dear; sessions that go away;
\* data whose key is not offered yet.
trading ==
    {[market EXCEPT !.prices = <<1, 2>>, !.funds = f, !.loses = l, !.eager = e] :
     f \in {0, 2, 3}, l \in BOOLEAN, e \in BOOLEAN}
    \cup {[market EXCEPT !.prices = p, !.keys = 2] : p \in {<<1>>, <<3>>, <<0>>}}

\* Offers that are refused or cannot be placed, a seller that starts again.
restarting ==
    {[market EXCEPT !.prices = p, !.answers = a, !.restarts = TRUE, !.keys = 2, !.funds = 0] :
     p \in {<<1>>, <<1, 1>>}, a \in {{"ok", "refused"}, {"unavailable", "ok"}}}
    \cup {[market EXCEPT !.restarts = TRUE, !.keys = 2]}

\* What each of the properties that do not hold needs.
racingOptions == {[market EXCEPT !.keys = 2, !.restarts = TRUE, !.patient = FALSE]}
losingOptions == {[market EXCEPT !.keys = 2, !.loses = TRUE, !.patient = FALSE]}
waitingOptions == {[market EXCEPT !.eager = TRUE]}

MCMarkets == trading \cup restarting

-----------------------------------------------------------------------------
(* Security modules: one key that signs any two messages, and keys that come *)
(* and go while the module is opened, locked and closed.                   *)

application ==
    [given |-> <<>>, created |-> {"ethereum"}, signed |-> {"ChannelClose"}, last |-> TRUE,
     locks |-> FALSE]

\* Every type of message, with a channel's closing; given keys sign at any time.
Kinds ==
    {"ApiPublish", "CatalogCreate", "ChannelClose", "ChannelOpen", "Consent", "DomainCreate",
     "MarketCreate", "MarketJoin", "MarketLeave", "MarketMemberLogin", "MemberLogin",
     "MemberRegister", "MemberUnregister", "NodePair", "AuthorityCertificate",
     "DelegateCertificate"}
signing ==
    {[application EXCEPT !.given = g, !.created = {}, !.signed = {t, "ChannelClose"}] :
     g \in {<<"ethereum">>, <<"cryptosign", "ethereum">>}, t \in Kinds}

locking ==
    {[application EXCEPT !.given = g, !.locks = TRUE] : g \in {<<>>, <<"ethereum", "cryptosign">>}}
    \cup {[application EXCEPT !.locks = TRUE,
                              !.signed = {"AuthorityCertificate", "DelegateCertificate"}]}

\* What each of the properties that do not hold needs.
deletingOptions == {[application EXCEPT !.last = FALSE]}
cryptosignOptions == {[application EXCEPT !.created = {"cryptosign"}, !.locks = TRUE]}

MCOwners == signing \cup locking

-----------------------------------------------------------------------------
(* Files: one program that ends anywhere, with a user who meddles.         *)

profile(given) ==
    [a \in {"username", "cskey", "member_oid", "vaction_verified"} |->
        IF a \in given THEN "value" ELSE Nil]
keyUser ==
    [programs |-> {1}, crashes |-> "never", meddles |-> FALSE, profiles |-> {}, passwords |-> {}]
profileUser ==
    [keyUser EXCEPT !.programs = {}, !.passwords = {"p", "q"},
                    !.profiles = {profile({}), profile({"username"}),
                                  profile({"username", "cskey", "member_oid", "vaction_verified"})}]

Crashes == {"never", "between", "anywhere"}
MCUsers ==
    {[keyUser EXCEPT !.crashes = c, !.meddles = m] : c \in Crashes, m \in BOOLEAN}
    \cup {[profileUser EXCEPT !.crashes = c] : c \in Crashes}

\* What each of the properties that do not hold needs.
twoPrograms == {[keyUser EXCEPT !.programs = {1, 2}]}

-----------------------------------------------------------------------------
(* Schemas: two files that fit together or not, one that does not load.    *)

R == INSTANCE SchemaRepository WITH opt <- option, Options <- {}, MaxChecks <- 0

Text == R!FbsType("String", "None", 0)
Count == R!FbsType("Int", "None", 0)
Ref(index) == R!FbsType("Obj", "None", index)
Refs(index) == R!FbsType("Vector", "Obj", index)

\* A struct whose fields are not in the order of their names; a table of it.
Pair(first, second) ==
    R!FbsObject("Pair", TRUE, <<R!FbsField("a", 1, second, {}), R!FbsField("b", 0, first, {})>>)
Offer ==
    R!FbsObject("Offer", FALSE, <<R!FbsField("kind", 2, Text, {"kwarg"}), R!FbsField("of", 0, Ref(0), {}),
                                  R!FbsField("parts", 1, Refs(0), {"arg"})>>)
Note ==
    R!FbsObject("Note", FALSE, <<R!FbsField("key", 0, Text, {"required", "kwarg"})>>)

color == R!FbsEnum("Color", <<"Red", "Green">>)
service(object) == R!FbsService("Offers", <<R!FbsRPCCall("place", object, object)>>)

files ==
    "one" :> R!FbsSchema(<<color>>, <<Pair(Text, Count), Offer>>, <<service(Offer)>>)
    @@ "two" :> R!FbsSchema(<<color>>, <<Pair(Count, Text), Note>>, <<>>)
    @@ "rooted" :> [R!FbsSchema(<<>>, <<Note>>, <<>>) EXCEPT !.root_table = TRUE]
    @@ "twice" :> R!FbsSchema(<<>>, <<Note>>,
                    <<R!FbsService("Notes", <<R!FbsRPCCall("put", Note, Note), R!FbsRPCCall("put", Note, Note)>>)>>)

scalar(t) == [t |-> t, keys |-> <<>>, items |-> <<>>]
list(items) == [t |-> "list", keys |-> <<>>, items |-> items]
dict(keys, items) == [t |-> "dict", keys |-> keys, items |-> items]

scalars == {scalar("str"), scalar("int")}
pairs ==
    {list(<<x, y>>) : x \in scalars, y \in scalars} \cup {list(<<scalar("str")>>)}
    \cup {dict(<<"b", "a">>, <<x, y>>) : x \in scalars, y \in scalars}
    \cup {dict(<<"a">>, <<scalar("int")>>)}

payload(type, args, kwargs) == [type |-> type, args |-> args, kwargs |-> kwargs]
payloads ==
    {payload("Pair", <<x, y>>, {}) : x \in scalars, y \in scalars}
    \cup {payload("Note", a, {}) : a \in {<<>>, <<scalar("str")>>, <<scalar("bool")>>}}
    \cup {payload("Note", <<scalar("str")>>, {"key"}), payload("Note", None, {}),
          payload(None, None, {"key"})}
    \cup {payload("Offer", <<p, list(ps)>>, k) :
          p \in pairs, ps \in {<<>>, <<list(<<scalar("str"), scalar("int")>>)>>,
                               <<dict(<<"a", "b">>, <<scalar("int"), scalar("int")>>)>>},
          k \in {{}, {"kind"}, {"of"}}}
    \cup {payload("Offer", <<dict(<<"b", "a">>, <<scalar("str"), scalar("int")>>)>>, {})}

path(kind, fns) == [kind |-> kind, names |-> fns]
paths ==
    {path("file", <<"one">>), path("file", <<"two">>), path("file", <<"rooted">>),
     path("file", <<"gone">>), path("list", <<"one", "gone">>), path("list", <<"twice", "one">>),
     path("list", <<"one", "one">>), path("list", <<"two", "rooted", "one">>)}
    \cup {path("directory", fns) : fns \in {<<"one", "two">>, <<"two", "one">>, <<"two", "below">>}}

repository == {[files |-> files, paths |-> paths, payloads |-> payloads]}

Schemas == INSTANCE SchemaRepository WITH opt <- option, Options <- repository, MaxChecks <- 1

-----------------------------------------------------------------------------
\* What the theorems of XbrProofs take for granted.
ASSUME UserAssumption == Users \subseteq UserType /\ (Users = MCUsers => Alone /\ Ending)
ASSUME ModuleAssumption == Owners = MCOwners => Guarded

\* What is not looked at stays as it is.
anyMarket == CHOOSE o \in Options : TRUE
anyUser == CHOOSE o \in Users : TRUE
anyOwner == CHOOSE o \in Owners : TRUE
MarketOff == opt = anyMarket /\ Init
FilesOff == user = anyUser /\ FilesInit
ModuleOff == owner = anyOwner /\ ModuleInit
SchemasOff == option = None /\ repo = None /\ checked = None

MarketInit == part = "market" /\ Init /\ ModuleOff /\ FilesOff /\ SchemasOff

XbrInit ==
    \/ MarketInit
    \/ part = "module" /\ ModuleInit /\ MarketOff /\ FilesOff /\ SchemasOff
    \/ part = "files" /\ FilesInit /\ MarketOff /\ ModuleOff /\ SchemasOff
    \/ part = "schemas" /\ Schemas!Init /\ MarketOff /\ ModuleOff /\ FilesOff

XbrNext ==
    /\ \/ part = "market" /\ Next /\ UNCHANGED <<moduleVars, fileVars, schemaVars>>
       \/ part = "module" /\ ModuleNext /\ UNCHANGED <<vars, fileVars, schemaVars>>
       \/ part = "files" /\ FilesNext /\ UNCHANGED <<vars, moduleVars, schemaVars>>
       \/ part = "schemas" /\ Schemas!Next /\ UNCHANGED <<vars, moduleVars, fileVars>>
    /\ UNCHANGED part

xbrVars == <<part, vars, moduleVars, fileVars, schemaVars>>

XbrSpec == XbrInit /\ [][XbrNext]_xbrVars

\* A market alone, that goes on.
MarketSpec == MarketInit /\ [][XbrNext]_xbrVars /\ Fairness

-----------------------------------------------------------------------------
(* The property of schemas, when they are the part that runs; those of the  *)
(* others are their own.                                                   *)

\* Payloads pass exactly when they are of their type, and what was decided about
\* one stays so.
ValidatesExactly == part = "schemas" => Schemas!ValidatesExactly /\ Schemas!LoadingIsStable
=============================================================================
