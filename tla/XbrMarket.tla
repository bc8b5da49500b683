----------------------------- MODULE XbrMarket -----------------------------
(***************************************************************************)
(* A data market of XBR: a seller (autobahn/xbr/_seller.py with the key    *)
(* series of autobahn/twisted/xbr) rotates data encryption keys and offers *)
(* them to the market maker; a buyer (autobahn/xbr/_buyer.py) that         *)
(* receives encrypted data buys the key over a payment channel, the market *)
(* maker buys it from the seller over a paying channel.  A step is what    *)
(* one side does between two awaits.  The market maker is another program: *)
(* it is what the calls of the two sides and their checks make of it.      *)
(***************************************************************************)
EXTENDS Sequences, FiniteSets, Naturals, FiniteSetsExt

CONSTANTS
    Unwraps,      \* the calls of unwrap() there can be
    Options,      \* the markets considered: records, see OptionType
    None

OptionType ==
    [prices : Seq(Nat),          \* the APIs of the seller, in the order of add()
     max_price : Nat,            \* the most the buyer pays for a key
     funds : Nat,                \* what is in the payment channel at first
     keys : Nat,                 \* bound: keys minted in a series
     answers : SUBSET {"ok", "refused", "unavailable"},   \* to place_offer
     restarts : BOOLEAN,         \* the seller is stopped and started again
     loses : BOOLEAN,            \* the buyer loses its session, and starts again
     patient : BOOLEAN,          \* balances are told between purchases only
     eager : BOOLEAN]            \* data arrive although their key is not offered yet

ASSUME MarketAssumption == \A o \in Options : o \in OptionType /\ o.prices # <<>>

VARIABLES
    opt,
    seller,    \* the SimpleSeller, with its key series
    buyer,     \* the SimpleBuyer
    calls,     \* the calls of unwrap
    maker      \* the market maker: offers, the two channels, the purchase it makes

vars == <<opt, seller, buyer, calls, maker>>

Apis == DOMAIN opt.prices
Earnings == 9     \* what is in the paying channel at first, more than is ever sold
\* A key is the n-th of a series; ids are random, so they differ.
Keys == Apis \X (1..opt.keys)
keyOf(a) == <<a, seller.series[a].n>>
price(k) == opt.prices[k[1]]
complete(b) == {b.transactions[i].key : i \in {j \in DOMAIN b.transactions : b.transactions[j].paid}}

-----------------------------------------------------------------------------
(* The seller: a key series per API, rotated by a LoopingCall that waits   *)
(* for the offer to be answered.                                           *)

series0 == [n |-> 0, loop |-> "none", answer |-> "none"]
seller0 ==
    [state |-> "none", waits |-> "none", told |-> None, registered |-> FALSE, config |-> FALSE,
     seq |-> 0, balance |-> 0, series |-> [a \in Apis |-> series0], keys_map |-> {},
     wrapped |-> {}]

minted(s, a) == [n |-> s.series[a].n + 1, loop |-> "offering", answer |-> "none"]

\* Mutant: a key is for sale only once its offer is answered.
rotate_late(s, as) ==
    [s EXCEPT !.series = [a \in Apis |-> IF a \in as THEN minted(s, a) ELSE @[a]],
              !.keys_map = @ \cup {<<a, s.series[a].n>> : a \in as}]

\* A new key in each of the series, for sale at once; its offer is on the way.
rotate(s, as) ==
    [s EXCEPT !.series = [a \in Apis |-> IF a \in as THEN minted(s, a) ELSE @[a]],
              !.keys_map = @ \cup {<<a, s.series[a].n + 1>> : a \in as}]

SellerStart ==
    /\ seller.state \in {"none", "stopped"}
    /\ \A a \in Apis : seller.series[a].n < opt.keys
    /\ seller' = [seller EXCEPT !.state = "starting", !.waits = "channel"]
    /\ UNCHANGED <<opt, buyer, calls, maker>>

\* The calls that start() makes are answered, one after the other.  A seller
\* whose start fails stays STARTING.
SellerStarts ==
    /\ \/ /\ seller.waits = "channel"
          /\ \E found \in BOOLEAN :
                seller' = [seller EXCEPT !.waits = IF found THEN "sell" ELSE "none"]
       \/ /\ seller.waits = "sell"
          /\ seller' = [seller EXCEPT !.waits = "close_channel", !.registered = TRUE]
       \/ /\ seller.waits = "close_channel"
          /\ seller' = [rotate(seller, Apis) EXCEPT !.waits = "config"]
       \/ /\ seller.waits = "config"
          /\ seller' = [seller EXCEPT !.waits = "balance", !.config = TRUE]
       \/ /\ seller.waits = "told"
          /\ seller.told.remaining > 0
          /\ seller' = [seller EXCEPT !.waits = "none", !.state = "started", !.told = None,
                                      !.seq = seller.told.seq, !.balance = seller.told.remaining]
       \/ /\ seller.waits = "told"
          /\ seller.told.remaining = 0
          /\ seller' = [seller EXCEPT !.waits = "none", !.told = None]
    /\ UNCHANGED <<opt, buyer, calls, maker>>

\* The timer of a series: the loop waited for the previous offer.
RotationDue(a) ==
    /\ seller.series[a].loop = "timer"
    /\ seller.series[a].n < opt.keys
    /\ seller' = rotate(seller, {a})
    /\ UNCHANGED <<opt, buyer, calls, maker>>

\* What becomes of the loop when on_rotate returns, or raises: before a retry it
\* awaits asyncio.sleep, which Twisted's reactor does not run.
afterOffer(loop, answer) ==
    IF loop = "ending" THEN "none" ELSE IF answer = "unavailable" THEN "broken" ELSE "timer"

OfferAnswered(a) ==
    /\ seller.series[a].answer # "none"
    /\ seller' = [seller EXCEPT !.series[a].answer = "none",
                                !.series[a].loop = afterOffer(@, seller.series[a].answer)]
    /\ UNCHANGED <<opt, buyer, calls, maker>>

\* KeySeries.stop(), for a loop that runs.
stopped(loop) == IF loop = "offering" THEN "ending" ELSE "none"

\* stop(): the first loop that has broken raises, with the seller STOPPING for good.
SellerStop ==
    LET broken == {a \in Apis : seller.series[a].loop = "broken"} IN
    /\ opt.restarts
    /\ seller.state = "started"
    /\ seller' =
          [seller EXCEPT
             !.state = "stopping",
             !.waits = IF broken = {} THEN "stop" ELSE "none",
             !.registered = broken # {},
             !.series = [a \in Apis |-> IF \A b \in broken : a < b
                                        THEN [seller.series[a] EXCEPT !.loop = stopped(@)]
                                        ELSE seller.series[a]]]
    /\ UNCHANGED <<opt, buyer, calls, maker>>

\* gather(): the loops have ended.
SellerStopped ==
    /\ seller.waits = "stop"
    /\ \A a \in Apis : seller.series[a].loop = "none"
    /\ seller' = [seller EXCEPT !.state = "stopped", !.waits = "none"]
    /\ UNCHANGED <<opt, buyer, calls, maker>>

\* wrap(): with the key there is at the moment, in whatever state the seller is.
Wrap(a) ==
    /\ seller.series[a].n > 0
    /\ seller' = [seller EXCEPT !.wrapped = @ \cup {keyOf(a)}]
    /\ UNCHANGED <<opt, buyer, calls, maker>>

\* sell(): what a purchase of the market maker is answered.
sellAnswer(d) ==
    CASE ~seller.registered -> "no_such_procedure"
      [] d.key \notin seller.keys_map -> "no_such_object"
      [] d.seq # seller.seq + 1 -> "unexpected_channel_seq"
      [] d.balance # seller.balance - price(d.key) -> "unexpected_channel_balance"
      [] ~seller.config -> "error"
      [] OTHER -> "sealed"

SellerSells ==
    /\ maker.deal # None /\ maker.deal.answer = "none"
    /\ seller.waits # "told"      \* answers and calls arrive in the order they were sent
    /\ LET answer == sellAnswer(maker.deal) IN
       /\ maker' = [maker EXCEPT !.deal.answer = answer]
       /\ seller' = IF answer = "sealed"
                    THEN [seller EXCEPT !.seq = @ + 1, !.balance = @ - price(maker.deal.key)]
                    ELSE seller
    /\ UNCHANGED <<opt, buyer, calls>>

-----------------------------------------------------------------------------
(* The market maker.                                                       *)

maker0 ==
    [offers |-> {}, pay |-> [seq |-> 0, remaining |-> opt.funds],
     earn |-> [seq |-> 0, remaining |-> Earnings], open |-> TRUE, deal |-> None, ledger |-> <<>>]

MakerTakesOffer(a) ==
    /\ seller.series[a].loop \in {"offering", "ending"} /\ seller.series[a].answer = "none"
    /\ \E answer \in opt.answers :
          /\ seller' = [seller EXCEPT !.series[a].answer = answer]
          /\ maker' = IF answer = "ok" THEN [maker EXCEPT !.offers = @ \cup {keyOf(a)}] ELSE maker
    /\ UNCHANGED <<opt, buyer, calls>>

\* get_paying_channel_balance: what has been settled; a sale that is under way is
\* not, and overtakes the answer, unless the market maker waits for it.
MakerTellsSeller ==
    /\ seller.waits = "balance"
    /\ maker.deal # None => ~opt.patient /\ maker.deal.answer # "none"
    /\ seller' = [seller EXCEPT !.waits = "told", !.told = maker.earn]
    /\ UNCHANGED <<opt, buyer, calls, maker>>

MakerTellsBuyer ==
    /\ buyer.state = "starting"
    /\ opt.patient => maker.deal = None /\ \A u \in Unwraps : ~calls[u].asked
    /\ buyer' = [buyer EXCEPT !.state = "told", !.told = maker.pay]
    /\ UNCHANGED <<opt, seller, calls, maker>>

MakerQuotes(u) ==
    /\ calls[u].at = "quote"
    /\ calls' = [calls EXCEPT ![u].at =
                    IF calls[u].key \in maker.offers THEN "quoted" ELSE "refused"]
    /\ UNCHANGED <<opt, seller, buyer, maker>>

\* buy_key: one purchase at a time; the buyer's next transaction, or none.
MakerTakesPurchase(u) ==
    /\ calls[u].asked /\ maker.deal = None
    /\ IF /\ maker.open
          /\ calls[u].seq = maker.pay.seq + 1
          /\ calls[u].balance = maker.pay.remaining - price(calls[u].key)
       THEN /\ maker' = [maker EXCEPT !.deal =
                           [call |-> u, key |-> calls[u].key, seq |-> maker.earn.seq + 1,
                            balance |-> maker.earn.remaining - price(calls[u].key),
                            answer |-> "none"]]
            /\ calls' = [calls EXCEPT ![u].asked = FALSE]
       ELSE /\ maker' = maker
            /\ calls' = [calls EXCEPT ![u].asked = FALSE,
                                      ![u].at = IF @ = "buy" THEN "refused" ELSE @]
    /\ UNCHANGED <<opt, seller, buyer>>

MakerSettles ==
    LET d == maker.deal  u == d.call IN
    /\ d # None /\ d.answer # "none"
    /\ IF d.answer = "sealed"
       THEN maker' = [maker EXCEPT
                        !.deal = None, !.ledger = Append(@, d.key),
                        !.earn = [seq |-> d.seq, remaining |-> d.balance],
                        !.pay = [seq |-> @.seq + 1, remaining |-> @.remaining - price(d.key)]]
       ELSE maker' = [maker EXCEPT !.deal = None]
    /\ calls' = [calls EXCEPT ![u].at =
                    IF @ # "buy" THEN @ ELSE IF d.answer = "sealed" THEN "receipt" ELSE "refused"]
    /\ UNCHANGED <<opt, seller, buyer>>

MakerCloses(u) ==
    /\ calls[u].at = "close"
    /\ maker' = [maker EXCEPT !.open = FALSE]
    /\ calls' = [calls EXCEPT ![u].at = "closed"]
    /\ UNCHANGED <<opt, seller, buyer>>

-----------------------------------------------------------------------------
(* The buyer.  keys: a key is being bought, bought, or its purchase failed *)
(* with an exception that is kept and raised again.                        *)

buyer0 ==
    [state |-> "none", told |-> None, seq |-> 0, balance |-> 0, keys |-> <<>>,
     transactions |-> <<>>, hung |-> FALSE]
call0 == [at |-> "idle", key |-> None, seq |-> 0, balance |-> 0, asked |-> FALSE]

setKey(b, k, v) ==
    [b EXCEPT !.keys = [j \in DOMAIN @ \cup {k} |-> IF j = k THEN v ELSE @[j]]]

BuyerStart ==
    /\ buyer.state \in {"none", "lost"}
    /\ buyer' = [buyer EXCEPT !.state = "starting"]
    /\ UNCHANGED <<opt, seller, calls, maker>>

BuyerStarted ==
    /\ buyer.state = "told"
    /\ buyer' = IF buyer.told.remaining > 0
                THEN [buyer EXCEPT !.state = "started", !.told = None,
                                   !.seq = buyer.told.seq, !.balance = buyer.told.remaining]
                ELSE [buyer EXCEPT !.state = "failed", !.told = None]
    /\ UNCHANGED <<opt, seller, calls, maker>>

\* Who comes first buys the key, the others wait.
Unwrap(u) ==
    /\ calls[u].at = "idle" /\ buyer.state = "started" /\ ~buyer.hung
    /\ \E k \in seller.wrapped :
          /\ opt.eager \/ k \in maker.offers
          /\ IF k \in DOMAIN buyer.keys
             THEN /\ calls' = [calls EXCEPT ![u].at = "wait", ![u].key = k]
                  /\ buyer' = buyer
             ELSE /\ calls' = [calls EXCEPT ![u].at = "quote", ![u].key = k]
                  /\ buyer' = setKey(buyer, k, "buying")
    /\ UNCHANGED <<opt, seller, maker>>

\* past_transactions(), with its defaults: it looks at one transaction, the first
\* (the index is -0), and never gets past it when it is not complete.
past_transactions(b) ==
    IF b.transactions = <<>> THEN "none" ELSE IF b.transactions[1].paid THEN "one" ELSE "loops"

\* Mutant: the transaction counts before the market maker has confirmed it.
signed_counted(b, u) ==
    [b EXCEPT !.seq = @ + 1,
              !.transactions = Append(@, [key |-> calls[u].key, seq |-> b.seq + 1, paid |-> FALSE])]

\* _save_transaction_phase1, with the next number of the channel.
signed(b, u) ==
    [b EXCEPT !.transactions =
        Append(@, [key |-> calls[u].key, seq |-> b.seq + 1, paid |-> FALSE])]

\* The price has come: too high, affordable, or more than there is left; then
\* the channel is closed if anything was bought over it.
Quoted(u) ==
    LET amount == price(calls[u].key) IN
    /\ calls[u].at = "quoted" /\ ~buyer.hung
    /\ \/ /\ amount > opt.max_price
          /\ calls' = [calls EXCEPT ![u].at = "raised"]
          /\ buyer' = buyer
       \/ /\ amount <= opt.max_price /\ amount <= buyer.balance
          /\ buyer' = signed(buyer, u)
          /\ calls' = [calls EXCEPT ![u].at = "buy", ![u].asked = TRUE, ![u].seq = buyer.seq + 1,
                                    ![u].balance = buyer.balance - amount]
       \/ /\ amount <= opt.max_price /\ amount > buyer.balance
          /\ LET past == past_transactions(buyer) IN
             /\ buyer' = [buyer EXCEPT !.hung = past = "loops"]
             /\ calls' = [calls EXCEPT ![u].at =
                             CASE past = "one" -> "close" [] past = "none" -> "raised"
                               [] OTHER -> @]
    /\ UNCHANGED <<opt, seller, maker>>

\* An ApplicationError is raised on, and the key stays "being bought"; so it is
\* when the channel was closed.
Refused(u) ==
    /\ calls[u].at \in {"refused", "closed"} /\ ~buyer.hung
    /\ calls' = [calls EXCEPT ![u].at = "raised"]
    /\ UNCHANGED <<opt, seller, buyer, maker>>

\* Mutant: the balance is left as it was.
paid_unbalanced(b, u) ==
    [setKey(b, calls[u].key, "key") EXCEPT
        !.seq = calls[u].seq,
        !.transactions = [i \in DOMAIN @ |-> IF @[i].key = calls[u].key
                                             THEN [@[i] EXCEPT !.paid = TRUE] ELSE @[i]]]

\* _save_transaction_phase2; the key is unsealed and kept.
paid(b, u) ==
    [setKey(b, calls[u].key, "key") EXCEPT
        !.seq = calls[u].seq, !.balance = calls[u].balance,
        !.transactions = [i \in DOMAIN @ |-> IF @[i].key = calls[u].key
                                             THEN [@[i] EXCEPT !.paid = TRUE] ELSE @[i]]]

\* The receipt: it is checked against what the buyer knows of the channel now.
Received(u) ==
    /\ calls[u].at = "receipt" /\ ~buyer.hung /\ buyer.state # "told"
    /\ IF /\ calls[u].seq = buyer.seq + 1
          /\ calls[u].balance = buyer.balance - price(calls[u].key)
       THEN /\ buyer' = paid(buyer, u)
            /\ calls' = [calls EXCEPT ![u].at = "done"]
       ELSE /\ buyer' = buyer
            /\ calls' = [calls EXCEPT ![u].at = "raised"]
    /\ UNCHANGED <<opt, seller, maker>>

\* The loop around sleep(.2).
Woken(u) ==
    /\ calls[u].at = "wait" /\ ~buyer.hung
    /\ buyer.keys[calls[u].key] # "buying"
    /\ calls' = [calls EXCEPT ![u].at =
                    IF buyer.keys[calls[u].key] = "key" THEN "done" ELSE "raised"]
    /\ UNCHANGED <<opt, seller, buyer, maker>>

\* Every call under way fails with TransportLost; of a purchase the buyer keeps
\* the exception.  The application stops the buyer and starts it again.
BuyerLosesSession ==
    LET on == {u \in Unwraps : calls[u].at \in {"quote", "quoted", "refused", "close", "closed",
                                                "buy", "receipt"}}
        bought == {calls[u].key : u \in {v \in on : calls[v].seq > 0}} IN
    /\ opt.loses
    /\ buyer.state = "started" /\ ~buyer.hung
    /\ calls' = [u \in Unwraps |-> IF u \in on THEN [calls[u] EXCEPT !.at = "raised"] ELSE calls[u]]
    /\ buyer' = [buyer EXCEPT !.state = "lost",
                              !.keys = [k \in DOMAIN @ |-> IF k \in bought THEN "failed" ELSE @[k]]]
    /\ UNCHANGED <<opt, seller, maker>>

-----------------------------------------------------------------------------
Init ==
    /\ opt \in Options
    /\ seller = seller0
    /\ buyer = buyer0
    /\ calls = [u \in Unwraps |-> call0]
    /\ maker = maker0

SellerNext ==
    \/ SellerStart \/ SellerStarts \/ SellerStop \/ SellerStopped \/ SellerSells
    \/ \E a \in Apis : RotationDue(a) \/ OfferAnswered(a) \/ Wrap(a)

BuyerNext ==
    \/ BuyerStart \/ BuyerStarted \/ BuyerLosesSession
    \/ \E u \in Unwraps : Unwrap(u) \/ Quoted(u) \/ Refused(u) \/ Received(u) \/ Woken(u)

MakerNext ==
    \/ MakerTellsSeller \/ MakerTellsBuyer \/ MakerSettles
    \/ \E a \in Apis : MakerTakesOffer(a)
    \/ \E u \in Unwraps : MakerQuotes(u) \/ MakerTakesPurchase(u) \/ MakerCloses(u)

Next == SellerNext \/ BuyerNext \/ MakerNext

\* Everyone gets on with what is under way; nothing makes the applications act.
Fairness ==
    /\ WF_vars(SellerSells) /\ WF_vars(MakerSettles)
    /\ \A u \in Unwraps :
          /\ WF_vars(MakerQuotes(u)) /\ WF_vars(MakerTakesPurchase(u)) /\ WF_vars(MakerCloses(u))
          /\ WF_vars(Quoted(u)) /\ WF_vars(Refused(u)) /\ WF_vars(Received(u)) /\ WF_vars(Woken(u))

Spec == Init /\ [][Next]_vars
FairSpec == Spec /\ Fairness

-----------------------------------------------------------------------------
(* Properties.                                                             *)

idle == maker.deal = None /\ \A u \in Unwraps : calls[u].at # "receipt"

\* Between two purchases the three sides agree on both channels: what the buyer
\* has left and the number of its transactions are what the market maker holds
\* of it (_buyer.py:446-455), what the seller may still earn likewise
\* (_seller.py:646-675).  A buyer whose session went away knows again when it has
\* started again.
ChannelsAgree ==
    idle =>
        /\ buyer.state = "started" =>
              buyer.seq = maker.pay.seq /\ buyer.balance = maker.pay.remaining
        /\ seller.state = "started" =>
              seller.seq = maker.earn.seq /\ seller.balance = maker.earn.remaining

\* What was settled was paid once, and is of use: the key is in the buyer's
\* store and its transaction is complete, or the receipt is on the way, or the
\* session went away with it.  The market maker has nothing settled that the
\* buyer's own record of transactions does not have (_buyer.py:518-576).
PaidIsUsable ==
    /\ \A i, j \in DOMAIN maker.ledger : maker.ledger[i] = maker.ledger[j] => i = j
    /\ complete(buyer) \subseteq {maker.ledger[i] : i \in DOMAIN maker.ledger}
    /\ \A i \in DOMAIN maker.ledger :
          LET k == maker.ledger[i] IN
          \/ buyer.keys[k] = "key" /\ k \in complete(buyer)
          \/ buyer.keys[k] = "failed"
          \/ \E u \in Unwraps : calls[u].at = "receipt" /\ calls[u].key = k

\* A key that the market maker offers is one the seller sells: the purchase may
\* come before the offer is answered, and after the series has rotated on
\* (_seller.py:303-305, 634-637).
OfferedIsSellable == maker.deal # None => maker.deal.answer # "no_such_object"

\* A seller that has stopped is quiet: no offer of it is on the way, no series
\* rotates and no procedure of it is registered (_seller.py:433-462).
StoppedIsQuiet ==
    seller.state = "stopped" =>
        /\ ~seller.registered
        /\ \A a \in Apis : seller.series[a].loop = "none" /\ seller.series[a].answer = "none"

\* Who offers a key sells it, and who has stopped offers none.
SellerKeepsItsWord == OfferedIsSellable /\ StoppedIsQuiet

\* "if the key is already being bought, wait until the one buying path of
\* execution has succeeded and done", "check if the key buying failed and fail
\* the unwrapping in turn" (_buyer.py:486, 495): who waits gets the key or the
\* failure.
WaitersEnd == \A u \in Unwraps : calls[u].at = "wait" ~> calls[u].at \in {"done", "raised"}
=============================================================================
