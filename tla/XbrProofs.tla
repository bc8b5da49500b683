----------------------------- MODULE XbrProofs -----------------------------
(***************************************************************************)
(* Proofs about the data market, about the files its members keep their    *)
(* keys and profiles in, and about what they sign with the keys of a       *)
(* security module.                                                        *)
(*                                                                         *)
(* Of the market: what seller, buyer and market maker know of the two      *)
(* channels agrees, what was paid for is of use, and the seller keeps its  *)
(* word.  Of the files: a key that was handed out is the user's for good,  *)
(* both files have it, and profiles are loaded as they were saved,         *)
(* wherever the program ends and whatever the user does to the public      *)
(* file, for any number of starts and changes and any profiles.  Of        *)
(* signatures: each is of one key and one message, for all typed data.     *)
(***************************************************************************)
EXTENDS XbrMarket, KeyFiles, SecurityModule, FiniteSetTheorems, TLAPS

-----------------------------------------------------------------------------
(* The market.                                                             *)

SellerFields ==
    {"state", "waits", "told", "registered", "config", "seq", "balance", "series", "keys_map", "wrapped"}
BuyerFields == {"state", "told", "seq", "balance", "keys", "transactions", "hung"}
CallFields == {"at", "key", "seq", "balance", "asked"}
MakerFields == {"offers", "pay", "earn", "open", "deal", "ledger"}

Deal(call, key, seq, balance, answer) ==
    [call |-> call, key |-> key, seq |-> seq, balance |-> balance, answer |-> answer]

\* None is no purchase.
NoneIsApart == \A call, key, seq, balance, answer : None # Deal(call, key, seq, balance, answer)

\* The market maker tells balances between purchases only.
Patient == \A o \in Options : o.patient

-----------------------------------------------------------------------------
(* The inductive invariant, in parts.                                      *)

Shaped ==
    /\ opt \in Options
    /\ DOMAIN seller = SellerFields /\ DOMAIN seller.series = Apis
    /\ \A a \in Apis : DOMAIN seller.series[a] = {"n", "loop", "answer"} /\ seller.series[a].n \in Nat
    /\ DOMAIN buyer = BuyerFields /\ buyer.transactions \in Seq([key : Apis \X Nat, seq : Nat, paid : BOOLEAN])
    /\ DOMAIN calls = Unwraps /\ \A u \in Unwraps : DOMAIN calls[u] = CallFields
    /\ DOMAIN maker = MakerFields

\* A purchase is of a call that has asked for it, and is the next transaction of
\* both channels.
Dealt ==
    maker.deal # None =>
        LET d == maker.deal  u == d.call IN
        /\ d = Deal(d.call, d.key, d.seq, d.balance, d.answer)
        /\ u \in Unwraps /\ calls[u].key = d.key /\ ~calls[u].asked /\ calls[u].at \in {"buy", "raised"}
        /\ calls[u].seq = maker.pay.seq + 1
        /\ calls[u].balance = maker.pay.remaining - price(d.key)
        /\ d.seq = maker.earn.seq + 1
        /\ d.balance = maker.earn.remaining - price(d.key)

\* Every key that data are wrapped with, that is bought and dealt with is for sale.
Stocked ==
    /\ \A a \in Apis : seller.series[a].n > 0 => keyOf(a) \in seller.keys_map
    /\ seller.keys_map \subseteq Apis \X Nat
    /\ seller.wrapped \subseteq seller.keys_map
    /\ \A u \in Unwraps : calls[u].at # "idle" => calls[u].key \in seller.keys_map
    /\ maker.deal # None => maker.deal.answer # "no_such_object"

\* An offer is on its way for a loop that waits for it; a seller that stops has
\* stopped its loops.
Stopping ==
    /\ \A a \in Apis :
          seller.series[a].answer # "none" => seller.series[a].loop \in {"offering", "ending"}
    /\ seller.state \in {"none", "starting", "started", "stopping", "stopped"}
    /\ seller.state \in {"none", "started", "stopped"} => seller.waits = "none"
    /\ seller.state # "stopping" => \A a \in Apis : seller.series[a].loop # "ending"
    /\ seller.waits = "stop" =>
          /\ seller.state = "stopping" /\ ~seller.registered
          /\ \A a \in Apis : seller.series[a].loop \in {"none", "ending"}
    /\ seller.state = "stopping" => seller.waits \in {"none", "stop"}
    /\ seller.state = "stopped" =>
          /\ ~seller.registered
          /\ \A a \in Apis : seller.series[a].loop = "none" /\ seller.series[a].answer = "none"

sealed == maker.deal # None /\ maker.deal.answer = "sealed"

\* The seller knows the paying channel; a sale it has sealed counts already.
Earning ==
    /\ seller.waits = "told" => ~sealed /\ seller.told = maker.earn
    /\ seller.state = "started" =>
          IF sealed THEN seller.seq = maker.deal.seq /\ seller.balance = maker.deal.balance
          ELSE seller.seq = maker.earn.seq /\ seller.balance = maker.earn.remaining

Active == {"quote", "quoted", "refused", "close", "closed", "buy", "receipt"}

\* Calls of unwrap: a purchase is asked for and answered once.
Calling ==
    \A u \in Unwraps :
        /\ calls[u].at \in Active => buyer.state = "started"
        /\ calls[u].seq \in Nat
        /\ calls[u].asked => calls[u].at \in {"buy", "raised"}
        /\ calls[u].at = "buy" => calls[u].asked \/ (maker.deal # None /\ maker.deal.call = u)
        /\ calls[u].at \in {"buy", "receipt"} \/ calls[u].asked => calls[u].seq > 0
        /\ calls[u].at \in {"idle", "wait", "quote", "quoted", "close", "closed"} => calls[u].seq = 0

\* The buyer knows the payment channel; only the receipt of one purchase may still
\* be on its way, and of no other purchase anything comes.
Paying ==
    /\ maker.pay.seq \in Nat
    /\ buyer.state = "told" =>
          /\ buyer.told = maker.pay /\ maker.deal = None
          /\ \A u \in Unwraps : ~calls[u].asked
    /\ buyer.state = "started" =>
          /\ \A u \in Unwraps :
                /\ calls[u].asked => calls[u].at = "buy"
                /\ calls[u].at \in {"buy", "receipt"} => calls[u].seq <= buyer.seq + 1
          /\ maker.deal # None => calls[maker.deal.call].at = "buy"
          /\ \/ /\ buyer.seq = maker.pay.seq /\ buyer.balance = maker.pay.remaining
                /\ \A u \in Unwraps : calls[u].at # "receipt"
             \/ /\ buyer.seq \in Nat /\ maker.pay.seq = buyer.seq + 1
                /\ \E u \in Unwraps :
                      /\ calls[u].at = "receipt" /\ calls[u].seq = buyer.seq + 1
                      /\ calls[u].balance = buyer.balance - price(calls[u].key)
                      /\ calls[u].balance = maker.pay.remaining
                      /\ \A v \in Unwraps : calls[v].at = "receipt" => v = u

\* Who has a key to buy.
Buys(u) == calls[u].seq > 0 \/ calls[u].at \in {"quote", "quoted"}
dealing(u) == maker.deal # None /\ maker.deal.call = u
settled(k) == \E i \in DOMAIN maker.ledger : maker.ledger[i] = k

\* One call buys a key; its transaction is kept, and what became of it is on record.
Bought ==
    /\ \A u \in Unwraps : Buys(u) => calls[u].key \in DOMAIN buyer.keys
    /\ \A u, v \in Unwraps : Buys(u) /\ Buys(v) /\ calls[u].key = calls[v].key => u = v
    /\ \A u \in Unwraps :
          calls[u].seq > 0 =>
              /\ \E i \in DOMAIN buyer.transactions : buyer.transactions[i].key = calls[u].key
              /\ calls[u].asked \/ dealing(u) \/ calls[u].at = "refused" => ~settled(calls[u].key)
              /\ calls[u].at = "receipt" => settled(calls[u].key)
              /\ calls[u].at = "done" =>
                    buyer.keys[calls[u].key] = "key" /\ calls[u].key \in complete(buyer)
              /\ calls[u].at = "raised" /\ (calls[u].asked \/ dealing(u) \/ settled(calls[u].key)) =>
                    buyer.keys[calls[u].key] = "failed"

\* What is settled was bought by a call that is done with buying.
Settled ==
    /\ maker.ledger \in Seq(Apis \X Nat)
    /\ \A i, j \in DOMAIN maker.ledger : maker.ledger[i] = maker.ledger[j] => i = j
    /\ \A i \in DOMAIN maker.ledger : \E u \in Unwraps :
          calls[u].seq > 0 /\ calls[u].key = maker.ledger[i] /\ calls[u].at \in {"receipt", "done", "raised"}
    /\ \A k \in complete(buyer) : settled(k)

Inv ==
    /\ Shaped /\ Dealt /\ Stocked /\ Stopping /\ Earning /\ Calling /\ Paying /\ Bought /\ Settled

-----------------------------------------------------------------------------
(* What an action leaves alone.                                            *)

LEMMA SellerOnly ==
    ASSUME Inv, UNCHANGED <<opt, buyer, calls, maker>>
    PROVE  Dealt' /\ Calling' /\ Paying' /\ Bought' /\ Settled'
<1>1. Dealt'
  BY DEF Inv, Dealt, price
<1>2. Calling'
  BY DEF Inv, Calling
<1>3. Paying'
  BY DEF Inv, Paying, price
<1>4. Bought'
  BY DEF Inv, Bought, Buys, dealing, settled, complete
<1>5. Settled'
  BY DEF Inv, Settled, settled, complete, Apis
<1> QED
  BY <1>1, <1>2, <1>3, <1>4, <1>5

LEMMA SellerFrame ==
    ASSUME Inv, UNCHANGED <<opt, seller>>
    PROVE  /\ Stopping'
           /\ Apis' = Apis /\ \A a \in Apis : keyOf(a)' = keyOf(a)
BY DEF Inv, Stopping, Apis, keyOf

-----------------------------------------------------------------------------
(* The seller.                                                             *)

\* A seller of which only where it is in its start changes.
LEMMA SellerMoves ==
    ASSUME Inv, UNCHANGED <<opt, buyer, calls, maker>>, DOMAIN seller' = SellerFields,
           seller'.series = seller.series, seller'.keys_map = seller.keys_map,
           seller'.wrapped = seller.wrapped
    PROVE  Shaped' /\ Stocked'
BY DEF Inv, Shaped, Stocked, Apis, keyOf

LEMMA SellerStartKeeps ==
    ASSUME Inv, SellerStart
    PROVE  Inv'
<1>1. /\ DOMAIN seller' = SellerFields /\ seller'.series = seller.series
      /\ seller'.keys_map = seller.keys_map /\ seller'.wrapped = seller.wrapped
      /\ seller'.state = "starting" /\ seller'.waits = "channel" /\ seller'.registered = seller.registered
      /\ seller.state \in {"none", "stopped"}
      /\ UNCHANGED <<opt, buyer, calls, maker>>
  BY DEF Inv, Shaped, SellerFields, SellerStart
<1>2. Shaped' /\ Stocked'
  BY <1>1, SellerMoves
<1>3. Stopping'
  BY <1>1 DEF Inv, Stopping, Apis
<1>4. Earning'
  BY <1>1 DEF Earning
<1> QED
  BY <1>1, <1>2, <1>3, <1>4, SellerOnly DEF Inv

\* A new key is minted in some of the series.
LEMMA Rotates ==
    ASSUME Inv, NEW as \in SUBSET Apis
    PROVE  LET s == rotate(seller, as)
           IN  /\ DOMAIN s = SellerFields /\ DOMAIN s.series = Apis
               /\ \A a \in Apis : s.series[a] = IF a \in as THEN minted(seller, a) ELSE seller.series[a]
               /\ s.keys_map = seller.keys_map \cup {<<a, seller.series[a].n + 1>> : a \in as}
               /\ s.wrapped = seller.wrapped /\ s.state = seller.state /\ s.waits = seller.waits
               /\ s.registered = seller.registered /\ s.told = seller.told
               /\ s.seq = seller.seq /\ s.balance = seller.balance
BY DEF Inv, Shaped, SellerFields, rotate

\* The next seller has new keys, and waits for something else or not.
LEMMA RotatedKeeps ==
    ASSUME Inv, NEW as \in SUBSET Apis, UNCHANGED <<opt, buyer, calls, maker>>,
           DOMAIN seller' = SellerFields,
           seller'.series = rotate(seller, as).series,
           seller'.keys_map = rotate(seller, as).keys_map, seller'.wrapped = seller.wrapped
    PROVE  Shaped' /\ Stocked'
<1>1. /\ DOMAIN seller'.series = Apis /\ Apis' = Apis
      /\ \A a \in Apis : seller'.series[a] = IF a \in as THEN minted(seller, a) ELSE seller.series[a]
      /\ seller'.keys_map = seller.keys_map \cup {<<a, seller.series[a].n + 1>> : a \in as}
  <2> DEFINE q == rotate(seller, as)
  <2>1. /\ DOMAIN q.series = Apis
        /\ \A a \in Apis : q.series[a] = IF a \in as THEN minted(seller, a) ELSE seller.series[a]
        /\ q.keys_map = seller.keys_map \cup {<<a, seller.series[a].n + 1>> : a \in as}
    BY Rotates
  <2>2. seller'.series = q.series /\ seller'.keys_map = q.keys_map
    OBVIOUS
  <2>3. Apis' = Apis
    BY DEF Apis
  <2> HIDE DEF q
  <2> QED
    BY <2>1, <2>2, <2>3
<1>2. \A a \in Apis : /\ DOMAIN minted(seller, a) = {"n", "loop", "answer"}
                      /\ minted(seller, a).n = seller.series[a].n + 1
  BY DEF minted
<1>3. ASSUME NEW a \in Apis
      PROVE  seller'.series[a].n \in Nat /\ DOMAIN seller'.series[a] = {"n", "loop", "answer"}
  <2>1. seller.series[a].n \in Nat /\ DOMAIN seller.series[a] = {"n", "loop", "answer"}
    BY DEF Inv, Shaped
  <2>2. seller'.series[a] = minted(seller, a) \/ seller'.series[a] = seller.series[a]
    BY <1>1
  <2>3. CASE seller'.series[a] = minted(seller, a)
    BY <2>1, <2>3 DEF minted
  <2>4. CASE seller'.series[a] = seller.series[a]
    BY <2>1, <2>4
  <2> QED
    BY <2>2, <2>3, <2>4
<1>4. Shaped'
  BY <1>1, <1>3 DEF Inv, Shaped
<1>5. ASSUME NEW a \in Apis, seller'.series[a].n > 0
      PROVE  <<a, seller'.series[a].n>> \in seller'.keys_map
  <2>1. CASE a \in as
    <3>1. seller'.series[a].n = seller.series[a].n + 1
      BY <1>1, <1>2, <2>1
    <3>2. <<a, seller.series[a].n + 1>> \in seller'.keys_map
      BY <1>1, <2>1
    <3> QED
      BY <3>1, <3>2
  <2>2. CASE a \notin as
    BY <1>1, <1>5, <2>2 DEF Inv, Stocked, keyOf
  <2> QED
    BY <2>1, <2>2
<1>6. seller'.keys_map \subseteq Apis \X Nat
  <2>1. ASSUME NEW a \in as PROVE <<a, seller.series[a].n + 1>> \in Apis \X Nat
    <3>1. a \in Apis /\ seller.series[a].n \in Nat
      BY DEF Inv, Shaped
    <3> QED
      BY <3>1
  <2>2. {<<a, seller.series[a].n + 1>> : a \in as} \subseteq Apis \X Nat
    BY <2>1
  <2>3. seller.keys_map \subseteq Apis \X Nat
    BY DEF Inv, Stocked
  <2> QED
    BY <1>1, <2>2, <2>3
<1>7. Stocked'
  BY <1>1, <1>5, <1>6 DEF Inv, Stocked, keyOf
<1> QED
  BY <1>4, <1>7

LEMMA SellerStartsKeeps ==
    ASSUME Inv, SellerStarts
    PROVE  Inv'
<1>0. /\ UNCHANGED <<opt, buyer, calls, maker>> /\ DOMAIN seller = SellerFields
      /\ seller.state = "starting" /\ seller.waits # "stop"
  BY DEF Inv, Shaped, Stopping, SellerStarts
<1>1. CASE seller.waits = "close_channel"
  <2> DEFINE s == rotate(seller, Apis)
  <2>1. seller' = [s EXCEPT !.waits = "config"]
    BY <1>1 DEF SellerStarts
  <2>2. /\ DOMAIN s = SellerFields /\ s.wrapped = seller.wrapped /\ s.state = seller.state
        /\ \A a \in Apis : s.series[a] = minted(seller, a)
    BY Rotates
  <2> HIDE DEF s
  <2>3. /\ DOMAIN seller' = SellerFields /\ seller'.series = s.series /\ seller'.keys_map = s.keys_map
        /\ seller'.wrapped = seller.wrapped /\ seller'.state = "starting" /\ seller'.waits = "config"
    BY <1>0, <2>1, <2>2 DEF SellerFields
  <2>4. Shaped' /\ Stocked'
    BY <1>0, <2>3, RotatedKeeps DEF s
  <2>5. ASSUME NEW a \in Apis
        PROVE  seller'.series[a].loop = "offering" /\ seller'.series[a].answer = "none"
    <3>1. seller'.series[a] = minted(seller, a)
      BY <2>2, <2>3
    <3> QED
      BY <3>1 DEF minted
  <2>6. Stopping'
    BY <1>0, <2>3, <2>5 DEF Stopping, Apis
  <2>7. Earning'
    BY <2>3 DEF Earning
  <2> QED
    BY <1>0, <2>4, <2>6, <2>7, SellerOnly DEF Inv
<1>2. CASE seller.waits # "close_channel"
  <2>1. /\ DOMAIN seller' = SellerFields /\ seller'.series = seller.series
        /\ seller'.keys_map = seller.keys_map /\ seller'.wrapped = seller.wrapped
        /\ seller'.waits \in {"none", "sell", "close_channel", "balance"}
        /\ \/ seller'.state = "starting"
           \/ /\ seller'.state = "started" /\ seller.waits = "told" /\ seller'.waits = "none"
              /\ seller'.seq = seller.told.seq /\ seller'.balance = seller.told.remaining
    <3>1. \/ \E w \in {"sell", "none", "close_channel"} : seller' = [seller EXCEPT !.waits = w]
          \/ seller' = [seller EXCEPT !.waits = "close_channel", !.registered = TRUE]
          \/ seller' = [seller EXCEPT !.waits = "balance", !.config = TRUE]
          \/ /\ seller.waits = "told"
             /\ seller' = [seller EXCEPT !.waits = "none", !.state = "started", !.told = None,
                                         !.seq = seller.told.seq, !.balance = seller.told.remaining]
          \/ seller' = [seller EXCEPT !.waits = "none", !.told = None]
      BY <1>2 DEF SellerStarts
    <3>2. CASE \/ \E w \in {"sell", "none", "close_channel"} : seller' = [seller EXCEPT !.waits = w]
               \/ seller' = [seller EXCEPT !.waits = "close_channel", !.registered = TRUE]
               \/ seller' = [seller EXCEPT !.waits = "balance", !.config = TRUE]
               \/ seller' = [seller EXCEPT !.waits = "none", !.told = None]
      BY <1>0, <3>2 DEF SellerFields
    <3>3. CASE /\ seller.waits = "told"
               /\ seller' = [seller EXCEPT !.waits = "none", !.state = "started", !.told = None,
                                           !.seq = seller.told.seq, !.balance = seller.told.remaining]
      <4> DEFINE seq == seller.told.seq
                 balance == seller.told.remaining
      <4>1. seller' = [seller EXCEPT !.waits = "none", !.state = "started", !.told = None,
                                     !.seq = seq, !.balance = balance]
        BY <3>3
      <4> HIDE DEF seq, balance
      <4>2. /\ DOMAIN seller' = SellerFields /\ seller'.series = seller.series
            /\ seller'.keys_map = seller.keys_map /\ seller'.wrapped = seller.wrapped
            /\ seller'.state = "started" /\ seller'.waits = "none"
            /\ seller'.seq = seq /\ seller'.balance = balance
        BY <1>0, <4>1 DEF SellerFields
      <4> QED
        BY <3>3, <4>2 DEF seq, balance
    <3> QED
      BY <3>1, <3>2, <3>3
  <2>2. Shaped' /\ Stocked'
    BY <1>0, <2>1, SellerMoves
  <2>3. Stopping'
    BY <1>0, <2>1 DEF Inv, Stopping, Apis
  <2>4. Earning'
    BY <1>0, <2>1 DEF Inv, Earning, sealed
  <2> QED
    BY <1>0, <2>2, <2>3, <2>4, SellerOnly DEF Inv
<1> QED
  BY <1>1, <1>2

LEMMA RotationDueKeeps ==
    ASSUME Inv, NEW a \in Apis, RotationDue(a)
    PROVE  Inv'
<1> DEFINE s == rotate(seller, {a})
<1>0. /\ UNCHANGED <<opt, buyer, calls, maker>> /\ seller' = s /\ seller.series[a].loop = "timer"
  BY DEF RotationDue
<1>1. /\ DOMAIN s = SellerFields
      /\ \A b \in Apis : s.series[b] = IF b \in {a} THEN minted(seller, b) ELSE seller.series[b]
      /\ s.wrapped = seller.wrapped /\ s.state = seller.state /\ s.waits = seller.waits
      /\ s.registered = seller.registered /\ s.told = seller.told
      /\ s.seq = seller.seq /\ s.balance = seller.balance
  BY Rotates
<1>2. Shaped' /\ Stocked'
  BY <1>0, <1>1, RotatedKeeps
<1> HIDE DEF s
<1>3. minted(seller, a).loop = "offering" /\ minted(seller, a).answer = "none"
  BY DEF minted
<1>4. Apis' = Apis
  BY <1>0 DEF Apis
<1>5. \A b \in Apis : \/ seller'.series[b] = seller.series[b]
                      \/ b = a /\ seller'.series[b].loop = "offering" /\ seller'.series[b].answer = "none"
  BY <1>0, <1>1, <1>3
<1>6. Stopping'
  BY <1>0, <1>1, <1>4, <1>5 DEF Inv, Stopping
<1>7. Earning'
  BY <1>0, <1>1 DEF Inv, Earning, sealed
<1> QED
  BY <1>0, <1>2, <1>6, <1>7, SellerOnly DEF Inv

\* The next seller has the same keys; its loops, and what waits for them, differ.
LEMMA SeriesMoves ==
    ASSUME Inv, UNCHANGED opt, UNCHANGED maker, UNCHANGED calls, UNCHANGED buyer,
           DOMAIN seller' = SellerFields,
           seller'.keys_map = seller.keys_map, seller'.wrapped = seller.wrapped,
           DOMAIN seller'.series = Apis,
           \A a \in Apis : /\ DOMAIN seller'.series[a] = {"n", "loop", "answer"}
                           /\ seller'.series[a].n = seller.series[a].n
    PROVE  Shaped' /\ Stocked'
<1>1. Apis' = Apis
  BY DEF Apis
<1>2. Shaped'
  BY <1>1 DEF Inv, Shaped
<1>3. Stocked'
  BY <1>1 DEF Inv, Stocked, keyOf
<1> QED
  BY <1>2, <1>3

LEMMA OfferAnsweredKeeps ==
    ASSUME Inv, NEW a \in Apis, OfferAnswered(a)
    PROVE  Inv'
<1> DEFINE loop == afterOffer(seller.series[a].loop, seller.series[a].answer)
<1>0. /\ UNCHANGED <<opt, buyer, calls, maker>> /\ DOMAIN seller = SellerFields
      /\ DOMAIN seller.series = Apis /\ Apis' = Apis
      /\ \A b \in Apis : DOMAIN seller.series[b] = {"n", "loop", "answer"}
      /\ seller.series[a].loop \in {"offering", "ending"}
  BY DEF OfferAnswered, Inv, Shaped, Stopping, Apis
<1>1. seller' = [seller EXCEPT !.series[a].answer = "none", !.series[a].loop = loop]
  BY DEF OfferAnswered
<1>2. /\ loop # "ending" /\ loop # "offering"
      /\ seller.series[a].loop = "ending" => loop = "none"
  BY DEF afterOffer
<1> HIDE DEF loop
<1>3. /\ DOMAIN seller' = SellerFields /\ DOMAIN seller'.series = Apis
      /\ seller'.keys_map = seller.keys_map /\ seller'.wrapped = seller.wrapped
      /\ seller'.state = seller.state /\ seller'.waits = seller.waits
      /\ seller'.registered = seller.registered /\ seller'.told = seller.told
      /\ seller'.seq = seller.seq /\ seller'.balance = seller.balance
      /\ \A b \in Apis : b # a => seller'.series[b] = seller.series[b]
      /\ DOMAIN seller'.series[a] = {"n", "loop", "answer"}
      /\ seller'.series[a].n = seller.series[a].n
      /\ seller'.series[a].loop = loop /\ seller'.series[a].answer = "none"
  BY <1>0, <1>1 DEF SellerFields
<1>4. Shaped' /\ Stocked'
  BY <1>0, <1>3, SeriesMoves
<1>5. Stopping'
  BY <1>0, <1>2, <1>3 DEF Inv, Stopping
<1>6. Earning'
  BY <1>0, <1>3 DEF Inv, Earning, sealed
<1> QED
  BY <1>0, <1>4, <1>5, <1>6, SellerOnly DEF Inv

LEMMA SellerStopKeeps ==
    ASSUME Inv, SellerStop
    PROVE  Inv'
<1> DEFINE broken == {a \in Apis : seller.series[a].loop = "broken"}
           ends(a) == \A b \in broken : a < b
<1>0. /\ UNCHANGED <<opt, buyer, calls, maker>> /\ DOMAIN seller = SellerFields
      /\ DOMAIN seller.series = Apis /\ Apis' = Apis /\ seller.state = "started"
      /\ \A b \in Apis : DOMAIN seller.series[b] = {"n", "loop", "answer"}
  BY DEF SellerStop, Inv, Shaped, Apis
<1>1. /\ DOMAIN seller' = SellerFields
      /\ seller'.keys_map = seller.keys_map /\ seller'.wrapped = seller.wrapped
      /\ seller'.state = "stopping"
      /\ seller'.waits = IF broken = {} THEN "stop" ELSE "none"
      /\ seller'.registered = (broken # {})
  BY <1>0 DEF SellerStop, SellerFields
<1>2. /\ DOMAIN seller'.series = Apis
      /\ \A b \in Apis : seller'.series[b] =
            IF ends(b) THEN [seller.series[b] EXCEPT !.loop = stopped(seller.series[b].loop)]
            ELSE seller.series[b]
  BY <1>0 DEF SellerStop, SellerFields
<1>3. \A b \in Apis : /\ DOMAIN seller'.series[b] = {"n", "loop", "answer"}
                      /\ seller'.series[b].n = seller.series[b].n
                      /\ seller'.series[b].answer = seller.series[b].answer
                      /\ seller'.series[b].loop = IF ends(b) THEN stopped(seller.series[b].loop)
                                                  ELSE seller.series[b].loop
  <2> HIDE DEF ends
  <2> QED
    BY <1>0, <1>2
<1>4. /\ broken = {} => \A b \in Apis : seller'.series[b].loop \in {"none", "ending"}
      /\ \A b \in Apis : seller'.series[b].answer # "none" =>
                            seller'.series[b].loop \in {"offering", "ending"}
  <2>1. \A b \in Apis : seller.series[b].loop # "ending"
    BY <1>0 DEF Inv, Stopping
  <2>2. \A b \in Apis : seller.series[b].answer # "none" => seller.series[b].loop = "offering"
    BY <2>1 DEF Inv, Stopping
  <2>3. broken = {} => \A b \in Apis : ends(b)
    OBVIOUS
  <2> HIDE DEF ends, broken
  <2> QED
    BY <1>3, <2>2, <2>3 DEF stopped
<1> HIDE DEF broken
<1>5. Shaped' /\ Stocked'
  BY <1>0, <1>1, <1>2, <1>3, SeriesMoves
<1>6. Stopping'
  BY <1>0, <1>1, <1>4 DEF Stopping
<1>7. Earning'
  BY <1>1 DEF Earning
<1> QED
  BY <1>0, <1>5, <1>6, <1>7, SellerOnly DEF Inv

LEMMA SellerStoppedKeeps ==
    ASSUME Inv, SellerStopped
    PROVE  Inv'
<1>1. /\ DOMAIN seller' = SellerFields /\ seller'.series = seller.series
      /\ seller'.keys_map = seller.keys_map /\ seller'.wrapped = seller.wrapped
      /\ seller'.state = "stopped" /\ seller'.waits = "none" /\ seller'.registered = seller.registered
      /\ seller.waits = "stop" /\ \A a \in Apis : seller.series[a].loop = "none"
      /\ UNCHANGED <<opt, buyer, calls, maker>> /\ Apis' = Apis
  BY DEF Inv, Shaped, SellerFields, SellerStopped, Apis
<1>2. Shaped' /\ Stocked'
  BY <1>1, SellerMoves
<1>3. Stopping'
  BY <1>1 DEF Inv, Stopping
<1>4. Earning'
  BY <1>1 DEF Earning
<1> QED
  BY <1>1, <1>2, <1>3, <1>4, SellerOnly DEF Inv

LEMMA WrapKeeps ==
    ASSUME Inv, NEW a \in Apis, Wrap(a)
    PROVE  Inv'
<1>1. /\ DOMAIN seller' = SellerFields /\ seller'.series = seller.series
      /\ seller'.keys_map = seller.keys_map /\ seller'.wrapped = seller.wrapped \cup {keyOf(a)}
      /\ seller'.state = seller.state /\ seller'.waits = seller.waits
      /\ seller'.registered = seller.registered /\ seller'.told = seller.told
      /\ seller'.seq = seller.seq /\ seller'.balance = seller.balance
      /\ seller.series[a].n > 0
      /\ UNCHANGED <<opt, buyer, calls, maker>> /\ Apis' = Apis
  BY DEF Inv, Shaped, SellerFields, Wrap, Apis
<1>2. Shaped'
  BY <1>1 DEF Inv, Shaped
<1>3. keyOf(a) \in seller.keys_map
  BY <1>1 DEF Inv, Stocked
<1>4. Stocked'
  BY <1>1, <1>3 DEF Inv, Stocked, keyOf
<1>5. Stopping'
  BY <1>1 DEF Inv, Stopping
<1>6. Earning'
  BY <1>1 DEF Inv, Earning, sealed
<1> QED
  BY <1>1, <1>2, <1>4, <1>5, <1>6, SellerOnly DEF Inv

LEMMA SellerSellsKeeps ==
    ASSUME NoneIsApart, Inv, SellerSells
    PROVE  Inv'
<1> DEFINE d == maker.deal
           answer == sellAnswer(d)
           e == Deal(d.call, d.key, d.seq, d.balance, answer)
<1>0. /\ UNCHANGED <<opt, buyer, calls>> /\ Apis' = Apis
      /\ d # None /\ d.answer = "none" /\ seller.waits # "told"
      /\ DOMAIN maker = MakerFields /\ DOMAIN seller = SellerFields
      /\ d = Deal(d.call, d.key, d.seq, d.balance, d.answer)
      /\ d.call \in Unwraps /\ calls[d.call].key = d.key /\ calls[d.call].at # "idle"
  BY DEF SellerSells, Inv, Shaped, Dealt, Apis
<1>1. /\ maker' = [maker EXCEPT !.deal.answer = answer]
      /\ seller' = IF answer = "sealed"
                   THEN [seller EXCEPT !.seq = @ + 1, !.balance = @ - price(d.key)] ELSE seller
  BY DEF SellerSells
<1>2. /\ answer # "no_such_object"
      /\ answer = "sealed" => d.seq = seller.seq + 1 /\ d.balance = seller.balance - price(d.key)
  <2>1. d.key \in seller.keys_map
    BY <1>0 DEF Inv, Stocked
  <2> HIDE DEF d
  <2> QED
    BY <2>1 DEF sellAnswer
<1> HIDE DEF answer
<1>3. /\ DOMAIN maker' = MakerFields /\ maker'.deal = e
      /\ maker'.pay = maker.pay /\ maker'.earn = maker.earn /\ maker'.ledger = maker.ledger
  <2>1. [d EXCEPT !.answer = answer] = e
    BY <1>0 DEF Deal
  <2>2. /\ DOMAIN maker' = MakerFields /\ maker'.deal = [d EXCEPT !.answer = answer]
        /\ maker'.pay = maker.pay /\ maker'.earn = maker.earn /\ maker'.ledger = maker.ledger
    BY <1>0, <1>1 DEF MakerFields
  <2> QED
    BY <2>1, <2>2
<1>4. /\ e # None /\ e.call = d.call /\ e.key = d.key /\ e.seq = d.seq /\ e.balance = d.balance
      /\ e.answer = answer
  BY DEF NoneIsApart, Deal
<1>5. /\ DOMAIN seller' = SellerFields /\ seller'.series = seller.series
      /\ seller'.keys_map = seller.keys_map /\ seller'.wrapped = seller.wrapped
      /\ seller'.state = seller.state /\ seller'.waits = seller.waits
      /\ seller'.registered = seller.registered /\ seller'.told = seller.told
      /\ answer = "sealed" => seller'.seq = d.seq /\ seller'.balance = d.balance
      /\ answer # "sealed" => seller'.seq = seller.seq /\ seller'.balance = seller.balance
  BY <1>0, <1>1, <1>2 DEF SellerFields
<1> HIDE DEF e
<1>6. Shaped'
  BY <1>0, <1>3, <1>5 DEF Inv, Shaped
<1>7. Dealt'
  <2>1. e = Deal(e.call, e.key, e.seq, e.balance, e.answer)
    BY <1>4 DEF e
  <2> QED
    BY <1>0, <1>3, <1>4, <2>1 DEF Inv, Dealt, price
<1>8. Stocked'
  BY <1>0, <1>2, <1>3, <1>4, <1>5 DEF Inv, Stocked, keyOf
<1>9. Stopping'
  BY <1>0, <1>5 DEF Inv, Stopping
<1>10. Earning'
  BY <1>0, <1>3, <1>4, <1>5 DEF Inv, Earning, sealed
<1>11. Calling' /\ Settled'
  BY <1>0, <1>3, <1>4 DEF Inv, Calling, Settled, settled, complete
<1>12. Paying'
  BY <1>0, <1>3, <1>4 DEF Inv, Paying, price
<1>13. Bought'
  BY <1>0, <1>3, <1>4 DEF Inv, Bought, Buys, dealing, settled, complete
<1> QED
  BY <1>6, <1>7, <1>8, <1>9, <1>10, <1>11, <1>12, <1>13 DEF Inv

-----------------------------------------------------------------------------
(* The market maker.                                                       *)

LEMMA MakerTakesOfferKeeps ==
    ASSUME Inv, NEW a \in Apis, MakerTakesOffer(a)
    PROVE  Inv'
<1>0. /\ UNCHANGED <<opt, buyer, calls>> /\ Apis' = Apis
      /\ DOMAIN maker = MakerFields /\ DOMAIN seller = SellerFields /\ DOMAIN seller.series = Apis
      /\ \A b \in Apis : DOMAIN seller.series[b] = {"n", "loop", "answer"}
      /\ seller.series[a].loop \in {"offering", "ending"}
  BY DEF MakerTakesOffer, Inv, Shaped, Apis
<1>1. PICK answer \in opt.answers :
        /\ seller' = [seller EXCEPT !.series[a].answer = answer]
        /\ maker' = IF answer = "ok" THEN [maker EXCEPT !.offers = @ \cup {keyOf(a)}] ELSE maker
  BY DEF MakerTakesOffer
<1>2. /\ DOMAIN maker' = MakerFields /\ maker'.deal = maker.deal
      /\ maker'.pay = maker.pay /\ maker'.earn = maker.earn /\ maker'.ledger = maker.ledger
  BY <1>0, <1>1 DEF MakerFields
<1>3. /\ DOMAIN seller' = SellerFields /\ DOMAIN seller'.series = Apis
      /\ seller'.keys_map = seller.keys_map /\ seller'.wrapped = seller.wrapped
      /\ seller'.state = seller.state /\ seller'.waits = seller.waits
      /\ seller'.registered = seller.registered /\ seller'.told = seller.told
      /\ seller'.seq = seller.seq /\ seller'.balance = seller.balance
      /\ \A b \in Apis : b # a => seller'.series[b] = seller.series[b]
      /\ DOMAIN seller'.series[a] = {"n", "loop", "answer"}
      /\ seller'.series[a].n = seller.series[a].n
      /\ seller'.series[a].loop = seller.series[a].loop
  BY <1>0, <1>1 DEF SellerFields
<1>4. Shaped'
  BY <1>0, <1>2, <1>3 DEF Inv, Shaped
<1>5. Stocked'
  BY <1>0, <1>2, <1>3 DEF Inv, Stocked, keyOf
<1>6. Stopping'
  <2>1. seller.state # "stopped"
    BY <1>0 DEF Inv, Stopping
  <2> QED
    BY <1>0, <1>3, <2>1 DEF Inv, Stopping
<1>7. Earning'
  BY <1>0, <1>2, <1>3 DEF Inv, Earning, sealed
<1>8. Dealt'
  BY <1>0, <1>2 DEF Inv, Dealt, price
<1>9. Calling' /\ Settled'
  BY <1>0, <1>2 DEF Inv, Calling, Settled, settled, complete
<1>10. Paying'
  BY <1>0, <1>2 DEF Inv, Paying, price
<1>11. Bought'
  BY <1>0, <1>2 DEF Inv, Bought, Buys, dealing, settled, complete
<1> QED
  BY <1>4, <1>5, <1>6, <1>7, <1>8, <1>9, <1>10, <1>11 DEF Inv

LEMMA MakerTellsSellerKeeps ==
    ASSUME Patient, Inv, MakerTellsSeller
    PROVE  Inv'
<1>0. opt.patient /\ UNCHANGED <<opt, buyer, calls, maker>> /\ seller.waits = "balance"
  BY DEF Patient, Inv, Shaped, MakerTellsSeller
<1>1. /\ DOMAIN seller' = SellerFields /\ seller'.series = seller.series
      /\ seller'.keys_map = seller.keys_map /\ seller'.wrapped = seller.wrapped
      /\ seller'.waits = "told" /\ seller'.told = maker.earn /\ seller'.state = seller.state
      /\ maker.deal = None
  BY <1>0 DEF Inv, Shaped, SellerFields, MakerTellsSeller
<1>2. Shaped' /\ Stocked'
  BY <1>0, <1>1, SellerMoves
<1>3. seller.state = "starting"
  BY <1>0 DEF Inv, Stopping
<1>4. Stopping'
  BY <1>0, <1>1, <1>3 DEF Inv, Stopping, Apis
<1>5. Earning'
  BY <1>0, <1>1, <1>3 DEF Earning, sealed
<1> QED
  BY <1>0, <1>2, <1>4, <1>5, SellerOnly DEF Inv

\* Neither the seller nor the channels change.
LEMMA SellersPart ==
    ASSUME Inv, UNCHANGED <<opt, seller>>, maker'.deal = maker.deal, maker'.earn = maker.earn
    PROVE  Stopping' /\ Earning'
<1>1. Earning'
  BY DEF Inv, Earning, sealed
<1> QED
  BY <1>1, SellerFrame

LEMMA MakerTellsBuyerKeeps ==
    ASSUME Patient, Inv, MakerTellsBuyer
    PROVE  Inv'
<1>0. /\ opt.patient /\ UNCHANGED <<opt, seller, calls, maker>> /\ buyer.state = "starting"
      /\ maker.deal = None /\ \A u \in Unwraps : ~calls[u].asked
  BY DEF Patient, Inv, Shaped, MakerTellsBuyer
<1>1. /\ DOMAIN buyer' = BuyerFields /\ buyer'.state = "told" /\ buyer'.told = maker.pay
      /\ buyer'.keys = buyer.keys /\ buyer'.transactions = buyer.transactions
  BY DEF Inv, Shaped, BuyerFields, MakerTellsBuyer
<1>2. Shaped'
  BY <1>0, <1>1 DEF Inv, Shaped, Apis
<1>3. Dealt'
  BY <1>0 DEF Dealt
<1>4. Stocked'
  BY <1>0 DEF Inv, Stocked, keyOf, Apis
<1>5. Calling'
  BY <1>0, <1>1 DEF Inv, Calling, Active
<1>6. Paying'
  BY <1>0, <1>1 DEF Inv, Paying
<1>7. Bought' /\ Settled'
  BY <1>0, <1>1 DEF Inv, Bought, Settled, Buys, dealing, settled, complete, Apis
<1> QED
  BY <1>0, <1>2, <1>3, <1>4, <1>5, <1>6, <1>7, SellersPart DEF Inv

\* In the next state one call has other attributes.
Becomes(u, at, key, seq, balance, asked) ==
    /\ DOMAIN calls' = Unwraps /\ DOMAIN calls'[u] = CallFields
    /\ \A v \in Unwraps : v # u => calls'[v] = calls[v]
    /\ calls'[u].at = at /\ calls'[u].key = key /\ calls'[u].seq = seq
    /\ calls'[u].balance = balance /\ calls'[u].asked = asked

LEMMA CallsShaped ==
    ASSUME Inv, UNCHANGED <<opt, seller>>, NEW u \in Unwraps,
           NEW at, NEW key, NEW seq, NEW balance, NEW asked,
           Becomes(u, at, key, seq, balance, asked),
           DOMAIN buyer' = BuyerFields, DOMAIN maker' = MakerFields,
           buyer'.transactions \in Seq([key : Apis \X Nat, seq : Nat, paid : BOOLEAN])
    PROVE  Shaped'
<1>1. Apis' = Apis
  BY DEF Apis
<1> QED
  BY <1>1 DEF Inv, Shaped, Becomes

\* Of the calls only one changes; the purchase under way is of the same calls as before.
LEMMA OneCalls ==
    ASSUME Inv, NEW u \in Unwraps, buyer'.state = buyer.state, maker'.deal = maker.deal,
           \A v \in Unwraps : v # u => calls'[v] = calls[v],
           calls'[u].at \in Active => buyer.state = "started",
           calls'[u].seq \in Nat,
           calls'[u].asked => calls'[u].at \in {"buy", "raised"},
           calls'[u].at = "buy" => calls'[u].asked,
           calls'[u].at \in {"buy", "receipt"} \/ calls'[u].asked => calls'[u].seq > 0,
           calls'[u].at \in {"idle", "wait", "quote", "quoted", "close", "closed"} => calls'[u].seq = 0
    PROVE  Calling'
<1>1. ASSUME NEW v \in Unwraps, v # u
      PROVE  /\ calls'[v].at \in Active => buyer'.state = "started"
             /\ calls'[v].seq \in Nat
             /\ calls'[v].asked => calls'[v].at \in {"buy", "raised"}
             /\ calls'[v].at = "buy" => calls'[v].asked \/ (maker'.deal # None /\ maker'.deal.call = v)
             /\ calls'[v].at \in {"buy", "receipt"} \/ calls'[v].asked => calls'[v].seq > 0
             /\ calls'[v].at \in {"idle", "wait", "quote", "quoted", "close", "closed"} => calls'[v].seq = 0
  <2>1. calls'[v] = calls[v]
    BY <1>1
  <2> QED
    BY <2>1 DEF Inv, Calling
<1> QED
  BY <1>1 DEF Calling

\* Nothing is settled, and who has bought what is settled has bought it still.
LEMMA NothingSettled ==
    ASSUME Inv, UNCHANGED opt, maker'.ledger = maker.ledger, complete(buyer)' = complete(buyer),
           \A v \in Unwraps :
              calls[v].seq > 0 /\ calls[v].at \in {"receipt", "done", "raised"} =>
                 /\ calls'[v].seq > 0 /\ calls'[v].key = calls[v].key
                 /\ calls'[v].at \in {"receipt", "done", "raised"}
    PROVE  Settled'
<1>1. maker'.ledger \in Seq(Apis' \X Nat)
  BY DEF Inv, Settled, Apis
<1>2. ASSUME NEW i \in DOMAIN maker'.ledger
      PROVE  \E v \in Unwraps : /\ calls'[v].seq > 0 /\ calls'[v].key = maker'.ledger[i]
                                 /\ calls'[v].at \in {"receipt", "done", "raised"}
  <2>1. PICK v \in Unwraps : /\ calls[v].seq > 0 /\ calls[v].key = maker.ledger[i]
                             /\ calls[v].at \in {"receipt", "done", "raised"}
    BY DEF Inv, Settled
  <2> QED
    BY <2>1
<1>3. \A k : settled(k)' <=> settled(k)
  BY DEF settled
<1>4. \A k \in complete(buyer)' : settled(k)'
  BY <1>3 DEF Inv, Settled
<1>5. \A i, j \in DOMAIN maker'.ledger : maker'.ledger[i] = maker'.ledger[j] => i = j
  BY DEF Inv, Settled
<1> QED
  BY <1>1, <1>2, <1>4, <1>5 DEF Settled

\* A call that is asking, or is told the price.
LEMMA MakerQuotesKeeps ==
    ASSUME Inv, NEW u \in Unwraps, MakerQuotes(u)
    PROVE  Inv'
<1> DEFINE a == calls[u]
           at == IF a.key \in maker.offers THEN "quoted" ELSE "refused"
<1>0. /\ UNCHANGED <<opt, seller, buyer, maker>> /\ a.at = "quote"
      /\ DOMAIN calls = Unwraps /\ DOMAIN a = CallFields
      /\ calls' = [calls EXCEPT ![u].at = at]
  BY DEF MakerQuotes, Inv, Shaped
<1>1. at \in {"quoted", "refused"}
  OBVIOUS
<1> HIDE DEF at
<1>2. Becomes(u, at, a.key, a.seq, a.balance, a.asked)
  BY <1>0 DEF Becomes, CallFields
<1>3. Shaped'
  BY <1>0, <1>2, CallsShaped DEF Inv, Shaped
<1>4. a.seq = 0 /\ ~a.asked /\ buyer.state = "started"
  BY <1>0 DEF Inv, Calling, Active
<1>5. Dealt'
  BY <1>0, <1>2, <1>4 DEF Inv, Dealt, Becomes, price
<1>6. Stocked'
  BY <1>0, <1>1, <1>2 DEF Inv, Stocked, Becomes, keyOf, Apis
<1>7. Calling'
  BY <1>0, <1>1, <1>2, <1>4 DEF Inv, Calling, Becomes, Active
<1>8. Paying'
  <2>1. maker.deal # None => maker.deal.call # u
    BY <1>0 DEF Inv, Dealt
  <2> QED
    BY <1>0, <1>1, <1>2, <1>4, <2>1 DEF Inv, Paying, Dealt, Becomes, price
<1>9. Bought'
  BY <1>0, <1>1, <1>2, <1>4 DEF Inv, Bought, Becomes, Buys, dealing, settled, complete
<1>10. Settled'
  <2>1. complete(buyer)' = complete(buyer)
    BY <1>0 DEF complete
  <2> QED
    BY <1>0, <1>2, <1>4, <2>1, NothingSettled DEF Becomes
<1> QED
  BY <1>0, <1>3, <1>5, <1>6, <1>7, <1>8, <1>9, <1>10, SellersPart DEF Inv

LEMMA MakerTakesPurchaseKeeps ==
    ASSUME NoneIsApart, Inv, NEW u \in Unwraps, MakerTakesPurchase(u)
    PROVE  Inv'
<1> DEFINE a == calls[u]
           d == Deal(u, a.key, maker.earn.seq + 1, maker.earn.remaining - price(a.key), "none")
           takes == /\ maker.open /\ a.seq = maker.pay.seq + 1
                    /\ a.balance = maker.pay.remaining - price(a.key)
           at == IF a.at = "buy" THEN "refused" ELSE a.at
<1>0. /\ UNCHANGED <<opt, seller, buyer>> /\ a.asked /\ maker.deal = None
      /\ DOMAIN calls = Unwraps /\ DOMAIN a = CallFields /\ DOMAIN maker = MakerFields
      /\ a.at \in {"buy", "raised"} /\ a.seq \in Nat /\ a.seq > 0 /\ Apis' = Apis
  BY DEF MakerTakesPurchase, Inv, Shaped, Calling, Apis
<1>1. CASE takes
  <2>1. /\ Becomes(u, a.at, a.key, a.seq, a.balance, FALSE)
        /\ DOMAIN maker' = MakerFields /\ maker'.deal = d
        /\ maker'.pay = maker.pay /\ maker'.earn = maker.earn /\ maker'.ledger = maker.ledger
    BY <1>0, <1>1 DEF MakerTakesPurchase, Becomes, CallFields, MakerFields, Deal
  <2>2. /\ d # None /\ d.call = u /\ d.key = a.key /\ d.seq = maker.earn.seq + 1
        /\ d.balance = maker.earn.remaining - price(a.key) /\ d.answer = "none"
        /\ d = Deal(d.call, d.key, d.seq, d.balance, d.answer)
    BY DEF NoneIsApart, Deal
  <2>3. a.seq = maker.pay.seq + 1 /\ a.balance = maker.pay.remaining - price(a.key)
    BY <1>1
  <2> HIDE DEF d
  <2>4. Shaped'
    BY <1>0, <2>1, CallsShaped DEF Inv, Shaped
  <2>5. Dealt'
    BY <1>0, <2>1, <2>2, <2>3 DEF Dealt, Becomes, price
  <2>6. Stocked'
    BY <1>0, <2>1, <2>2 DEF Inv, Stocked, Becomes, keyOf
  <2>7. Stopping' /\ Earning'
    BY <1>0, <2>1, <2>2, SellerFrame DEF Inv, Earning, sealed
  <2>8. Calling'
    BY <1>0, <2>1, <2>2 DEF Inv, Calling, Becomes
  <2>9. Paying'
    <3>1. \A v \in Unwraps : /\ calls'[v].at = calls[v].at /\ calls'[v].seq = calls[v].seq
                             /\ calls'[v].key = calls[v].key /\ calls'[v].balance = calls[v].balance
                             /\ calls'[v].asked => calls[v].asked
      BY <2>1 DEF Becomes
    <3>2. buyer.state # "told" /\ maker'.deal.call = u
      BY <1>0, <2>1, <2>2 DEF Inv, Paying
    <3>3. buyer.state = "started" => a.at = "buy"
      BY <1>0 DEF Inv, Paying
    <3> QED
      BY <1>0, <2>1, <3>1, <3>2, <3>3 DEF Inv, Paying, price
  <2>10. Bought'
    BY <1>0, <2>1, <2>2 DEF Inv, Bought, Becomes, Buys, dealing, settled, complete
  <2>11. Settled'
    <3>1. complete(buyer)' = complete(buyer)
      BY <1>0 DEF complete
    <3> QED
      BY <1>0, <2>1, <3>1, NothingSettled DEF Becomes
  <2> QED
    BY <2>4, <2>5, <2>6, <2>7, <2>8, <2>9, <2>10, <2>11 DEF Inv
<1>2. CASE ~takes
  <2>1. Becomes(u, at, a.key, a.seq, a.balance, FALSE) /\ UNCHANGED maker
    BY <1>0, <1>2 DEF MakerTakesPurchase, Becomes, CallFields
  <2>2. (at = "refused" /\ a.at = "buy") \/ (at = "raised" /\ a.at = "raised")
    BY <1>0
  <2> HIDE DEF at
  <2>4. Shaped'
    BY <1>0, <2>1, CallsShaped DEF Inv, Shaped
  <2>5. Dealt'
    BY <1>0, <2>1 DEF Dealt
  <2>6. Stocked'
    BY <1>0, <2>1, <2>2 DEF Inv, Stocked, Becomes, keyOf
  <2>7. Calling'
    BY <1>0, <2>1, <2>2 DEF Inv, Calling, Becomes, Active
  <2>8. Paying'
    BY <1>0, <2>1, <2>2 DEF Inv, Paying, Becomes, price
  <2>9. Bought'
    BY <1>0, <2>1, <2>2 DEF Inv, Bought, Becomes, Buys, dealing, settled, complete
  <2>10. Settled'
    <3>1. complete(buyer)' = complete(buyer)
      BY <1>0 DEF complete
    <3> QED
      BY <1>0, <2>1, <2>2, <3>1, NothingSettled DEF Becomes
  <2> QED
    BY <1>0, <2>1, <2>4, <2>5, <2>6, <2>7, <2>8, <2>9, <2>10, SellersPart DEF Inv
<1> QED
  BY <1>1, <1>2

LEMMA MakerClosesKeeps ==
    ASSUME Inv, NEW u \in Unwraps, MakerCloses(u)
    PROVE  Inv'
<1> DEFINE a == calls[u]
<1>0. /\ UNCHANGED <<opt, seller, buyer>> /\ a.at = "close" /\ a.seq = 0 /\ ~a.asked
      /\ buyer.state = "started" /\ Apis' = Apis
      /\ DOMAIN calls = Unwraps /\ DOMAIN a = CallFields /\ DOMAIN maker = MakerFields
  BY DEF MakerCloses, Inv, Shaped, Calling, Active, Apis
<1>1. /\ Becomes(u, "closed", a.key, a.seq, a.balance, a.asked)
      /\ DOMAIN maker' = MakerFields /\ maker'.deal = maker.deal
      /\ maker'.pay = maker.pay /\ maker'.earn = maker.earn /\ maker'.ledger = maker.ledger
  BY <1>0 DEF MakerCloses, Becomes, CallFields, MakerFields
<1>2. maker.deal # None => maker.deal.call # u
  BY <1>0 DEF Inv, Dealt
<1>3. Shaped'
  BY <1>0, <1>1, CallsShaped DEF Inv, Shaped
<1>4. Dealt'
  BY <1>0, <1>1, <1>2 DEF Inv, Dealt, Becomes, price
<1>5. Stocked'
  BY <1>0, <1>1 DEF Inv, Stocked, Becomes, keyOf
<1>6. Calling'
  BY <1>0, <1>1, <1>2 DEF Inv, Calling, Becomes, Active
<1>7. Paying'
  BY <1>0, <1>1, <1>2 DEF Inv, Paying, Dealt, Becomes, price
<1>8. Bought'
  BY <1>0, <1>1, <1>2 DEF Inv, Bought, Becomes, Buys, dealing, settled, complete
<1>9. Settled'
  <2>1. complete(buyer)' = complete(buyer)
    BY <1>0 DEF complete
  <2> QED
    BY <1>0, <1>1, <2>1, NothingSettled DEF Becomes
<1> QED
  BY <1>0, <1>1, <1>3, <1>4, <1>5, <1>6, <1>7, <1>8, <1>9, SellersPart DEF Inv

\* A purchase comes to its end: both channels are a transaction on, or none is.
LEMMA MakerSettlesKeeps ==
    ASSUME Inv, MakerSettles
    PROVE  Inv'
<1>u. PICK u \in Unwraps : maker.deal # None /\ u = maker.deal.call
  BY DEF MakerSettles, Inv, Dealt
<1> DEFINE d == maker.deal
           a == calls[u]
           at == IF a.at # "buy" THEN a.at ELSE IF d.answer = "sealed" THEN "receipt" ELSE "refused"
<1>0. /\ UNCHANGED <<opt, seller, buyer>> /\ d # None /\ d.call = u /\ Apis' = Apis
      /\ a.key = d.key /\ ~a.asked /\ a.at \in {"buy", "raised"}
      /\ a.seq = maker.pay.seq + 1 /\ a.balance = maker.pay.remaining - price(d.key)
      /\ DOMAIN calls = Unwraps /\ DOMAIN a = CallFields /\ DOMAIN maker = MakerFields
      /\ a.seq \in Nat /\ maker.pay.seq \in Nat
  BY <1>u DEF MakerSettles, Inv, Shaped, Dealt, Calling, Paying, Apis
<1>1. Becomes(u, at, a.key, a.seq, a.balance, FALSE)
  <2>1. calls' = [calls EXCEPT ![u].at = at]
    BY <1>u DEF MakerSettles
  <2> HIDE DEF at
  <2> QED
    BY <1>0, <2>1 DEF Becomes, CallFields
<1>2. CASE d.answer = "sealed"
  <2>1. /\ DOMAIN maker' = MakerFields /\ maker'.deal = None
        /\ maker'.earn.seq = d.seq /\ maker'.earn.remaining = d.balance
        /\ maker'.pay.seq = maker.pay.seq + 1
        /\ maker'.pay.remaining = maker.pay.remaining - price(d.key)
        /\ maker'.ledger = Append(maker.ledger, d.key)
    <3> DEFINE pay == [seq |-> maker.pay.seq + 1, remaining |-> maker.pay.remaining - price(d.key)]
               earn == [seq |-> d.seq, remaining |-> d.balance]
    <3>1. maker' = [maker EXCEPT !.deal = None, !.ledger = Append(maker.ledger, d.key),
                                 !.earn = earn, !.pay = pay]
      BY <1>2 DEF MakerSettles
    <3>2. /\ pay.seq = maker.pay.seq + 1 /\ pay.remaining = maker.pay.remaining - price(d.key)
          /\ earn.seq = d.seq /\ earn.remaining = d.balance
      OBVIOUS
    <3> HIDE DEF pay, earn, d
    <3> QED
      BY <1>0, <3>1, <3>2 DEF MakerFields
  <2>2. (at = "receipt" /\ a.at = "buy") \/ (at = "raised" /\ a.at = "raised")
    BY <1>0, <1>2
  <2> HIDE DEF at
  <2>3. d.key \in Apis \X Nat
    BY <1>0 DEF Inv, Stocked
  <2>4. Shaped'
    BY <1>0, <1>1, <2>1, CallsShaped DEF Inv, Shaped
  <2>5. Dealt'
    BY <2>1 DEF Dealt
  <2>6. Stocked'
    BY <1>0, <1>1, <2>1, <2>2 DEF Inv, Stocked, Becomes, keyOf
  <2>7. Stopping' /\ Earning'
    BY <1>0, <1>2, <2>1, SellerFrame DEF Inv, Earning, sealed
  <2>8. Calling'
    BY <1>0, <1>1, <2>1, <2>2 DEF Inv, Calling, Becomes, Active
  <2>9. Paying'
    <3>1. buyer.state # "told" /\ maker'.pay.seq \in Nat
      BY <1>0, <2>1 DEF Inv, Paying
    <3>2. CASE buyer.state = "started"
      <4>1. a.at = "buy" /\ at = "receipt" /\ a.seq <= buyer.seq + 1
        BY <1>0, <2>2, <3>2 DEF Inv, Paying
      <4>2. /\ buyer.seq = maker.pay.seq /\ buyer.balance = maker.pay.remaining
            /\ \A v \in Unwraps : calls[v].at # "receipt"
        BY <1>0, <3>2, <4>1 DEF Inv, Paying
      <4>3. /\ calls'[u].at = "receipt" /\ calls'[u].seq = buyer.seq + 1
            /\ calls'[u].balance = buyer.balance - price(calls'[u].key)
            /\ calls'[u].balance = maker'.pay.remaining
            /\ \A v \in Unwraps : calls'[v].at = "receipt" => v = u
        BY <1>0, <1>1, <2>1, <4>1, <4>2 DEF Becomes
      <4>4. \A v \in Unwraps :
              /\ calls'[v].asked => calls'[v].at = "buy"
              /\ calls'[v].at \in {"buy", "receipt"} => calls'[v].seq <= buyer.seq + 1
        BY <1>0, <1>1, <3>2, <4>1 DEF Inv, Paying, Becomes
      <4> QED
        BY <1>0, <2>1, <3>1, <4>2, <4>3, <4>4 DEF Paying, price
    <3>3. CASE buyer.state # "started"
      BY <1>0, <2>1, <3>1, <3>3 DEF Paying
    <3> QED
      BY <3>2, <3>3
  <2>10. maker.ledger \in Seq(Apis \X Nat) /\ a.seq > 0 /\ ~settled(a.key)
    BY <1>0 DEF Inv, Settled, Bought, dealing
  <2>11. /\ maker'.ledger \in Seq(Apis \X Nat)
         /\ DOMAIN maker'.ledger = DOMAIN maker.ledger \cup {Len(maker.ledger) + 1}
         /\ maker'.ledger[Len(maker.ledger) + 1] = a.key
         /\ \A i \in DOMAIN maker.ledger : maker'.ledger[i] = maker.ledger[i]
    BY <1>0, <2>1, <2>3, <2>10
  <2>12. \A k : settled(k)' <=> settled(k) \/ k = a.key
    BY <2>11 DEF settled
  <2>13. Bought'
    <3>1. ASSUME NEW v \in Unwraps, v # u, calls[v].seq > 0
          PROVE  settled(calls[v].key)' <=> settled(calls[v].key)
      <4>1. calls[v].key # a.key
        BY <1>0, <2>10, <3>1 DEF Inv, Bought, Buys
      <4> QED
        BY <1>0, <1>1, <2>12, <3>1, <4>1 DEF Becomes
    <3>2. \A v \in Unwraps : calls'[v].key = calls[v].key /\ calls'[v].seq = calls[v].seq
      BY <1>1 DEF Becomes
    <3>3. \A v \in Unwraps : Buys(v)' => Buys(v)
      BY <1>0, <1>1, <2>10 DEF Buys, Becomes
    <3>4. ASSUME NEW v \in Unwraps, calls[v].seq > 0, v # u
          PROVE  /\ calls[v].asked \/ dealing(v)' \/ calls[v].at = "refused" => ~settled(calls[v].key)'
                 /\ calls[v].at = "receipt" => settled(calls[v].key)'
                 /\ calls[v].at = "raised" /\ (calls[v].asked \/ dealing(v)' \/ settled(calls[v].key)') =>
                       buyer.keys[calls[v].key] = "failed"
      <4>1. ~dealing(v)'
        BY <2>1 DEF dealing
      <4> QED
        BY <3>1, <3>4, <4>1 DEF Inv, Bought
    <3>5. /\ ~dealing(u)' /\ settled(calls[u].key)'
          /\ a.at = "raised" => buyer.keys[a.key] = "failed"
      <4>1. dealing(u)
        BY <1>0 DEF dealing
      <4>2. a.at = "raised" => buyer.keys[a.key] = "failed"
        BY <1>0, <2>10, <4>1 DEF Inv, Bought
      <4>3. ~dealing(u)'
        BY <2>1 DEF dealing
      <4>4. settled(calls[u].key)'
        BY <2>12, <3>2, <1>0
      <4> QED
        BY <4>2, <4>3, <4>4
    <3>6. \A v \in Unwraps :
            calls'[v].seq > 0 =>
              /\ calls'[v].asked \/ dealing(v)' \/ calls'[v].at = "refused" => ~settled(calls[v].key)'
              /\ calls'[v].at = "receipt" => settled(calls[v].key)'
              /\ calls'[v].at = "raised" /\ (calls'[v].asked \/ dealing(v)' \/ settled(calls[v].key)') =>
                    buyer.keys[calls'[v].key] = "failed"
      <4>1. /\ calls'[u].at = at /\ ~calls'[u].asked
            /\ \A v \in Unwraps : v # u => calls'[v] = calls[v]
        BY <1>1 DEF Becomes
      <4>2. ASSUME NEW v \in Unwraps, calls'[v].seq > 0
            PROVE  /\ calls'[v].asked \/ dealing(v)' \/ calls'[v].at = "refused" => ~settled(calls[v].key)'
                   /\ calls'[v].at = "receipt" => settled(calls[v].key)'
                   /\ calls'[v].at = "raised" /\ (calls'[v].asked \/ dealing(v)' \/ settled(calls[v].key)') =>
                         buyer.keys[calls'[v].key] = "failed"
        <5>1. CASE v = u
          BY <2>2, <3>2, <3>5, <4>1, <5>1
        <5>2. CASE v # u
          BY <3>2, <3>4, <4>1, <4>2, <5>2
        <5> QED
          BY <5>1, <5>2
      <4> QED
        BY <4>2
    <3> QED
      BY <1>0, <1>1, <2>2, <3>2, <3>3, <3>6 DEF Inv, Bought, Becomes, complete
  <2>14. Settled'
    <3>1. \A i, j \in DOMAIN maker'.ledger : maker'.ledger[i] = maker'.ledger[j] => i = j
      <4>1. \A i \in DOMAIN maker.ledger : maker.ledger[i] # a.key
        BY <2>10 DEF settled
      <4>2. \A i, j \in DOMAIN maker.ledger : maker.ledger[i] = maker.ledger[j] => i = j
        BY DEF Inv, Settled
      <4> QED
        BY <2>11, <4>1, <4>2
    <3>2. ASSUME NEW i \in DOMAIN maker'.ledger
          PROVE  \E v \in Unwraps :
                    /\ calls'[v].seq > 0 /\ calls'[v].key = maker'.ledger[i]
                    /\ calls'[v].at \in {"receipt", "done", "raised"}
      <4>1. CASE i = Len(maker.ledger) + 1
        BY <1>0, <1>1, <2>2, <2>10, <2>11, <4>1 DEF Becomes
      <4>2. CASE i \in DOMAIN maker.ledger
        <5>1. PICK v \in Unwraps : /\ calls[v].seq > 0 /\ calls[v].key = maker.ledger[i]
                                   /\ calls[v].at \in {"receipt", "done", "raised"}
          BY <4>2 DEF Inv, Settled
        <5>2. v # u
          BY <2>10, <4>2, <5>1 DEF settled
        <5> QED
          BY <1>1, <2>11, <4>2, <5>1, <5>2 DEF Becomes
      <4> QED
        BY <2>11, <4>1, <4>2
    <3>3. \A k \in complete(buyer) : settled(k)'
      BY <2>12 DEF Inv, Settled
    <3> QED
      BY <1>0, <2>11, <3>1, <3>2, <3>3 DEF Settled, complete
  <2> QED
    BY <2>4, <2>5, <2>6, <2>7, <2>8, <2>9, <2>13, <2>14 DEF Inv
<1>3. CASE d.answer # "sealed"
  <2>1. /\ DOMAIN maker' = MakerFields /\ maker'.deal = None /\ maker'.earn = maker.earn
        /\ maker'.pay = maker.pay /\ maker'.ledger = maker.ledger
    BY <1>0, <1>3 DEF MakerSettles, MakerFields
  <2>2. (at = "refused" /\ a.at = "buy") \/ (at = "raised" /\ a.at = "raised")
    BY <1>0, <1>3
  <2> HIDE DEF at
  <2>4. Shaped'
    BY <1>0, <1>1, <2>1, CallsShaped DEF Inv, Shaped
  <2>5. Dealt'
    BY <2>1 DEF Dealt
  <2>6. Stocked'
    BY <1>0, <1>1, <2>1, <2>2 DEF Inv, Stocked, Becomes, keyOf
  <2>7. Stopping' /\ Earning'
    BY <1>0, <1>3, <2>1, SellerFrame DEF Inv, Earning, sealed
  <2>8. Calling'
    BY <1>0, <1>1, <2>1, <2>2 DEF Inv, Calling, Becomes, Active
  <2>9. Paying'
    BY <1>0, <1>1, <2>1, <2>2 DEF Inv, Paying, Becomes, price
  <2>10. Bought'
    BY <1>0, <1>1, <2>1, <2>2 DEF Inv, Bought, Becomes, Buys, dealing, settled, complete
  <2>11. Settled'
    <3>1. complete(buyer)' = complete(buyer)
      BY <1>0 DEF complete
    <3> QED
      BY <1>0, <1>1, <2>1, <2>2, <3>1, NothingSettled DEF Becomes
  <2> QED
    BY <2>4, <2>5, <2>6, <2>7, <2>8, <2>9, <2>10, <2>11 DEF Inv
<1> QED
  BY <1>2, <1>3

-----------------------------------------------------------------------------
(* The buyer.                                                              *)

\* Of the buyer only its state and what it is told change.
LEMMA BuyerMoves ==
    ASSUME Inv, UNCHANGED <<opt, seller, calls, maker>>, DOMAIN buyer' = BuyerFields,
           buyer'.keys = buyer.keys, buyer'.transactions = buyer.transactions
    PROVE  Shaped' /\ Dealt' /\ Stocked' /\ Stopping' /\ Earning' /\ Bought' /\ Settled'
<1>1. Shaped'
  BY DEF Inv, Shaped, Apis
<1>2. Dealt'
  BY DEF Inv, Dealt, price
<1>3. Stocked'
  BY DEF Inv, Stocked, keyOf, Apis
<1>4. Bought' /\ Settled'
  BY DEF Inv, Bought, Settled, Buys, dealing, settled, complete, Apis
<1> QED
  BY <1>1, <1>2, <1>3, <1>4, SellersPart

LEMMA BuyerStartKeeps ==
    ASSUME Inv, BuyerStart
    PROVE  Inv'
<1>1. /\ DOMAIN buyer' = BuyerFields /\ buyer'.state = "starting" /\ buyer.state # "started"
      /\ buyer'.keys = buyer.keys /\ buyer'.transactions = buyer.transactions
      /\ UNCHANGED <<opt, seller, calls, maker>>
  BY DEF Inv, Shaped, BuyerFields, BuyerStart
<1>2. Calling' /\ Paying'
  BY <1>1 DEF Inv, Calling, Paying
<1> QED
  BY <1>1, <1>2, BuyerMoves DEF Inv

LEMMA BuyerStartedKeeps ==
    ASSUME Inv, BuyerStarted
    PROVE  Inv'
<1>1. /\ DOMAIN buyer' = BuyerFields /\ buyer.state = "told"
      /\ buyer'.keys = buyer.keys /\ buyer'.transactions = buyer.transactions
      /\ UNCHANGED <<opt, seller, calls, maker>>
      /\ \/ buyer'.state = "failed"
         \/ /\ buyer'.state = "started"
            /\ buyer'.seq = buyer.told.seq /\ buyer'.balance = buyer.told.remaining
  BY DEF Inv, Shaped, BuyerFields, BuyerStarted
<1>2. \A u \in Unwraps : calls[u].at \notin Active /\ ~calls[u].asked
  BY <1>1 DEF Inv, Calling, Paying
<1>3. Calling'
  BY <1>1, <1>2 DEF Inv, Calling
<1>4. Paying'
  BY <1>1, <1>2 DEF Inv, Paying, Active
<1> QED
  BY <1>1, <1>3, <1>4, BuyerMoves DEF Inv

\* A call that is not of a purchase, before and after.
LEMMA Bystander ==
    ASSUME Inv, NEW u \in Unwraps, calls[u].at \notin {"buy", "raised"}
    PROVE  ~calls[u].asked /\ ~dealing(u)
BY DEF Inv, Calling, Dealt, dealing

LEMMA UnwrapKeeps ==
    ASSUME Inv, NEW u \in Unwraps, Unwrap(u)
    PROVE  Inv'
<1> DEFINE a == calls[u]
<1>0. /\ UNCHANGED <<opt, seller, maker>> /\ a.at = "idle" /\ a.seq = 0 /\ Apis' = Apis
      /\ buyer.state = "started" /\ DOMAIN calls = Unwraps /\ DOMAIN a = CallFields
      /\ DOMAIN buyer = BuyerFields /\ DOMAIN maker = MakerFields /\ ~a.asked /\ ~dealing(u)
  BY Bystander DEF Unwrap, Inv, Shaped, Calling, Apis
<1>1. PICK k \in seller.wrapped :
        IF k \in DOMAIN buyer.keys
        THEN /\ calls' = [calls EXCEPT ![u].at = "wait", ![u].key = k]
             /\ buyer' = buyer
        ELSE /\ calls' = [calls EXCEPT ![u].at = "quote", ![u].key = k]
             /\ buyer' = setKey(buyer, k, "buying")
  BY DEF Unwrap
<1>2. k \in seller.keys_map
  BY DEF Inv, Stocked
<1>3. PICK at : /\ Becomes(u, at, k, a.seq, a.balance, a.asked)
                /\ at = "wait" \/ (at = "quote" /\ k \notin DOMAIN buyer.keys)
  BY <1>0, <1>1 DEF Becomes, CallFields
<1>4. /\ DOMAIN buyer' = BuyerFields /\ buyer'.state = buyer.state
      /\ buyer'.seq = buyer.seq /\ buyer'.balance = buyer.balance
      /\ buyer'.transactions = buyer.transactions
      /\ DOMAIN buyer'.keys = DOMAIN buyer.keys \cup {k}
      /\ \A j \in DOMAIN buyer.keys : buyer'.keys[j] = buyer.keys[j]
  BY <1>0, <1>1 DEF setKey, BuyerFields
<1>5. Shaped'
  BY <1>0, <1>3, <1>4, CallsShaped DEF Inv, Shaped
<1>6. Dealt'
  BY <1>0, <1>3 DEF Inv, Dealt, Becomes, price, dealing
<1>7. Stocked'
  BY <1>0, <1>2, <1>3 DEF Inv, Stocked, Becomes, keyOf
<1>8. Calling'
  BY <1>0, <1>3, <1>4 DEF Inv, Calling, Becomes, Active
<1>9. Paying'
  BY <1>0, <1>3, <1>4 DEF Inv, Paying, Dealt, Becomes, price, dealing
<1>10. Bought'
  <2>1. \A v \in Unwraps : v # u => calls'[v] = calls[v] /\ (Buys(v)' <=> Buys(v))
    BY <1>3 DEF Becomes, Buys
  <2>2. /\ Buys(u)' => k \notin DOMAIN buyer.keys
        /\ calls'[u].key = k /\ calls'[u].seq = 0
    BY <1>0, <1>3 DEF Becomes, Buys
  <2>3. \A v \in Unwraps : Buys(v)' => calls'[v].key \in DOMAIN buyer'.keys
    BY <1>4, <2>1, <2>2 DEF Inv, Bought
  <2>4. \A v, w \in Unwraps : Buys(v)' /\ Buys(w)' /\ calls'[v].key = calls'[w].key => v = w
    BY <2>1, <2>2 DEF Inv, Bought
  <2>5. ASSUME NEW v \in Unwraps, v # u, calls[v].seq > 0
        PROVE  /\ buyer'.keys[calls[v].key] = buyer.keys[calls[v].key]
               /\ dealing(v)' <=> dealing(v)
               /\ settled(calls[v].key)' <=> settled(calls[v].key)
    BY <1>0, <1>4, <2>1, <2>5 DEF Inv, Bought, Buys, dealing, settled
  <2>6. complete(buyer)' = complete(buyer)
    BY <1>4 DEF complete
  <2>7. ASSUME NEW v \in Unwraps, calls'[v].seq > 0
        PROVE  v # u /\ calls[v].seq > 0 /\ calls'[v] = calls[v]
    BY <2>1, <2>2, <2>7
  <2>8. ASSUME NEW v \in Unwraps, calls'[v].seq > 0
        PROVE  /\ \E i \in DOMAIN buyer'.transactions : buyer'.transactions[i].key = calls'[v].key
               /\ calls'[v].asked \/ dealing(v)' \/ calls'[v].at = "refused" => ~settled(calls[v].key)'
               /\ calls'[v].at = "receipt" => settled(calls[v].key)'
               /\ calls'[v].at = "done" =>
                     buyer'.keys[calls'[v].key] = "key" /\ calls'[v].key \in complete(buyer)'
               /\ calls'[v].at = "raised" /\ (calls'[v].asked \/ dealing(v)' \/ settled(calls[v].key)') =>
                     buyer'.keys[calls'[v].key] = "failed"
    BY <1>4, <2>5, <2>6, <2>7, <2>8 DEF Inv, Bought
  <2> QED
    BY <2>3, <2>4, <2>8 DEF Bought
<1>11. Settled'
  <2>1. \A v \in Unwraps : calls[v].seq > 0 => calls'[v] = calls[v]
    BY <1>0, <1>3 DEF Becomes
  <2>2. complete(buyer)' = complete(buyer)
    BY <1>4 DEF complete
  <2> QED
    BY <1>0, <2>1, <2>2, NothingSettled
<1> QED
  BY <1>0, <1>5, <1>6, <1>7, <1>8, <1>9, <1>10, <1>11, SellersPart DEF Inv

LEMMA RefusedKeeps ==
    ASSUME Inv, NEW u \in Unwraps, Refused(u)
    PROVE  Inv'
<1> DEFINE a == calls[u]
<1>0. /\ UNCHANGED <<opt, seller, buyer, maker>> /\ a.at \in {"refused", "closed"} /\ Apis' = Apis
      /\ ~a.asked /\ ~dealing(u) /\ buyer.state = "started"
      /\ DOMAIN calls = Unwraps /\ DOMAIN a = CallFields
  BY Bystander DEF Refused, Inv, Shaped, Calling, Active, Apis
<1>1. Becomes(u, "raised", a.key, a.seq, a.balance, a.asked)
  BY <1>0 DEF Refused, Becomes, CallFields
<1>2. Shaped'
  BY <1>0, <1>1, CallsShaped DEF Inv, Shaped
<1>3. Dealt'
  BY <1>0, <1>1 DEF Inv, Dealt, Becomes, price, dealing
<1>4. Stocked'
  BY <1>0, <1>1 DEF Inv, Stocked, Becomes, keyOf
<1>5. Calling'
  BY <1>0, <1>1 DEF Inv, Calling, Becomes, Active
<1>6. Paying'
  BY <1>0, <1>1 DEF Inv, Paying, Dealt, Becomes, price, dealing
<1>7. Bought'
  BY <1>0, <1>1 DEF Inv, Bought, Calling, Becomes, Buys, dealing, settled, complete
<1>8. Settled'
  <2>1. complete(buyer)' = complete(buyer)
    BY <1>0 DEF complete
  <2> QED
    BY <1>0, <1>1, <2>1, NothingSettled DEF Becomes
<1> QED
  BY <1>0, <1>2, <1>3, <1>4, <1>5, <1>6, <1>7, <1>8, SellersPart DEF Inv

LEMMA WokenKeeps ==
    ASSUME Inv, NEW u \in Unwraps, Woken(u)
    PROVE  Inv'
<1> DEFINE a == calls[u]
           at == IF buyer.keys[a.key] = "key" THEN "done" ELSE "raised"
<1>0. /\ UNCHANGED <<opt, seller, buyer, maker>> /\ a.at = "wait" /\ a.seq = 0 /\ Apis' = Apis
      /\ ~a.asked /\ ~dealing(u) /\ DOMAIN calls = Unwraps /\ DOMAIN a = CallFields
      /\ calls' = [calls EXCEPT ![u].at = at]
  BY Bystander DEF Woken, Inv, Shaped, Calling, Apis
<1>1. at = "done" \/ at = "raised"
  OBVIOUS
<1> HIDE DEF at
<1>2. Becomes(u, at, a.key, a.seq, a.balance, a.asked)
  BY <1>0 DEF Becomes, CallFields
<1>3. Shaped'
  BY <1>0, <1>2, CallsShaped DEF Inv, Shaped
<1>4. Dealt'
  BY <1>0, <1>2 DEF Inv, Dealt, Becomes, price, dealing
<1>5. Stocked'
  BY <1>0, <1>2 DEF Inv, Stocked, Becomes, keyOf
<1>6. Calling'
  BY <1>0, <1>1, <1>2 DEF Inv, Calling, Becomes, Active
<1>7. Paying'
  BY <1>0, <1>1, <1>2 DEF Inv, Paying, Dealt, Becomes, price, dealing
<1>8. Bought'
  BY <1>0, <1>1, <1>2 DEF Inv, Bought, Becomes, Buys, dealing, settled, complete
<1>9. Settled'
  <2>1. complete(buyer)' = complete(buyer)
    BY <1>0 DEF complete
  <2> QED
    BY <1>0, <1>1, <1>2, <2>1, NothingSettled DEF Becomes
<1> QED
  BY <1>0, <1>3, <1>4, <1>5, <1>6, <1>7, <1>8, <1>9, SellersPart DEF Inv

\* A transaction is kept: the calls whose transactions there were have them still.
LEMMA SignedKeeps ==
    ASSUME Inv, NEW u \in Unwraps, calls[u].key \in Apis \X Nat, buyer.seq \in Nat
    PROVE  LET b == signed(buyer, u)  n == Len(buyer.transactions) + 1
           IN  /\ DOMAIN b = BuyerFields /\ b.state = buyer.state /\ b.seq = buyer.seq
               /\ b.balance = buyer.balance /\ b.keys = buyer.keys
               /\ b.transactions \in Seq([key : Apis \X Nat, seq : Nat, paid : BOOLEAN])
               /\ DOMAIN b.transactions = DOMAIN buyer.transactions \cup {n}
               /\ b.transactions[n].key = calls[u].key /\ ~b.transactions[n].paid
               /\ \A i \in DOMAIN buyer.transactions : b.transactions[i] = buyer.transactions[i]
<1> DEFINE S == [key : Apis \X Nat, seq : Nat, paid : BOOLEAN]
           t == [key |-> calls[u].key, seq |-> buyer.seq + 1, paid |-> FALSE]
           ts == Append(buyer.transactions, t)
<1>1. signed(buyer, u) = [buyer EXCEPT !.transactions = ts]
  BY DEF signed
<1>2. t \in S /\ t.key = calls[u].key /\ ~t.paid
  OBVIOUS
<1>a. buyer.transactions \in Seq(S) /\ DOMAIN buyer = BuyerFields
  BY DEF Inv, Shaped
<1> HIDE DEF t, S
<1>3. /\ ts \in Seq(S)
      /\ DOMAIN ts = DOMAIN buyer.transactions \cup {Len(buyer.transactions) + 1}
      /\ ts[Len(buyer.transactions) + 1] = t
      /\ \A i \in DOMAIN buyer.transactions : ts[i] = buyer.transactions[i]
  BY <1>2, <1>a
<1> HIDE DEF ts
<1>4. LET b == signed(buyer, u)
      IN  /\ DOMAIN b = BuyerFields /\ b.state = buyer.state /\ b.seq = buyer.seq
          /\ b.balance = buyer.balance /\ b.keys = buyer.keys /\ b.transactions = ts
  BY <1>1, <1>a DEF BuyerFields
<1> QED
  BY <1>2, <1>3, <1>4 DEF S

LEMMA QuotedKeeps ==
    ASSUME Inv, NEW u \in Unwraps, Quoted(u)
    PROVE  Inv'
<1> DEFINE a == calls[u]
<1>0. /\ UNCHANGED <<opt, seller, maker>> /\ a.at = "quoted" /\ a.seq = 0 /\ Apis' = Apis
      /\ ~a.asked /\ ~dealing(u) /\ buyer.state = "started"
      /\ DOMAIN calls = Unwraps /\ DOMAIN a = CallFields /\ DOMAIN buyer = BuyerFields
      /\ DOMAIN maker = MakerFields
  BY Bystander DEF Quoted, Inv, Shaped, Calling, Active, Apis
<1>1. a.key \in DOMAIN buyer.keys /\ \A v \in Unwraps : v # u /\ Buys(v) => calls[v].key # a.key
  BY <1>0 DEF Inv, Bought, Buys
<1>2. CASE signed(buyer, u) = buyer' /\ calls' = [calls EXCEPT ![u].at = "buy", ![u].asked = TRUE,
                   ![u].seq = buyer.seq + 1, ![u].balance = buyer.balance - price(a.key)]
  <2>1. Becomes(u, "buy", a.key, buyer.seq + 1, buyer.balance - price(a.key), TRUE)
    <3> DEFINE balance == buyer.balance - price(a.key)
               seq == buyer.seq + 1
    <3>1. calls' = [calls EXCEPT ![u].at = "buy", ![u].asked = TRUE, ![u].seq = seq, ![u].balance = balance]
      BY <1>2
    <3> HIDE DEF balance, seq
    <3>2. Becomes(u, "buy", a.key, seq, balance, TRUE)
      BY <1>0, <3>1 DEF Becomes, CallFields
    <3> QED
      BY <3>2 DEF balance, seq
  <2>2. buyer.seq \in Nat /\ a.key \in Apis \X Nat
    BY <1>0 DEF Inv, Paying, Stocked
  <2>3. PICK n : /\ n \notin DOMAIN buyer.transactions
                 /\ DOMAIN buyer' = BuyerFields /\ buyer'.state = buyer.state /\ buyer'.seq = buyer.seq
                 /\ buyer'.balance = buyer.balance /\ buyer'.keys = buyer.keys
                 /\ buyer'.transactions \in Seq([key : Apis \X Nat, seq : Nat, paid : BOOLEAN])
                 /\ DOMAIN buyer'.transactions = DOMAIN buyer.transactions \cup {n}
                 /\ buyer'.transactions[n].key = a.key /\ ~buyer'.transactions[n].paid
                 /\ \A i \in DOMAIN buyer.transactions : buyer'.transactions[i] = buyer.transactions[i]
    <3>1. Len(buyer.transactions) + 1 \notin DOMAIN buyer.transactions
      BY DEF Inv, Shaped
    <3> QED
      BY <1>2, <2>2, <3>1, SignedKeeps
  <2>4. Shaped'
    BY <1>0, <2>1, <2>3, CallsShaped DEF Inv, Shaped
  <2>5. Dealt'
    BY <1>0, <2>1 DEF Inv, Dealt, Becomes, price, dealing
  <2>6. Stocked'
    BY <1>0, <2>1 DEF Inv, Stocked, Becomes, keyOf
  <2>7. Calling'
    <3>1. /\ \A v \in Unwraps : v # u => calls'[v] = calls[v]
          /\ calls'[u].at = "buy" /\ calls'[u].asked /\ calls'[u].seq = buyer.seq + 1
      BY <2>1 DEF Becomes
    <3>2. calls'[u].seq \in Nat /\ calls'[u].seq > 0
      BY <2>2, <3>1
    <3> QED
      BY <1>0, <2>3, <3>1, <3>2, OneCalls
  <2>8. Paying'
    <3>1. /\ \A v \in Unwraps : v # u => calls'[v] = calls[v]
          /\ calls'[u].at = "buy" /\ calls'[u].seq = buyer.seq + 1
      BY <2>1 DEF Becomes
    <3>2. \A v \in Unwraps :
             /\ calls'[v].asked => calls'[v].at = "buy"
             /\ calls'[v].at \in {"buy", "receipt"} => calls'[v].seq <= buyer.seq + 1
      BY <1>0, <2>2, <3>1 DEF Inv, Paying
    <3>3. maker.deal # None => calls'[maker.deal.call].at = "buy"
      BY <1>0, <3>1 DEF Inv, Paying, Dealt, dealing
    <3>4. \A v \in Unwraps : calls'[v].at = "receipt" <=> calls[v].at = "receipt"
      BY <1>0, <3>1
    <3>5. \A v \in Unwraps : calls[v].at = "receipt" => calls'[v] = calls[v]
      BY <1>0, <3>1
    <3>6. CASE buyer.seq = maker.pay.seq /\ \A v \in Unwraps : calls[v].at # "receipt"
      <4>1. buyer.balance = maker.pay.remaining /\ maker.pay.seq \in Nat
        BY <1>0, <3>6 DEF Inv, Paying
      <4>2. /\ buyer'.state = "started" /\ buyer'.seq = maker'.pay.seq
            /\ buyer'.balance = maker'.pay.remaining /\ maker'.pay.seq \in Nat
            /\ \A v \in Unwraps : calls'[v].at # "receipt"
        BY <1>0, <2>3, <3>4, <3>6, <4>1
      <4> QED
        BY <1>0, <2>3, <3>2, <3>3, <4>2 DEF Paying
    <3>7. CASE \E v \in Unwraps : calls[v].at = "receipt"
      <4>1. PICK v \in Unwraps :
              /\ calls[v].at = "receipt" /\ calls[v].seq = buyer.seq + 1
              /\ calls[v].balance = buyer.balance - price(calls[v].key)
              /\ calls[v].balance = maker.pay.remaining
              /\ \A w \in Unwraps : calls[w].at = "receipt" => w = v
        BY <1>0, <3>7 DEF Inv, Paying
      <4>2. buyer.seq \in Nat /\ maker.pay.seq = buyer.seq + 1 /\ maker.pay.seq \in Nat
        BY <1>0, <3>7 DEF Inv, Paying
      <4>3. /\ calls'[v] = calls[v] /\ price(calls[v].key)' = price(calls[v].key)
            /\ \A w \in Unwraps : calls'[w].at = "receipt" => w = v
        BY <1>0, <3>4, <3>5, <4>1 DEF price
      <4>4. /\ calls'[v].at = "receipt" /\ calls'[v].seq = buyer.seq + 1
            /\ calls'[v].balance = buyer.balance - price(calls[v].key)'
            /\ calls'[v].balance = maker.pay.remaining
        BY <4>1, <4>3
      <4> QED
        <5>1. /\ buyer'.state = "started" /\ buyer'.seq = buyer.seq
              /\ buyer'.balance = buyer.balance /\ maker' = maker
          BY <1>0, <2>3
        <5>2. /\ buyer'.seq \in Nat /\ maker'.pay.seq = buyer'.seq + 1 /\ maker'.pay.seq \in Nat
          BY <4>2, <5>1
        <5>3. \E w \in Unwraps :
                /\ calls'[w].at = "receipt" /\ calls'[w].seq = buyer'.seq + 1
                /\ calls'[w].balance = buyer'.balance - price(calls[w].key)'
                /\ calls'[w].balance = maker'.pay.remaining
                /\ \A x \in Unwraps : calls'[x].at = "receipt" => x = w
          BY <4>3, <4>4, <5>1
        <5> QED
          BY <3>2, <3>3, <5>1, <5>2, <5>3 DEF Paying, price
    <3> QED
      BY <1>0, <3>6, <3>7 DEF Inv, Paying
  <2>9. complete(buyer)' = complete(buyer)
    BY <2>3 DEF complete
  <2>10. ~settled(a.key)
    BY <1>0, <1>1 DEF Inv, Settled, settled, Buys
  <2>11. Bought'
    <3>1. \A v \in Unwraps : v # u => calls'[v] = calls[v] /\ (Buys(v)' <=> Buys(v))
      BY <2>1 DEF Becomes, Buys
    <3>2. calls'[u].key = a.key /\ calls'[u].at = "buy"
      BY <2>1 DEF Becomes
    <3>3. /\ \A v \in Unwraps : Buys(v)' => calls'[v].key \in DOMAIN buyer'.keys
          /\ \A v, w \in Unwraps : Buys(v)' /\ Buys(w)' /\ calls'[v].key = calls'[w].key => v = w
      <4>1. \A v \in Unwraps : v # u /\ Buys(v)' =>
               Buys(v) /\ calls'[v].key = calls[v].key /\ calls[v].key # a.key
        BY <1>1, <3>1
      <4>2. /\ \A v \in Unwraps : Buys(v) => calls[v].key \in DOMAIN buyer.keys
            /\ \A v, w \in Unwraps : Buys(v) /\ Buys(w) /\ calls[v].key = calls[w].key => v = w
        BY DEF Inv, Bought
      <4>3. \A v \in Unwraps : Buys(v)' => calls'[v].key \in DOMAIN buyer'.keys
        BY <1>1, <2>3, <3>2, <4>1, <4>2
      <4>4. \A v \in Unwraps : Buys(v)' => v = u \/ (Buys(v) /\ calls'[v].key = calls[v].key /\ calls'[v].key # a.key)
        BY <4>1
      <4> HIDE DEF a
      <4>5. ASSUME NEW v \in Unwraps, NEW w \in Unwraps, Buys(v)', Buys(w)', calls'[v].key = calls'[w].key
            PROVE  v = w
        BY <3>2, <4>2, <4>4, <4>5
      <4> QED
        BY <4>3, <4>5
    <3>4. \A v \in Unwraps : /\ settled(calls[v].key)' <=> settled(calls'[v].key)
                             /\ dealing(v)' <=> dealing(v)
      BY <1>0 DEF settled, dealing
    <3>5. ASSUME NEW v \in Unwraps, calls'[v].seq > 0
          PROVE  /\ \E i \in DOMAIN buyer'.transactions : buyer'.transactions[i].key = calls'[v].key
                 /\ calls'[v].asked \/ dealing(v)' \/ calls'[v].at = "refused" => ~settled(calls[v].key)'
                 /\ calls'[v].at = "receipt" => settled(calls[v].key)'
                 /\ calls'[v].at = "done" =>
                       buyer'.keys[calls'[v].key] = "key" /\ calls'[v].key \in complete(buyer)'
                 /\ calls'[v].at = "raised" /\ (calls'[v].asked \/ dealing(v)' \/ settled(calls[v].key)') =>
                       buyer'.keys[calls'[v].key] = "failed"
      <4>1. CASE v = u
        BY <2>3, <2>10, <3>2, <3>4, <4>1
      <4>2. CASE v # u
        <5>1. calls'[v] = calls[v] /\ calls[v].seq > 0
          BY <3>1, <3>5, <4>2
        <5>2. /\ \E i \in DOMAIN buyer.transactions : buyer.transactions[i].key = calls[v].key
              /\ calls[v].asked \/ dealing(v) \/ calls[v].at = "refused" => ~settled(calls[v].key)
              /\ calls[v].at = "receipt" => settled(calls[v].key)
              /\ calls[v].at = "done" =>
                    buyer.keys[calls[v].key] = "key" /\ calls[v].key \in complete(buyer)
              /\ calls[v].at = "raised" /\ (calls[v].asked \/ dealing(v) \/ settled(calls[v].key)) =>
                    buyer.keys[calls[v].key] = "failed"
          BY <5>1 DEF Inv, Bought
        <5>3. \E i \in DOMAIN buyer'.transactions : buyer'.transactions[i].key = calls[v].key
          BY <2>3, <5>2
        <5> QED
          BY <2>3, <2>9, <3>4, <5>1, <5>2, <5>3
      <4> QED
        BY <4>1, <4>2
    <3> QED
      BY <3>3, <3>5 DEF Bought
  <2>12. Settled'
    BY <1>0, <2>1, <2>9, NothingSettled DEF Becomes
  <2> QED
    BY <1>0, <2>4, <2>5, <2>6, <2>7, <2>8, <2>11, <2>12, SellersPart DEF Inv
<1>3. CASE /\ buyer' = buyer \/ \E h : buyer' = [buyer EXCEPT !.hung = h]
           /\ \E at \in {"raised", "close", "quoted"} : calls' = [calls EXCEPT ![u].at = at]
  <2>1. PICK at \in {"raised", "close", "quoted"} : calls' = [calls EXCEPT ![u].at = at]
    BY <1>3
  <2>2. Becomes(u, at, a.key, a.seq, a.balance, a.asked)
    BY <1>0, <2>1 DEF Becomes, CallFields
  <2>3. /\ DOMAIN buyer' = BuyerFields /\ buyer'.state = buyer.state /\ buyer'.seq = buyer.seq
        /\ buyer'.balance = buyer.balance /\ buyer'.keys = buyer.keys
        /\ buyer'.transactions = buyer.transactions
    BY <1>0, <1>3 DEF BuyerFields
  <2>4. Shaped'
    BY <1>0, <2>2, <2>3, CallsShaped DEF Inv, Shaped
  <2>5. Dealt'
    BY <1>0, <2>2 DEF Inv, Dealt, Becomes, price, dealing
  <2>6. Stocked'
    BY <1>0, <2>2 DEF Inv, Stocked, Becomes, keyOf
  <2>7. Calling'
    BY <1>0, <2>2, <2>3 DEF Inv, Calling, Becomes, Active
  <2>8. Paying'
    BY <1>0, <2>2, <2>3 DEF Inv, Paying, Dealt, Becomes, price, dealing
  <2>9. Bought'
    BY <1>0, <2>2, <2>3 DEF Inv, Bought, Becomes, Buys, dealing, settled, complete
  <2>10. Settled'
    <3>1. complete(buyer)' = complete(buyer)
      BY <2>3 DEF complete
    <3> QED
      BY <1>0, <2>2, <3>1, NothingSettled DEF Becomes
  <2> QED
    BY <1>0, <2>4, <2>5, <2>6, <2>7, <2>8, <2>9, <2>10, SellersPart DEF Inv
<1>4. \/ signed(buyer, u) = buyer' /\ calls' = [calls EXCEPT ![u].at = "buy", ![u].asked = TRUE,
                   ![u].seq = buyer.seq + 1, ![u].balance = buyer.balance - price(a.key)]
      \/ /\ buyer' = buyer \/ \E h : buyer' = [buyer EXCEPT !.hung = h]
         /\ \E at \in {"raised", "close", "quoted"} : calls' = [calls EXCEPT ![u].at = at]
  BY <1>0 DEF Quoted
<1> QED
  BY <1>2, <1>3, <1>4

\* The transaction of a key that is paid for is complete, and no other becomes so.
LEMMA PaidCompletes ==
    ASSUME Inv, NEW u \in Unwraps,
           \E i \in DOMAIN buyer.transactions : buyer.transactions[i].key = calls[u].key
    PROVE  LET b == paid(buyer, u)  k == calls[u].key
           IN  /\ DOMAIN b = BuyerFields /\ b.state = buyer.state /\ b.seq = calls[u].seq
               /\ b.balance = calls[u].balance
               /\ DOMAIN b.keys = DOMAIN buyer.keys \cup {k} /\ b.keys[k] = "key"
               /\ \A j \in DOMAIN buyer.keys : j # k => b.keys[j] = buyer.keys[j]
               /\ b.transactions \in Seq([key : Apis \X Nat, seq : Nat, paid : BOOLEAN])
               /\ DOMAIN b.transactions = DOMAIN buyer.transactions
               /\ \A i \in DOMAIN buyer.transactions : b.transactions[i].key = buyer.transactions[i].key
               /\ complete(b) = complete(buyer) \cup {k}
<1> DEFINE S == [key : Apis \X Nat, seq : Nat, paid : BOOLEAN]
           k == calls[u].key
           keys == [j \in DOMAIN buyer.keys \cup {k} |-> IF j = k THEN "key" ELSE buyer.keys[j]]
           ts == [i \in DOMAIN buyer.transactions |->
                    IF buyer.transactions[i].key = k THEN [buyer.transactions[i] EXCEPT !.paid = TRUE]
                    ELSE buyer.transactions[i]]
           seq == calls[u].seq
           balance == calls[u].balance
           b == paid(buyer, u)
<1>1. DOMAIN buyer = BuyerFields /\ buyer.transactions \in Seq(S)
  BY DEF Inv, Shaped
<1>2. b = [[buyer EXCEPT !.keys = keys] EXCEPT !.seq = seq, !.balance = balance, !.transactions = ts]
  BY <1>1 DEF paid, setKey, BuyerFields
<1>3. \A i \in DOMAIN buyer.transactions :
        /\ ts[i] \in S /\ ts[i].key = buyer.transactions[i].key
        /\ ts[i].paid <=> buyer.transactions[i].paid \/ buyer.transactions[i].key = k
  <2>1. \A i \in DOMAIN buyer.transactions : buyer.transactions[i] \in S
    <3> HIDE DEF S
    <3> QED
      BY <1>1
  <2>2. \A t \in S : [t EXCEPT !.paid = TRUE] \in S
    OBVIOUS
  <2> QED
    BY <2>1, <2>2
<1>4. DOMAIN ts = DOMAIN buyer.transactions /\ ts \in Seq(S)
  <2>1. DOMAIN buyer.transactions = 1..Len(buyer.transactions) /\ Len(buyer.transactions) \in Nat
    <3> HIDE DEF S
    <3> QED
      BY <1>1
  <2>2. DOMAIN ts = 1..Len(buyer.transactions) /\ ts = [i \in 1..Len(buyer.transactions) |-> ts[i]]
    BY <2>1
  <2> HIDE DEF ts, S
  <2> QED
    BY <1>3, <2>1, <2>2
<1>5. /\ DOMAIN keys = DOMAIN buyer.keys \cup {k} /\ keys[k] = "key"
      /\ \A j \in DOMAIN buyer.keys : j # k => keys[j] = buyer.keys[j]
  OBVIOUS
<1> HIDE DEF keys, ts, S, seq, balance, b, k
<1>6. /\ DOMAIN b = BuyerFields /\ b.state = buyer.state /\ b.seq = seq /\ b.balance = balance
      /\ b.keys = keys /\ b.transactions = ts
  BY <1>1, <1>2 DEF BuyerFields
<1>7. complete(b) = complete(buyer) \cup {k}
  <2>1. \A c : c \in complete(b) <=> \E i \in DOMAIN ts : ts[i].paid /\ c = ts[i].key
    BY <1>6 DEF complete
  <2>2. \A c : c \in complete(buyer) <=>
                 \E i \in DOMAIN buyer.transactions :
                    buyer.transactions[i].paid /\ c = buyer.transactions[i].key
    BY DEF complete
  <2>3. \E i \in DOMAIN buyer.transactions : buyer.transactions[i].key = k
    BY DEF k
  <2>4. \A c : c \in complete(b) <=> c \in complete(buyer) \/ c = k
    BY <1>3, <1>4, <2>1, <2>2, <2>3
  <2> QED
    BY <2>4
<1> QED
  BY <1>3, <1>4, <1>5, <1>6, <1>7 DEF S, b, k, seq, balance

LEMMA ReceivedKeeps ==
    ASSUME Inv, NEW u \in Unwraps, Received(u)
    PROVE  Inv'
<1> DEFINE a == calls[u]
<1>0. /\ UNCHANGED <<opt, seller, maker>> /\ a.at = "receipt" /\ a.seq > 0 /\ a.seq \in Nat
      /\ Apis' = Apis /\ ~a.asked /\ ~dealing(u) /\ buyer.state = "started"
      /\ DOMAIN calls = Unwraps /\ DOMAIN a = CallFields /\ DOMAIN maker = MakerFields
  BY Bystander DEF Received, Inv, Shaped, Calling, Active, Apis
<1>1. /\ a.seq = buyer.seq + 1 /\ a.balance = buyer.balance - price(a.key)
      /\ a.seq = maker.pay.seq /\ a.balance = maker.pay.remaining
      /\ \A v \in Unwraps : calls[v].at = "receipt" => v = u
      /\ buyer.seq \in Nat
  BY <1>0 DEF Inv, Paying
<1>2. buyer' = paid(buyer, u) /\ calls' = [calls EXCEPT ![u].at = "done"]
  BY <1>1 DEF Received
<1>3. Becomes(u, "done", a.key, a.seq, a.balance, a.asked)
  BY <1>0, <1>2 DEF Becomes, CallFields
<1>4. /\ a.key \in DOMAIN buyer.keys /\ settled(a.key)
      /\ \A v \in Unwraps : v # u /\ Buys(v) => calls[v].key # a.key
      /\ \E i \in DOMAIN buyer.transactions : buyer.transactions[i].key = a.key
  BY <1>0 DEF Inv, Bought, Buys
<1>5. /\ DOMAIN buyer' = BuyerFields /\ buyer'.state = buyer.state /\ buyer'.seq = a.seq
      /\ buyer'.balance = a.balance
      /\ DOMAIN buyer'.keys = DOMAIN buyer.keys /\ buyer'.keys[a.key] = "key"
      /\ \A j \in DOMAIN buyer.keys : j # a.key => buyer'.keys[j] = buyer.keys[j]
      /\ buyer'.transactions \in Seq([key : Apis \X Nat, seq : Nat, paid : BOOLEAN])
      /\ DOMAIN buyer'.transactions = DOMAIN buyer.transactions
      /\ \A i \in DOMAIN buyer.transactions : buyer'.transactions[i].key = buyer.transactions[i].key
      /\ complete(buyer)' = complete(buyer) \cup {a.key}
  <2> DEFINE b == paid(buyer, u)
  <2>1. /\ DOMAIN b = BuyerFields /\ b.state = buyer.state /\ b.seq = a.seq
        /\ b.balance = a.balance
        /\ DOMAIN b.keys = DOMAIN buyer.keys \cup {a.key} /\ b.keys[a.key] = "key"
        /\ \A j \in DOMAIN buyer.keys : j # a.key => b.keys[j] = buyer.keys[j]
        /\ b.transactions \in Seq([key : Apis \X Nat, seq : Nat, paid : BOOLEAN])
        /\ DOMAIN b.transactions = DOMAIN buyer.transactions
        /\ \A i \in DOMAIN buyer.transactions : b.transactions[i].key = buyer.transactions[i].key
        /\ complete(b) = complete(buyer) \cup {a.key}
    BY <1>4, PaidCompletes
  <2>2. buyer' = b
    BY <1>2
  <2> HIDE DEF b
  <2>3. complete(buyer)' = complete(b)
    BY <2>2 DEF complete
  <2> QED
    BY <1>4, <2>1, <2>2, <2>3
<1>6. Shaped'
  BY <1>0, <1>3, <1>5, CallsShaped DEF Inv, Shaped
<1>7. Dealt'
  BY <1>0, <1>3 DEF Inv, Dealt, Becomes, price, dealing
<1>8. Stocked'
  BY <1>0, <1>3 DEF Inv, Stocked, Becomes, keyOf
<1>9. Calling'
  <2>1. /\ \A v \in Unwraps : v # u => calls'[v] = calls[v]
        /\ calls'[u].at = "done" /\ ~calls'[u].asked /\ calls'[u].seq \in Nat
    BY <1>0, <1>3 DEF Becomes
  <2> QED
    BY <1>0, <1>5, <2>1, OneCalls DEF Active
<1>10. Paying'
  <2>1. \A v \in Unwraps : v # u => calls'[v] = calls[v]
    BY <1>3 DEF Becomes
  <2>2. calls'[u].at = "done" /\ ~calls'[u].asked
    BY <1>0, <1>3 DEF Becomes
  <2>3. \A v \in Unwraps :
          /\ calls'[v].asked => calls'[v].at = "buy"
          /\ calls'[v].at # "receipt"
    BY <1>0, <1>1, <2>1, <2>2 DEF Inv, Paying
  <2>4. ASSUME NEW v \in Unwraps, calls'[v].at = "buy"
        PROVE  calls'[v].seq <= a.seq + 1
    <3>1. v # u /\ calls'[v] = calls[v] /\ calls[v].seq \in Nat
      BY <2>1, <2>2, <2>4 DEF Inv, Calling
    <3>2. calls[v].seq <= buyer.seq + 1
      BY <1>0, <2>4, <3>1 DEF Inv, Paying
    <3> QED
      BY <1>0, <1>1, <3>1, <3>2
  <2>5. maker.deal # None => calls'[maker.deal.call].at = "buy"
    BY <1>0, <2>1 DEF Inv, Paying, Dealt, dealing
  <2> QED
    BY <1>0, <1>1, <1>5, <2>3, <2>4, <2>5 DEF Inv, Paying
<1>11. Bought'
  <2>1. \A v \in Unwraps : v # u => calls'[v] = calls[v] /\ (Buys(v)' <=> Buys(v))
    BY <1>3 DEF Becomes, Buys
  <2>2. calls'[u].key = a.key /\ calls'[u].at = "done" /\ ~calls'[u].asked /\ Buys(u)
    BY <1>0, <1>3 DEF Becomes, Buys
  <2>3. /\ \A v \in Unwraps : Buys(v)' => Buys(v)
        /\ \A v \in Unwraps : calls'[v].key = calls[v].key
    BY <2>1, <2>2
  <2>4. /\ \A v \in Unwraps : Buys(v)' => calls'[v].key \in DOMAIN buyer'.keys
        /\ \A v, w \in Unwraps : Buys(v)' /\ Buys(w)' /\ calls'[v].key = calls'[w].key => v = w
    BY <1>5, <2>3 DEF Inv, Bought
  <2>5. \A v \in Unwraps : /\ settled(calls[v].key)' <=> settled(calls'[v].key)
                           /\ dealing(v)' <=> dealing(v)
    BY <1>0 DEF settled, dealing
  <2>6. ASSUME NEW v \in Unwraps, calls'[v].seq > 0
        PROVE  /\ \E i \in DOMAIN buyer'.transactions : buyer'.transactions[i].key = calls'[v].key
               /\ calls'[v].asked \/ dealing(v)' \/ calls'[v].at = "refused" => ~settled(calls[v].key)'
               /\ calls'[v].at = "receipt" => settled(calls[v].key)'
               /\ calls'[v].at = "done" =>
                     buyer'.keys[calls'[v].key] = "key" /\ calls'[v].key \in complete(buyer)'
               /\ calls'[v].at = "raised" /\ (calls'[v].asked \/ dealing(v)' \/ settled(calls[v].key)') =>
                     buyer'.keys[calls'[v].key] = "failed"
    <3>1. CASE v = u
      BY <1>0, <1>4, <1>5, <2>2, <2>5, <3>1
    <3>2. CASE v # u
      <4>1. calls'[v] = calls[v] /\ calls[v].seq > 0 /\ calls[v].key # a.key
            /\ calls[v].key \in DOMAIN buyer.keys
        BY <1>4, <2>1, <2>6, <3>2 DEF Inv, Bought, Buys
      <4>2. /\ \E i \in DOMAIN buyer.transactions : buyer.transactions[i].key = calls[v].key
            /\ calls[v].asked \/ dealing(v) \/ calls[v].at = "refused" => ~settled(calls[v].key)
            /\ calls[v].at = "receipt" => settled(calls[v].key)
            /\ calls[v].at = "done" =>
                  buyer.keys[calls[v].key] = "key" /\ calls[v].key \in complete(buyer)
            /\ calls[v].at = "raised" /\ (calls[v].asked \/ dealing(v) \/ settled(calls[v].key)) =>
                  buyer.keys[calls[v].key] = "failed"
        BY <4>1 DEF Inv, Bought
      <4>3. /\ \E i \in DOMAIN buyer'.transactions : buyer'.transactions[i].key = calls[v].key
            /\ buyer'.keys[calls[v].key] = buyer.keys[calls[v].key]
            /\ calls[v].key \in complete(buyer) => calls[v].key \in complete(buyer)'
        BY <1>5, <4>1, <4>2
      <4> QED
        BY <2>5, <4>1, <4>2, <4>3
    <3> QED
      BY <3>1, <3>2
  <2> QED
    BY <2>4, <2>6 DEF Bought
<1>12. Settled'
  <2>1. \A v \in Unwraps :
          /\ calls'[v].seq = calls[v].seq /\ calls'[v].key = calls[v].key
          /\ calls'[v].at = calls[v].at \/ calls'[v].at = "done"
    BY <1>3 DEF Becomes
  <2>2. \A k : settled(k)' <=> settled(k)
    BY <1>0 DEF settled
  <2>3. \A k \in complete(buyer)' : settled(k)'
    BY <1>4, <1>5, <2>2 DEF Inv, Settled
  <2> QED
    BY <1>0, <2>1, <2>3 DEF Inv, Settled
<1> QED
  BY <1>0, <1>6, <1>7, <1>8, <1>9, <1>10, <1>11, <1>12, SellersPart DEF Inv

\* Of the calls under way, those with a purchase leave a failure behind.
LEMMA BuyerLosesSessionKeeps ==
    ASSUME Inv, BuyerLosesSession
    PROVE  Inv'
<1> DEFINE on == {u \in Unwraps : calls[u].at \in Active}
           bought == {calls[u].key : u \in {v \in on : calls[v].seq > 0}}
<1>0. /\ UNCHANGED <<opt, seller, maker>> /\ Apis' = Apis /\ buyer.state = "started"
      /\ DOMAIN calls = Unwraps /\ DOMAIN buyer = BuyerFields /\ DOMAIN maker = MakerFields
      /\ \A u \in Unwraps : DOMAIN calls[u] = CallFields
  BY DEF BuyerLosesSession, Inv, Shaped, Apis
<1>1. /\ calls' = [u \in Unwraps |-> IF u \in on THEN [calls[u] EXCEPT !.at = "raised"] ELSE calls[u]]
      /\ buyer' = [buyer EXCEPT !.state = "lost",
                      !.keys = [k \in DOMAIN buyer.keys |-> IF k \in bought THEN "failed" ELSE buyer.keys[k]]]
  BY DEF BuyerLosesSession, Active
<1>2. \A u \in Unwraps :
        /\ DOMAIN calls'[u] = CallFields
        /\ calls'[u].key = calls[u].key /\ calls'[u].seq = calls[u].seq
        /\ calls'[u].balance = calls[u].balance /\ calls'[u].asked = calls[u].asked
        /\ calls'[u].at = IF u \in on THEN "raised" ELSE calls[u].at
  <2> HIDE DEF on
  <2> QED
    BY <1>0, <1>1 DEF CallFields
<1>3. /\ DOMAIN buyer' = BuyerFields /\ buyer'.state = "lost"
      /\ buyer'.transactions = buyer.transactions /\ DOMAIN buyer'.keys = DOMAIN buyer.keys
      /\ \A k \in DOMAIN buyer.keys : buyer'.keys[k] = IF k \in bought THEN "failed" ELSE buyer.keys[k]
  <2> DEFINE keys == [k \in DOMAIN buyer.keys |-> IF k \in bought THEN "failed" ELSE buyer.keys[k]]
  <2>1. buyer' = [buyer EXCEPT !.state = "lost", !.keys = keys]
    BY <1>1
  <2>2. /\ DOMAIN keys = DOMAIN buyer.keys
        /\ \A k \in DOMAIN buyer.keys : keys[k] = IF k \in bought THEN "failed" ELSE buyer.keys[k]
    OBVIOUS
  <2> HIDE DEF keys, bought
  <2> QED
    BY <1>0, <2>1, <2>2 DEF BuyerFields
<1>4. Shaped'
  BY <1>0, <1>1, <1>2, <1>3 DEF Inv, Shaped
<1>5. Dealt'
  BY <1>0, <1>2 DEF Inv, Dealt, price
<1>6. Stocked'
  BY <1>0, <1>2 DEF Inv, Stocked, keyOf, Active
<1>7. \A u \in Unwraps : calls'[u].at \notin Active
  BY <1>2 DEF Active
<1>8. \A u \in Unwraps : calls'[u].at = calls[u].at \/ (u \in on /\ calls'[u].at = "raised")
  BY <1>2
<1>9. Calling'
  BY <1>2, <1>7, <1>8 DEF Inv, Calling, Active
<1>10. Paying'
  BY <1>0, <1>3 DEF Inv, Paying
<1>11. Bought'
  <2>1. \A u \in Unwraps : Buys(u)' => Buys(u)
    BY <1>2, <1>8 DEF Buys
  <2>2. /\ \A u \in Unwraps : Buys(u)' => calls'[u].key \in DOMAIN buyer'.keys
        /\ \A u, v \in Unwraps : Buys(u)' /\ Buys(v)' /\ calls'[u].key = calls'[v].key => u = v
    BY <1>2, <1>3, <2>1 DEF Inv, Bought
  <2>3. \A u \in Unwraps : /\ settled(calls[u].key)' <=> settled(calls'[u].key)
                           /\ dealing(u)' <=> dealing(u)
    BY <1>0 DEF settled, dealing
  <2>4. complete(buyer)' = complete(buyer)
    BY <1>3 DEF complete
  <2>5. ASSUME NEW u \in Unwraps, calls[u].seq > 0
        PROVE  /\ calls[u].key \in DOMAIN buyer.keys
               /\ u \in on => calls[u].key \in bought
               /\ calls[u].key \in bought => u \in on
    <3>1. \A v \in on : calls[v].seq > 0 /\ calls[v].key = calls[u].key => v = u
      BY <2>5 DEF Inv, Bought, Buys
    <3> QED
      BY <2>5, <3>1 DEF Inv, Bought, Buys
  <2> HIDE DEF bought
  <2>6. ASSUME NEW u \in Unwraps, calls'[u].seq > 0
        PROVE  /\ \E i \in DOMAIN buyer'.transactions : buyer'.transactions[i].key = calls'[u].key
               /\ calls'[u].asked \/ dealing(u)' \/ calls'[u].at = "refused" => ~settled(calls[u].key)'
               /\ calls'[u].at = "receipt" => settled(calls[u].key)'
               /\ calls'[u].at = "done" =>
                     buyer'.keys[calls'[u].key] = "key" /\ calls'[u].key \in complete(buyer)'
               /\ calls'[u].at = "raised" /\ (calls'[u].asked \/ dealing(u)' \/ settled(calls[u].key)') =>
                     buyer'.keys[calls'[u].key] = "failed"
    <3>1. calls[u].seq > 0 /\ calls'[u].key = calls[u].key /\ calls'[u].asked = calls[u].asked
      BY <1>2, <2>6
    <3>2. /\ \E i \in DOMAIN buyer.transactions : buyer.transactions[i].key = calls[u].key
          /\ calls[u].asked \/ dealing(u) \/ calls[u].at = "refused" => ~settled(calls[u].key)
          /\ calls[u].at = "done" =>
                buyer.keys[calls[u].key] = "key" /\ calls[u].key \in complete(buyer)
          /\ calls[u].at = "raised" /\ (calls[u].asked \/ dealing(u) \/ settled(calls[u].key)) =>
                buyer.keys[calls[u].key] = "failed"
      BY <3>1 DEF Inv, Bought
    <3>3. CASE u \in on
      BY <1>2, <1>3, <2>3, <2>5, <3>1, <3>2, <3>3
    <3>4. CASE u \notin on
      <4>1. /\ buyer'.keys[calls[u].key] = buyer.keys[calls[u].key]
            /\ calls'[u].at = calls[u].at /\ calls[u].at # "refused" /\ calls[u].at # "receipt"
        BY <1>2, <1>3, <2>5, <3>1, <3>4 DEF Active
      <4> QED
        BY <1>3, <2>3, <2>4, <3>1, <3>2, <4>1
    <3> QED
      BY <3>3, <3>4
  <2> QED
    BY <2>2, <2>6 DEF Bought
<1>12. Settled'
  <2>1. complete(buyer)' = complete(buyer)
    BY <1>3 DEF complete
  <2>2. \A u \in Unwraps :
          /\ calls'[u].seq = calls[u].seq /\ calls'[u].key = calls[u].key
          /\ calls'[u].at = calls[u].at \/ calls'[u].at = "raised"
    BY <1>2, <1>8
  <2> QED
    BY <1>0, <2>1, <2>2, NothingSettled
<1> QED
  BY <1>0, <1>4, <1>5, <1>6, <1>9, <1>10, <1>11, <1>12, SellersPart DEF Inv

-----------------------------------------------------------------------------
(* The theorems.                                                           *)

LEMMA InvInit ==
    ASSUME MarketAssumption, Init
    PROVE  Inv
<1> USE DEF Init, seller0, buyer0, call0, maker0, series0
<1>1. Shaped
  BY DEF Shaped, SellerFields, BuyerFields, CallFields, MakerFields, Apis
<1>2. Dealt /\ Earning
  BY DEF Dealt, Earning, sealed
<1>3. Stocked /\ Stopping
  BY DEF Stocked, Stopping, keyOf
<1>4. Calling /\ Paying
  BY DEF Calling, Paying, Active
<1>5. Bought /\ Settled
  BY DEF Bought, Settled, Buys, dealing, settled, complete
<1> QED
  BY <1>1, <1>2, <1>3, <1>4, <1>5 DEF Inv

LEMMA InvNext ==
    ASSUME NoneIsApart, Patient, Inv, [Next]_vars
    PROVE  Inv'
<1>1. CASE SellerNext
  BY <1>1, SellerStartKeeps, SellerStartsKeeps, SellerStopKeeps, SellerStoppedKeeps, SellerSellsKeeps,
     RotationDueKeeps, OfferAnsweredKeeps, WrapKeeps DEF SellerNext
<1>2. CASE BuyerNext
  BY <1>2, BuyerStartKeeps, BuyerStartedKeeps, BuyerLosesSessionKeeps, UnwrapKeeps, QuotedKeeps,
     RefusedKeeps, ReceivedKeeps, WokenKeeps DEF BuyerNext
<1>3. CASE MakerNext
  BY <1>3, MakerTellsSellerKeeps, MakerTellsBuyerKeeps, MakerSettlesKeeps, MakerTakesOfferKeeps,
     MakerQuotesKeeps, MakerTakesPurchaseKeeps, MakerClosesKeeps DEF MakerNext
<1>4. CASE UNCHANGED vars
  <2>1. UNCHANGED <<opt, seller, calls, maker>> /\ UNCHANGED buyer
    BY <1>4 DEF vars
  <2>2. Calling' /\ Paying'
    BY <2>1, SellerOnly
  <2> QED
    BY <2>1, <2>2, BuyerMoves DEF Inv, Shaped
<1> QED
  BY <1>1, <1>2, <1>3, <1>4 DEF Next

LEMMA Invariance ==
    ASSUME NoneIsApart, Patient
    PROVE  Spec => []Inv
<1>1. Init => Inv
  BY InvInit, MarketAssumption
<1>2. Inv /\ [Next]_vars => Inv'
  BY InvNext
<1> QED
  BY <1>1, <1>2, PTL DEF Spec

\* With balances that are told between purchases only, buyer, seller and market
\* maker agree on what has been paid and earned whenever no purchase is under way
\* (_buyer.py:446-455, _seller.py:646-675): whatever calls race for a key, and
\* however often the buyer loses its session or the seller is stopped.
THEOREM ChannelsAlwaysAgree ==
    ASSUME NoneIsApart, Patient
    PROVE  Spec => []ChannelsAgree
<1>1. Inv => ChannelsAgree
  <2> SUFFICES ASSUME Inv, idle
               PROVE  /\ buyer.state = "started" =>
                           buyer.seq = maker.pay.seq /\ buyer.balance = maker.pay.remaining
                      /\ seller.state = "started" =>
                           seller.seq = maker.earn.seq /\ seller.balance = maker.earn.remaining
    BY DEF ChannelsAgree
  <2> QED
    BY DEF idle, Inv, Paying, Earning, sealed
<1> QED
  BY <1>1, Invariance, PTL

\* A key is settled once, and what was settled is of use to the buyer or failed
\* with its session (_buyer.py:446-576).
THEOREM PaidIsAlwaysUsable ==
    ASSUME NoneIsApart, Patient
    PROVE  Spec => []PaidIsUsable
<1>1. Inv => PaidIsUsable
  <2> SUFFICES ASSUME Inv
               PROVE  PaidIsUsable
    OBVIOUS
  <2>1. complete(buyer) \subseteq {maker.ledger[i] : i \in DOMAIN maker.ledger}
    BY DEF Inv, Settled, settled
  <2>2. ASSUME NEW i \in DOMAIN maker.ledger
        PROVE  LET k == maker.ledger[i] IN
               \/ buyer.keys[k] = "key" /\ k \in complete(buyer)
               \/ buyer.keys[k] = "failed"
               \/ \E u \in Unwraps : calls[u].at = "receipt" /\ calls[u].key = k
    <3>1. PICK u \in Unwraps : /\ calls[u].seq > 0 /\ calls[u].key = maker.ledger[i]
                               /\ calls[u].at \in {"receipt", "done", "raised"}
      BY DEF Inv, Settled
    <3>2. settled(calls[u].key)
      BY <3>1 DEF settled
    <3> QED
      BY <3>1, <3>2 DEF Inv, Bought
  <2>3. \A i, j \in DOMAIN maker.ledger : maker.ledger[i] = maker.ledger[j] => i = j
    BY DEF Inv, Settled
  <2> QED
    BY <2>1, <2>2, <2>3 DEF PaidIsUsable
<1> QED
  BY <1>1, Invariance, PTL

\* Every key the market maker buys is one the seller has, and a seller that has
\* stopped is quiet (_seller.py:303-305, 433-462, 634-637).
THEOREM SellerAlwaysKeepsItsWord ==
    ASSUME NoneIsApart, Patient
    PROVE  Spec => []SellerKeepsItsWord
<1>1. Inv => SellerKeepsItsWord
  BY DEF Inv, Stocked, Stopping, SellerKeepsItsWord, OfferedIsSellable, StoppedIsQuiet
<1> QED
  BY <1>1, Invariance, PTL

-----------------------------------------------------------------------------
(* The files.  Two invariants, one for each pair of variables: OneKey says *)
(* of every place in UserKey() what is in the files there: no key is       *)
(* handed out before the private file is whole, and that file is never     *)
(* written again.  Kept says that what is in the configuration file,       *)
(* whenever nobody is writing it, is what was last saved, and never Nil.   *)

\* Nil is a value of its own: no text, no file, and no sections of a file.
OwnValue ==
    /\ Nil \notin {"", "value"}
    /\ \A key, mode : file(key, mode) # Nil
    /\ \A S, f : [x \in S |-> f[x]] # Nil

-----------------------------------------------------------------------------
(* The keys.                                                               *)

isFile(f) == f = file(f.key, f.mode)

DiskFields == {"pub", "priv", "made", "other"}
ProgramFields == {"at", "key", "starts", "returned", "raised"}

making == {"new_pub", "fill_pub", "new_priv", "fill_priv"}
reading == {"read_pub", "redo_pub", "refill_pub", "modes"}

\* Where a program is, and what the files are there.
Placed(d, q) ==
    /\ DOMAIN q = ProgramFields
    /\ q.at \in {"idle", "read_priv"} \cup making \cup reading
    /\ q.at \in making => q.key \in Nat \ {Torn} /\ q.returned = {}
    /\ q.at \in {"new_pub", "fill_pub", "new_priv"} => d.priv = Nil
    /\ q.at = "fill_priv" => d.priv # Nil /\ d.priv.key = Torn
    /\ q.at \in {"new_priv", "fill_priv"} => d.pub # Nil /\ d.pub.key = q.key
    /\ q.at = "read_priv" => d.priv # Nil
    /\ q.at \in reading => d.priv # Nil /\ d.priv.key = q.key
    /\ q.at \in {"refill_pub", "modes"} => d.pub # Nil
    /\ q.at = "modes" => d.pub.key = q.key

\* The key that was handed out is that of the private file.
HandedOut(d, q) ==
    /\ q.returned \subseteq {d.priv.key}
    /\ d.priv = Nil => q.returned = {}

\* If the user leaves the files alone and they are not torn, they are whole.
Undisturbed(o) == ~o.meddles /\ o.crashes # "anywhere"
Intact(d, q) ==
    /\ ~q.raised
    /\ q.at \notin {"redo_pub", "refill_pub"}
    /\ d.priv # Nil /\ q.at # "fill_priv" =>
          d.priv.key # Torn /\ d.pub # Nil /\ d.pub.key = d.priv.key

Disk(d) ==
    /\ DOMAIN d = DiskFields
    /\ d.made \in Nat
    /\ d.pub = Nil \/ isFile(d.pub)
    /\ d.priv = Nil \/ isFile(d.priv)

OneKey ==
    /\ user \in Users /\ DOMAIN program = user.programs
    /\ Disk(disk)
    /\ \A p \in user.programs :
          /\ Placed(disk, program[p]) /\ HandedOut(disk, program[p])
          /\ Undisturbed(user) => Intact(disk, program[p])

LEMMA FileIs ==
    ASSUME NEW key, NEW mode
    PROVE  isFile(file(key, mode)) /\ file(key, mode).key = key /\ file(key, mode).mode = mode
  BY DEF isFile, file

\* One program, and what it leaves.
LEMMA OnlyOne ==
    ASSUME Alone, OneKey, NEW p \in user.programs, user' = user, NEW q,
           program' = [program EXCEPT ![p] = q], Disk(disk'),
           Placed(disk', q), HandedOut(disk', q), Undisturbed(user) => Intact(disk', q)
    PROVE  OneKey'
<1>1. \A r \in user.programs : r = p
  BY DEF Alone, OneKey
<1>2. DOMAIN program' = user.programs /\ program'[p] = q
  BY DEF OneKey
<1>3. \A r \in user'.programs :
          /\ Placed(disk', program'[r]) /\ HandedOut(disk', program'[r])
          /\ Undisturbed(user') => Intact(disk', program'[r])
  BY <1>1, <1>2
<1> QED
  BY <1>2, <1>3 DEF OneKey, Disk, Placed, HandedOut, Intact, Undisturbed, isFile, file

LEMMA StartsOneKey ==
    ASSUME Alone, OneKey, NEW p \in user.programs, Start(p)
    PROVE  OneKey'
<1> DEFINE d == disk
           r == program[p]
<1>1. Disk(d) /\ Placed(d, r) /\ HandedOut(d, r) /\ (Undisturbed(user) => Intact(d, r))
  BY DEF OneKey
<1>2. user' = user /\ r.at = "idle"
  BY DEF Start, same
<1>3. CASE d.priv = Nil
  <2> DEFINE q == [r EXCEPT !.at = "new_pub", !.starts = @ + 1, !.key = d.made + 1]
  <2>1. program' = [program EXCEPT ![p] = q] /\ disk' = [d EXCEPT !.made = @ + 1]
    BY <1>3 DEF Start, missing
  <2>2. /\ DOMAIN q = ProgramFields /\ q.at = "new_pub" /\ q.key = d.made + 1
        /\ q.returned = r.returned /\ q.raised = r.raised
    BY <1>1 DEF Placed, ProgramFields
  <2>3. /\ DOMAIN disk' = DiskFields /\ disk'.made = d.made + 1
        /\ disk'.priv = d.priv /\ disk'.pub = d.pub
    BY <1>1, <2>1 DEF Disk, DiskFields
  <2> HIDE DEF q
  <2>4. Disk(disk')
    BY <1>1, <2>3 DEF Disk
  <2>5. Placed(disk', q) /\ HandedOut(disk', q) /\ (Undisturbed(user) => Intact(disk', q))
    BY <1>1, <1>3, <2>2, <2>3 DEF Disk, Placed, HandedOut, Intact, making, reading, Torn
  <2> QED
    BY <1>2, <2>1, <2>4, <2>5, OnlyOne
<1>4. CASE d.priv # Nil
  <2> DEFINE q == [r EXCEPT !.at = "read_priv", !.starts = @ + 1]
  <2>1. program' = [program EXCEPT ![p] = q] /\ disk' = d
    BY <1>4 DEF Start, missing
  <2>2. /\ DOMAIN q = ProgramFields /\ q.at = "read_priv"
        /\ q.returned = r.returned /\ q.raised = r.raised
    BY <1>1 DEF Placed, ProgramFields
  <2> HIDE DEF q
  <2>3. Placed(disk', q) /\ HandedOut(disk', q) /\ (Undisturbed(user) => Intact(disk', q))
    BY <1>1, <1>2, <1>4, <2>1, <2>2 DEF Placed, HandedOut, Intact, making, reading
  <2> QED
    BY <1>1, <1>2, <2>1, <2>3, OnlyOne
<1> QED
  BY <1>3, <1>4

LEMMA ReadsOneKey ==
    ASSUME Alone, OneKey, NEW p \in user.programs, ReadPrivate(p) \/ ReadPublic(p)
    PROVE  OneKey'
<1> DEFINE d == disk
           r == program[p]
           raised == [r EXCEPT !.at = "idle", !.key = Nil, !.raised = TRUE]
<1>1. Disk(d) /\ Placed(d, r) /\ HandedOut(d, r) /\ (Undisturbed(user) => Intact(d, r))
  BY DEF OneKey
<1>2. user' = user /\ disk' = d
  BY DEF ReadPrivate, ReadPublic, same
<1>3. PICK q : /\ program' = [program EXCEPT ![p] = q]
               /\ \/ r.at = "read_priv" /\ d.priv.key = Torn /\ q = raised
                  \/ /\ r.at = "read_priv" /\ d.priv.key # Torn
                     /\ q = [r EXCEPT !.at = "read_pub", !.key = d.priv.key]
                  \/ r.at = "read_pub" /\ d.pub = Nil /\ q = [r EXCEPT !.at = "redo_pub"]
                  \/ r.at = "read_pub" /\ d.pub # Nil /\ agrees(d.pub, r.key) /\ q = [r EXCEPT !.at = "modes"]
                  \/ r.at = "read_pub" /\ d.pub # Nil /\ ~agrees(d.pub, r.key) /\ q = raised
  <2>1. CASE ReadPrivate(p)
    <3>1. CASE d.priv.key = Torn
      <4>1. r.at = "read_priv" /\ program' = [program EXCEPT ![p] = raised]
        BY <2>1, <3>1 DEF ReadPrivate, raises
      <4> QED
        BY <3>1, <4>1
    <3>2. CASE d.priv.key # Torn
      <4> DEFINE got == [r EXCEPT !.at = "read_pub", !.key = d.priv.key]
      <4>1. r.at = "read_priv" /\ program' = [program EXCEPT ![p] = got]
        BY <2>1, <3>2 DEF ReadPrivate
      <4> QED
        BY <3>2, <4>1
    <3> QED
      BY <3>1, <3>2
  <2>2. CASE ReadPublic(p)
    <3>1. CASE d.pub = Nil
      BY <2>2, <3>1 DEF ReadPublic, goes
    <3>2. CASE d.pub # Nil /\ agrees(d.pub, r.key)
      BY <2>2, <3>2 DEF ReadPublic, goes
    <3>3. CASE d.pub # Nil /\ ~agrees(d.pub, r.key)
      BY ZenonT(40), <2>2, <3>3 DEF ReadPublic, raises
    <3> QED
      BY <3>1, <3>2, <3>3
  <2> QED
    BY <2>1, <2>2
<1>4. DOMAIN q = ProgramFields /\ q.returned = r.returned
  BY <1>1, <1>3 DEF Placed, ProgramFields
<1>5. \/ r.at = "read_priv" /\ d.priv.key = Torn /\ q.at = "idle"
      \/ r.at = "read_priv" /\ q.at = "read_pub" /\ q.key = d.priv.key /\ q.raised = r.raised
      \/ r.at = "read_pub" /\ d.pub = Nil /\ q.at = "redo_pub" /\ q.key = r.key
      \/ r.at = "read_pub" /\ d.pub # Nil /\ agrees(d.pub, r.key) /\ q.at = "modes" /\ q.key = r.key /\ q.raised = r.raised
      \/ r.at = "read_pub" /\ ~agrees(d.pub, r.key) /\ d.pub # Nil /\ q.at = "idle"
  BY <1>1, <1>3 DEF Placed, ProgramFields
<1> HIDE DEF raised
<1>6. Placed(disk', q) /\ HandedOut(disk', q)
  BY <1>1, <1>2, <1>4, <1>5 DEF Placed, HandedOut, making, reading, agrees
<1>7. Undisturbed(user) => Intact(disk', q)
  BY <1>1, <1>2, <1>4, <1>5 DEF Placed, Intact, making, reading, agrees
<1> QED
  BY <1>1, <1>2, <1>3, <1>6, <1>7, OnlyOne

LEMMA WritesOneKey ==
    ASSUME Alone, OwnValue, OneKey, NEW p \in user.programs, Empties(p) \/ Fills(p)
    PROVE  OneKey'
<1> DEFINE d == disk
           r == program[p]
<1>1. Disk(d) /\ Placed(d, r) /\ HandedOut(d, r) /\ (Undisturbed(user) => Intact(d, r))
  BY DEF OneKey
<1>2. user' = user
  BY DEF Empties, Fills, same
<1>3. PICK at : /\ program' = [program EXCEPT ![p] = [r EXCEPT !.at = at]]
                /\ \/ r.at = "new_pub" /\ at = "fill_pub" /\ disk' = [d EXCEPT !.pub = emptied(@)]
                   \/ r.at = "redo_pub" /\ at = "refill_pub" /\ disk' = [d EXCEPT !.pub = emptied(@)]
                   \/ r.at = "new_priv" /\ at = "fill_priv" /\ disk' = [d EXCEPT !.priv = emptied(@)]
                   \/ r.at = "fill_pub" /\ at = "new_priv" /\ disk' = [d EXCEPT !.pub = file(r.key, pubMode)]
                   \/ r.at = "refill_pub" /\ at = "modes" /\ disk' = [d EXCEPT !.pub.key = r.key]
                   \/ r.at = "fill_priv" /\ at = "modes" /\ disk' = [d EXCEPT !.priv = file(r.key, privMode)]
  <2>1. CASE Empties(p)
    BY <2>1 DEF Empties, goes
  <2>2. CASE Fills(p)
    BY <2>2 DEF Fills, goes
  <2> QED
    BY <2>1, <2>2
<1>4. PICK q : q = [r EXCEPT !.at = at]
  OBVIOUS
<1>5. /\ DOMAIN q = ProgramFields /\ q.at = at /\ q.key = r.key
      /\ q.returned = r.returned /\ q.raised = r.raised
  BY <1>1, <1>4 DEF Placed, ProgramFields
<1>6. /\ DOMAIN disk' = DiskFields /\ disk'.made = d.made
      /\ \/ r.at = "new_pub" /\ at = "fill_pub" /\ disk'.pub = emptied(d.pub) /\ disk'.priv = d.priv
         \/ r.at = "redo_pub" /\ at = "refill_pub" /\ disk'.pub = emptied(d.pub) /\ disk'.priv = d.priv
         \/ r.at = "new_priv" /\ at = "fill_priv" /\ disk'.priv = emptied(d.priv) /\ disk'.pub = d.pub
         \/ r.at = "fill_pub" /\ at = "new_priv" /\ disk'.pub = file(r.key, pubMode) /\ disk'.priv = d.priv
         \/ r.at = "refill_pub" /\ at = "modes" /\ disk'.pub = [d.pub EXCEPT !.key = r.key] /\ disk'.priv = d.priv
         \/ r.at = "fill_priv" /\ at = "modes" /\ disk'.priv = file(r.key, privMode) /\ disk'.pub = d.pub
  BY <1>1, <1>3 DEF Disk, DiskFields
<1>7. \A f : isFile(emptied(f)) /\ emptied(f) # Nil /\ emptied(f).key = Torn
  BY FileIs DEF OwnValue, emptied
<1>8. \A mode : isFile(file(r.key, mode)) /\ file(r.key, mode) # Nil /\ file(r.key, mode).key = r.key
  BY FileIs DEF OwnValue
<1>9. ASSUME r.at = "refill_pub"
      PROVE  [d.pub EXCEPT !.key = r.key] = file(r.key, d.pub.mode)
  <2>1. isFile(d.pub)
    BY <1>1, <1>9 DEF Disk, Placed
  <2> QED
    BY <2>1 DEF isFile, file
<1> DEFINE written(f, key) == isFile(f) /\ f # Nil /\ f.key = key
<1>10. \/ r.at = "new_pub" /\ at = "fill_pub" /\ written(disk'.pub, Torn) /\ disk'.priv = d.priv
       \/ r.at = "redo_pub" /\ at = "refill_pub" /\ written(disk'.pub, Torn) /\ disk'.priv = d.priv
       \/ r.at = "new_priv" /\ at = "fill_priv" /\ written(disk'.priv, Torn) /\ disk'.pub = d.pub
       \/ r.at = "fill_pub" /\ at = "new_priv" /\ written(disk'.pub, r.key) /\ disk'.priv = d.priv
       \/ r.at = "refill_pub" /\ at = "modes" /\ written(disk'.pub, r.key) /\ disk'.priv = d.priv
       \/ r.at = "fill_priv" /\ at = "modes" /\ written(disk'.priv, r.key) /\ disk'.pub = d.pub
  BY <1>6, <1>7, <1>8, <1>9
<1>11. Disk(disk')
  BY <1>1, <1>6, <1>10 DEF Disk
<1>12. Placed(disk', q)
  BY <1>1, <1>5, <1>10 DEF Placed, making, reading
<1>13. HandedOut(disk', q)
  BY <1>1, <1>5, <1>10 DEF HandedOut, Placed, making
<1>14. Undisturbed(user) => Intact(disk', q)
  BY <1>1, <1>5, <1>10 DEF Intact, Placed, making
<1> QED
  BY <1>2, <1>3, <1>4, <1>11, <1>12, <1>13, <1>14, OnlyOne

LEMMA ReturnsOneKey ==
    ASSUME Alone, OwnValue, OneKey, NEW p \in user.programs, Returns(p)
    PROVE  OneKey'
<1> DEFINE d == disk
           r == program[p]
<1>1. Disk(d) /\ Placed(d, r) /\ HandedOut(d, r) /\ (Undisturbed(user) => Intact(d, r))
  BY DEF OneKey
<1>2. /\ user' = user /\ r.at = "modes" /\ disk' = [d EXCEPT !.pub.mode = pubMode, !.priv.mode = privMode]
      /\ program' = [program EXCEPT ![p] = [r EXCEPT !.at = "idle", !.key = Nil, !.returned = @ \cup {r.key}]]
  BY DEF Returns, same
<1>3. PICK q : q = [r EXCEPT !.at = "idle", !.key = Nil, !.returned = @ \cup {r.key}]
  OBVIOUS
<1>4. DOMAIN q = ProgramFields /\ q.at = "idle" /\ q.returned = r.returned \cup {r.key} /\ q.raised = r.raised
  BY <1>1, <1>3 DEF Placed, ProgramFields
<1>5. d.pub # Nil /\ d.priv # Nil /\ d.priv.key = r.key /\ d.pub.key = r.key
  BY <1>1, <1>2 DEF Placed, reading
<1>6. /\ DOMAIN disk' = DiskFields /\ disk'.made = d.made
      /\ disk'.pub = [d.pub EXCEPT !.mode = pubMode] /\ disk'.priv = [d.priv EXCEPT !.mode = privMode]
  BY <1>1, <1>2 DEF Disk, DiskFields
<1>7. disk'.pub = file(r.key, pubMode) /\ disk'.priv = file(r.key, privMode)
  <2>1. d.pub = file(r.key, d.pub.mode) /\ d.priv = file(r.key, d.priv.mode)
    BY <1>1, <1>5 DEF Disk, isFile
  <2> QED
    BY <1>6, <2>1 DEF file
<1>8. \A mode : isFile(file(r.key, mode)) /\ file(r.key, mode) # Nil /\ file(r.key, mode).key = r.key
  BY FileIs DEF OwnValue
<1>9. Disk(disk')
  BY <1>1, <1>6, <1>7, <1>8 DEF Disk
<1>10. Placed(disk', q) /\ HandedOut(disk', q) /\ (Undisturbed(user) => Intact(disk', q))
  BY <1>1, <1>2, <1>4, <1>5, <1>7, <1>8 DEF Placed, HandedOut, Intact, making, reading
<1> QED
  BY <1>2, <1>3, <1>9, <1>10, OnlyOne

LEMMA CrashOneKey ==
    ASSUME Alone, Ending, OneKey, NEW p \in user.programs, Crash(p)
    PROVE  OneKey'
<1> DEFINE d == disk
           r == program[p]
<1>1. Disk(d) /\ Placed(d, r) /\ HandedOut(d, r) /\ (Undisturbed(user) => Intact(d, r))
  BY DEF OneKey
<1>2. /\ user' = user /\ disk' = d /\ user.crashes # "never"
      /\ user.crashes = "between" => r.at \notin {"fill_pub", "refill_pub", "fill_priv"}
      /\ program' = [program EXCEPT ![p] = [r EXCEPT !.at = "idle", !.key = Nil]]
  BY DEF Crash, same
<1>3. PICK q : q = [r EXCEPT !.at = "idle", !.key = Nil]
  OBVIOUS
<1>4. DOMAIN q = ProgramFields /\ q.at = "idle" /\ q.returned = r.returned /\ q.raised = r.raised
  BY <1>1, <1>3 DEF Placed, ProgramFields
<1>5. Placed(disk', q) /\ HandedOut(disk', q)
  BY <1>1, <1>2, <1>4 DEF Placed, HandedOut, making, reading
<1>6. Undisturbed(user) => Intact(disk', q)
  <2>1. Undisturbed(user) => user.crashes = "between"
    BY <1>2 DEF Undisturbed, Ending, OneKey
  <2> QED
    BY <1>1, <1>2, <1>4, <2>1 DEF Intact
<1> QED
  BY <1>1, <1>2, <1>3, <1>5, <1>6, OnlyOne

LEMMA MeddlesOneKey ==
    ASSUME OwnValue, OneKey, UserMeddles
    PROVE  OneKey'
<1> DEFINE d == disk
<1>1. /\ user.meddles /\ user' = user /\ program' = program /\ d.priv # Nil
      /\ \A p \in user.programs : program[p].at = "idle"
      /\ \/ disk' = [d EXCEPT !.pub = Nil]
         \/ disk' = [d EXCEPT !.pub = file(Foreign, pubMode)]
         \/ disk' = [d EXCEPT !.priv.mode = pubMode]
  BY DEF UserMeddles, same
<1>2. Disk(d)
  BY DEF OneKey
<1>3. isFile(file(Foreign, pubMode))
  BY FileIs
<1>4. [d.priv EXCEPT !.mode = pubMode] = file(d.priv.key, pubMode)
  <2>1. isFile(d.priv)
    BY <1>1, <1>2 DEF Disk
  <2> QED
    BY <2>1 DEF isFile, file
<1>5. isFile(file(d.priv.key, pubMode)) /\ file(d.priv.key, pubMode).key = d.priv.key
      /\ file(d.priv.key, pubMode) # Nil
  BY FileIs DEF OwnValue
<1>6. /\ DOMAIN disk' = DiskFields /\ disk'.made = d.made
      /\ disk'.pub \in {d.pub, Nil, file(Foreign, pubMode)}
      /\ disk'.priv \in {d.priv, file(d.priv.key, pubMode)}
  BY <1>1, <1>2, <1>4 DEF Disk, DiskFields
<1>7. Disk(disk') /\ disk'.priv # Nil /\ disk'.priv.key = d.priv.key
  BY <1>1, <1>2, <1>3, <1>5, <1>6 DEF Disk
<1>8. ASSUME NEW p \in user.programs
      PROVE  Placed(disk', program[p]) /\ HandedOut(disk', program[p])
  <2>1. program[p].at = "idle" /\ Placed(d, program[p]) /\ HandedOut(d, program[p])
    BY <1>1 DEF OneKey
  <2> QED
    BY <1>7, <2>1 DEF Placed, HandedOut, making, reading
<1>9. ~Undisturbed(user)
  BY <1>1 DEF Undisturbed
<1> QED
  BY <1>1, <1>7, <1>8, <1>9 DEF OneKey, Disk, Placed, HandedOut, Undisturbed, isFile, file

LEMMA OneKeyInit == FilesInit => OneKey
<1> SUFFICES ASSUME FilesInit
             PROVE  OneKey
  OBVIOUS
<1>1. Disk(disk) /\ disk.priv = Nil
  BY DEF FilesInit, disk0, Disk, DiskFields
<1>2. ASSUME NEW p \in user.programs
      PROVE  Placed(disk, program[p]) /\ HandedOut(disk, program[p]) /\ Intact(disk, program[p])
  <2>1. program[p] = program0
    BY DEF FilesInit
  <2>2. DOMAIN program0 = ProgramFields /\ program0.at = "idle" /\ program0.returned = {} /\ ~program0.raised
    BY DEF program0, ProgramFields
  <2> HIDE DEF program0
  <2> QED
    BY <1>1, <2>1, <2>2 DEF Placed, HandedOut, Intact, making, reading
<1> QED
  BY <1>1, <1>2 DEF FilesInit, OneKey

\* Nothing of the keys changes.
LEMMA OtherOneKey ==
    ASSUME OneKey, UNCHANGED <<user, disk, program>>
    PROVE  OneKey'
  BY DEF OneKey, Disk, Placed, HandedOut, Intact, Undisturbed, isFile, file

ConfigNext ==
    CreateConfig \/ Answered \/ GivesUp \/ Load \/ Edit \/ Save \/ Saved \/ CrashConfig

LEMMA OneKeyStep ==
    ASSUME Alone, Ending, OwnValue, OneKey, [FilesNext]_fileVars
    PROVE  OneKey'
<1>1. CASE UNCHANGED fileVars
  BY <1>1, OtherOneKey DEF fileVars
<1>2. CASE ConfigNext
  BY <1>2, OtherOneKey
     DEF ConfigNext, CreateConfig, Answered, GivesUp, Load, Edit, Save, Saved, CrashConfig, keeps
<1> QED
  BY <1>1, <1>2, StartsOneKey, ReadsOneKey, WritesOneKey, ReturnsOneKey, CrashOneKey, MeddlesOneKey
     DEF FilesNext, ConfigNext

LEMMA OneKeyMeans ==
    ASSUME Alone, OneKey
    PROVE  KeyIsKept /\ KeysAgree
<1>1. KeyIsKept
  <2> DEFINE all == UNION {program[p].returned : p \in user.programs}
  <2>1. all \subseteq {disk.priv.key}
    BY DEF OneKey, HandedOut
  <2>2. IsFiniteSet({disk.priv.key}) /\ Cardinality({disk.priv.key}) = 1
    BY FS_Singleton
  <2> HIDE DEF all
  <2>3. Cardinality(all) <= 1
    BY <2>1, <2>2, FS_Subset
  <2> QED
    BY <2>3 DEF KeyIsKept, all
<1>2. KeysAgree
  BY DEF OneKey, KeysAgree, Placed, Intact, Undisturbed, reading
<1> QED
  BY <1>1, <1>2

-----------------------------------------------------------------------------
(* The profiles.                                                           *)

ConfigFields == {"file", "lock", "at", "profiles", "fresh", "saved", "edits"}

\* A file has texts.
Texts(sections) ==
    \A name \in DOMAIN sections : \A a \in DOMAIN sections[name] : sections[name][a] # Nil

\* ProfilesSurvive, of profiles and of what was last written.
Same(profiles, saved) ==
    /\ DOMAIN profiles = DOMAIN saved
    /\ \A name \in DOMAIN saved :
          marshal(profiles[name]) =
              [a \in Attributes |-> IF a \in DOMAIN saved[name] THEN saved[name][a] ELSE ""]

Kept ==
    /\ DOMAIN config = ConfigFields
    /\ config.at \in {"idle", "asking", "saving"}
    /\ Texts(config.saved)
    /\ config.at = "idle" /\ config.file # Nil => config.file = config.saved
    /\ config.at = "idle" /\ config.file = Nil => config.saved = <<>>
    /\ config.at # "idle" => config.file = <<>> /\ config.saved = <<>>
    /\ config.file = Nil \/ config.at = "asking" => ~config.fresh
    /\ config.fresh /\ config.at = "idle" => Same(config.profiles, config.saved)

LEMMA NoSections == DOMAIN <<>> = {} /\ Texts(<<>>)
<1>1. DOMAIN <<>> = {}
  OBVIOUS
<1> QED
  BY <1>1 DEF Texts

\* What is written of a profile has all attributes, and no Nil.
LEMMA Marshalled ==
    ASSUME OwnValue, NEW p
    PROVE  DOMAIN marshal(p) = Attributes /\ \A a \in Attributes : marshal(p)[a] # Nil
  BY DEF marshal, OwnValue

\* Loading what was saved gives profiles that would be saved the same.
LEMMA Parsed ==
    ASSUME OwnValue, NEW sections, Texts(sections)
    PROVE  Same(parseAll(sections), sections)
<1>1. /\ DOMAIN parseAll(sections) = DOMAIN sections
      /\ \A name \in DOMAIN sections : parseAll(sections)[name] = parse(sections[name])
  BY DEF parseAll
<1>2. ASSUME NEW items, \A a \in DOMAIN items : items[a] # Nil
      PROVE  marshal(parse(items)) = [a \in Attributes |-> IF a \in DOMAIN items THEN items[a] ELSE ""]
  <2>1. \A a \in Attributes :
            parse(items)[a] = IF a \notin DOMAIN items THEN Nil
                              ELSE IF a = "member_oid" /\ items[a] = "" THEN Nil
                              ELSE items[a]
    BY DEF parse
  <2> QED
    BY <1>2, <2>1 DEF marshal
<1>3. \A name \in DOMAIN sections : \A a \in DOMAIN sections[name] : sections[name][a] # Nil
  BY DEF Texts
<1> QED
  BY <1>1, <1>2, <1>3 DEF Same

LEMMA KeptInit == FilesInit => Kept
<1>1. /\ DOMAIN config0 = ConfigFields /\ config0.at = "idle" /\ config0.file = Nil
      /\ config0.saved = <<>> /\ ~config0.fresh
  BY DEF config0, ConfigFields
<1> QED
  BY <1>1, NoSections DEF FilesInit, Kept

LEMMA KeptStep ==
    ASSUME OwnValue, Kept, [FilesNext]_fileVars
    PROVE  Kept'
<1> DEFINE o == config
<1>1. /\ DOMAIN o = ConfigFields /\ o.at \in {"idle", "asking", "saving"} /\ Texts(o.saved)
      /\ o.at = "idle" /\ o.file # Nil => o.file = o.saved
      /\ o.at = "idle" /\ o.file = Nil => o.saved = <<>>
      /\ o.at # "idle" => o.file = <<>> /\ o.saved = <<>>
      /\ o.file = Nil \/ o.at = "asking" => ~o.fresh
      /\ o.fresh /\ o.at = "idle" => Same(o.profiles, o.saved)
  BY DEF Kept
<1>2. ASSUME NEW n, config' = n, DOMAIN n = ConfigFields, n.at \in {"idle", "asking", "saving"},
             Texts(n.saved),
             n.at = "idle" /\ n.file # Nil => n.file = n.saved,
             n.at = "idle" /\ n.file = Nil => n.saved = <<>>,
             n.at # "idle" => n.file = <<>> /\ n.saved = <<>>,
             n.file = Nil \/ n.at = "asking" => ~n.fresh,
             n.fresh /\ n.at = "idle" => Same(n.profiles, n.saved)
      PROVE  Kept'
  <2>1. Texts(config'.saved) /\ (config'.fresh /\ config'.at = "idle" => Same(config'.profiles, config'.saved))
    BY <1>2
  <2> QED
    BY <1>2, <2>1 DEF Kept, Texts, Same, marshal
<1>3. CASE config' = config
  BY <1>1, <1>2, <1>3
<1>4. CASE CreateConfig
  <2>1. PICK n : n = [o EXCEPT !.file = <<>>, !.lock = "", !.at = "asking"]
    OBVIOUS
  <2>2. DOMAIN n = ConfigFields /\ n.file = <<>> /\ n.at = "asking" /\ n.saved = o.saved
        /\ n.fresh = o.fresh
    BY <1>1, <2>1 DEF ConfigFields
  <2> QED
    BY <1>1, <1>2, <1>4, <2>1, <2>2, NoSections DEF CreateConfig
<1>5. CASE Answered
  <2>1. PICK sections : sections = [name \in {"default"} |-> [a \in {"username", "cskey"} |-> "value"]]
    OBVIOUS
  <2>2. Texts(sections) /\ sections # Nil
    <3>1. Texts(sections)
      BY <2>1 DEF Texts, OwnValue
    <3>2. sections = [x \in {"default"} |-> sections[x]]
      BY <2>1
    <3> QED
      BY <3>1, <3>2 DEF OwnValue
  <2>3. PICK n : n = [o EXCEPT !.file = sections, !.saved = sections, !.at = "idle",
                               !.profiles = parseAll(sections), !.fresh = TRUE]
    OBVIOUS
  <2>4. /\ DOMAIN n = ConfigFields /\ n.file = sections /\ n.saved = sections /\ n.at = "idle"
        /\ n.profiles = parseAll(sections)
    BY <1>1, <2>3 DEF ConfigFields
  <2>5. config' = n
    BY <1>5, <2>1, <2>3 DEF Answered
  <2> QED
    BY <1>2, <2>2, <2>4, <2>5, Parsed
<1>6. CASE GivesUp
  <2>1. PICK n : n = [o EXCEPT !.at = "idle", !.saved = <<>>]
    OBVIOUS
  <2>2. o.at = "asking" /\ config' = n
    BY <1>6, <2>1 DEF GivesUp
  <2>3. DOMAIN n = ConfigFields /\ n.file = <<>> /\ n.at = "idle" /\ n.saved = <<>>
        /\ n.fresh = o.fresh /\ n.profiles = o.profiles
    BY <1>1, <2>1, <2>2 DEF ConfigFields
  <2>4. o.file = <<>> /\ ~o.fresh
    BY <1>1, <2>2
  <2> QED
    BY <1>2, <2>2, <2>3, <2>4, NoSections
<1>7. CASE Load
  <2>1. PICK n : n = [o EXCEPT !.profiles = parseAll(o.file), !.fresh = TRUE]
    OBVIOUS
  <2>2. o.at = "idle" /\ o.file # Nil /\ (config' = o \/ config' = n)
    BY <1>7, <2>1 DEF Load
  <2>3. DOMAIN n = ConfigFields /\ n.file = o.file /\ n.at = "idle" /\ n.saved = o.saved
        /\ n.profiles = parseAll(o.saved)
    BY <1>1, <2>1, <2>2 DEF ConfigFields
  <2>4. Same(n.profiles, n.saved)
    BY <1>1, <2>3, Parsed
  <2>5. CASE config' = n
    BY <1>1, <1>2, <2>2, <2>3, <2>4, <2>5
  <2> QED
    BY <1>3, <2>2, <2>5
<1>8. CASE Edit
  <2>1. PICK f, e : config' = [o EXCEPT !.profiles = f, !.edits = e, !.fresh = FALSE]
    BY <1>8 DEF Edit
  <2>2. PICK n : n = [o EXCEPT !.profiles = f, !.edits = e, !.fresh = FALSE]
    OBVIOUS
  <2>3. /\ DOMAIN n = ConfigFields /\ n.file = o.file /\ n.at = o.at /\ n.saved = o.saved
        /\ ~n.fresh
    BY <1>1, <2>2 DEF ConfigFields
  <2> QED
    BY <1>1, <1>2, <2>1, <2>2, <2>3
<1>9. CASE Save
  <2>1. PICK n : n = [o EXCEPT !.file = <<>>, !.lock = "", !.saved = <<>>, !.at = "saving"]
    OBVIOUS
  <2>2. DOMAIN n = ConfigFields /\ n.file = <<>> /\ n.at = "saving" /\ n.saved = <<>>
    BY <1>1, <2>1 DEF ConfigFields
  <2>3. <<>> # Nil
    <3>1. <<>> = [x \in {} |-> o[x]]
      OBVIOUS
    <3> QED
      BY <3>1 DEF OwnValue
  <2> QED
    BY <1>2, <1>9, <2>1, <2>2, <2>3, NoSections DEF Save
<1>10. CASE Saved
  <2>1. PICK sections : sections = [name \in DOMAIN o.profiles |-> marshal(o.profiles[name])]
    OBVIOUS
  <2>2. \A name \in DOMAIN sections :
            /\ sections[name] = marshal(o.profiles[name])
            /\ DOMAIN sections[name] = Attributes
            /\ \A a \in Attributes : sections[name][a] # Nil
    BY <2>1, Marshalled
  <2>3. Texts(sections)
    BY <2>2 DEF Texts
  <2>4. sections # Nil
    <3>1. sections = [x \in DOMAIN o.profiles |-> sections[x]]
      BY <2>1
    <3> QED
      BY <3>1 DEF OwnValue
  <2>5. Same(o.profiles, sections)
    <3>1. DOMAIN o.profiles = DOMAIN sections
      BY <2>1
    <3>2. ASSUME NEW name \in DOMAIN sections
          PROVE  marshal(o.profiles[name]) =
                     [a \in Attributes |-> IF a \in DOMAIN sections[name] THEN sections[name][a] ELSE ""]
      <4>1. marshal(o.profiles[name]) = [a \in Attributes |-> marshal(o.profiles[name])[a]]
        BY DEF marshal
      <4> QED
        BY <2>2, <3>2, <4>1
    <3> QED
      BY <3>1, <3>2 DEF Same
  <2>6. PICK password : config' = [o EXCEPT !.file = sections, !.lock = password,
                                            !.saved = sections, !.at = "idle"]
    BY <1>10, <2>1 DEF Saved
  <2>7. PICK n : n = [o EXCEPT !.file = sections, !.lock = password, !.saved = sections, !.at = "idle"]
    OBVIOUS
  <2>8. /\ DOMAIN n = ConfigFields /\ n.file = sections /\ n.saved = sections /\ n.at = "idle"
        /\ n.profiles = o.profiles
    BY <1>1, <2>7 DEF ConfigFields
  <2> QED
    BY <1>2, <2>3, <2>4, <2>5, <2>6, <2>7, <2>8
<1>11. CASE CrashConfig
  <2>1. PICK n : n = [o EXCEPT !.at = "idle", !.profiles = <<>>, !.fresh = FALSE]
    OBVIOUS
  <2>2. /\ DOMAIN n = ConfigFields /\ n.file = o.file /\ n.saved = o.saved /\ n.at = "idle"
        /\ ~n.fresh
    BY <1>1, <2>1 DEF ConfigFields
  <2> QED
    BY <1>1, <1>2, <1>11, <2>1, <2>2 DEF CrashConfig
<1>12. CASE UNCHANGED fileVars
  BY <1>3, <1>12 DEF fileVars
<1>13. ASSUME NEW p \in user.programs,
              \/ Start(p) \/ ReadPrivate(p) \/ ReadPublic(p) \/ Empties(p) \/ Fills(p) \/ Returns(p)
              \/ Crash(p)
       PROVE  Kept'
  BY <1>3, <1>13
     DEF Start, ReadPrivate, ReadPublic, Empties, Fills, Returns, Crash, same
<1>14. CASE UserMeddles
  BY <1>3, <1>14 DEF UserMeddles, same
<1> QED
  BY <1>4, <1>5, <1>6, <1>7, <1>8, <1>9, <1>10, <1>11, <1>12, <1>13, <1>14 DEF FilesNext

-----------------------------------------------------------------------------
(* What comes of it.                                                       *)

\* Keys and profiles come out of their files as they were put there: a key that
\* was handed out is the user's for good (_userkey.py:118, 191), both files have it
\* when the object is there (139-189), and what is loaded of a profile is what was
\* written (_config.py:157-260, 297-411).
THEOREM KeysAndProfilesSurvive ==
    ASSUME Alone, Ending, OwnValue
    PROVE  FilesSpec => []FilesSurvive
<1>1. FilesInit => OneKey /\ Kept
  BY OneKeyInit, KeptInit
<1>2. OneKey /\ Kept /\ [FilesNext]_fileVars => OneKey' /\ Kept'
  BY OneKeyStep, KeptStep
<1>3. OneKey /\ Kept => FilesSurvive
  <2>1. Kept => ProfilesSurvive
    BY DEF Kept, Same, ProfilesSurvive
  <2> QED
    BY <2>1, OneKeyMeans DEF FilesSurvive
<1> QED
  BY <1>1, <1>2, <1>3, PTL DEF FilesSpec
-----------------------------------------------------------------------------
(* The security module.                                                    *)

\* The value of an argument in what is signed.
signedValue(v) == IF v = Null THEN "" ELSE v

\* Every member of the struct is one argument, the one of its name.
Regular(type) ==
    LET s == Structs[type] IN
    /\ \A i \in DOMAIN s.message : i \in DOMAIN s.args /\ s.args[i] = s.message[i]
    /\ Range(s.message) = Range(s.args) \ Unsigned
    /\ Range(s.fields) = Range(s.message)

\* The members of the structs.
Members == {"chainId", "verifyingContract", "member", "published", "catalogId", "apiId",
     "schema", "meta", "created", "terms", "closeAt", "marketId", "channelId",
     "channelSeq", "balance", "isFinal", "ctype", "openedAt", "actor", "delegate",
     "marketmaker", "recipient", "amount", "updated", "delegateType", "apiCatalog",
     "consent", "servicePrefix", "domainId", "domainKey", "license", "coin", "maker",
     "marketFee", "joined", "actorType", "left", "client_pubkey", "loggedIn", "timestamp",
     "member_email", "registered", "eula", "profile", "paired", "nodeId", "nodeType",
     "nodeKey", "config", "validFrom", "issuer", "subject", "realm", "capabilities",
     "csPubKey", "bootedAt"}

LEMMA SignedMembers == Members \cap Unsigned = {}
BY DEF Members, Unsigned

LEMMA StructsAreRegular ==
  ASSUME NEW d, NEW names \in Seq(Members), NEW types, NEW type,
         Structs[type] = struct(d, names, types)
  PROVE  Regular(type)
<1>1. /\ Structs[type].message = names /\ Structs[type].args = names
      /\ Structs[type].fields = names
  BY DEF struct
<1>2. Range(names) = Range(names) \ Unsigned
  BY SignedMembers DEF Range
<1> QED BY <1>1, <1>2 DEF Regular

LEMMA XbrIsRegular ==
  ASSUME NEW names \in Seq(Members), NEW types, NEW type,
         Structs[type] = Xbr(names, types) \/ Structs[type] = Wmp(names, types)
  PROVE  Regular(type)
<1> DEFINE all == <<"chainId", "verifyingContract">> \o names
<1>1. all \in Seq(Members)
  <2>1. <<"chainId", "verifyingContract">> \in Seq(Members)
    BY DEF Members
  <2> QED BY <2>1
<1>2. \/ Structs[type] = struct("XBR", all, <<"uint256", "address">> \o types)
      \/ Structs[type] = struct("WMP", all, <<"uint256", "address">> \o types)
  BY DEF Xbr, Wmp
<1> HIDE DEF all
<1> QED BY <1>1, <1>2, StructsAreRegular

LEMMA MarketCreateIsRegular == Regular("MarketCreate")
<1> DEFINE names == <<"member", "created", "marketId", "coin", "terms", "meta", "maker", "marketFee">>
           types == <<"address", "uint256", "bytes16", "address", "string", "string",
                      "address", "uint256">>
           all == <<"chainId", "verifyingContract">> \o names
           more == <<"providerSecurity", "consumerSecurity">>
           s == Structs["MarketCreate"]
<1>1. s = [Xbr(names, types) EXCEPT !.args = @ \o more, !.values = @ \o <<"int", "int">>]
  BY DEF Structs, MarketCreate
<1>2. names \in Seq(Members)
  BY DEF Members
<1>3. all \in Seq(Members)
  <2>1. <<"chainId", "verifyingContract">> \in Seq(Members)
    BY DEF Members
  <2> HIDE DEF names
  <2> QED BY <1>2, <2>1
<1>4. s.message = all /\ s.fields = all /\ s.args = all \o more
  <2> HIDE DEF all, more, names, types, s
  <2> QED BY <1>1 DEF Xbr, struct, all
<1> HIDE DEF all, s, names, types
<1>5. /\ DOMAIN (all \o more) = 1..(Len(all) + 2) /\ Len(all) \in Nat
      /\ \A i \in 1..Len(all) : (all \o more)[i] = all[i]
      /\ (all \o more)[Len(all) + 1] = "providerSecurity"
      /\ (all \o more)[Len(all) + 2] = "consumerSecurity"
  BY <1>3
<1>6. Range(all \o more) = Range(all) \cup Unsigned
  <2>1. DOMAIN (all \o more) = 1..Len(all) \cup {Len(all) + 1, Len(all) + 2} /\ DOMAIN all = 1..Len(all)
    BY <1>3, <1>5
  <2> QED BY <1>5, <2>1 DEF Range, Unsigned
<1>7. Range(all) \cap Unsigned = {}
  BY <1>3, SignedMembers DEF Range
<1>8. Range(all) = Range(all \o more) \ Unsigned
  BY <1>6, <1>7
<1>9. DOMAIN all = 1..Len(all)
  BY <1>3
<1> HIDE DEF all, more, s
<1> QED BY <1>4, <1>5, <1>8, <1>9 DEF Regular, s

LEMMA AllAreRegular ==
  ASSUME NEW type \in Types, Encodable(type)
  PROVE  Regular(type)
<1> USE DEF Structs
<1>1. Types = {"ApiPublish", "CatalogCreate", "ChannelClose", "ChannelOpen", "Consent",
               "DomainCreate", "MarketCreate", "MarketJoin", "MarketLeave",
               "MarketMemberLogin", "MemberLogin", "MemberRegister", "MemberUnregister",
               "NodePair", "AuthorityCertificate", "DelegateCertificate"}
  BY DEF Types
<1>2. type # "MemberUnregister"
  <2>1. SUFFICES ASSUME type = "MemberUnregister" PROVE FALSE
    OBVIOUS
  <2> DEFINE all == <<"chainId", "verifyingContract">> \o <<"member", "retired">>
             s == Structs["MemberUnregister"]
  <2>2. s.fields = all /\ s.message = [all EXCEPT ![4] = "paired"]
    BY DEF MemberUnregister, Xbr, struct
  <2>3. /\ DOMAIN all = {1, 2, 3, 4}
        /\ all[1] = "chainId" /\ all[2] = "verifyingContract" /\ all[3] = "member" /\ all[4] = "retired"
    <3>1. DOMAIN all = 1..4
      OBVIOUS
    <3> QED BY <3>1
  <2>4. s.fields[4] = "retired" /\ 4 \in DOMAIN s.fields
    BY <2>2, <2>3
  <2>5. "retired" \notin Range(s.message)
    <3>1. DOMAIN s.message = {1, 2, 3, 4}
      BY <2>2, <2>3
    <3>2. s.message[1] = "chainId" /\ s.message[2] = "verifyingContract" /\ s.message[3] = "member" /\ s.message[4] = "paired"
      BY <2>2, <2>3
    <3> HIDE DEF s
    <3> QED BY <3>1, <3>2 DEF Range
  <2> QED BY <2>1, <2>4, <2>5 DEF Encodable
<1>11. Regular("ApiPublish")
  <2> DEFINE names == <<"member", "published", "catalogId", "apiId", "schema", "meta">>
             types == <<"address", "uint256", "bytes16", "bytes16", "string", "string">>
  <2>1. names \in Seq(Members)
    BY DEF Members
  <2>2. Structs["ApiPublish"] = Xbr(names, types)
    BY DEF ApiPublish
  <2> HIDE DEF names, types, Structs
  <2> QED BY <2>1, <2>2, XbrIsRegular
<1>12. Regular("CatalogCreate")
  <2> DEFINE names == <<"member", "created", "catalogId", "terms", "meta">>
             types == <<"address", "uint256", "bytes16", "string", "string">>
  <2>1. names \in Seq(Members)
    BY DEF Members
  <2>2. Structs["CatalogCreate"] = Xbr(names, types)
    BY DEF CatalogCreate
  <2> HIDE DEF names, types, Structs
  <2> QED BY <2>1, <2>2, XbrIsRegular
<1>13. Regular("ChannelClose")
  <2> DEFINE names == <<"closeAt", "marketId", "channelId", "channelSeq", "balance", "isFinal">>
             types == <<"uint256", "bytes16", "bytes16", "uint32", "uint256", "bool">>
  <2>1. names \in Seq(Members)
    BY DEF Members
  <2>2. Structs["ChannelClose"] = Xbr(names, types)
    BY DEF ChannelClose
  <2> HIDE DEF names, types, Structs
  <2> QED BY <2>1, <2>2, XbrIsRegular
<1>14. Regular("ChannelOpen")
  <2> DEFINE names == <<"ctype", "openedAt", "marketId", "channelId", "actor", "delegate",
                        "marketmaker", "recipient", "amount">>
             types == <<"uint8", "uint256", "bytes16", "bytes16", "address", "address",
                        "address", "address", "uint256">>
  <2>1. names \in Seq(Members)
    BY DEF Members
  <2>2. Structs["ChannelOpen"] = Xbr(names, types)
    BY DEF ChannelOpen
  <2> HIDE DEF names, types, Structs
  <2> QED BY <2>1, <2>2, XbrIsRegular
<1>15. Regular("Consent")
  <2> DEFINE names == <<"member", "updated", "marketId", "delegate", "delegateType",
                        "apiCatalog", "consent", "servicePrefix">>
             types == <<"address", "uint256", "bytes16", "address", "uint8", "bytes16",
                        "bool", "string">>
  <2>1. names \in Seq(Members)
    BY DEF Members
  <2>2. Structs["Consent"] = Xbr(names, types)
    BY DEF Consent
  <2> HIDE DEF names, types, Structs
  <2> QED BY <2>1, <2>2, XbrIsRegular
<1>16. Regular("DomainCreate")
  <2> DEFINE names == <<"member", "created", "domainId", "domainKey", "license", "terms", "meta">>
             types == <<"address", "uint256", "bytes16", "bytes32", "string", "string", "string">>
  <2>1. names \in Seq(Members)
    BY DEF Members
  <2>2. Structs["DomainCreate"] = Xbr(names, types)
    BY DEF DomainCreate
  <2> HIDE DEF names, types, Structs
  <2> QED BY <2>1, <2>2, XbrIsRegular
<1>17. Regular("MarketJoin")
  <2> DEFINE names == <<"member", "joined", "marketId", "actorType", "meta">>
             types == <<"address", "uint256", "bytes16", "uint8", "string">>
  <2>1. names \in Seq(Members)
    BY DEF Members
  <2>2. Structs["MarketJoin"] = Xbr(names, types)
    BY DEF MarketJoin
  <2> HIDE DEF names, types, Structs
  <2> QED BY <2>1, <2>2, XbrIsRegular
<1>18. Regular("MarketLeave")
  <2> DEFINE names == <<"member", "left", "marketId", "actorType">>
             types == <<"address", "uint256", "bytes16", "uint8">>
  <2>1. names \in Seq(Members)
    BY DEF Members
  <2>2. Structs["MarketLeave"] = Xbr(names, types)
    BY DEF MarketLeave
  <2> HIDE DEF names, types, Structs
  <2> QED BY <2>1, <2>2, XbrIsRegular
<1>19. Regular("MarketMemberLogin")
  <2> DEFINE names == <<"member", "client_pubkey">>
             types == <<"address", "bytes32">>
  <2>1. names \in Seq(Members)
    BY DEF Members
  <2>2. Structs["MarketMemberLogin"] = struct("XBR", names, types)
    BY DEF MarketMemberLogin
  <2> HIDE DEF names, types, Structs
  <2> QED BY <2>1, <2>2, StructsAreRegular
<1>20. Regular("MemberLogin")
  <2> DEFINE names == <<"member", "loggedIn", "timestamp", "member_email", "client_pubkey">>
             types == <<"address", "uint256", "uint64", "string", "bytes32">>
  <2>1. names \in Seq(Members)
    BY DEF Members
  <2>2. Structs["MemberLogin"] = Xbr(names, types)
    BY DEF MemberLogin
  <2> HIDE DEF names, types, Structs
  <2> QED BY <2>1, <2>2, XbrIsRegular
<1>21. Regular("MemberRegister")
  <2> DEFINE names == <<"member", "registered", "eula", "profile">>
             types == <<"address", "uint256", "string", "string">>
  <2>1. names \in Seq(Members)
    BY DEF Members
  <2>2. Structs["MemberRegister"] = Xbr(names, types)
    BY DEF MemberRegister
  <2> HIDE DEF names, types, Structs
  <2> QED BY <2>1, <2>2, XbrIsRegular
<1>22. Regular("NodePair")
  <2> DEFINE s == Structs["NodePair"]
  <2> DEFINE names == <<"member", "paired", "nodeId", "domainId", "nodeType", "nodeKey",
                        "amount", "config">>
             types == <<"address", "uint256", "bytes16", "bytes16", "uint8", "bytes16",
                        "uint256", "string">>
             all == <<"chainId", "verifyingContract">> \o names
  <2>1. s = [Xbr(names, types) EXCEPT !.values[8] = "bytes32"]
    BY DEF NodePair
  <2>2. names \in Seq(Members)
    BY DEF Members
  <2>3. all \in Seq(Members)
    <3>1. <<"chainId", "verifyingContract">> \in Seq(Members)
      BY DEF Members
    <3> HIDE DEF names
    <3> QED BY <2>2, <3>1
  <2> HIDE DEF s, names, types
  <2>4. s.message = all /\ s.fields = all /\ s.args = all
    BY <2>1 DEF Xbr, struct
  <2> HIDE DEF all
  <2>5. Range(all) \cap Unsigned = {}
    BY <2>3, SignedMembers DEF Range
  <2> HIDE DEF Unsigned
  <2> QED BY <2>4, <2>5 DEF Regular, s
<1>23. Regular("AuthorityCertificate")
  <2> DEFINE names == <<"validFrom", "issuer", "subject", "realm", "capabilities", "meta">>
             types == <<"uint256", "address", "address", "address", "uint64", "string">>
  <2>1. names \in Seq(Members)
    BY DEF Members
  <2>2. Structs["AuthorityCertificate"] = Wmp(names, types)
    BY DEF AuthorityCertificate
  <2> HIDE DEF names, types, Structs
  <2> QED BY <2>1, <2>2, XbrIsRegular
<1>24. Regular("DelegateCertificate")
  <2> DEFINE names == <<"validFrom", "delegate", "csPubKey", "bootedAt", "meta">>
             types == <<"uint256", "address", "bytes32", "uint64", "string">>
  <2>1. names \in Seq(Members)
    BY DEF Members
  <2>2. Structs["DelegateCertificate"] = Wmp(names, types)
    BY DEF DelegateCertificate
  <2> HIDE DEF names, types, Structs
  <2> QED BY <2>1, <2>2, XbrIsRegular
<1> QED BY <1>1, <1>2, <1>11, <1>12, <1>13, <1>14, <1>15, <1>16, <1>17, <1>18, <1>19, <1>20, <1>21, <1>22, <1>23, <1>24, MarketCreateIsRegular

\* The data of a message are its arguments but the unsigned ones, each in the
\* member of its name.
signedArgs(type) == Range(Structs[type].args) \ Unsigned

LEMMA CreatedData ==
  ASSUME NEW type \in Types, Encodable(type), NEW args
  PROVE  create(type, args) =
            [primaryType |-> type,
             message |-> [name \in signedArgs(type) |-> signedValue(args[name])]]
<1> DEFINE s == Structs[type]
<1>1. Regular(type)
  BY AllAreRegular
<1>2. ASSUME NEW name \in Range(s.message)
      PROVE  s.args[position(s.message, name)] = name
  <2> DEFINE i == position(s.message, name)
  <2>1. i \in DOMAIN s.message /\ s.message[i] = name
    BY DEF position, Range
  <2> HIDE DEF i
  <2> QED BY <1>1, <2>1 DEF Regular, i
<1>3. Range(s.message) = signedArgs(type)
  BY <1>1 DEF Regular, signedArgs
<1>4. [name \in Range(s.message) |->
          IF args[s.args[position(s.message, name)]] = Null THEN ""
          ELSE args[s.args[position(s.message, name)]]]
        = [name \in signedArgs(type) |-> signedValue(args[name])]
  BY <1>2, <1>3 DEF signedValue
<1> QED BY <1>4 DEF create

\* The hash of a message: the signed values of its arguments.
LEMMA Hashes ==
  ASSUME NEW type \in Types, Encodable(type), NEW args
  PROVE  encode_typed_data(create(type, args)) =
            [domain |-> Structs[type].domain, type |-> type,
             values |-> [name \in signedArgs(type) |-> signedValue(args[name])]]
<1>1. Range(Structs[type].fields) = signedArgs(type)
  BY AllAreRegular DEF Regular, signedArgs
<1>2. create(type, args) =
        [primaryType |-> type,
         message |-> [name \in signedArgs(type) |-> signedValue(args[name])]]
  BY CreatedData
<1> QED BY <1>1, <1>2 DEF encode_typed_data

\* Two messages have the same hash only if they are of one type and the signed
\* values are the same.
LEMMA HashesBind ==
  ASSUME NEW type \in Types, Encodable(type), NEW args,
         NEW kind \in Types, Encodable(kind), NEW other
  PROVE  encode_typed_data(create(kind, other)) = encode_typed_data(create(type, args))
            <=> /\ type = kind
                /\ \A name \in signedArgs(type) : signedValue(args[name]) = signedValue(other[name])
<1> DEFINE values(t, v) == [name \in signedArgs(t) |-> signedValue(v[name])]
           hash(t, v) == [domain |-> Structs[t].domain, type |-> t, values |-> values(t, v)]
<1>1. /\ encode_typed_data(create(type, args)) = hash(type, args)
      /\ encode_typed_data(create(kind, other)) = hash(kind, other)
  BY Hashes
<1>2. hash(kind, other) = hash(type, args) <=> type = kind /\ values(kind, other) = values(type, args)
  <2> HIDE DEF values
  <2> QED OBVIOUS
<1>3. values(type, other) = values(type, args)
        <=> \A name \in signedArgs(type) : signedValue(args[name]) = signedValue(other[name])
  <2>1. ASSUME values(type, other) = values(type, args), NEW name \in signedArgs(type)
        PROVE  signedValue(args[name]) = signedValue(other[name])
    <3>1. values(type, other)[name] = values(type, args)[name]
      BY <2>1
    <3> QED BY <3>1
  <2> QED BY <2>1
<1> HIDE DEF values, hash
<1> QED BY <1>1, <1>2, <1>3

\* What an application signs of a type.
signable(type) == {base(type)} \cup {[base(type) EXCEPT ![a] = Null] : a \in Optional(type)}

LEMMA SignableArgs ==
  ASSUME NEW type \in Types, NEW args \in signable(type)
  PROVE  /\ DOMAIN args = Range(Structs[type].args)
         /\ \A a \in DOMAIN args : signedValue(args[a]) \in {"", "a"}
BY DEF signable, base, signedValue, Optional

LEMMA VariantArgs ==
  ASSUME NEW type \in Types, NEW args \in variants(type)
  PROVE  DOMAIN args = Range(Structs[type].args)
BY DEF variants, base

\* The invariant.  The module: what is not open is locked, what is unlocked was
\* unlocked by unlock(), and the keys that are created in it are of the type that
\* looks at its lock.
ModuleInv ==
    /\ sm = [is_open |-> sm.is_open, is_locked |-> sm.is_locked, made |-> sm.made, keys |-> sm.keys]
    /\ sm.is_open \in BOOLEAN /\ sm.is_locked \in BOOLEAN /\ sm.made \in Nat
    /\ \A n \in DOMAIN sm.keys :
          LET k == sm.keys[n] IN
          /\ k = KeyObject(k.id, k.type, k.module)
          /\ k.id \in Nat \ {0} /\ k.module \in BOOLEAN
          /\ k.module => k.type = "ethereum"
    /\ ~sm.is_open => sm.is_locked

LogInv ==
    /\ log = [granted |-> log.granted, signatures |-> log.signatures, files |-> log.files,
              grants |-> log.grants]
    /\ log.granted \in BOOLEAN
    /\ ~sm.is_locked => log.granted
    /\ FALSE \notin log.grants

\* Every signature is of what an application signs, and every file of a
\* certificate with such a signature.
Signed(s, type, by, args) ==
    /\ Encodable(type)
    /\ s = [args |-> args, signature |-> sign_eip712(type, by, args)]

SignaturesInv ==
    \A s \in log.signatures :
        \E type \in Types, by \in Nat \ {0} : \E args \in signable(type) : Signed(s, type, by, args)

Written(f, type, by, args) ==
    LET cert == [certificate(type, args) EXCEPT !.signatures = <<sign_eip712(type, by, args)>>] IN
    /\ Encodable(type)
    /\ f = [of |-> cert, file |-> save(cert)]

FilesInv ==
    \A f \in log.files :
        \E type \in Certificates, by \in Nat \ {0} : \E args \in signable(type) : Written(f, type, by, args)

SecurityInv == owner \in Owners /\ ModuleInv /\ LogInv /\ SignaturesInv /\ FilesInv

LEMMA SecurityInit == Guarded /\ ModuleInit => SecurityInv
<1> SUFFICES ASSUME ModuleInit PROVE SecurityInv
  OBVIOUS
<1>1. owner \in Owners /\ owner.given \in Seq({"ethereum", "cryptosign"})
  BY OwnerAssumption DEF ModuleInit, OwnerType
<1>2. Len(owner.given) \in Nat
  BY <1>1
<1> DEFINE keys == [n \in 0..(Len(owner.given) - 1) |-> KeyObject(n + 1, owner.given[n + 1], FALSE)]
<1>5. sm = [is_open |-> FALSE, is_locked |-> TRUE, made |-> Len(owner.given), keys |-> keys]
  BY DEF ModuleInit, module0
<1>6. ASSUME NEW n \in DOMAIN keys
      PROVE  /\ keys[n] = KeyObject(keys[n].id, keys[n].type, keys[n].module)
             /\ keys[n].id \in Nat \ {0} /\ keys[n].module = FALSE
  <2>2. n \in 0..(Len(owner.given) - 1)
    BY <1>6
  <2>3. keys[n] = KeyObject(n + 1, owner.given[n + 1], FALSE)
    BY <2>2
  <2> DEFINE len == Len(owner.given)
  <2>4. len \in Nat /\ n \in 0..(len - 1)
    BY <1>2, <2>2
  <2>5. n + 1 \in Nat \ {0}
    <3> HIDE DEF len
    <3> QED BY <2>4
  <2>1. n + 1 \in Nat \ {0} /\ keys[n] = KeyObject(n + 1, owner.given[n + 1], FALSE)
    BY <2>3, <2>5
  <2> HIDE DEF keys
  <2> QED BY <2>1 DEF KeyObject
<1> HIDE DEF keys
<1>7. sm.keys = keys /\ sm.made = Len(owner.given) /\ sm.is_open = FALSE /\ sm.is_locked = TRUE
  BY <1>5
<1>3. ModuleInv
  BY <1>2, <1>5, <1>6, <1>7 DEF ModuleInv
<1>4. LogInv /\ SignaturesInv /\ FilesInv
  BY <1>1 DEF LogInv, SignaturesInv, FilesInv, ModuleInit, log0, module0
<1> QED BY <1>1, <1>3, <1>4 DEF SecurityInv

\* Steps of the module leave signatures and files alone.
LEMMA ModuleSteps ==
  ASSUME Guarded, SecurityInv, open \/ close \/ lock \/ unlock
  PROVE  SecurityInv'
<1> USE DEF SecurityInv
<1>1. /\ log' = [log EXCEPT !.granted = log'.granted]
      /\ log'.granted \in BOOLEAN
      /\ ~sm'.is_locked => log'.granted
  <2>1. CASE open BY <2>1 DEF open, ModuleInv, LogInv
  <2>2. CASE close BY <2>2 DEF close, closed, ModuleInv, LogInv
  <2>3. CASE lock BY <2>3 DEF lock, ModuleInv, LogInv
  <2>4. CASE unlock BY <2>4 DEF unlock, ModuleInv, LogInv
  <2> QED BY <2>1, <2>2, <2>3, <2>4
<1>2. LogInv'
  BY <1>1 DEF LogInv
<1>3. log'.signatures = log.signatures /\ log'.files = log.files
  BY <1>1 DEF LogInv
<1>4. /\ sm' = [sm EXCEPT !.is_open = sm'.is_open, !.is_locked = sm'.is_locked]
      /\ sm'.is_open \in BOOLEAN /\ sm'.is_locked \in BOOLEAN
      /\ ~sm'.is_open => sm'.is_locked
      /\ owner' = owner
  <2>1. CASE open BY <2>1 DEF open, ModuleInv
  <2>2. CASE close BY <2>2 DEF close, closed, ModuleInv
  <2>3. CASE lock BY <2>3 DEF lock, ModuleInv
  <2>4. CASE unlock BY <2>4 DEF unlock, ModuleInv
  <2> QED BY <2>1, <2>2, <2>3, <2>4
<1>5. ModuleInv'
  <2>1. sm'.keys = sm.keys /\ sm'.made = sm.made
    BY <1>4 DEF ModuleInv
  <2> QED BY <1>4, <2>1 DEF ModuleInv
<1> QED BY <1>2, <1>3, <1>4, <1>5 DEF SignaturesInv, FilesInv

\* Keys come and go; one that is made in the module looks at its lock.
LEMMA KeySteps ==
  ASSUME Guarded, SecurityInv,
         \/ \E type \in {"ethereum", "cryptosign"} : create_key(type)
         \/ \E key_no \in DOMAIN sm.keys : delete_key(key_no)
  PROVE  SecurityInv'
<1> USE DEF SecurityInv
<1>1. /\ owner' = owner /\ log' = log
      /\ sm' = [sm EXCEPT !.made = sm'.made, !.keys = sm'.keys]
  BY DEF create_key, delete_key, ModuleInv
<1>2. sm'.is_open = sm.is_open /\ sm'.is_locked = sm.is_locked
  BY <1>1 DEF ModuleInv
<1>3. sm'.made \in Nat /\ \A n \in DOMAIN sm'.keys :
          \/ n \in DOMAIN sm.keys /\ sm'.keys[n] = sm.keys[n]
          \/ sm'.keys[n] = KeyObject(sm.made + 1, "ethereum", TRUE)
  <2>1. ASSUME NEW type \in {"ethereum", "cryptosign"}, create_key(type) PROVE <1>3
    <3> DEFINE no == Cardinality(DOMAIN sm.keys)
               keys == [n \in DOMAIN sm.keys \cup {no} |->
                          IF n = no THEN KeyObject(sm.made + 1, type, TRUE) ELSE sm.keys[n]]
    <3>1. type \in owner.created
      BY <2>1 DEF create_key
    <3>2. type = "ethereum"
      BY <3>1 DEF Guarded
    <3>3. sm' = [sm EXCEPT !.made = @ + 1, !.keys = keys]
      BY <2>1 DEF create_key
    <3> HIDE DEF no
    <3>4. sm'.made = sm.made + 1 /\ sm'.keys = keys
      <4> HIDE DEF keys
      <4> QED BY <3>3 DEF ModuleInv
    <3>5. sm'.made \in Nat
      BY <3>4 DEF ModuleInv
    <3>6. ASSUME NEW n \in DOMAIN sm'.keys
          PROVE  \/ n \in DOMAIN sm.keys /\ sm'.keys[n] = sm.keys[n]
                 \/ sm'.keys[n] = KeyObject(sm.made + 1, "ethereum", TRUE)
      BY <3>2, <3>4
    <3> QED BY <3>5, <3>6
  <2>2. ASSUME NEW key_no \in DOMAIN sm.keys, delete_key(key_no) PROVE <1>3
    <3> DEFINE keys == [n \in DOMAIN sm.keys \ {key_no} |-> sm.keys[n]]
    <3>1. sm' = [sm EXCEPT !.keys = keys]
      BY <2>2 DEF delete_key
    <3>2. sm'.made = sm.made /\ sm'.keys = keys
      <4> HIDE DEF keys
      <4> QED BY <3>1 DEF ModuleInv
    <3> QED BY <3>2 DEF ModuleInv
  <2> QED BY <2>1, <2>2
<1>6. ASSUME NEW n \in DOMAIN sm'.keys
      PROVE  LET k == sm'.keys[n] IN
             /\ k = KeyObject(k.id, k.type, k.module)
             /\ k.id \in Nat \ {0} /\ k.module \in BOOLEAN
             /\ k.module => k.type = "ethereum"
  <2>1. CASE n \in DOMAIN sm.keys /\ sm'.keys[n] = sm.keys[n]
    BY <2>1 DEF ModuleInv
  <2>2. CASE sm'.keys[n] = KeyObject(sm.made + 1, "ethereum", TRUE)
    <3>1. sm.made + 1 \in Nat \ {0}
      BY DEF ModuleInv
    <3> QED BY <2>2, <3>1 DEF KeyObject
  <2> QED BY <1>3, <1>6, <2>1, <2>2
<1>4. ModuleInv'
  BY <1>1, <1>2, <1>3, <1>6 DEF ModuleInv
<1>5. LogInv'
  BY <1>1, <1>2 DEF LogInv
<1> QED BY <1>1, <1>4, <1>5 DEF SignaturesInv, FilesInv

LEMMA SigningSteps ==
  ASSUME Guarded, SecurityInv, NEW key_no \in DOMAIN sm.keys, NEW type \in Types,
         SignTypedData(key_no, type) \/ SignChallenge(key_no)
  PROVE  SecurityInv'
<1> USE DEF SecurityInv
<1> DEFINE k == sm.keys[key_no]
           more == IF k.module THEN {log.granted} ELSE {}
<1>1. k.id \in Nat \ {0} /\ k.module \in BOOLEAN /\ (k.module => k.type = "ethereum")
  BY DEF ModuleInv
<1>2. FALSE \notin more
  <2>1. canSign(k)
    BY DEF SignTypedData, SignChallenge
  <2> QED BY <1>1, <2>1 DEF canSign, LogInv, ModuleInv
<1>3. /\ owner' = owner /\ sm' = sm
      /\ log' = [log EXCEPT !.signatures = log'.signatures, !.grants = @ \cup more]
  BY DEF SignTypedData, SignChallenge, LogInv
<1>4. ASSUME NEW s \in log'.signatures
      PROVE  \/ s \in log.signatures
             \/ \E args \in signable(type) : Signed(s, type, k.id, args)
  <2>1. CASE SignChallenge(key_no)
    BY <1>4, <2>1 DEF SignChallenge, LogInv
  <2>2. CASE SignTypedData(key_no, type)
    <3>1. Encodable(type)
      BY <2>2 DEF SignTypedData
    <3>2. PICK args \in signable(type) :
            log' = [log EXCEPT
                      !.signatures = @ \cup {[args |-> args, signature |-> sign_eip712(type, k.id, args)]},
                      !.grants = @ \cup more]
      BY <2>2 DEF SignTypedData, signable
    <3>3. s \in log.signatures \cup {[args |-> args, signature |-> sign_eip712(type, k.id, args)]}
      <4> HIDE DEF k, more
      <4> QED BY <1>4, <3>2 DEF LogInv
    <3> QED BY <3>1, <3>3 DEF Signed
  <2> QED BY <2>1, <2>2
<1>5. SignaturesInv'
  <2> HIDE DEF k
  <2> QED BY <1>1, <1>4 DEF SignaturesInv
<1> HIDE DEF more, k
<1>6. LogInv' /\ log'.files = log.files
  BY <1>2, <1>3 DEF LogInv
<1>7. ModuleInv'
  BY <1>3 DEF ModuleInv
<1> QED BY <1>3, <1>5, <1>6, <1>7 DEF FilesInv

LEMMA SavingSteps ==
  ASSUME Guarded, SecurityInv, NEW s \in log.signatures, SaveCertificate(s)
  PROVE  SecurityInv'
<1> USE DEF SecurityInv
<1>1. PICK type \in Types, by \in Nat \ {0} : \E args \in signable(type) : Signed(s, type, by, args)
  BY DEF SignaturesInv
<1>2. PICK args \in signable(type) : Signed(s, type, by, args)
  BY <1>1
<1>3. /\ s.args = args /\ s.signature = sign_eip712(type, by, args)
      /\ s.signature.hash.type = type
  BY <1>2 DEF Signed, sign_eip712, sign, encode_typed_data, create
<1> DEFINE cert == [certificate(type, args) EXCEPT !.signatures = <<sign_eip712(type, by, args)>>]
           f == [of |-> cert, file |-> save(cert)]
<1>4. type \in Certificates /\ log' = [log EXCEPT !.files = @ \cup {f}] /\ owner' = owner /\ sm' = sm
  BY <1>3 DEF SaveCertificate
<1>5. Written(f, type, by, args)
  BY <1>2 DEF Written, Signed
<1> HIDE DEF f
<1>6. /\ LogInv' /\ log'.signatures = log.signatures
      /\ log'.files = log.files \cup {f}
  BY <1>4 DEF LogInv
<1>7. FilesInv'
  BY <1>4, <1>5, <1>6 DEF FilesInv
<1>8. ModuleInv'
  BY <1>4 DEF ModuleInv
<1> QED BY <1>4, <1>6, <1>7, <1>8 DEF SignaturesInv

LEMMA SecurityStep == Guarded /\ SecurityInv /\ [ModuleNext]_moduleVars => SecurityInv'
<1> SUFFICES ASSUME Guarded, SecurityInv, [ModuleNext]_moduleVars PROVE SecurityInv'
  OBVIOUS
<1>1. CASE open \/ close \/ lock \/ unlock
  BY <1>1, ModuleSteps
<1>2. CASE \/ \E type \in {"ethereum", "cryptosign"} : create_key(type)
           \/ \E key_no \in DOMAIN sm.keys : delete_key(key_no)
  BY <1>2, KeySteps
<1>3. ASSUME NEW key_no \in DOMAIN sm.keys, SignChallenge(key_no) PROVE SecurityInv'
  <2>1. "ApiPublish" \in Types
    BY DEF Types, Structs
  <2> QED BY <1>3, <2>1, SigningSteps
<1>4. ASSUME NEW key_no \in DOMAIN sm.keys, NEW type \in owner.signed, SignTypedData(key_no, type)
      PROVE  SecurityInv'
  <2>1. type \in Types
    BY <1>4, OwnerAssumption DEF SecurityInv, OwnerType
  <2> QED BY <1>4, <2>1, SigningSteps
<1>5. ASSUME NEW s \in log.signatures, SaveCertificate(s) PROVE SecurityInv'
  BY <1>5, SavingSteps
<1>6. CASE UNCHANGED moduleVars
  BY <1>6 DEF moduleVars, SecurityInv, ModuleInv, LogInv, SignaturesInv, FilesInv
<1> QED BY <1>1, <1>2, <1>3, <1>4, <1>5, <1>6 DEF ModuleNext

LEMMA BindingHolds == SecurityInv => SignatureBinds
<1> SUFFICES ASSUME SecurityInv,
                    NEW s \in log.signatures, NEW type \in owner.signed, Encodable(type),
                    NEW args \in variants(type)
             PROVE  (recover_eip712(type, args, s.signature) = s.signature.by)
                       <=> (type = s.signature.hash.type /\ sameMessage(args, s.args))
  BY DEF SignatureBinds
<1>1. type \in Types
  BY OwnerAssumption DEF SecurityInv, OwnerType
<1>2. PICK kind \in Types, by \in Nat \ {0} : \E other \in signable(kind) : Signed(s, kind, by, other)
  BY DEF SecurityInv, SignaturesInv
<1>3. PICK other \in signable(kind) : Signed(s, kind, by, other)
  BY <1>2
<1> DEFINE hash == encode_typed_data(create(kind, other))
<1>4. /\ s.args = other /\ s.signature.by = by /\ s.signature.hash = hash
      /\ s.signature.hash.type = kind /\ Encodable(kind)
  BY <1>3 DEF Signed, sign_eip712, sign, encode_typed_data, create
<1>5. recover_eip712(type, args, s.signature) = by <=> hash = encode_typed_data(create(type, args))
  BY <1>2, <1>4 DEF recover_eip712, recover
<1>6. sameMessage(args, s.args)
        <=> \A name \in signedArgs(type) : signedValue(args[name]) = signedValue(other[name])
  BY <1>4, VariantArgs, <1>1 DEF sameMessage, signedArgs, signedValue
<1> HIDE DEF hash
<1>7. hash = encode_typed_data(create(type, args))
        <=> type = kind /\ \A name \in signedArgs(type) : signedValue(args[name]) = signedValue(other[name])
  BY <1>1, <1>2, <1>4, HashesBind DEF hash
<1> QED BY <1>4, <1>5, <1>6, <1>7

\* Every argument of a certificate is signed.
LEMMA CertificatesAreSigned ==
  ASSUME NEW type \in Certificates, Encodable(type)
  PROVE  /\ type \in Types /\ signedArgs(type) = Range(Structs[type].args)
         /\ Structs[type].domain = "WMP"
<1>1. type \in Types
  BY DEF Types, Structs, Certificates
<1>2. \E names, types : Structs[type] = Wmp(names, types)
  <2>1. CASE type = "AuthorityCertificate"
    <3>1. Structs[type] = AuthorityCertificate
      BY <2>1 DEF Structs
    <3> QED BY <3>1 DEF AuthorityCertificate
  <2>2. CASE type = "DelegateCertificate"
    <3>1. Structs[type] = DelegateCertificate
      BY <2>2 DEF Structs
    <3> QED BY <3>1 DEF DelegateCertificate
  <2> QED BY <2>1, <2>2 DEF Certificates
<1>3. Structs[type].message = Structs[type].args /\ Structs[type].domain = "WMP"
  BY <1>2 DEF Wmp, struct
<1>4. Range(Structs[type].message) = signedArgs(type)
  BY <1>1, AllAreRegular DEF Regular, signedArgs
<1> QED BY <1>1, <1>3, <1>4

LEMMA SurvivalHolds == SecurityInv => CertificatesSurvive
<1> SUFFICES ASSUME SecurityInv, NEW f \in log.files
             PROVE  LET text == marshal_certificate(f.of, FALSE)
                        chain == parse_certificate_chain(<<<<f.of.hash, text, f.of.signatures[1]>>>>)
                        loaded == load(f.of.type, f.file) IN
                    /\ chain[1] # Null /\ chain[1].hash = f.of.hash
                    /\ f.of.type = "AuthorityCertificate" =>
                          /\ loaded # Null /\ loaded.hash = f.of.hash /\ loaded.signatures # <<>>
                          /\ \A i \in DOMAIN loaded.signatures :
                                recover_eip712(loaded.type, loaded.args, loaded.signatures[i])
                                    = f.of.signatures[i].by
  BY DEF CertificatesSurvive
<1>1. PICK type \in Certificates, by \in Nat \ {0} :
        \E args \in signable(type) : Written(f, type, by, args)
  BY DEF SecurityInv, FilesInv
<1>2. PICK args \in signable(type) : Written(f, type, by, args)
  BY <1>1
<1>3. type \in Types /\ Encodable(type) /\ signedArgs(type) = Range(Structs[type].args)
  BY <1>2, CertificatesAreSigned DEF Written
<1> DEFINE message == [name \in signedArgs(type) |-> signedValue(args[name])]
           again == certificate(type, message)
           hash == encode_typed_data(create(type, args))
           signature == [by |-> by, hash |-> hash]
<1>4. /\ f.of = [type |-> type, args |-> args, signatures |-> <<signature>>, hash |-> hash]
      /\ f.file = save(f.of)
  <2> HIDE DEF hash
  <2> QED BY <1>2 DEF Written, certificate, sign_eip712, sign, hash
<1>5. create(type, args).message = message
  BY <1>3, CreatedData
<1>6. message \in signedValues(type) /\ hash \in HashType(type)
  <2>1. message \in signedValues(type)
    BY <1>3, SignableArgs DEF signedValues
  <2>2. hash = [domain |-> "WMP", type |-> type, values |-> message]
    BY <1>3, Hashes, CertificatesAreSigned
  <2> HIDE DEF message, hash
  <2> QED BY <2>1, <2>2 DEF HashType
<1>7. encode_typed_data(create(type, message)) = hash
  <2>1. \A name \in signedArgs(type) : signedValue(message[name]) = signedValue(args[name])
    BY DEF signedValue
  <2> HIDE DEF message
  <2> QED BY <1>3, <2>1, HashesBind
<1> HIDE DEF hash, message
<1>8. /\ again.type = type /\ again.args = message /\ again.hash = hash
      /\ \A signatures : [again EXCEPT !.signatures = signatures] =
            [type |-> type, args |-> message, signatures |-> signatures, hash |-> hash]
  BY <1>7 DEF certificate
<1> HIDE DEF again
<1>14. ASSUME NEW signatures \in {<<>>, <<signature>>}
       PROVE  Null # [type |-> type, args |-> message, signatures |-> signatures, hash |-> hash]
  <2>1. signatures \in Seq([by : Nat, hash : HashType(type)])
    <3>1. signature \in [by : Nat, hash : HashType(type)]
      BY <1>6
    <3> HIDE DEF signature
    <3>2. <<signature>> \in Seq([by : Nat, hash : HashType(type)])
      BY <3>1
    <3>3. <<>> \in Seq([by : Nat, hash : HashType(type)])
      OBVIOUS
    <3>4. signatures = <<>> \/ signatures = <<signature>>
      BY <1>14
    <3>5. CASE signatures = <<>>
      BY <3>3, <3>5 DEF signature
    <3>6. CASE signatures = <<signature>>
      BY <3>2, <3>6, Zenon
    <3> QED BY <3>4, <3>5, <3>6
  <2>2. [type |-> type, args |-> message, signatures |-> signatures, hash |-> hash]
          \in CertificateType(type)
    BY <1>6, <2>1 DEF CertificateType
  <2> QED BY <2>2, NullAssumption
<1>15. again # Null
  <2>1. again = [type |-> type, args |-> message, signatures |-> <<>>, hash |-> hash]
    BY <1>7 DEF again, certificate
  <2> QED BY <2>1, <1>14
<1>9. ASSUME NEW binary \in BOOLEAN
      PROVE  LET data == marshal_certificate(f.of, binary) IN
             data.primaryType = type /\ parsed(type, data, binary) = again
  BY <1>4, <1>5 DEF marshal_certificate, parsed, again
<1> DEFINE text == marshal_certificate(f.of, FALSE)
           chain == parse_certificate_chain(<<<<f.of.hash, text, f.of.signatures[1]>>>>)
           loaded == load(f.of.type, f.file)
<1>10. chain[1] = again
  <2>1. text.primaryType = type /\ parsed(type, text, FALSE) = again
    BY <1>9
  <2> HIDE DEF text
  <2>2. IF text.primaryType = "DelegateCertificate" THEN DelegateCertificate_parse(text) = again
        ELSE AuthorityCertificate_parse(text, FALSE) = again
    <3>1. CASE type = "DelegateCertificate"
      <4>1. parsed("DelegateCertificate", text, FALSE) = again
        BY <2>1, <3>1
      <4> QED BY <2>1, <3>1, <4>1 DEF DelegateCertificate_parse
    <3>2. CASE type = "AuthorityCertificate"
      <4>1. parsed("AuthorityCertificate", text, FALSE) = again
        BY <2>1, <3>2
      <4> QED BY <2>1, <3>2, <4>1 DEF AuthorityCertificate_parse
    <3> QED BY <1>1, <3>1, <3>2 DEF Certificates
  <2> DEFINE certs == <<<<f.of.hash, text, f.of.signatures[1]>>>>
  <2>3. certs[1][2] = text /\ 1 \in DOMAIN certs
    OBVIOUS
  <2> HIDE DEF certs
  <2>4. parse_certificate_chain(certs)[1] = again
    BY <2>2, <2>3 DEF parse_certificate_chain
  <2> QED BY <2>4 DEF certs
<1>11. ASSUME type = "AuthorityCertificate"
       PROVE  loaded = [type |-> type, args |-> message, signatures |-> <<signature>>, hash |-> hash]
  <2> DEFINE data == marshal_certificate(f.of, TRUE)
  <2>1. parsed(type, data, TRUE) = again
    BY <1>9
  <2> HIDE DEF data
  <2>2. f.file = [hash |-> hash, obj |-> data, signatures |-> <<signature>>]
    <3> HIDE DEF signature
    <3> QED BY <1>4 DEF save, data
  <2>3. AuthorityCertificate_parse(f.file.obj, TRUE) = again
    <3>1. f.file.obj = data
      BY <2>2
    <3>2. parsed("AuthorityCertificate", data, TRUE) = again
      BY <1>11, <2>1
    <3> QED BY <3>1, <3>2 DEF AuthorityCertificate_parse
  <2>4. loaded = AuthorityCertificate_load(f.file)
    BY <1>4, <1>11 DEF load
  <2> HIDE DEF loaded, signature
  <2>5. loaded = [again EXCEPT !.signatures = <<signature>>]
    <3>1. f.file.hash = hash /\ f.file.signatures = <<signature>>
      BY <2>2
    <3> QED BY <1>15, <1>8, <2>3, <2>4, <3>1 DEF AuthorityCertificate_load
  <2> QED BY <1>8, <2>5
<1>12. ASSUME type = "AuthorityCertificate"
       PROVE  /\ loaded # Null /\ loaded.hash = f.of.hash /\ loaded.signatures # <<>>
              /\ \A i \in DOMAIN loaded.signatures :
                    recover_eip712(loaded.type, loaded.args, loaded.signatures[i])
                        = f.of.signatures[i].by
  <2>1. loaded # Null
    BY <1>11, <1>12, <1>14
  <2>2. recover_eip712(type, message, signature) = by
    BY <1>7 DEF recover_eip712, recover
  <2> HIDE DEF loaded, signature
  <2>3. /\ f.of.hash = hash /\ f.of.signatures = <<signature>>
        /\ loaded.type = type /\ loaded.args = message
        /\ loaded.hash = hash /\ loaded.signatures = <<signature>>
    BY <1>4, <1>11, <1>12
  <2>4. f.of.signatures[1].by = by
    BY <2>3 DEF signature
  <2>5. /\ loaded.signatures # <<>>
        /\ \A i \in DOMAIN loaded.signatures : i = 1 /\ loaded.signatures[i] = signature
    BY <2>3
  <2> QED BY <2>1, <2>2, <2>3, <2>4, <2>5
<1> HIDE DEF chain, loaded
<1>13. chain[1] # Null /\ chain[1].hash = f.of.hash /\ f.of.type = type
  BY <1>4, <1>15, <1>8, <1>10
<1> QED BY <1>12, <1>13 DEF chain, loaded

\* A signature is of one key and one message, is made only while the module is
\* open and unlocked, and what it signs comes out of a file as it was, whatever
\* keys an application brings, creates and deletes (_secmod.py, _eip712_*.py).
THEOREM SignaturesAlwaysHold == ASSUME Guarded PROVE ModuleSpec => []SignaturesHold
<1>1. ModuleInit => SecurityInv
  BY SecurityInit
<1>2. SecurityInv /\ [ModuleNext]_moduleVars => SecurityInv'
  BY SecurityStep
<1>3. SecurityInv => SignaturesHold
  BY BindingHolds, SurvivalHolds DEF SignaturesHold, SignsWhenUnlocked, SecurityInv, LogInv
<1> QED BY <1>1, <1>2, <1>3, PTL DEF ModuleSpec
=============================================================================
