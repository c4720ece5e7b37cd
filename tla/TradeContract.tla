---------------------------- MODULE TradeContract ----------------------------
(***************************************************************************)
(* What trading promises, without connections, threads, retries or a       *)
(* database: a trade is opened once between two characters and ends once,  *)
(* either by one atomic swap of goods both really hold or by nothing at    *)
(* all.  TradeExchange implements this.                                    *)
(***************************************************************************)
CONSTANTS Characters, TradeIds, Goods, InitialGoods

VARIABLES held,     \* who owns what
          between,  \* the two sides of each trade that was opened
          outcome   \* how each trade stands

contract == <<held, between, outcome>>

Init ==
  /\ held = InitialGoods
  /\ between = [t \in TradeIds |-> <<>>]
  /\ outcome = [t \in TradeIds |-> "unused"]

Open(t, a, b) ==
  /\ a # b
  /\ outcome[t] = "unused"
  /\ outcome' = [outcome EXCEPT ![t] = "open"]
  /\ between' = [between EXCEPT ![t] = <<a, b>>]
  /\ UNCHANGED held

Swap(t, a, b, fromA, fromB) ==
  /\ outcome[t] = "open" /\ between[t] = <<a, b>>
  /\ fromA \subseteq held[a] /\ fromB \subseteq held[b]
  /\ fromA \cup fromB # {}
  /\ held' = [held EXCEPT ![a] = (@ \ fromA) \cup fromB, ![b] = (@ \ fromB) \cup fromA]
  /\ outcome' = [outcome EXCEPT ![t] = "swapped"]
  /\ UNCHANGED between

\* One event, a crash for example, may end several trades at once.
Void(ended) ==
  /\ ended # {} /\ \A t \in ended : outcome[t] = "open"
  /\ outcome' = [t \in TradeIds |-> IF t \in ended THEN "void" ELSE outcome[t]]
  /\ UNCHANGED <<held, between>>

\* Outside of trading a character can only use things up.
Spend(c, used) ==
  /\ used \subseteq held[c]
  /\ held' = [held EXCEPT ![c] = @ \ used]
  /\ UNCHANGED <<between, outcome>>

Next ==
  \/ \E t \in TradeIds, a, b \in Characters :
       \/ Open(t, a, b)
       \/ \E fromA, fromB \in SUBSET Goods : Swap(t, a, b, fromA, fromB)
  \/ \E ended \in SUBSET TradeIds : Void(ended)
  \/ \E c \in Characters, used \in SUBSET Goods : Spend(c, used)

Spec == Init /\ [][Next]_contract
=============================================================================
