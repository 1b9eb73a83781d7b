----------------------------- MODULE ChargeOnce ------------------------------
(***************************************************************************)
(* What a payment endpoint promises its callers.  A request names an       *)
(* idempotency key and a body; the ledger charges a key at most once and   *)
(* an order at most once, and a caller is told "paid" only for a body that *)
(* its key really charged.  How often a caller asks, whether answers get   *)
(* lost and how the requests are interleaved make no difference.           *)
(***************************************************************************)
EXTENDS Naturals

CONSTANTS Request, Key, Order, None

VARIABLES
  asked,     \* Request -> [key, body] once it was sent
  charged,   \* Key -> [body, orders] once it was charged
  answer     \* Request -> its answer, None before

OrdersCharged == UNION {charged[k].orders : k \in {j \in Key : charged[j] # None}}

Ask(r, k, body) ==
  /\ asked[r] = None
  /\ asked' = [asked EXCEPT ![r] = [key |-> k, body |-> body]]
  /\ UNCHANGED <<charged, answer>>

\* Only what some caller asked for is charged, orders are never charged again.
Charge(r, S) ==
  /\ asked[r] # None
  /\ charged[asked[r].key] = None
  /\ S # {} /\ S \subseteq Order \ OrdersCharged
  /\ charged' = [charged EXCEPT ![asked[r].key] =
                   [body |-> asked[r].body, orders |-> S]]
  /\ UNCHANGED <<asked, answer>>

Confirm(r) ==
  /\ asked[r] # None /\ answer[r] = None
  /\ charged[asked[r].key] # None
  /\ charged[asked[r].key].body = asked[r].body
  /\ answer' = [answer EXCEPT ![r] = "paid"]
  /\ UNCHANGED <<asked, charged>>

Decline(r, reason) ==
  /\ asked[r] # None /\ answer[r] = None
  /\ reason # "paid"
  /\ answer' = [answer EXCEPT ![r] = reason]
  /\ UNCHANGED <<asked, charged>>

Init ==
  /\ asked = [r \in Request |-> None]
  /\ charged = [k \in Key |-> None]
  /\ answer = [r \in Request |-> None]

Next ==
  \E r \in Request :
     \/ asked'[r] # None /\ Ask(r, asked'[r].key, asked'[r].body)
     \/ \E S \in SUBSET Order : Charge(r, S)
     \/ Confirm(r)
     \/ Decline(r, answer'[r])

Spec == Init /\ [][Next]_<<asked, charged, answer>>
=============================================================================
