------------------------------ MODULE SellOnce -------------------------------
(***************************************************************************)
(* What a cart and its checkout promise.  Units are put into the cart,     *)
(* sized, dropped and sold; a unit that left the cart never comes back.  A *)
(* sale takes what is in the cart, all of it and not nothing, for a        *)
(* payment that suffices, and a key sells once.  A caller is told "paid"   *)
(* only of a sale that its key made with its payment.  How many screens    *)
(* change the cart, which answers get lost and what is retried make no     *)
(* difference.                                                             *)
(***************************************************************************)
CONSTANTS
  Request, Key, Payment, Unit, Size,
  Plain,     \* the size of a new unit
  Enough,    \* the pairs of a payment and a selection (unit -> size) it pays for
  None

VARIABLES
  inCart,    \* unit -> its size
  used,      \* the units that were ever put into the cart
  asked,     \* Request -> [key, pay] once it asked for a sale
  sold,      \* Key -> [pay, lines] once it was sold
  told       \* the requests that were told "paid"

Without(S) == [u \in DOMAIN inCart \ S |-> inCart[u]]

Put(S) ==
  /\ S \cap used = {}
  /\ used' = used \cup S
  /\ inCart' = [u \in DOMAIN inCart \cup S |-> IF u \in S THEN Plain ELSE inCart[u]]
  /\ UNCHANGED <<asked, sold, told>>

Drop(S) ==
  /\ inCart' = Without(S)
  /\ UNCHANGED <<used, asked, sold, told>>

Resize(u, size) ==
  /\ u \in DOMAIN inCart
  /\ inCart' = [inCart EXCEPT ![u] = size]
  /\ UNCHANGED <<used, asked, sold, told>>

Ask(r, k, pay) ==
  /\ asked[r] = None
  /\ asked' = [asked EXCEPT ![r] = [key |-> k, pay |-> pay]]
  /\ UNCHANGED <<inCart, used, sold, told>>

Sell(r) ==
  /\ asked[r] # None /\ sold[asked[r].key] = None
  /\ DOMAIN inCart # {} /\ <<asked[r].pay, inCart>> \in Enough
  /\ sold' = [sold EXCEPT ![asked[r].key] = [pay |-> asked[r].pay, lines |-> inCart]]
  /\ inCart' = Without(DOMAIN inCart)
  /\ UNCHANGED <<used, asked, told>>

Tell(r) ==
  /\ asked[r] # None /\ sold[asked[r].key] # None
  /\ sold[asked[r].key].pay = asked[r].pay
  /\ told' = told \cup {r}
  /\ UNCHANGED <<inCart, used, asked, sold>>

Init ==
  /\ used \subseteq Unit
  /\ inCart = [u \in used |-> Plain]
  /\ asked = [r \in Request |-> None]
  /\ sold = [k \in Key |-> None]
  /\ told = {}

Next ==
  \/ \E S \in SUBSET Unit : Put(S) \/ Drop(S)
  \/ \E u \in Unit, size \in Size : Resize(u, size)
  \/ \E r \in Request, k \in Key, pay \in Payment : Ask(r, k, pay)
  \/ \E r \in Request : Sell(r) \/ Tell(r)

Spec == Init /\ [][Next]_<<inCart, used, asked, sold, told>>
=============================================================================
