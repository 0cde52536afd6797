------------------------- MODULE IdempotentAdmission -------------------------
(***************************************************************************)
(* What order submission promises a client: a client order id is opened at *)
(* most once, with one signed intent and one order, and whoever is told    *)
(* about it is told that order.                                            *)
(***************************************************************************)
CONSTANTS ClientIds, Intents, OrderIds

VARIABLES
  book,    \* client order ids that are taken, with their intent and order
  told     \* what clients were told: <<client order id, intent, order>>

Init == book = [c \in {} |-> 0] /\ told = {}

Open(c, i, o) ==
  /\ c \notin DOMAIN book
  /\ \A d \in DOMAIN book : book[d].order # o
  /\ book' = [d \in DOMAIN book \cup {c} |->
                IF d = c THEN [intent |-> i, order |-> o] ELSE book[d]]
  /\ UNCHANGED told

Tell(c) ==
  /\ c \in DOMAIN book
  /\ told' = told \cup {<<c, book[c].intent, book[c].order>>}
  /\ UNCHANGED book

Next ==
  \/ \E c \in ClientIds, i \in Intents, o \in OrderIds : Open(c, i, o)
  \/ \E c \in ClientIds : Tell(c)

Spec == Init /\ [][Next]_<<book, told>>
===============================================================================
