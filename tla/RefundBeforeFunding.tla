-------------------------- MODULE RefundBeforeFunding -------------------------
(***************************************************************************)
(* What opening a pool promises the buyer: its funding transactions pass     *)
(* one by one through the stages below, and none skips the first.            *)
(***************************************************************************)
CONSTANT Fundings

VARIABLES
  secured,  \* the buyer holds a refund both have signed
  handed,   \* the seller has been given the funding transaction
  funded,   \* it is on the chain
  spent     \* its pool output is spent

vars == <<secured, handed, funded, spent>>

Init == secured = {} /\ handed = {} /\ funded = {} /\ spent = {}

Secure(funding) ==
  secured' = secured \cup {funding} /\ UNCHANGED <<handed, funded, spent>>

HandOver(funding) ==
  /\ funding \in secured
  /\ handed' = handed \cup {funding} /\ UNCHANGED <<secured, funded, spent>>

Fund(funding) ==
  /\ funding \in handed
  /\ funded' = funded \cup {funding} /\ UNCHANGED <<secured, handed, spent>>

Spend(funding) ==
  /\ funding \in funded
  /\ spent' = spent \cup {funding} /\ UNCHANGED <<secured, handed, funded>>

Next ==
  \E funding \in Fundings :
    Secure(funding) \/ HandOver(funding) \/ Fund(funding) \/ Spend(funding)

Spec == Init /\ [][Next]_vars
=============================================================================
