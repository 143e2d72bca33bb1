--------------------------- MODULE ConfigDelivery ---------------------------
(***************************************************************************)
(* What a cluster master promises about the configuration of its indexers: *)
(* a configuration is stored, marked, and owed until the indexers have it. *)
(* Only what is stored and marked is ever delivered, what is owed is       *)
(* delivered in the end, and the debt is dropped only after that.          *)
(***************************************************************************)
CONSTANT Configs

VARIABLES
  stored,   \* the configuration that was stored last
  marked,   \* it is complete
  owed,     \* somebody remembers that it has to be delivered
  have      \* the configuration the indexers have

vars == <<stored, marked, owed, have>>

Init ==
  /\ stored \in Configs /\ have = stored
  /\ marked = FALSE /\ owed = FALSE

Store(c) ==
  /\ stored' = c /\ marked' = FALSE
  /\ UNCHANGED <<owed, have>>

Mark ==
  /\ ~ marked /\ marked' = TRUE
  /\ UNCHANGED <<stored, owed, have>>

Owe ==
  /\ ~ owed /\ marked /\ owed' = TRUE
  /\ UNCHANGED <<stored, marked, have>>

Deliver ==
  /\ marked /\ have # stored
  /\ have' = stored
  /\ UNCHANGED <<stored, marked, owed>>

Settle ==
  /\ owed /\ marked /\ have = stored
  /\ owed' = FALSE
  /\ UNCHANGED <<stored, marked, have>>

Next == (\E c \in Configs : Store(c)) \/ Mark \/ Owe \/ Deliver \/ Settle

Spec == Init /\ [][Next]_vars

FairSpec == Spec /\ WF_vars(owed /\ Deliver) /\ WF_vars(Settle)
=============================================================================
