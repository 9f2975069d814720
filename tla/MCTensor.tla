------------------------------ MODULE MCTensor ------------------------------
(***************************************************************************)
(* Tensor for TLC: a job of each kind that main.rs and user/main.rs offer. *)
(***************************************************************************)
EXTENDS Tensor

Offer(q, n, w, b) == [qos |-> q, segments |-> n, window |-> w, budget |-> b]

MCOffers ==
    { Offer(0, 1, 2, None),       \* inferui: interactive, with a deadline
      Offer(2, 2, None, None),    \* inferbg: background, patient
      Offer(2, 2, 4, None),       \* background with a deadline
      Offer(2, 2, None, 1) }      \* kernel_main's capped job
=============================================================================
