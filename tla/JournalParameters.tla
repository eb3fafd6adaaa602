-------------------------- MODULE JournalParameters --------------------------
(* What module Journal and the blocks that implement it are instantiated with. *)
EXTENDS Integers

CONSTANTS
    Sizes,          \* terminal sizes a Resize may carry
    InitialSize,    \* the size given at spawn
    Cap,            \* journal_cap
    RECORD_COST,    \* what a retained resize costs against the cap
    MaxBytes,       \* bound: length of the output stream
    MaxResizes,     \* bound: number of resizes
    None            \* an absent snapshot blob, exit or message

ASSUME ConstantsOK ==
    /\ InitialSize \in Sizes
    /\ None \notin Sizes
    /\ Cap \in Nat
    /\ RECORD_COST \in Nat \ {0}
    /\ MaxBytes \in Nat
    /\ MaxResizes \in Nat
=============================================================================
