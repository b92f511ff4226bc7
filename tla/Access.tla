------------------------------- MODULE Access -------------------------------
(***************************************************************************)
(* The administration keys every contract of the suite keeps the same way: *)
(* an admin set once by init and handed over by the admin, and a pause     *)
(* flag.  A call that fails require_admin has no effect, so an admin       *)
(* action is guarded by there being an admin to make it.                   *)
(***************************************************************************)
CONSTANTS
    Admins,       \* the addresses that ever administer the contract
    NoAddress     \* an instance storage key that is not set

VARIABLES
    admin,        \* the Admin key
    isPaused      \* the IsPaused key

adminVars == <<admin, isPaused>>

AdminTypeOK ==
    /\ admin \in Admins \cup {NoAddress}
    /\ isPaused \in BOOLEAN

AdminInit ==
    /\ admin = NoAddress
    /\ isPaused = FALSE

Initialized == admin # NoAddress

InitAdmin(a) ==
    /\ ~Initialized
    /\ admin' = a
    /\ isPaused' = FALSE

HandOver(a) ==
    /\ Initialized
    /\ admin' = a
    /\ UNCHANGED isPaused

SetPaused(flag) ==
    /\ Initialized
    /\ isPaused' = flag
    /\ UNCHANGED admin

AdminNext ==
    \/ \E a \in Admins : InitAdmin(a)
    \/ \E a \in Admins : HandOver(a)
    \/ \E flag \in BOOLEAN : SetPaused(flag)
=============================================================================
