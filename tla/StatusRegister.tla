--------------------------- MODULE StatusRegister ---------------------------
(***************************************************************************)
(* What a bootloader::StatusJournal promises its users: one register that  *)
(* holds the status and the error code of the staged upgrade pack, survives *)
(* resets, and is changed by one operation at a time.  An operation cut by *)
(* a reset leaves the old value, the new one, or - when the journal had to *)
(* be erased to make room - the empty value, and never anything else.      *)
(***************************************************************************)

CONSTANTS
    Values,     \* the values the register takes
    EmptyValue  \* the value of a register that was never recorded to

VARIABLES
    value,      \* what Status() and ErrorCode() return
    busy,       \* an operation is under way
    pending,    \* what that operation leaves behind, EmptyValue when none is
    cut         \* the last operation was cut by a reset

rvars == <<value, busy, pending, cut>>

RegisterInit ==
    /\ value \in Values
    /\ busy = FALSE
    /\ pending = EmptyValue
    /\ cut = FALSE

\* Record or Clear is called.
Begin(v) ==
    /\ ~busy
    /\ busy' = TRUE
    /\ pending' = v
    /\ cut' = FALSE
    /\ UNCHANGED value

\* The journal is full: it reads empty until the new entry is written.
Forget ==
    /\ busy
    /\ value' = EmptyValue
    /\ UNCHANGED <<busy, pending, cut>>

\* The operation returns: the register holds what it was to leave behind.
Finish ==
    /\ busy
    /\ value' = pending
    /\ busy' = FALSE
    /\ pending' = EmptyValue
    /\ UNCHANGED cut

\* A reset in the middle of the operation.
Interrupt ==
    /\ busy
    /\ value' \in {value, EmptyValue, pending}
    /\ busy' = FALSE
    /\ pending' = EmptyValue
    /\ cut' = TRUE

RegisterNext ==
    \/ \E v \in Values : Begin(v)
    \/ Forget
    \/ Finish
    \/ Interrupt

RegisterSpec == RegisterInit /\ [][RegisterNext]_rvars

=============================================================================
