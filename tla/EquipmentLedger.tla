--------------------------- MODULE EquipmentLedger --------------------------
(***************************************************************************)
(* What equipment promises, with no requests, transactions or versions: a  *)
(* register of who has what, in which lending and taking back happen at    *)
(* once.  Equipment implements it: see Register in Equipment.              *)
(***************************************************************************)
EXTENDS Domain

CONSTANTS Items, Students, Sessions, Suits, LoanIds

VARIABLES
    status,             \* of each item
    out,                \* the loans that run
    returned, damaged,  \* the loans that ended, either way
    reported,           \* the numbers of the loans with a maintenance case
    inspected, enrolled \* what others say of items and students

facts == <<inspected, enrolled>>

Loans == [loan: LoanIds, item: Items, student: Students, session: Sessions]

LedgerInit ==
    /\ status = [i \in Items |-> "available"]
    /\ out = {} /\ returned = {} /\ damaged = {} /\ reported = {}
    /\ inspected = Items
    /\ enrolled = Students \X Sessions

\* An item that nobody has is lent, being fit and safe for that student now.
Lend(x) ==
    /\ \A y \in out : y.item # x.item
    /\ \A y \in out \cup returned \cup damaged : y.loan # x.loan
    /\ status[x.item] = "available"
    /\ x.item \in inspected
    /\ <<x.student, x.session>> \in enrolled
    /\ <<x.item, x.student, x.session>> \in Suits
    /\ out' = out \cup {x}
    /\ status' = [status EXCEPT ![x.item] = "checked_out"]
    /\ UNCHANGED <<returned, damaged, reported, facts>>

TakeBack(x) ==
    /\ status[x.item] = "checked_out"
    /\ out' = out \ {x}
    /\ returned' = returned \cup {x}
    /\ status' = [status EXCEPT ![x.item] = "available"]
    /\ UNCHANGED <<damaged, reported, facts>>

TakeBackDamaged(x) ==
    /\ status[x.item] = "checked_out"
    /\ x.loan \notin reported
    /\ out' = out \ {x}
    /\ damaged' = damaged \cup {x}
    /\ reported' = reported \cup {x.loan}
    /\ status' = [status EXCEPT ![x.item] = "isolated"]
    /\ UNCHANGED <<returned, facts>>

Maintain(i, to) ==
    /\ status[i] \in {"isolated", "maintenance"}
    /\ ValidTransition("equipment", status[i], to)
    /\ status' = [status EXCEPT ![i] = to]
    /\ UNCHANGED <<out, returned, damaged, reported, facts>>

FactsMove ==
    /\ inspected' \subseteq Items
    /\ enrolled' \subseteq Students \X Sessions
    /\ UNCHANGED <<status, out, returned, damaged, reported>>

LedgerNext ==
    \/ \E x \in Loans : Lend(x)
    \/ \E x \in out : TakeBack(x) \/ TakeBackDamaged(x)
    \/ \E i \in Items, to \in {"maintenance", "available", "retired"} : Maintain(i, to)
    \/ FactsMove

LedgerSpec ==
    LedgerInit /\ [][LedgerNext]_<<status, out, returned, damaged, reported, facts>>
=============================================================================
