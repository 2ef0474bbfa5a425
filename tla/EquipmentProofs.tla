---------------------------- MODULE EquipmentProofs ----------------------------
(***************************************************************************)
(* Proofs about Equipment, for any requests, items, students and sessions  *)
(* and any bound on the loans.  First what the statements of Checkout and  *)
(* Return do to a consistent database, then one lemma per shape of step,   *)
(* then the invariant.                                                     *)
(***************************************************************************)
EXTENDS Equipment, FiniteSetTheorems, TLAPS

\* The edges of the loan and item machines that the statements rely on.
LEMMA Edges ==
    /\ \A from \in {"active", "returned", "damaged"}, to \in {"returned", "damaged"} :
            ValidTransition("loan", from, to) <=> from = "active"
    /\ \A from \in {"isolated", "maintenance"}, to \in ItemStates :
            ValidTransition("equipment", from, to) => to # "checked_out"
BY DEF ValidTransition, Transitions, ItemStates

LEMMA Targets ==
    ASSUME NEW damaged \in BOOLEAN
    PROVE  /\ LoanTarget(damaged) \in {"returned", "damaged"}
           /\ LoanTarget(damaged) = "damaged" <=> damaged
           /\ ItemTarget(damaged) \in {"available", "isolated"}
BY DEF LoanTarget, ItemTarget

\* The parts of a database, which the records of statements are built from.
LEMMA Parts ==
    ASSUME NEW d \in Databases
    PROVE  /\ d.item \in [Items -> ItemRows] /\ d.loans \in Seq(Loans) /\ d.cases \in Seq(Cases)
           /\ d.audit \in [Items -> [checked_out: Nat, returned: Nat]]
           /\ \A n \in DOMAIN d.loans :
                /\ d.loans[n] \in Loans /\ d.loans[n].item \in Items
                /\ d.loans[n].status \in {"active", "returned", "damaged"}
           /\ DOMAIN d.loans = 1..Len(d.loans) /\ Len(d.loans) \in Nat
           /\ IsFiniteSet(DOMAIN d.loans)
<1>1. d.loans \in Seq(Loans) /\ DOMAIN d.loans = 1..Len(d.loans) /\ Len(d.loans) \in Nat
  BY DEF Databases
<1>2. \A n \in DOMAIN d.loans : d.loans[n] \in Loans
  BY <1>1
<1>3. IsFiniteSet(DOMAIN d.loans)
  BY <1>1, FS_Interval
<1> QED BY <1>1, <1>2, <1>3 DEF Databases, Loans

LEMMA SetItemType ==
    ASSUME NEW d \in Databases, NEW i \in Items, NEW status \in ItemStates
    PROVE  /\ SetItem(d, i, status) \in Databases
           /\ SetItem(d, i, status).item =
                [d.item EXCEPT ![i] = [status |-> status, version |-> d.item[i].version + 1]]
           /\ SetItem(d, i, status).loans = d.loans /\ SetItem(d, i, status).cases = d.cases
           /\ SetItem(d, i, status).audit = d.audit
<1>1. [status |-> status, version |-> d.item[i].version + 1] \in ItemRows
  BY Parts DEF ItemRows
<1>2. [d.item EXCEPT ![i] = [status |-> status, version |-> d.item[i].version + 1]]
        \in [Items -> ItemRows]
  BY <1>1, Parts
<1> QED BY <1>2 DEF SetItem, Databases

LEMMA AddLoanType ==
    ASSUME NEW d \in Databases, NEW r \in Checkouts
    PROVE  AddLoan(d, r) \in Databases
<1> DEFINE loan == [item |-> r.item, student |-> r.student, session |-> r.session,
                    status |-> "active", version |-> 1]
<1>1. loan \in Loans /\ r.item \in Items
  BY DEF Checkouts, Loans
<1>2. Append(d.loans, loan) \in Seq(Loans)
  BY <1>1, Parts
<1>3. d.audit \in [Items -> [checked_out: Nat, returned: Nat]]
  BY Parts
<1>4. [d.audit[r.item] EXCEPT !.checked_out = d.audit[r.item].checked_out + 1]
        \in [checked_out: Nat, returned: Nat]
  BY <1>1, <1>3
<1>5. [d.audit EXCEPT ![r.item] =
            [d.audit[r.item] EXCEPT !.checked_out = d.audit[r.item].checked_out + 1]]
        \in [Items -> [checked_out: Nat, returned: Nat]]
  BY <1>1, <1>3, <1>4
<1> QED BY <1>2, <1>5 DEF AddLoan, Databases

LEMMA ClosedType ==
    ASSUME NEW x \in Loans, NEW status \in {"active", "returned", "damaged"}
    PROVE  [x EXCEPT !.status = status, !.version = x.version + 1] \in Loans
<1>1. x.version + 1 \in Nat
  BY DEF Loans
<1>2. [x EXCEPT !.status = status] \in Loans
  BY DEF Loans
<1> QED BY <1>1, <1>2 DEF Loans

LEMMA CloseLoanType ==
    ASSUME NEW d \in Databases, NEW r \in Returns, r.loan \in DOMAIN d.loans
    PROVE  /\ CloseLoan(d, r) \in Databases
           /\ CloseLoan(d, r).item = d.item /\ CloseLoan(d, r).cases = d.cases
           /\ CloseLoan(d, r).audit = d.audit
           /\ CloseLoan(d, r).loans =
                [d.loans EXCEPT ![r.loan] = [d.loans[r.loan] EXCEPT
                    !.status = LoanTarget(r.damaged), !.version = d.loans[r.loan].version + 1]]
<1> DEFINE row == [d.loans[r.loan] EXCEPT !.status = LoanTarget(r.damaged),
                                          !.version = d.loans[r.loan].version + 1]
<1>1. row \in Loans
  <2>1. d.loans[r.loan] \in Loans
    BY Parts
  <2>2. LoanTarget(r.damaged) \in {"active", "returned", "damaged"}
    BY Targets DEF Returns
  <2> QED BY <2>1, <2>2, ClosedType
<1>2. [d.loans EXCEPT ![r.loan] = row] \in Seq(Loans)
  BY <1>1, Parts
<1>3. CloseLoan(d, r) = [d EXCEPT !.loans = [d.loans EXCEPT ![r.loan] = row]]
  BY Parts DEF CloseLoan, Databases, Loans
<1> QED BY <1>2, <1>3 DEF Databases

LEMMA ReleaseItemType ==
    ASSUME NEW d \in Databases, NEW r \in Returns, NEW i \in Items
    PROVE  LET e == ReleaseItem(d, r, i) IN
           /\ e \in Databases
           /\ e.loans = d.loans
           /\ e.item = [d.item EXCEPT ![i] = [status |-> ItemTarget(r.damaged),
                                             version |-> d.item[i].version + 1]]
           /\ e.cases = IF r.damaged
                        THEN Append(d.cases, [item |-> i, loan |-> r.loan, status |-> "open"])
                        ELSE d.cases
           /\ e.audit = [d.audit EXCEPT ![i] =
                [d.audit[i] EXCEPT !.returned = d.audit[i].returned + 1]]
<1> DEFINE f == SetItem(d, i, ItemTarget(r.damaged))
           g == OpenCase(f, r, i)
           e == ReleaseItem(d, r, i)
<1>1. r.damaged \in BOOLEAN /\ r.loan \in LoanIds /\ ItemTarget(r.damaged) \in ItemStates
  BY Targets DEF Returns, ItemStates
<1>2. /\ f \in Databases /\ f.loans = d.loans /\ f.cases = d.cases /\ f.audit = d.audit
      /\ f.item = [d.item EXCEPT ![i] = [status |-> ItemTarget(r.damaged),
                                         version |-> d.item[i].version + 1]]
  BY <1>1, SetItemType
<1> HIDE DEF f
<1>3. /\ g \in Databases /\ g.loans = f.loans /\ g.item = f.item /\ g.audit = f.audit
      /\ g.cases = IF r.damaged
                   THEN Append(f.cases, [item |-> i, loan |-> r.loan, status |-> "open"])
                   ELSE f.cases
  <2>1. [item |-> i, loan |-> r.loan, status |-> "open"] \in Cases
    BY <1>1 DEF Cases
  <2>2. f.cases \in Seq(Cases)
    BY <1>2, Parts
  <2>3. Append(f.cases, [item |-> i, loan |-> r.loan, status |-> "open"]) \in Seq(Cases)
    BY <2>1, <2>2
  <2> QED BY <1>1, <1>2, <2>3 DEF OpenCase, Databases
<1>4. e = [g EXCEPT !.audit = [g.audit EXCEPT ![i] =
                [g.audit[i] EXCEPT !.returned = g.audit[i].returned + 1]]]
  BY <1>3, Parts DEF ReleaseItem, f, Databases
<1> HIDE DEF g, e
<1>5. [g.audit EXCEPT ![i] = [g.audit[i] EXCEPT !.returned = g.audit[i].returned + 1]]
        \in [Items -> [checked_out: Nat, returned: Nat]]
  <2>1. [g.audit[i] EXCEPT !.returned = g.audit[i].returned + 1] \in [checked_out: Nat, returned: Nat]
    <3>1. g.audit[i] \in [checked_out: Nat, returned: Nat]
      BY <1>3, Parts
    <3> QED BY <3>1
  <2>2. g.audit \in [Items -> [checked_out: Nat, returned: Nat]]
    BY <1>3, Parts
  <2> QED BY <2>1, <2>2
<1>6. e \in Databases /\ e.loans = g.loans /\ e.item = g.item /\ e.cases = g.cases
      /\ e.audit = [g.audit EXCEPT ![i] = [g.audit[i] EXCEPT !.returned = g.audit[i].returned + 1]]
  BY <1>3, <1>4, <1>5 DEF Databases
<1> QED BY <1>2, <1>3, <1>6 DEF e

-----------------------------------------------------------------------------
\* What the transactions do to a consistent database

LoansOf(d, i) == {n \in DOMAIN d.loans : d.loans[n].item = i}

LEMMA AuditedByLoans ==
    ASSUME NEW d
    PROVE  Audited(d) <=> \A i \in Items :
                /\ d.audit[i].checked_out = Cardinality(LoansOf(d, i))
                /\ d.audit[i].returned = Cardinality(LoansOf(d, i) \ ActiveLoans(d, i))
BY DEF Audited, LoansOf

LEMMA LoansOfFinite ==
    ASSUME NEW d \in Databases, NEW i
    PROVE  IsFiniteSet(LoansOf(d, i)) /\ Cardinality(LoansOf(d, i)) \in Nat
<1>1. LoansOf(d, i) \subseteq DOMAIN d.loans
  BY DEF LoansOf
<1> QED BY <1>1, Parts, FS_Subset, FS_CardinalityType

\* The two statements of a checkout together.
LEMMA CheckoutWrites ==
    ASSUME NEW d \in Databases, NEW r \in Checkouts
    PROVE  LET e == AddLoan(SetItem(d, r.item, "checked_out"), r) IN
           /\ e.item = [d.item EXCEPT ![r.item] =
                [status |-> "checked_out", version |-> d.item[r.item].version + 1]]
           /\ e.loans = Append(d.loans,
                [item |-> r.item, student |-> r.student, session |-> r.session,
                 status |-> "active", version |-> 1])
           /\ e.cases = d.cases
           /\ e.audit = [d.audit EXCEPT ![r.item] =
                [d.audit[r.item] EXCEPT !.checked_out = d.audit[r.item].checked_out + 1]]
           /\ e.inspected = d.inspected /\ e.enrolled = d.enrolled
<1> DEFINE f == SetItem(d, r.item, "checked_out")
<1>1. r.item \in Items /\ "checked_out" \in ItemStates
  BY DEF Checkouts, ItemStates
<1>2. /\ f \in Databases /\ f.loans = d.loans /\ f.cases = d.cases /\ f.audit = d.audit
      /\ f.item = [d.item EXCEPT ![r.item] =
                [status |-> "checked_out", version |-> d.item[r.item].version + 1]]
  BY <1>1, SetItemType
<1>3. f.inspected = d.inspected /\ f.enrolled = d.enrolled
  BY DEF SetItem, Databases
<1> HIDE DEF f
<1>4. LET e == AddLoan(f, r) IN
      /\ e.item = f.item /\ e.cases = f.cases
      /\ e.loans = Append(f.loans,
                [item |-> r.item, student |-> r.student, session |-> r.session,
                 status |-> "active", version |-> 1])
      /\ e.audit = [f.audit EXCEPT ![r.item] =
                [f.audit[r.item] EXCEPT !.checked_out = f.audit[r.item].checked_out + 1]]
      /\ e.inspected = f.inspected /\ e.enrolled = f.enrolled
  BY <1>2 DEF AddLoan, Databases
<1> QED BY <1>2, <1>3, <1>4 DEF f

\* Checkout: the item is taken and its loan is the only active one.
LEMMA CheckoutConsistent ==
    ASSUME NEW d \in Databases, Consistent(d), NEW r \in Checkouts, Safe(d, r)
    PROVE  /\ Consistent(AddLoan(SetItem(d, r.item, "checked_out"), r))
           /\ AddLoan(SetItem(d, r.item, "checked_out"), r).loans =
                Append(d.loans, [item |-> r.item, student |-> r.student, session |-> r.session,
                                 status |-> "active", version |-> 1])
<1> DEFINE loan == [item |-> r.item, student |-> r.student, session |-> r.session,
                    status |-> "active", version |-> 1]
           f == SetItem(d, r.item, "checked_out")
           e == AddLoan(f, r)
           new == Len(d.loans) + 1
<1>1. /\ r.item \in Items /\ loan.item = r.item /\ loan.status = "active"
      /\ d.item[r.item].status = "available"
  BY DEF Checkouts, Safe
<1>2. Custody(d) /\ DamageReported(d) /\ Audited(d)
  BY DEF Consistent
<1>4. /\ e.loans = Append(d.loans, loan) /\ e.cases = d.cases
      /\ e.item = [d.item EXCEPT ![r.item] =
                [status |-> "checked_out", version |-> d.item[r.item].version + 1]]
      /\ e.audit = [d.audit EXCEPT ![r.item] =
                [d.audit[r.item] EXCEPT !.checked_out = d.audit[r.item].checked_out + 1]]
  BY CheckoutWrites
<1> HIDE DEF loan, f, e, new
<1>5. /\ d.item \in [Items -> ItemRows] /\ d.loans \in Seq(Loans)
      /\ d.audit \in [Items -> [checked_out: Nat, returned: Nat]]
      /\ DOMAIN d.loans = 1..Len(d.loans) /\ Len(d.loans) \in Nat
      /\ \A n \in DOMAIN d.loans : d.loans[n].item \in Items
  BY Parts
<1>6. /\ DOMAIN e.loans = DOMAIN d.loans \cup {new} /\ new \notin DOMAIN d.loans
      /\ \A n \in DOMAIN d.loans : e.loans[n] = d.loans[n]
      /\ e.loans[new] = loan
  BY <1>4, <1>5 DEF new
<1>7. ActiveLoans(d, r.item) = {}
  BY <1>1, <1>2 DEF Custody
<1>8. \A i \in Items : ActiveLoans(e, i) = IF i = r.item THEN {new} ELSE ActiveLoans(d, i)
  BY <1>1, <1>6, <1>7 DEF ActiveLoans
<1>9. Custody(e)
  <2>1. \A i \in Items : i # r.item => e.item[i] = d.item[i]
    BY <1>1, <1>4, <1>5
  <2>2. e.item[r.item].status = "checked_out"
    BY <1>1, <1>4, <1>5
  <2>3. new \in DOMAIN e.loans /\ DOMAIN d.loans \subseteq DOMAIN e.loans
    BY <1>6
  <2> QED BY <1>2, <1>8, <2>1, <2>2, <2>3 DEF Custody
<1>10. DamageReported(e)
  <2>1. \A n \in DOMAIN d.loans : CasesOf(e, n) = CasesOf(d, n)
    BY <1>4, <1>6 DEF CasesOf
  <2>2. CasesOf(e, new) = {}
    BY <1>2, <1>4, <1>6 DEF CasesOf, DamageReported, CasesFit
  <2>3. CasesFit(e)
    BY <1>2, <1>4, <1>6 DEF DamageReported, CasesFit
  <2> QED BY <1>1, <1>2, <1>4, <1>6, <2>1, <2>2, <2>3 DEF DamageReported
<1>11. Audited(e)
  <2> SUFFICES ASSUME NEW i \in Items
               PROVE  /\ e.audit[i].checked_out = Cardinality(LoansOf(e, i))
                      /\ e.audit[i].returned = Cardinality(LoansOf(e, i) \ ActiveLoans(e, i))
    BY AuditedByLoans
  <2>1. /\ d.audit[i].checked_out = Cardinality(LoansOf(d, i))
        /\ d.audit[i].returned = Cardinality(LoansOf(d, i) \ ActiveLoans(d, i))
    BY <1>2, AuditedByLoans
  <2>2. CASE i # r.item
    <3>1. LoansOf(e, i) = LoansOf(d, i)
      BY <1>1, <1>6, <2>2 DEF LoansOf
    <3>2. e.audit[i] = d.audit[i]
      BY <1>4, <1>5, <2>2
    <3> QED BY <1>8, <2>1, <2>2, <3>1, <3>2
  <2>3. CASE i = r.item
    <3>1. LoansOf(e, i) = LoansOf(d, i) \cup {new} /\ new \notin LoansOf(d, i)
      BY <1>1, <1>6, <2>3 DEF LoansOf
    <3>2. Cardinality(LoansOf(d, i) \cup {new}) = Cardinality(LoansOf(d, i)) + 1
      BY <3>1, LoansOfFinite, FS_AddElement
    <3>3. /\ e.audit[i].checked_out = d.audit[i].checked_out + 1
          /\ e.audit[i].returned = d.audit[i].returned
      BY <1>4, <1>5, <2>3
    <3>4. /\ LoansOf(e, i) \ ActiveLoans(e, i) = LoansOf(d, i)
          /\ LoansOf(d, i) \ ActiveLoans(d, i) = LoansOf(d, i)
      BY <1>7, <1>8, <2>3, <3>1
    <3> QED BY <2>1, <3>1, <3>2, <3>3, <3>4
  <2> QED BY <2>2, <2>3
<1> QED BY <1>4, <1>9, <1>10, <1>11 DEF Consistent, e, f, loan

\* An active loan is the only one of an item that is checked out.
LEMMA ActiveLoanAlone ==
    ASSUME NEW d \in Databases, Custody(d), NEW n \in DOMAIN d.loans,
           d.loans[n].status = "active"
    PROVE  /\ d.loans[n].item \in Items
           /\ ActiveLoans(d, d.loans[n].item) = {n}
           /\ d.item[d.loans[n].item].status = "checked_out"
<1>1. d.loans[n].item \in Items
  BY Parts
<1>2. n \in ActiveLoans(d, d.loans[n].item)
  BY DEF ActiveLoans
<1> QED BY <1>1, <1>2 DEF Custody

LEMMA ReturnableIsActive ==
    ASSUME NEW d \in Databases, NEW r \in Returns, Returnable(d, r)
    PROVE  r.loan \in DOMAIN d.loans /\ d.loans[r.loan].status = "active"
<1>1. r.loan \in DOMAIN d.loans /\ r.damaged \in BOOLEAN
  BY DEF Returnable, Returns
<1>2. d.loans[r.loan].status \in {"active", "returned", "damaged"}
  BY <1>1, Parts
<1> QED BY <1>1, <1>2, Edges, Targets DEF Returnable

\* The two statements of a return together.
LEMMA ReturnWrites ==
    ASSUME NEW d \in Databases, NEW r \in Returns, r.loan \in DOMAIN d.loans
    PROVE  LET i == d.loans[r.loan].item
               e == ReleaseItem(CloseLoan(d, r), r, i)
           IN
           /\ e.item = [d.item EXCEPT ![i] = [status |-> ItemTarget(r.damaged),
                                             version |-> d.item[i].version + 1]]
           /\ e.loans = [d.loans EXCEPT ![r.loan] = [d.loans[r.loan] EXCEPT
                !.status = LoanTarget(r.damaged), !.version = d.loans[r.loan].version + 1]]
           /\ e.cases = IF r.damaged
                        THEN Append(d.cases, [item |-> i, loan |-> r.loan, status |-> "open"])
                        ELSE d.cases
           /\ e.audit = [d.audit EXCEPT ![i] =
                [d.audit[i] EXCEPT !.returned = d.audit[i].returned + 1]]
           /\ e.inspected = d.inspected /\ e.enrolled = d.enrolled
<1> DEFINE i == d.loans[r.loan].item
           f == CloseLoan(d, r)
           e == ReleaseItem(f, r, i)
<1>1. i \in Items
  BY Parts
<1>2. /\ f \in Databases /\ f.item = d.item /\ f.cases = d.cases /\ f.audit = d.audit
      /\ f.loans = [d.loans EXCEPT ![r.loan] = [d.loans[r.loan] EXCEPT
            !.status = LoanTarget(r.damaged), !.version = d.loans[r.loan].version + 1]]
  BY CloseLoanType
<1>3. f.inspected = d.inspected /\ f.enrolled = d.enrolled
  BY DEF CloseLoan, Databases
<1> HIDE DEF f, i
<1>4. /\ e.loans = f.loans
      /\ e.item = [f.item EXCEPT ![i] = [status |-> ItemTarget(r.damaged),
                                        version |-> f.item[i].version + 1]]
      /\ e.cases = IF r.damaged
                   THEN Append(f.cases, [item |-> i, loan |-> r.loan, status |-> "open"])
                   ELSE f.cases
      /\ e.audit = [f.audit EXCEPT ![i] =
            [f.audit[i] EXCEPT !.returned = f.audit[i].returned + 1]]
  BY <1>1, <1>2, ReleaseItemType
<1>5. e.inspected = f.inspected /\ e.enrolled = f.enrolled
  BY <1>2 DEF ReleaseItem, OpenCase, SetItem, Databases
<1> HIDE DEF e
<1>6. /\ e.item = [d.item EXCEPT ![i] = [status |-> ItemTarget(r.damaged),
                                        version |-> d.item[i].version + 1]]
      /\ e.loans = [d.loans EXCEPT ![r.loan] = [d.loans[r.loan] EXCEPT
            !.status = LoanTarget(r.damaged), !.version = d.loans[r.loan].version + 1]]
      /\ e.cases = IF r.damaged
                   THEN Append(d.cases, [item |-> i, loan |-> r.loan, status |-> "open"])
                   ELSE d.cases
      /\ e.audit = [d.audit EXCEPT ![i] =
            [d.audit[i] EXCEPT !.returned = d.audit[i].returned + 1]]
      /\ e.inspected = d.inspected /\ e.enrolled = d.enrolled
  BY <1>2, <1>3, <1>4, <1>5
<1> QED BY <1>6 DEF e, f, i

\* Return: the loan is closed, the item is free or isolated, and a damaged one
\* has its case.
LEMMA ReturnConsistent ==
    ASSUME NEW d \in Databases, Consistent(d), NEW r \in Returns, Returnable(d, r)
    PROVE  LET e == ReleaseItem(CloseLoan(d, r), r, d.loans[r.loan].item) IN
           /\ Consistent(e)
           /\ d.loans[r.loan].status = "active"
           /\ DOMAIN e.loans = DOMAIN d.loans
           /\ \A n \in DOMAIN d.loans : n # r.loan => e.loans[n] = d.loans[n]
<1> DEFINE x == r.loan
           item == d.loans[x].item
           f == CloseLoan(d, r)
           e == ReleaseItem(f, r, item)
<1>1. /\ x \in DOMAIN d.loans /\ d.loans[x].status = "active" /\ item \in Items
      /\ r.damaged \in BOOLEAN
  <2>1. x \in DOMAIN d.loans /\ d.loans[x].status = "active" /\ r.damaged \in BOOLEAN
    BY ReturnableIsActive DEF Returns
  <2> QED BY <2>1, Parts
<1>2. Custody(d) /\ DamageReported(d) /\ Audited(d)
  BY DEF Consistent
<1>3. ActiveLoans(d, item) = {x} /\ d.item[item].status = "checked_out"
  BY <1>1, <1>2, ActiveLoanAlone
<1>5. /\ e.item = [d.item EXCEPT ![item] = [status |-> ItemTarget(r.damaged),
                                           version |-> d.item[item].version + 1]]
      /\ e.cases = IF r.damaged
                   THEN Append(d.cases, [item |-> item, loan |-> x, status |-> "open"])
                   ELSE d.cases
      /\ e.audit = [d.audit EXCEPT ![item] =
            [d.audit[item] EXCEPT !.returned = d.audit[item].returned + 1]]
      /\ e.loans = [d.loans EXCEPT ![x] = [d.loans[x] EXCEPT
            !.status = LoanTarget(r.damaged), !.version = d.loans[x].version + 1]]
  BY <1>1, ReturnWrites
<1> HIDE DEF f, e, item, x
<1>6. /\ d.item \in [Items -> ItemRows] /\ d.cases \in Seq(Cases)
      /\ d.audit \in [Items -> [checked_out: Nat, returned: Nat]]
      /\ \A n \in DOMAIN d.loans : d.loans[n] \in Loans
  BY Parts
<1>7. /\ DOMAIN e.loans = DOMAIN d.loans
      /\ \A n \in DOMAIN d.loans : n # x => e.loans[n] = d.loans[n]
      /\ e.loans[x].item = d.loans[x].item /\ e.loans[x].status = LoanTarget(r.damaged)
  BY <1>1, <1>5, <1>6 DEF Loans
<1>8. \A n \in DOMAIN d.loans : e.loans[n].item = d.loans[n].item
  BY <1>7
<1>9. e.loans[x].status \in {"returned", "damaged"} /\ (e.loans[x].status = "damaged" <=> r.damaged)
  BY <1>1, <1>7, Targets
<1>10. \A i \in Items : ActiveLoans(e, i) = IF i = item THEN {} ELSE ActiveLoans(d, i)
  BY <1>1, <1>3, <1>7, <1>8, <1>9 DEF ActiveLoans, item
<1>11. Custody(e)
  <2>1. \A i \in Items : i # item => e.item[i] = d.item[i]
    BY <1>1, <1>5, <1>6
  <2>2. e.item[item].status \in {"available", "isolated"}
    BY <1>1, <1>5, <1>6, Targets
  <2> QED BY <1>2, <1>7, <1>10, <2>1, <2>2 DEF Custody
<1>12. DamageReported(e)
  <2>1. CasesOf(d, x) = {}
    BY <1>1, <1>2 DEF DamageReported, x
  <2>2. CASE r.damaged
    <3> DEFINE new == Len(d.cases) + 1
    <3>1. /\ DOMAIN e.cases = DOMAIN d.cases \cup {new} /\ new \notin DOMAIN d.cases
          /\ \A c \in DOMAIN d.cases : e.cases[c] = d.cases[c]
          /\ e.cases[new].loan = x /\ e.cases[new].item = item
      BY <1>5, <1>6, <2>2
    <3> HIDE DEF new
    <3>2. \A n \in DOMAIN d.loans : n # x => CasesOf(e, n) = CasesOf(d, n)
      BY <1>8, <3>1 DEF CasesOf
    <3>3. CasesOf(e, x) = {new}
      BY <1>1, <1>8, <2>1, <3>1 DEF CasesOf, item
    <3>4. CasesFit(e)
      BY <1>1, <1>2, <1>7, <1>8, <3>1 DEF DamageReported, CasesFit, item
    <3>5. ASSUME NEW n \in DOMAIN e.loans
          PROVE  IF e.loans[n].status = "damaged"
                 THEN \E c \in DOMAIN e.cases : CasesOf(e, n) = {c}
                 ELSE CasesOf(e, n) = {}
      <4>1. CASE n = x
        BY <1>9, <2>2, <3>1, <3>3, <4>1
      <4>2. CASE n # x
        <5>1. n \in DOMAIN d.loans /\ e.loans[n] = d.loans[n] /\ CasesOf(e, n) = CasesOf(d, n)
          BY <1>7, <3>2, <4>2
        <5>2. IF d.loans[n].status = "damaged"
              THEN \E c \in DOMAIN d.cases : CasesOf(d, n) = {c}
              ELSE CasesOf(d, n) = {}
          BY <1>2, <5>1 DEF DamageReported
        <5>3. DOMAIN d.cases \subseteq DOMAIN e.cases
          BY <3>1
        <5> QED BY <5>1, <5>2, <5>3
      <4> QED BY <4>1, <4>2
    <3> QED BY <3>4, <3>5 DEF DamageReported
  <2>3. CASE ~r.damaged
    <3>1. \A n \in DOMAIN d.loans : CasesOf(e, n) = CasesOf(d, n)
      BY <1>5, <1>8, <2>3 DEF CasesOf
    <3>2. CasesFit(e)
      BY <1>2, <1>5, <1>7, <1>8, <2>3 DEF DamageReported, CasesFit
    <3> QED BY <1>2, <1>5, <1>7, <1>9, <2>1, <2>3, <3>1, <3>2 DEF DamageReported
  <2> QED BY <2>2, <2>3
<1>13. Audited(e)
  <2> SUFFICES ASSUME NEW i \in Items
               PROVE  /\ e.audit[i].checked_out = Cardinality(LoansOf(e, i))
                      /\ e.audit[i].returned = Cardinality(LoansOf(e, i) \ ActiveLoans(e, i))
    BY AuditedByLoans
  <2>1. /\ d.audit[i].checked_out = Cardinality(LoansOf(d, i))
        /\ d.audit[i].returned = Cardinality(LoansOf(d, i) \ ActiveLoans(d, i))
    BY <1>2, AuditedByLoans
  <2>2. LoansOf(e, i) = LoansOf(d, i)
    BY <1>7, <1>8 DEF LoansOf
  <2>3. CASE i # item
    <3>1. e.audit[i] = d.audit[i]
      BY <1>5, <1>6, <2>3
    <3> QED BY <1>10, <2>1, <2>2, <2>3, <3>1
  <2>4. CASE i = item
    <3>1. /\ e.audit[i].checked_out = d.audit[i].checked_out
          /\ e.audit[i].returned = d.audit[i].returned + 1
      BY <1>5, <1>6, <2>4
    <3>2. x \in LoansOf(d, i)
      BY <1>1, <2>4 DEF LoansOf, item
    <3>3. /\ Cardinality(LoansOf(d, i) \ {x}) = Cardinality(LoansOf(d, i)) - 1
          /\ Cardinality(LoansOf(d, i)) \in Nat
      BY <3>2, LoansOfFinite, FS_RemoveElement
    <3>4. /\ LoansOf(d, i) \ ActiveLoans(d, i) = LoansOf(d, i) \ {x}
          /\ LoansOf(e, i) \ ActiveLoans(e, i) = LoansOf(d, i)
      BY <1>3, <1>10, <2>2, <2>4
    <3>5. e.audit[i].checked_out = Cardinality(LoansOf(e, i))
      BY <2>1, <2>2, <3>1
    <3>6. d.audit[i].returned = Cardinality(LoansOf(d, i) \ {x})
      BY <2>1, <3>4
    <3>7. e.audit[i].returned = Cardinality(LoansOf(d, i))
      BY <3>1, <3>3, <3>6
    <3> QED BY <3>4, <3>5, <3>7
  <2> QED BY <2>3, <2>4
<1> QED BY <1>1, <1>7, <1>11, <1>12, <1>13 DEF Consistent, e, f, item, x

\* The maintenance of an item that is with nobody.
LEMMA MaintainConsistent ==
    ASSUME NEW d \in Databases, Consistent(d), NEW i \in Items, NEW status \in ItemStates,
           d.item[i].status # "checked_out", status # "checked_out"
    PROVE  LET e == [d EXCEPT !.item[i].status = status] IN
           e \in Databases /\ Consistent(e) /\ e.loans = d.loans
<1> DEFINE row == [d.item[i] EXCEPT !.status = status]
           e == [d EXCEPT !.item[i].status = status]
<1>1. d.item \in [Items -> ItemRows]
  BY Parts
<1>2. row \in ItemRows
  BY <1>1 DEF ItemRows
<1>3. /\ e.item = [d.item EXCEPT ![i] = row] /\ e.loans = d.loans /\ e.cases = d.cases
      /\ e.audit = d.audit
  BY DEF Databases
<1>4. e \in Databases
  BY <1>1, <1>2 DEF Databases
<1> HIDE DEF e
<1>5. \A j \in Items : e.item[j].status = IF j = i THEN status ELSE d.item[j].status
  BY <1>1, <1>3 DEF ItemRows
<1>6. \A j \in Items : ActiveLoans(e, j) = ActiveLoans(d, j)
  BY <1>3 DEF ActiveLoans
<1>7. Custody(e)
  BY <1>3, <1>5, <1>6 DEF Consistent, Custody
<1>8. DamageReported(e)
  <2>1. \A n \in DOMAIN d.loans : CasesOf(e, n) = CasesOf(d, n)
    BY <1>3 DEF CasesOf
  <2> QED BY <1>3, <2>1 DEF Consistent, DamageReported, CasesFit
<1>9. Audited(e)
  BY <1>3, <1>6 DEF Consistent, Audited
<1> QED BY <1>3, <1>4, <1>7, <1>8, <1>9 DEF Consistent, e

-----------------------------------------------------------------------------
\* The shapes of a step

LEMMA GiveUpStep ==
    ASSUME Inductive, NEW p \in Procs, NEW outcome \in Outcomes, GiveUp(p, outcome)
    PROVE  Inductive'
<1>1. /\ db' = db /\ pc' = [pc EXCEPT ![p] = "idle"] /\ req' = [req EXCEPT ![p] = NoRequest]
      /\ seen' = [seen EXCEPT ![p] = NoRow] /\ answer' = [answer EXCEPT ![p] = outcome]
      /\ snapshot' = [snapshot EXCEPT ![p] = "none"]
      /\ staged' = IF writer = p THEN db ELSE staged
      /\ writer' = IF writer = p THEN NoProc ELSE writer
  BY DEF GiveUp, Rollback, Answer
<1>2. TypeOK'
  BY <1>1 DEF Inductive, TypeOK, Points, SnapshotStates
<1>3. Locked'
  BY <1>1, ProcAssumption DEF Inductive, TypeOK, Locked, Writing
<1>4. ChecksHold'
  BY <1>1 DEF Inductive, TypeOK, Locked, ChecksHold, Writing
<1> QED BY <1>1, <1>2, <1>3, <1>4 DEF Inductive

LEMMA RejectedStep ==
    ASSUME Inductive, NEW p \in Procs, NEW role, NEW blank, Rejected(p, role, blank)
    PROVE  Inductive'
<1>1. /\ UNCHANGED storeVars /\ pc[p] = "idle"
      /\ pc' = [pc EXCEPT ![p] = "idle"] /\ req' = [req EXCEPT ![p] = NoRequest]
      /\ seen' = [seen EXCEPT ![p] = NoRow] /\ answer' = [answer EXCEPT ![p] = "refused"]
  BY DEF Rejected, Answer
<1>2. TypeOK'
  BY <1>1 DEF Inductive, TypeOK, storeVars, Points, Outcomes
<1>3. Locked' /\ ChecksHold'
  BY <1>1 DEF Inductive, TypeOK, Locked, ChecksHold, storeVars, Writing
<1> QED BY <1>1, <1>2, <1>3 DEF Inductive, storeVars

LEMMA BeginStep ==
    ASSUME Inductive, NEW p \in Procs, NEW r \in Checkouts \cup Returns, Begin(p, r)
    PROVE  Inductive'
<1>1. /\ UNCHANGED <<storeVars, seen>> /\ pc[p] = "idle"
      /\ pc' = [pc EXCEPT ![p] = r.op] /\ req' = [req EXCEPT ![p] = r]
      /\ answer' = [answer EXCEPT ![p] = "none"]
  BY DEF Begin, Take
<1>2. \/ r \in Checkouts /\ r.op = "checkout"
      \/ r \in Returns /\ r.op = "return"
  BY DEF Checkouts, Returns
<1>3. TypeOK'
  BY <1>1, <1>2 DEF Inductive, TypeOK, storeVars, Points, Outcomes
<1>4. Locked'
  BY <1>1, <1>2 DEF Inductive, TypeOK, Locked, storeVars, Writing
<1>5. ChecksHold'
  BY <1>1, <1>2 DEF Inductive, TypeOK, ChecksHold, storeVars, Writing
<1> QED BY <1>1, <1>3, <1>4, <1>5 DEF Inductive, storeVars

LEMMA ReadStep ==
    ASSUME Inductive, NEW p \in Procs, CheckoutRead(p) \/ ReturnRead(p)
    PROVE  Inductive'
<1> DEFINE item == ItemOf(db, req[p])
<1>1. /\ snapshot' = [snapshot EXCEPT ![p] = "fresh"]
      /\ UNCHANGED <<db, staged, writer, req, answer>>
      /\ \/ /\ pc[p] = "checkout" /\ pc' = [pc EXCEPT ![p] = "acquiring"]
            /\ Safe(db, req[p]) /\ seen' = [seen EXCEPT ![p] = db.item[req[p].item]]
         \/ /\ pc[p] = "return" /\ pc' = [pc EXCEPT ![p] = "closing"]
            /\ Returnable(db, req[p])
            /\ seen' = [seen EXCEPT ![p] = db.item[db.loans[req[p].loan].item]]
  BY DEF CheckoutRead, ReturnRead, TakeSnapshot, Saw
<1>2. \/ pc[p] = "checkout" /\ req[p] \in Checkouts /\ req[p].op = "checkout"
      \/ pc[p] = "return" /\ req[p] \in Returns /\ req[p].op = "return"
  BY <1>1 DEF Inductive, ChecksHold, Checkouts, Returns
<1>3. seen' = [seen EXCEPT ![p] = db.item[item]] /\ item \in Items
  <2>1. CASE pc[p] = "checkout"
    BY <1>1, <1>2, <2>1 DEF ItemOf, Checkouts
  <2>2. CASE pc[p] = "return"
    BY <1>1, <1>2, <2>2, Parts DEF ItemOf, Returnable, Inductive, TypeOK
  <2> QED BY <1>1, <2>1, <2>2
<1>4. db.item[item] \in ItemRows
  BY <1>3, Parts DEF Inductive, TypeOK
<1>5. Licensed(db, req[p], db.item[item])
  BY <1>1, <1>2 DEF Licensed
<1> HIDE DEF item
<1>6. TypeOK'
  BY <1>1, <1>3, <1>4 DEF Inductive, TypeOK, Points, SnapshotStates
<1>7. Locked'
  BY <1>1 DEF Inductive, TypeOK, Locked, Writing
<1>8. ChecksHold'
  BY <1>1, <1>2, <1>3, <1>5 DEF Inductive, TypeOK, ChecksHold, Writing
<1> QED BY <1>1, <1>6, <1>7, <1>8 DEF Inductive

\* The first write is let in on a snapshot that is not stale: what the request
\* has read is what is committed.
LEMMA FirstWriteLicensed ==
    ASSUME Inductive, NEW p \in Procs, pc[p] \in {"acquiring", "closing"}, MayWrite(p)
    PROVE  writer = NoProc /\ Licensed(db, req[p], seen[p])
BY DEF Inductive, TypeOK, Locked, ChecksHold, MayWrite, SnapshotStates, Writing

LEMMA AcquireStep ==
    ASSUME Inductive, NEW p \in Procs, CheckoutAcquire(p)
    PROVE  Inductive'
<1>1. /\ pc[p] = "acquiring" /\ pc' = [pc EXCEPT ![p] = "lending"]
      /\ MayWrite(p) /\ writer' = p /\ staged' = SetItem(db, req[p].item, "checked_out")
      /\ snapshot' = [snapshot EXCEPT ![p] = "fresh"]
      /\ UNCHANGED <<db, req, seen, answer>>
  BY DEF CheckoutAcquire, Write, Goto
<1>2. req[p] \in Checkouts /\ req[p].item \in Items
  BY <1>1 DEF Inductive, ChecksHold, Checkouts
<1>3. writer = NoProc /\ Licensed(db, req[p], seen[p])
  BY <1>1, FirstWriteLicensed
<1>4. staged' \in Databases
  BY <1>1, <1>2, SetItemType DEF Inductive, TypeOK, ItemStates
<1>5. TypeOK'
  BY <1>1, <1>4 DEF Inductive, TypeOK, Points, SnapshotStates
<1>6. Locked'
  BY <1>1, <1>3, ProcAssumption DEF Inductive, TypeOK, Locked, Writing
<1>7. ChecksHold'
  BY <1>1, <1>2, <1>3, ProcAssumption DEF Inductive, TypeOK, Locked, ChecksHold, Writing
<1> QED BY <1>1, <1>5, <1>6, <1>7 DEF Inductive

LEMMA LendStep ==
    ASSUME Inductive, NEW p \in Procs, CheckoutLend(p)
    PROVE  Inductive'
<1>1. /\ pc[p] = "lending" /\ pc' = [pc EXCEPT ![p] = "written"]
      /\ Len(db.loans) < MaxLoans /\ writer' = p /\ staged' = AddLoan(staged, req[p])
      /\ snapshot' = [snapshot EXCEPT ![p] = "fresh"]
      /\ UNCHANGED <<db, req, seen, answer>>
  BY DEF CheckoutLend, Write, Goto
<1>2. /\ req[p] \in Checkouts /\ req[p].op = "checkout" /\ writer = p
      /\ staged = SetItem(db, req[p].item, "checked_out")
      /\ Licensed(db, req[p], seen[p])
  BY <1>1 DEF Inductive, Locked, ChecksHold, Checkouts, Writing
<1>3. staged' \in Databases
  BY <1>1, <1>2, AddLoanType DEF Inductive, TypeOK
<1>4. TypeOK'
  BY <1>1, <1>3 DEF Inductive, TypeOK, Points, SnapshotStates
<1>5. Locked'
  BY <1>1, <1>2, ProcAssumption DEF Inductive, TypeOK, Locked, Writing
<1>6. ChecksHold'
  BY <1>1, <1>2 DEF Inductive, TypeOK, Locked, ChecksHold, Writing
<1> QED BY <1>1, <1>4, <1>5, <1>6 DEF Inductive

LEMMA CloseStep ==
    ASSUME Inductive, NEW p \in Procs, ReturnClose(p)
    PROVE  Inductive'
<1>1. /\ pc[p] = "closing" /\ pc' = [pc EXCEPT ![p] = "releasing"]
      /\ MayWrite(p) /\ writer' = p /\ staged' = CloseLoan(db, req[p])
      /\ snapshot' = [snapshot EXCEPT ![p] = "fresh"]
      /\ UNCHANGED <<db, req, seen, answer>>
  BY DEF ReturnClose, Write, Goto
<1>2. req[p] \in Returns /\ req[p].op = "return"
  BY <1>1 DEF Inductive, ChecksHold, Returns
<1>3. writer = NoProc /\ Licensed(db, req[p], seen[p])
  BY <1>1, FirstWriteLicensed
<1>4. staged' \in Databases
  BY <1>1, <1>2, <1>3, CloseLoanType DEF Inductive, TypeOK, Licensed, Returnable
<1>5. TypeOK'
  BY <1>1, <1>4 DEF Inductive, TypeOK, Points, SnapshotStates
<1>6. Locked'
  BY <1>1, <1>3, ProcAssumption DEF Inductive, TypeOK, Locked, Writing
<1>7. ChecksHold'
  BY <1>1, <1>2, <1>3, ProcAssumption DEF Inductive, TypeOK, Locked, ChecksHold, Writing
<1> QED BY <1>1, <1>5, <1>6, <1>7 DEF Inductive

\* Closing a loan leaves it a loan of its item.
LEMMA ClosedLoanItem ==
    ASSUME NEW d \in Databases, NEW r \in Returns, Returnable(d, r)
    PROVE  CloseLoan(d, r).loans[r.loan].item = d.loans[r.loan].item
<1>1. r.loan \in DOMAIN d.loans
  BY DEF Returnable
<1>2. d.loans[r.loan] \in Loans
  BY <1>1, Parts
<1>3. CloseLoan(d, r).loans = [d.loans EXCEPT ![r.loan] = [d.loans[r.loan] EXCEPT
            !.status = LoanTarget(r.damaged), !.version = d.loans[r.loan].version + 1]]
  BY <1>1, CloseLoanType
<1> QED BY <1>1, <1>2, <1>3 DEF Loans

LEMMA ReleaseStep ==
    ASSUME Inductive, NEW p \in Procs, ReturnRelease(p)
    PROVE  Inductive'
<1>1. /\ pc[p] = "releasing" /\ pc' = [pc EXCEPT ![p] = "written"]
      /\ writer' = p
      /\ staged' = ReleaseItem(staged, req[p], staged.loans[req[p].loan].item)
      /\ snapshot' = [snapshot EXCEPT ![p] = "fresh"]
      /\ UNCHANGED <<db, req, seen, answer>>
  BY DEF ReturnRelease, Write, Goto
<1>2. /\ req[p] \in Returns /\ req[p].op = "return" /\ writer = p
      /\ staged = CloseLoan(db, req[p]) /\ Licensed(db, req[p], seen[p])
  BY <1>1 DEF Inductive, Locked, ChecksHold, Returns, Writing
<1>3. Returnable(db, req[p]) /\ db \in Databases /\ staged \in Databases
  BY <1>2 DEF Licensed, Inductive, TypeOK
<1>4. staged.loans[req[p].loan].item = ItemOf(db, req[p])
  BY <1>2, <1>3, ClosedLoanItem DEF ItemOf
<1>5. ItemOf(db, req[p]) \in Items
  BY <1>2, <1>3, Parts DEF ItemOf, Returnable
<1>6. staged' \in Databases
  BY <1>1, <1>2, <1>3, <1>4, <1>5, ReleaseItemType
<1>7. TypeOK'
  BY <1>1, <1>6 DEF Inductive, TypeOK, Points, SnapshotStates
<1>8. Locked'
  BY <1>1, <1>2, ProcAssumption DEF Inductive, TypeOK, Locked, Writing
<1>9. ChecksHold'
  BY <1>1, <1>2, <1>4 DEF Inductive, TypeOK, Locked, ChecksHold, Writing
<1> QED BY <1>1, <1>7, <1>8, <1>9 DEF Inductive

\* What a commit makes of the database.
LEMMA CommitWrites ==
    ASSUME Inductive, NEW p \in Procs, TxCommit(p)
    PROVE  /\ db' = staged /\ db \in Databases /\ Consistent(db)
           /\ \/ /\ req[p] \in Checkouts /\ Safe(db, req[p]) /\ Len(db.loans) < MaxLoans
                 /\ staged = AddLoan(SetItem(db, req[p].item, "checked_out"), req[p])
              \/ /\ req[p] \in Returns /\ Returnable(db, req[p])
                 /\ staged = ReleaseItem(CloseLoan(db, req[p]), req[p],
                                         db.loans[req[p].loan].item)
<1>1. pc[p] = "written" /\ db' = staged
  BY DEF TxCommit, CommitAndAnswer, Commit
<1>2. /\ req[p] \in Checkouts \cup Returns /\ Licensed(db, req[p], seen[p])
      /\ db \in Databases /\ Consistent(db)
  BY <1>1 DEF Inductive, TypeOK, ChecksHold, Writing
<1>3. \/ req[p] \in Checkouts /\ req[p].op = "checkout"
      \/ req[p] \in Returns /\ req[p].op = "return"
  BY <1>2 DEF Checkouts, Returns
<1> QED BY <1>1, <1>2, <1>3 DEF Inductive, ChecksHold, Licensed, ItemOf

LEMMA CommitStep ==
    ASSUME Inductive, NEW p \in Procs, TxCommit(p)
    PROVE  Inductive'
<1>1. PICK outcome \in Outcomes : CommitAndAnswer(p, outcome)
  BY DEF TxCommit
<1>2. /\ pc[p] = "written" /\ writer = p /\ db' = staged /\ staged' = staged /\ writer' = NoProc
      /\ snapshot' = [Outdated EXCEPT ![p] = "none"]
      /\ pc' = [pc EXCEPT ![p] = "idle"] /\ req' = [req EXCEPT ![p] = NoRequest]
      /\ seen' = [seen EXCEPT ![p] = NoRow] /\ answer' = [answer EXCEPT ![p] = outcome]
  BY <1>1 DEF CommitAndAnswer, Commit, Answer
<1>3. Consistent(db')
  <2>1. CASE req[p] \in Checkouts /\ Safe(db, req[p])
             /\ staged = AddLoan(SetItem(db, req[p].item, "checked_out"), req[p])
    <3>1. Consistent(AddLoan(SetItem(db, req[p].item, "checked_out"), req[p]))
      BY <2>1, CommitWrites, CheckoutConsistent
    <3> QED BY <1>2, <2>1, <3>1
  <2>2. CASE req[p] \in Returns /\ Returnable(db, req[p])
             /\ staged = ReleaseItem(CloseLoan(db, req[p]), req[p],
                                     db.loans[req[p].loan].item)
    <3>1. Consistent(ReleaseItem(CloseLoan(db, req[p]), req[p], db.loans[req[p].loan].item))
      BY <2>2, CommitWrites, ReturnConsistent
    <3> QED BY <1>2, <2>2, <3>1
  <2> QED BY <2>1, <2>2, CommitWrites
<1>4. /\ snapshot' \in [Procs -> SnapshotStates]
      /\ \A q \in Procs : q # p => snapshot'[q] # "fresh"
                                  /\ (snapshot[q] # "none" => snapshot'[q] # "none")
  BY <1>2 DEF Inductive, TypeOK, Outdated, SnapshotStates
<1>5. TypeOK'
  BY <1>2, <1>4 DEF Inductive, TypeOK, Points
<1>6. Locked'
  BY <1>2, ProcAssumption DEF Inductive, TypeOK, Locked, Writing
<1>7. ChecksHold'
  BY <1>2, <1>4 DEF Inductive, TypeOK, Locked, ChecksHold, Writing
<1> QED BY <1>3, <1>5, <1>6, <1>7 DEF Inductive

\* Other programs write when no request does, and leave its snapshot outdated.
LEMMA AutoCommitStep ==
    ASSUME Inductive, NEW contents \in Databases, Consistent(contents),
           AutoCommit(contents), UNCHANGED requestVars
    PROVE  Inductive'
<1>1. /\ writer = NoProc /\ writer' = writer /\ db' = contents /\ staged' = contents
      /\ snapshot' = Outdated
  BY DEF AutoCommit
<1>2. /\ snapshot' \in [Procs -> SnapshotStates]
      /\ \A q \in Procs : snapshot'[q] # "fresh" /\ (snapshot[q] # "none" => snapshot'[q] # "none")
  BY <1>1 DEF Inductive, TypeOK, Outdated, SnapshotStates
<1>3. TypeOK'
  BY <1>1, <1>2 DEF Inductive, TypeOK, requestVars
<1>4. Locked'
  BY <1>1 DEF Inductive, Locked, requestVars
<1>5. \A q \in Procs : pc[q] \notin Writing
  BY <1>1, ProcAssumption DEF Inductive, Locked
<1>6. ChecksHold'
  BY <1>2, <1>5 DEF Inductive, ChecksHold, requestVars, Writing
<1> QED BY <1>1, <1>3, <1>4, <1>6 DEF Inductive

\* Inspections and enrollments are no part of what must be consistent.
LEMMA FactsConsistent ==
    ASSUME NEW d, NEW e, Consistent(d),
           e.item = d.item, e.loans = d.loans, e.cases = d.cases, e.audit = d.audit
    PROVE  Consistent(e)
<1>1. \A i : ActiveLoans(e, i) = ActiveLoans(d, i)
  BY DEF ActiveLoans
<1>2. \A n : CasesOf(e, n) = CasesOf(d, n)
  BY DEF CasesOf
<1>3. Custody(e)
  BY <1>1 DEF Consistent, Custody
<1>4. DamageReported(e)
  BY <1>2 DEF Consistent, DamageReported, CasesFit
<1>5. Audited(e)
  BY <1>1 DEF Consistent, Audited
<1> QED BY <1>3, <1>4, <1>5 DEF Consistent

LEMMA InspectionStep ==
    ASSUME Inductive, NEW i \in Items, InspectionChanges(i)
    PROVE  Inductive' /\ db'.loans = db.loans
<1> DEFINE e == [db EXCEPT !.inspected = Toggle(@, i)]
<1>1. e \in Databases /\ e.item = db.item /\ e.loans = db.loans /\ e.cases = db.cases
      /\ e.audit = db.audit
  BY DEF Inductive, TypeOK, Databases, Toggle
<1>2. AutoCommit(e) /\ UNCHANGED requestVars
  BY DEF InspectionChanges
<1> HIDE DEF e
<1>3. Consistent(e)
  BY <1>1, FactsConsistent DEF Inductive
<1> QED BY <1>1, <1>2, <1>3, AutoCommitStep DEF AutoCommit

LEMMA EnrollmentStep ==
    ASSUME Inductive, NEW x \in Pairs, EnrollmentChanges(x)
    PROVE  Inductive' /\ db'.loans = db.loans
<1> DEFINE e == [db EXCEPT !.enrolled = Toggle(@, x)]
<1>1. e \in Databases /\ e.item = db.item /\ e.loans = db.loans /\ e.cases = db.cases
      /\ e.audit = db.audit
  BY DEF Inductive, TypeOK, Databases, Toggle
<1>2. AutoCommit(e) /\ UNCHANGED requestVars
  BY DEF EnrollmentChanges
<1> HIDE DEF e
<1>3. Consistent(e)
  BY <1>1, FactsConsistent DEF Inductive
<1> QED BY <1>1, <1>2, <1>3, AutoCommitStep DEF AutoCommit

LEMMA MaintainStep ==
    ASSUME Inductive, NEW i \in Items, NEW status \in ItemStates, Maintain(i, status)
    PROVE  Inductive' /\ db'.loans = db.loans
<1> DEFINE e == [db EXCEPT !.item[i].status = status]
<1>1. /\ db \in Databases /\ Consistent(db)
      /\ db.item[i].status \in {"isolated", "maintenance"} /\ status # "checked_out"
  BY Edges DEF Maintain, Inductive, TypeOK
<1>2. e \in Databases /\ Consistent(e) /\ e.loans = db.loans
  BY <1>1, MaintainConsistent
<1>3. AutoCommit(e) /\ UNCHANGED requestVars
  BY DEF Maintain
<1> HIDE DEF e
<1> QED BY <1>2, <1>3, AutoCommitStep DEF AutoCommit

LEMMA CrashStep ==
    ASSUME Inductive, Crash
    PROVE  Inductive'
<1>1. /\ db' = db /\ staged' = db /\ writer' = NoProc /\ snapshot' = [p \in Procs |-> "none"]
      /\ pc' = [p \in Procs |-> "idle"] /\ req' = [p \in Procs |-> NoRequest]
      /\ seen' = [p \in Procs |-> NoRow] /\ answer' = [p \in Procs |-> "none"]
  BY DEF Crash, Die, LoseTransactions
<1>2. TypeOK'
  BY <1>1 DEF Inductive, TypeOK, Points, SnapshotStates, Outcomes
<1>3. Locked' /\ ChecksHold'
  BY <1>1, ProcAssumption DEF Locked, ChecksHold, Writing
<1> QED BY <1>1, <1>2, <1>3 DEF Inductive

-----------------------------------------------------------------------------
\* The invariant

LEMMA InitInductive == Init => Inductive
<1> SUFFICES ASSUME Init PROVE Inductive
  OBVIOUS
<1>1. /\ db = EmptyDatabase /\ staged = db /\ writer = NoProc
      /\ snapshot = [p \in Procs |-> "none"] /\ pc = [p \in Procs |-> "idle"]
      /\ req = [p \in Procs |-> NoRequest] /\ seen = [p \in Procs |-> NoRow]
      /\ answer = [p \in Procs |-> "none"]
  BY DEF Init, InitStore, InitRequests
<1>2. /\ DOMAIN db.loans = {} /\ DOMAIN db.cases = {}
      /\ \A i \in Items : /\ db.item[i].status = "available"
                          /\ db.audit[i].checked_out = 0 /\ db.audit[i].returned = 0
  BY <1>1 DEF EmptyDatabase
<1>3. db \in Databases
  BY <1>1 DEF EmptyDatabase, Databases, ItemRows, ItemStates
<1>4. Custody(db) /\ DamageReported(db)
  BY <1>2 DEF Custody, DamageReported, CasesFit, ActiveLoans
<1>5. Audited(db)
  BY <1>2, FS_EmptySet DEF Audited
<1>6. TypeOK
  BY <1>1, <1>3 DEF TypeOK, Points, SnapshotStates, Outcomes
<1>7. Locked /\ ChecksHold
  BY <1>1, ProcAssumption DEF Locked, ChecksHold, Writing
<1> QED BY <1>4, <1>5, <1>6, <1>7 DEF Inductive, Consistent

LEMMA RequestStep ==
    ASSUME Inductive, NEW p \in Procs, Step(p)
    PROVE  Inductive'
<1>1. CASE CheckoutRefused(p) \/ ReturnRefused(p) \/ TxBusy(p) \/ TxFail(p)
  BY <1>1, GiveUpStep
  DEF CheckoutRefused, ReturnRefused, TxBusy, TxFail, GiveUpBusy, GiveUpAnywhere, Outcomes
<1> QED BY <1>1, RejectedStep, BeginStep, ReadStep, AcquireStep, LendStep, CloseStep,
        ReleaseStep, CommitStep DEF Step

LEMMA NextInductive == Inductive /\ [Next]_vars => Inductive'
<1> SUFFICES ASSUME Inductive, [Next]_vars PROVE Inductive'
  OBVIOUS
<1>1. CASE Next
  BY <1>1, RequestStep, CrashStep, InspectionStep, EnrollmentStep, MaintainStep
  DEF Next, Environment
<1>2. CASE UNCHANGED vars
  BY <1>2 DEF vars, storeVars, requestVars, Inductive, TypeOK, Locked, ChecksHold
<1> QED BY <1>1, <1>2

-----------------------------------------------------------------------------
\* What is committed is consistent, and what is staged is the statements of one
\* request on it whose checks still hold.
THEOREM InductiveInvariant == Spec => []Inductive
BY InitInductive, NextInductive, PTL DEF Spec

\* The variables keep to their domains.
THEOREM TypeCorrect == Spec => []TypeOK
<1>1. Inductive => TypeOK
  BY DEF Inductive
<1> QED BY <1>1, InductiveInvariant, PTL

\* An item is checked out to one custodian or to none.
THEOREM CustodyIsExclusive == Spec => []CustodyMatches
<1>1. Inductive => CustodyMatches
  BY FS_EmptySet, FS_Singleton DEF Inductive, Consistent, Custody, CustodyMatches
<1> QED BY <1>1, InductiveInvariant, PTL

\* Every damaged loan, and no other, has one maintenance case.
THEOREM DamageIsReported == Spec => []DamageHasCase
<1>1. Inductive => DamageHasCase
  BY FS_EmptySet, FS_Singleton DEF Inductive, Consistent, DamageReported, DamageHasCase
<1> QED BY <1>1, InductiveInvariant, PTL

\* The audit trail counts the loans and the returns of every item.
THEOREM AuditIsComplete == Spec => []AuditTellsTheTruth
<1>1. Inductive => AuditTellsTheTruth
  BY DEF Inductive, Consistent, AuditTellsTheTruth
<1> QED BY <1>1, InductiveInvariant, PTL

\* The first write of a transaction finds the rows that it has read, and the
\* statements after it match theirs.
THEOREM NoConflicts == Spec => []VersionsNeverConflict
<1>1. Inductive => VersionsNeverConflict
  <2> SUFFICES ASSUME Inductive, NEW p \in Procs, MayWrite(p)
               PROVE  /\ pc[p] = "acquiring" =>
                            /\ Acquirable(db, req[p].item, seen[p].version)
                            /\ ActiveLoans(db, req[p].item) = {}
                      /\ pc[p] = "closing" =>
                            /\ db.loans[req[p].loan].status = "active"
                            /\ Releasable(db, db.loans[req[p].loan].item, seen[p].version)
    BY DEF VersionsNeverConflict
  <2>1. db \in Databases /\ Custody(db)
    BY DEF Inductive, TypeOK, Consistent
  <2>2. CASE pc[p] = "acquiring"
    <3>1. req[p] \in Checkouts /\ req[p].op = "checkout" /\ req[p].item \in Items
      BY <2>2 DEF Inductive, ChecksHold, Checkouts
    <3>2. seen[p] = db.item[req[p].item] /\ db.item[req[p].item].status = "available"
      BY <2>2, <3>1, FirstWriteLicensed DEF Licensed, ItemOf, Safe
    <3> QED BY <2>1, <2>2, <3>1, <3>2 DEF Acquirable, Custody
  <2>3. CASE pc[p] = "closing"
    <3>1. req[p] \in Returns /\ req[p].op = "return"
      BY <2>3 DEF Inductive, ChecksHold, Returns
    <3>2. Returnable(db, req[p]) /\ seen[p] = db.item[db.loans[req[p].loan].item]
      BY <2>3, <3>1, FirstWriteLicensed DEF Licensed, ItemOf
    <3>3. db.loans[req[p].loan].status = "active" /\ req[p].loan \in DOMAIN db.loans
      BY <2>1, <3>1, <3>2, ReturnableIsActive
    <3> QED BY <2>1, <2>3, <3>2, <3>3, ActiveLoanAlone DEF Releasable
  <2> QED BY <2>2, <2>3
<1> QED BY <1>1, InductiveInvariant, PTL

\* What is not a commit changes no loan.
LEMMA LoansKept ==
    ASSUME Inductive, Next, ~\E p \in Procs : TxCommit(p)
    PROVE  db'.loans = db.loans
<1>1. CASE Environment
  BY <1>1, InspectionStep, EnrollmentStep, MaintainStep
  DEF Environment, Crash, Die, LoseTransactions
<1>2. CASE \E p \in Procs : Step(p)
  BY <1>2 DEF Step, Rejected, Begin, CheckoutRead, CheckoutRefused, CheckoutAcquire,
              CheckoutLend, ReturnRead, ReturnRefused, ReturnClose, ReturnRelease, TxBusy,
              TxFail, GiveUpBusy, GiveUpAnywhere, GiveUp, Rollback, Write, TakeSnapshot,
              storeVars
<1> QED BY <1>1, <1>2 DEF Next

\* A commit adds the loan of a checkout whose checks hold, or closes an active
\* loan; the others stay as they are.
LEMMA CommitLoans ==
    ASSUME Inductive, NEW p \in Procs, TxCommit(p)
    PROVE  /\ \A n \in DOMAIN db'.loans \ DOMAIN db.loans : Safe(db, db'.loans[n])
           /\ \A n \in DOMAIN db.loans :
                db.loans[n].status # "active" => db'.loans[n] = db.loans[n]
<1>1. db' = staged /\ db \in Databases /\ Consistent(db)
  BY CommitWrites
<1>2. CASE req[p] \in Checkouts /\ Safe(db, req[p])
           /\ staged = AddLoan(SetItem(db, req[p].item, "checked_out"), req[p])
  <2> DEFINE loan == [item |-> req[p].item, student |-> req[p].student,
                      session |-> req[p].session, status |-> "active", version |-> 1]
  <2>1. db'.loans = Append(db.loans, loan)
    BY <1>1, <1>2, CheckoutConsistent
  <2>2. /\ \A n \in DOMAIN db'.loans \ DOMAIN db.loans : db'.loans[n] = loan
        /\ \A n \in DOMAIN db.loans : db'.loans[n] = db.loans[n]
    BY <1>1, <2>1, Parts
  <2>3. Safe(db, loan)
    BY <1>2 DEF Safe
  <2> QED BY <2>2, <2>3
<1>3. CASE req[p] \in Returns /\ Returnable(db, req[p])
           /\ staged = ReleaseItem(CloseLoan(db, req[p]), req[p],
                                   db.loans[req[p].loan].item)
  <2> DEFINE e == ReleaseItem(CloseLoan(db, req[p]), req[p], db.loans[req[p].loan].item)
  <2>1. /\ db.loans[req[p].loan].status = "active" /\ DOMAIN e.loans = DOMAIN db.loans
        /\ \A n \in DOMAIN db.loans : n # req[p].loan => e.loans[n] = db.loans[n]
    BY <1>1, <1>3, ReturnConsistent
  <2>2. db' = e
    BY <1>1, <1>3
  <2> HIDE DEF e
  <2> QED BY <2>1, <2>2
<1> QED BY <1>2, <1>3, CommitWrites

\* A loan is given only while enrollment, sport, fit and inspection allow it.
THEOREM ChecksHoldAtCommit == Spec => SafeAtCommit
<1>1. Inductive /\ [Next]_vars =>
        [\A n \in DOMAIN db'.loans \ DOMAIN db.loans : Safe(db, db'.loans[n])]_vars
  BY LoansKept, CommitLoans
<1> QED BY <1>1, InductiveInvariant, PTL DEF Spec, SafeAtCommit

\* A closed loan stays as it was closed.
THEOREM ReturnsAreFinal == Spec => ClosedLoansStay
<1>1. Inductive /\ [Next]_vars =>
        [\A n \in DOMAIN db.loans :
            db.loans[n].status # "active" => db'.loans[n] = db.loans[n]]_vars
  BY LoansKept, CommitLoans
<1> QED BY <1>1, InductiveInvariant, PTL DEF Spec, ClosedLoansStay

-----------------------------------------------------------------------------
\* The register: what the tables stand for in EquipmentLedger

StatusesOf(d) == [i \in Items |-> d.item[i].status]
ReportedIn(d) == {d.cases[c].loan : c \in DOMAIN d.cases}

LEMMA InLoans ==
    ASSUME NEW d, NEW status
    PROVE  /\ \A x : x \in LoansIn(d, status) <=>
                \E n \in DOMAIN d.loans : d.loans[n].status = status /\ x = Bare(d, n)
           /\ \A n : Bare(d, n).loan = n /\ Bare(d, n).item = d.loans[n].item
BY DEF LoansIn, Bare

\* The loan of a checkout is lent in the register.
LEMMA CheckoutLends ==
    ASSUME NEW d \in Databases, Consistent(d), NEW r \in Checkouts, Safe(d, r),
           Len(d.loans) < MaxLoans
    PROVE  LET e == AddLoan(SetItem(d, r.item, "checked_out"), r)
               x == Bare(e, Len(d.loans) + 1)
           IN
           /\ x \in Register!Loans
           /\ x.item = r.item /\ x.student = r.student /\ x.session = r.session
           /\ \A y \in LoansIn(d, "active") : y.item # x.item
           /\ \A s : \A y \in LoansIn(d, s) : y.loan # x.loan
           /\ LoansIn(e, "active") = LoansIn(d, "active") \cup {x}
           /\ LoansIn(e, "returned") = LoansIn(d, "returned")
           /\ LoansIn(e, "damaged") = LoansIn(d, "damaged")
           /\ StatusesOf(e) = [StatusesOf(d) EXCEPT ![r.item] = "checked_out"]
           /\ ReportedIn(e) = ReportedIn(d)
           /\ e.inspected = d.inspected /\ e.enrolled = d.enrolled
<1> DEFINE e == AddLoan(SetItem(d, r.item, "checked_out"), r)
           loan == [item |-> r.item, student |-> r.student, session |-> r.session,
                    status |-> "active", version |-> 1]
           new == Len(d.loans) + 1
           x == Bare(e, new)
<1>1. /\ e.item = [d.item EXCEPT ![r.item] =
            [status |-> "checked_out", version |-> d.item[r.item].version + 1]]
      /\ e.loans = Append(d.loans, loan) /\ e.cases = d.cases
      /\ e.inspected = d.inspected /\ e.enrolled = d.enrolled
  BY CheckoutWrites
<1>2. r.item \in Items /\ r.student \in Students /\ r.session \in Sessions
  BY DEF Checkouts
<1>3. /\ DOMAIN e.loans = DOMAIN d.loans \cup {new} /\ new \notin DOMAIN d.loans
      /\ \A n \in DOMAIN d.loans : e.loans[n] = d.loans[n]
      /\ e.loans[new] = loan /\ new \in LoanIds
  <2>1. d.loans \in Seq(Loans) /\ DOMAIN d.loans = 1..Len(d.loans) /\ Len(d.loans) \in Nat
    BY Parts
  <2>2. new \in LoanIds
    BY <2>1, LoanAssumption DEF LoanIds
  <2> QED BY <1>1, <2>1, <2>2
<1>4. x = [loan |-> new, item |-> r.item, student |-> r.student, session |-> r.session]
  BY <1>3 DEF Bare
<1>5. /\ x \in Register!Loans /\ x.loan = new
      /\ x.item = r.item /\ x.student = r.student /\ x.session = r.session
  BY <1>2, <1>3, <1>4 DEF Register!Loans
<1>6. \A n \in DOMAIN d.loans : Bare(e, n) = Bare(d, n)
  BY <1>3 DEF Bare
<1>7. loan.status = "active"
  OBVIOUS
<1> HIDE DEF e, loan, new, x
<1>8. \A y \in LoansIn(d, "active") : y.item # r.item
  <2>1. ActiveLoans(d, r.item) = {}
    BY <1>2 DEF Consistent, Custody, Safe
  <2> QED BY <2>1, InLoans DEF ActiveLoans
<1>9. \A s : \A y \in LoansIn(d, s) : y.loan # new
  BY <1>3, InLoans
<1>10. LoansIn(e, "active") = LoansIn(d, "active") \cup {x}
  BY <1>3, <1>6, <1>7, InLoans DEF x
<1>11. \A s \in {"returned", "damaged"} : LoansIn(e, s) = LoansIn(d, s)
  <2> SUFFICES ASSUME NEW s \in {"returned", "damaged"}
               PROVE  \A y : y \in LoansIn(e, s) <=> y \in LoansIn(d, s)
    OBVIOUS
  <2>1. \A n \in DOMAIN e.loans : e.loans[n].status = s => n \in DOMAIN d.loans
    BY <1>3, <1>7
  <2>2. \A n \in DOMAIN d.loans :
            n \in DOMAIN e.loans /\ e.loans[n] = d.loans[n] /\ Bare(e, n) = Bare(d, n)
    BY <1>3, <1>6
  <2> QED BY <2>1, <2>2, InLoans
<1>12. StatusesOf(e) = [StatusesOf(d) EXCEPT ![r.item] = "checked_out"]
  <2>1. d.item \in [Items -> ItemRows]
    BY Parts
  <2>2. \A i \in Items : e.item[i].status =
            IF i = r.item THEN "checked_out" ELSE d.item[i].status
    BY <1>1, <1>2, <2>1
  <2> QED BY <2>2 DEF StatusesOf
<1>13. ReportedIn(e) = ReportedIn(d)
  BY <1>1 DEF ReportedIn
<1> QED BY <1>1, <1>5, <1>8, <1>9, <1>10, <1>11, <1>12, <1>13 DEF e, x, new

\* The loan of a return is taken back in the register, damaged or not.
LEMMA ReturnTakesBack ==
    ASSUME NEW d \in Databases, Consistent(d), NEW r \in Returns, Returnable(d, r)
    PROVE  LET e == ReleaseItem(CloseLoan(d, r), r, d.loans[r.loan].item)
               x == Bare(d, r.loan)
           IN
           /\ x \in LoansIn(d, "active") /\ x.item \in Items
           /\ x.loan \notin ReportedIn(d)
           /\ StatusesOf(d)[x.item] = "checked_out"
           /\ LoansIn(e, "active") = LoansIn(d, "active") \ {x}
           /\ LoansIn(e, "returned") =
                LoansIn(d, "returned") \cup (IF r.damaged THEN {} ELSE {x})
           /\ LoansIn(e, "damaged") =
                LoansIn(d, "damaged") \cup (IF r.damaged THEN {x} ELSE {})
           /\ ReportedIn(e) = ReportedIn(d) \cup (IF r.damaged THEN {x.loan} ELSE {})
           /\ StatusesOf(e) = [StatusesOf(d) EXCEPT ![x.item] = ItemTarget(r.damaged)]
           /\ e.inspected = d.inspected /\ e.enrolled = d.enrolled
<1> DEFINE l == r.loan
           item == d.loans[l].item
           e == ReleaseItem(CloseLoan(d, r), r, item)
           x == Bare(d, l)
<1>1. /\ l \in DOMAIN d.loans /\ d.loans[l].status = "active" /\ item \in Items
      /\ r.damaged \in BOOLEAN
  <2>1. l \in DOMAIN d.loans /\ d.loans[l].status = "active" /\ r.damaged \in BOOLEAN
    BY ReturnableIsActive DEF Returns
  <2> QED BY <2>1, Parts
<1>2. /\ e.item = [d.item EXCEPT ![item] = [status |-> ItemTarget(r.damaged),
                                           version |-> d.item[item].version + 1]]
      /\ e.loans = [d.loans EXCEPT ![l] = [d.loans[l] EXCEPT
            !.status = LoanTarget(r.damaged), !.version = d.loans[l].version + 1]]
      /\ e.cases = IF r.damaged
                   THEN Append(d.cases, [item |-> item, loan |-> l, status |-> "open"])
                   ELSE d.cases
      /\ e.inspected = d.inspected /\ e.enrolled = d.enrolled
  <2>1. l \in DOMAIN d.loans
    BY <1>1
  <2> QED BY <2>1, ReturnWrites, Zenon
<1>3. /\ Custody(d) /\ DamageReported(d)
      /\ d.item[item].status = "checked_out"
  BY <1>1, ActiveLoanAlone DEF Consistent
<1> HIDE DEF e, l, item
<1>4. /\ DOMAIN e.loans = DOMAIN d.loans
      /\ \A n \in DOMAIN d.loans : n # l => e.loans[n] = d.loans[n]
      /\ e.loans[l].status = LoanTarget(r.damaged)
      /\ \A n \in DOMAIN d.loans : Bare(e, n) = Bare(d, n)
  BY <1>1, <1>2, Parts DEF Loans, Bare
<1>5. LoanTarget(r.damaged) = IF r.damaged THEN "damaged" ELSE "returned"
  BY DEF LoanTarget
<1>6. x.loan = l /\ x.item = item
  BY DEF Bare, item
<1>7. LoansIn(e, "active") = LoansIn(d, "active") \ {x}
  <2>1. ASSUME NEW y \in LoansIn(e, "active") PROVE y \in LoansIn(d, "active") \ {x}
    <3>1. PICK n \in DOMAIN e.loans : e.loans[n].status = "active" /\ y = Bare(e, n)
      BY InLoans
    <3>2. n # l
      BY <1>4, <1>5, <3>1
    <3> QED BY <1>4, <1>6, <3>1, <3>2, InLoans
  <2>2. ASSUME NEW y \in LoansIn(d, "active") \ {x} PROVE y \in LoansIn(e, "active")
    <3>1. PICK n \in DOMAIN d.loans : d.loans[n].status = "active" /\ y = Bare(d, n)
      BY InLoans
    <3> QED BY <1>4, <3>1, InLoans
  <2> QED BY <2>1, <2>2
<1>8. ASSUME NEW s \in {"returned", "damaged"}
      PROVE  LoansIn(e, s) =
                LoansIn(d, s) \cup (IF LoanTarget(r.damaged) = s THEN {x} ELSE {})
  <2>1. ASSUME NEW y \in LoansIn(e, s)
        PROVE  y \in LoansIn(d, s) \cup (IF LoanTarget(r.damaged) = s THEN {x} ELSE {})
    <3>1. PICK n \in DOMAIN e.loans : e.loans[n].status = s /\ y = Bare(e, n)
      BY InLoans
    <3> QED BY <1>4, <3>1, InLoans
  <2>2. ASSUME NEW y \in LoansIn(d, s) PROVE y \in LoansIn(e, s)
    <3>1. PICK n \in DOMAIN d.loans : d.loans[n].status = s /\ y = Bare(d, n)
      BY InLoans
    <3>2. n # l
      BY <1>1, <3>1
    <3> QED BY <1>4, <3>1, <3>2, InLoans
  <2>3. LoanTarget(r.damaged) = s => x \in LoansIn(e, s)
    BY <1>1, <1>4, InLoans
  <2> QED BY <2>1, <2>2, <2>3
<1>9. /\ LoansIn(e, "returned") =
            LoansIn(d, "returned") \cup (IF r.damaged THEN {} ELSE {x})
      /\ LoansIn(e, "damaged") =
            LoansIn(d, "damaged") \cup (IF r.damaged THEN {x} ELSE {})
  BY <1>1, <1>5, <1>8
<1>10. l \notin ReportedIn(d)
  <2>1. CasesOf(d, l) = {}
    BY <1>1, <1>3 DEF DamageReported
  <2> QED BY <2>1 DEF CasesOf, ReportedIn
<1>11. ReportedIn(e) = ReportedIn(d) \cup (IF r.damaged THEN {l} ELSE {})
  <2>1. CASE r.damaged
    <3>1. d.cases \in Seq(Cases)
      BY Parts
    <3>2. /\ DOMAIN e.cases = DOMAIN d.cases \cup {Len(d.cases) + 1}
          /\ \A c \in DOMAIN d.cases : e.cases[c] = d.cases[c]
          /\ e.cases[Len(d.cases) + 1].loan = l
      BY <1>2, <2>1, <3>1
    <3> QED BY <2>1, <3>2 DEF ReportedIn
  <2>2. CASE ~r.damaged
    BY <1>2, <2>2 DEF ReportedIn
  <2> QED BY <2>1, <2>2
<1>12. /\ StatusesOf(d)[item] = "checked_out"
       /\ StatusesOf(e) = [StatusesOf(d) EXCEPT ![item] = ItemTarget(r.damaged)]
  <2>1. d.item \in [Items -> ItemRows]
    BY Parts
  <2>2. \A i \in Items : e.item[i].status =
            IF i = item THEN ItemTarget(r.damaged) ELSE d.item[i].status
    BY <1>1, <1>2, <2>1
  <2> QED BY <1>1, <1>3, <2>2 DEF StatusesOf
<1>13. x \in LoansIn(d, "active")
  BY <1>1, InLoans
<1> QED BY <1>1, <1>2, <1>6, <1>7, <1>9, <1>10, <1>11, <1>12, <1>13 DEF e, l, item

\* What becomes of the committed database in a step.
LEMMA WhatIsCommitted ==
    ASSUME Inductive, Next
    PROVE  /\ db \in Databases /\ Consistent(db)
           /\ \/ db' = db
              \/ \E r \in Checkouts :
                    /\ Safe(db, r) /\ Len(db.loans) < MaxLoans
                    /\ db' = AddLoan(SetItem(db, r.item, "checked_out"), r)
              \/ \E r \in Returns :
                    /\ Returnable(db, r)
                    /\ db' = ReleaseItem(CloseLoan(db, r), r, db.loans[r.loan].item)
              \/ \E i \in Items, status \in ItemStates : Maintain(i, status)
              \/ /\ db'.item = db.item /\ db'.loans = db.loans /\ db'.cases = db.cases
                 /\ db'.inspected \subseteq Items /\ db'.enrolled \subseteq Pairs
<1>1. db \in Databases /\ Consistent(db)
  BY DEF Inductive, TypeOK
<1>2. ASSUME NEW p \in Procs, TxCommit(p)
      PROVE  \/ \E r \in Checkouts :
                    /\ Safe(db, r) /\ Len(db.loans) < MaxLoans
                    /\ db' = AddLoan(SetItem(db, r.item, "checked_out"), r)
             \/ \E r \in Returns :
                    /\ Returnable(db, r)
                    /\ db' = ReleaseItem(CloseLoan(db, r), r, db.loans[r.loan].item)
  BY <1>2, CommitWrites
<1>3. ASSUME NEW p \in Procs, Step(p), ~TxCommit(p)
      PROVE  db' = db
  BY <1>3 DEF Step, Rejected, Begin, CheckoutRead, CheckoutRefused, CheckoutAcquire,
              CheckoutLend, ReturnRead, ReturnRefused, ReturnClose, ReturnRelease, TxBusy,
              TxFail, GiveUpBusy, GiveUpAnywhere, GiveUp, Rollback, Write, TakeSnapshot,
              storeVars
<1>4. ASSUME \/ \E i \in Items : InspectionChanges(i)
             \/ \E x \in Pairs : EnrollmentChanges(x)
      PROVE  /\ db'.item = db.item /\ db'.loans = db.loans /\ db'.cases = db.cases
             /\ db'.inspected \subseteq Items /\ db'.enrolled \subseteq Pairs
  <2>0. db.inspected \subseteq Items /\ db.enrolled \subseteq Pairs
    BY <1>1 DEF Databases
  <2>1. ASSUME NEW i \in Items, InspectionChanges(i)
        PROVE  /\ db'.item = db.item /\ db'.loans = db.loans /\ db'.cases = db.cases
               /\ db'.inspected \subseteq Items /\ db'.enrolled \subseteq Pairs
    <3>1. db' = [db EXCEPT !.inspected = Toggle(@, i)]
      BY <2>1 DEF InspectionChanges, AutoCommit
    <3>2. Toggle(db.inspected, i) \subseteq Items
      BY <2>0 DEF Toggle
    <3> QED BY <1>1, <2>0, <3>1, <3>2 DEF Databases
  <2>2. ASSUME NEW x \in Pairs, EnrollmentChanges(x)
        PROVE  /\ db'.item = db.item /\ db'.loans = db.loans /\ db'.cases = db.cases
               /\ db'.inspected \subseteq Items /\ db'.enrolled \subseteq Pairs
    <3>1. db' = [db EXCEPT !.enrolled = Toggle(@, x)]
      BY <2>2 DEF EnrollmentChanges, AutoCommit
    <3>2. Toggle(db.enrolled, x) \subseteq Pairs
      BY <2>0 DEF Toggle
    <3> QED BY <1>1, <2>0, <3>1, <3>2 DEF Databases
  <2> QED BY <1>4, <2>1, <2>2
<1>5. Crash => db' = db
  BY DEF Crash, Die, LoseTransactions
<1> QED BY <1>1, <1>2, <1>3, <1>4, <1>5 DEF Next, Environment

LEMMA MaintainMaintains ==
    ASSUME Inductive, NEW i \in Items, NEW status \in ItemStates, Maintain(i, status)
    PROVE  /\ status \in {"maintenance", "available", "retired"}
           /\ StatusesOf(db)[i] \in {"isolated", "maintenance"}
           /\ ValidTransition("equipment", StatusesOf(db)[i], status)
           /\ StatusesOf(db') = [StatusesOf(db) EXCEPT ![i] = status]
           /\ \A s : LoansIn(db', s) = LoansIn(db, s)
           /\ ReportedIn(db') = ReportedIn(db)
           /\ db'.inspected = db.inspected /\ db'.enrolled = db.enrolled
<1>1. /\ db.item[i].status \in {"isolated", "maintenance"}
      /\ ValidTransition("equipment", db.item[i].status, status)
      /\ db' = [db EXCEPT !.item[i].status = status]
  BY DEF Maintain, AutoCommit
<1>2. db \in Databases /\ db.item \in [Items -> ItemRows]
  BY Parts DEF Inductive, TypeOK
<1>3. status \in {"maintenance", "available", "retired"}
  BY <1>1 DEF ValidTransition, Transitions
<1>4. \A j \in Items : db'.item[j].status = IF j = i THEN status ELSE db.item[j].status
  BY <1>1, <1>2 DEF Databases, ItemRows
<1>5. /\ db'.loans = db.loans /\ db'.cases = db.cases
      /\ db'.inspected = db.inspected /\ db'.enrolled = db.enrolled
  BY <1>1, <1>2 DEF Databases
<1>6. StatusesOf(db') = [StatusesOf(db) EXCEPT ![i] = status] /\ StatusesOf(db)[i] = db.item[i].status
  BY <1>4 DEF StatusesOf
<1>7. (\A s : LoansIn(db', s) = LoansIn(db, s)) /\ ReportedIn(db') = ReportedIn(db)
  BY <1>5 DEF LoansIn, Bare, ReportedIn
<1> QED BY <1>1, <1>3, <1>5, <1>6, <1>7

LEMMA RegisterStep ==
    ASSUME Inductive, Next
    PROVE  \/ Register!LedgerNext
           \/ UNCHANGED <<StatusesOf(db), LoansIn(db, "active"), LoansIn(db, "returned"),
                          LoansIn(db, "damaged"), ReportedIn(db), db.inspected, db.enrolled>>
<1>1. db \in Databases /\ Consistent(db)
  BY WhatIsCommitted
<1>2. ASSUME NEW r \in Checkouts, Safe(db, r), Len(db.loans) < MaxLoans,
             db' = AddLoan(SetItem(db, r.item, "checked_out"), r)
      PROVE  Register!LedgerNext
  <2>0. PICK x : x = Bare(db', Len(db.loans) + 1)
    OBVIOUS
  <2>1. /\ x \in Register!Loans
        /\ x.item = r.item /\ x.student = r.student /\ x.session = r.session
        /\ \A y \in LoansIn(db, "active") : y.item # x.item
        /\ \A s : \A y \in LoansIn(db, s) : y.loan # x.loan
        /\ LoansIn(db', "active") = LoansIn(db, "active") \cup {x}
        /\ LoansIn(db', "returned") = LoansIn(db, "returned")
        /\ LoansIn(db', "damaged") = LoansIn(db, "damaged")
        /\ StatusesOf(db') = [StatusesOf(db) EXCEPT ![r.item] = "checked_out"]
        /\ ReportedIn(db') = ReportedIn(db)
        /\ db'.inspected = db.inspected /\ db'.enrolled = db.enrolled
    BY <1>1, <1>2, <2>0, CheckoutLends
  <2>2. /\ StatusesOf(db)[r.item] = "available" /\ r.item \in db.inspected
        /\ <<r.student, r.session>> \in db.enrolled
        /\ <<r.item, r.student, r.session>> \in Suits
    BY <1>2 DEF Safe, StatusesOf, Checkouts
  <2>3. \A y \in LoansIn(db, "active") \cup LoansIn(db, "returned") \cup LoansIn(db, "damaged") :
            y.loan # x.loan
    BY <2>1
  <2>4. Register!Lend(x)
    BY <2>1, <2>2, <2>3 DEF Register!Lend, Register!facts, StatusesOf, ReportedIn
  <2> QED BY <2>1, <2>4 DEF Register!LedgerNext
<1>3. ASSUME NEW r \in Returns, Returnable(db, r),
             db' = ReleaseItem(CloseLoan(db, r), r, db.loans[r.loan].item)
      PROVE  Register!LedgerNext
  <2>0. PICK x : x = Bare(db, r.loan)
    OBVIOUS
  <2>1. /\ x \in LoansIn(db, "active") /\ x.item \in Items /\ x.loan \notin ReportedIn(db)
        /\ StatusesOf(db)[x.item] = "checked_out"
        /\ LoansIn(db', "active") = LoansIn(db, "active") \ {x}
        /\ LoansIn(db', "returned") =
                LoansIn(db, "returned") \cup (IF r.damaged THEN {} ELSE {x})
        /\ LoansIn(db', "damaged") =
                LoansIn(db, "damaged") \cup (IF r.damaged THEN {x} ELSE {})
        /\ ReportedIn(db') = ReportedIn(db) \cup (IF r.damaged THEN {x.loan} ELSE {})
        /\ StatusesOf(db') = [StatusesOf(db) EXCEPT ![x.item] = ItemTarget(r.damaged)]
        /\ db'.inspected = db.inspected /\ db'.enrolled = db.enrolled
    BY <1>1, <1>3, <2>0, ReturnTakesBack
  <2>2. r.damaged \in BOOLEAN
    BY DEF Returns
  <2>3. CASE r.damaged
    <3>1. Register!TakeBackDamaged(x)
      BY <2>1, <2>3 DEF Register!TakeBackDamaged, Register!facts, StatusesOf, ReportedIn, ItemTarget
    <3> QED BY <2>1, <3>1 DEF Register!LedgerNext
  <2>4. CASE ~r.damaged
    <3>1. Register!TakeBack(x)
      BY <2>1, <2>4 DEF Register!TakeBack, Register!facts, StatusesOf, ReportedIn, ItemTarget
    <3> QED BY <2>1, <3>1 DEF Register!LedgerNext
  <2> QED BY <2>2, <2>3, <2>4
<1>4. ASSUME NEW i \in Items, NEW status \in ItemStates, Maintain(i, status)
      PROVE  Register!LedgerNext
  <2>1. /\ status \in {"maintenance", "available", "retired"}
        /\ StatusesOf(db)[i] \in {"isolated", "maintenance"}
        /\ ValidTransition("equipment", StatusesOf(db)[i], status)
        /\ StatusesOf(db') = [StatusesOf(db) EXCEPT ![i] = status]
        /\ \A s : LoansIn(db', s) = LoansIn(db, s)
        /\ ReportedIn(db') = ReportedIn(db)
        /\ db'.inspected = db.inspected /\ db'.enrolled = db.enrolled
    BY <1>4, MaintainMaintains
  <2>2. Register!ValidTransition("equipment", StatusesOf(db)[i], status)
    BY <2>1 DEF Register!ValidTransition, Register!Transitions, ValidTransition, Transitions
  <2>3. Register!Maintain(i, status)
    BY <2>1, <2>2 DEF Register!Maintain, Register!facts, StatusesOf, ReportedIn
  <2> QED BY <2>1, <2>3 DEF Register!LedgerNext
<1>5. ASSUME db'.item = db.item, db'.loans = db.loans, db'.cases = db.cases,
             db'.inspected \subseteq Items, db'.enrolled \subseteq Pairs
      PROVE  Register!LedgerNext
  <2>1. /\ StatusesOf(db') = StatusesOf(db) /\ ReportedIn(db') = ReportedIn(db)
        /\ \A s : LoansIn(db', s) = LoansIn(db, s)
    BY <1>5 DEF StatusesOf, ReportedIn, LoansIn, Bare
  <2>2. Register!FactsMove
    BY <1>5, <2>1 DEF Register!FactsMove, StatusesOf, ReportedIn, Pairs
  <2> QED BY <2>2 DEF Register!LedgerNext
<1>6. ASSUME db' = db
      PROVE  UNCHANGED <<StatusesOf(db), LoansIn(db, "active"), LoansIn(db, "returned"),
                         LoansIn(db, "damaged"), ReportedIn(db), db.inspected, db.enrolled>>
  BY <1>6
<1> QED BY <1>2, <1>3, <1>4, <1>5, <1>6, WhatIsCommitted

\* The statements of Checkout and Return, their failures and the crashes
\* included, implement the register of who has what.
THEOREM RegisterIsImplemented == Spec => ImplementsRegister
<1>1. Init => Register!LedgerInit
  <2> SUFFICES ASSUME Init PROVE Register!LedgerInit
    OBVIOUS
  <2>1. db = EmptyDatabase
    BY DEF Init, InitStore
  <2>2. DOMAIN db.loans = {} /\ DOMAIN db.cases = {} /\ db.inspected = Items /\ db.enrolled = Pairs
    BY <2>1 DEF EmptyDatabase
  <2>3. \A s : LoansIn(db, s) = {}
    BY <2>2 DEF LoansIn
  <2>4. [i \in Items |-> db.item[i].status] = [i \in Items |-> "available"]
    BY <2>1 DEF EmptyDatabase
  <2> QED BY <2>2, <2>3, <2>4 DEF Register!LedgerInit, Pairs
<1>2. Inductive /\ [Next]_vars =>
        [Register!LedgerNext]_<<[i \in Items |-> db.item[i].status],
                                LoansIn(db, "active"), LoansIn(db, "returned"),
                                LoansIn(db, "damaged"),
                                {db.cases[c].loan : c \in DOMAIN db.cases}, Register!facts>>
  <2>1. ASSUME UNCHANGED vars
        PROVE  UNCHANGED <<StatusesOf(db), LoansIn(db, "active"), LoansIn(db, "returned"),
                           LoansIn(db, "damaged"), ReportedIn(db), db.inspected, db.enrolled>>
    BY <2>1 DEF vars, storeVars
  <2> QED BY RegisterStep, <2>1 DEF StatusesOf, ReportedIn, Register!facts
<1> QED BY <1>1, <1>2, InductiveInvariant, PTL DEF Spec, ImplementsRegister, Register!LedgerSpec
=============================================================================
