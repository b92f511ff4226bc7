------------------------------- MODULE Ledger -------------------------------
(***************************************************************************)
(* Arithmetic on ledgers, shared by the modules of the contract suite.     *)
(* A ledger is a function from holders to natural numbers: the amounts an  *)
(* account map of a contract's storage holds, an absent key reading as 0.  *)
(***************************************************************************)
EXTENDS Naturals, FiniteSets

\* Every unit recorded in f, as a pair of its holder and its number.
Units(f) == UNION {{x} \X (1..f[x]) : x \in DOMAIN f}

\* The sum of f's values.  Counting units instead of folding over the domain
\* leaves the definition free of recursion.
TotalOf(f) == Cardinality(Units(f))

Credit(f, x, n) == [f EXCEPT ![x] = @ + n]
Debit(f, x, n)  == [f EXCEPT ![x] = @ - n]

\* n units move from one holder to another, or to the same one.
Move(f, from, to, n) == Credit(Debit(f, from, n), to, n)
=============================================================================
