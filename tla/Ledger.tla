------------------------------- MODULE Ledger -------------------------------
(***************************************************************************)
(* The in-memory account balances of one shard (shard/ledger/ledger.go).   *)
(* A ledger value is the Go map accountID -> int64: a function whose       *)
(* domain is the set of accounts that exist.  Every method of the Go type  *)
(* holds the ledger's mutex for its whole body, so each is one operator,   *)
(* used inside one atomic step by the modules that own a ledger.           *)
(*                                                                         *)
(* A method that can return an error is a pair: the predicate that says    *)
(* it succeeds (Can...) and the value of the map after it did.             *)
(***************************************************************************)
EXTENDS Integers

CONSTANT MaxInt64   \* largest value of a balance: 2^63 - 1 in the code

ASSUME MaxInt64Assumption == MaxInt64 \in Nat

(***************************************************************************)
(* Two's-complement wrap-around of Go's int64 arithmetic.                  *)
(***************************************************************************)
Int64(n) == ((n + MaxInt64 + 1) % (2 * (MaxInt64 + 1))) - (MaxInt64 + 1)

NewLedger == [a \in {} |-> 0]

AccountExists(l, a) == a \in DOMAIN l

(***************************************************************************)
(* ValidateDebit, and the identical checks ApplyDebit makes again under    *)
(* the write lock.                                                         *)
(***************************************************************************)
ValidateDebit(l, a, n) == n > 0 /\ AccountExists(l, a) /\ l[a] >= n

M_CanApplyTransferNoFunds(l, src, dst, n) ==
  n > 0 /\ AccountExists(l, src) /\ AccountExists(l, dst)

CanApplyTransfer(l, src, dst, n) ==
  ValidateDebit(l, src, n) /\ AccountExists(l, dst)

CanApplyCredit(l, a, n) == n > 0 /\ AccountExists(l, a)

CanCreateAccount(l, a, opening) == opening >= 0 /\ ~AccountExists(l, a)

ApplyDebit(l, a, n) == [l EXCEPT ![a] = Int64(@ - n)]

ApplyCredit(l, a, n) == [l EXCEPT ![a] = Int64(@ + n)]

(***************************************************************************)
(* Debit first, then credit, on the same map: a transfer from an account   *)
(* to itself leaves it alone.                                              *)
(***************************************************************************)
ApplyTransfer(l, src, dst, n) == ApplyCredit(ApplyDebit(l, src, n), dst, n)

(***************************************************************************)
(* RollbackDebit fails like ApplyCredit; its only caller discards the      *)
(* error, so a rollback that cannot happen changes nothing.                *)
(***************************************************************************)
RollbackDebit(l, a, n) == IF CanApplyCredit(l, a, n) THEN ApplyCredit(l, a, n) ELSE l

SetBalance(l, a, n) == [x \in DOMAIN l \cup {a} |-> IF x = a THEN n ELSE l[x]]
=============================================================================
