--------------------------- MODULE AtomicTransfer ---------------------------
(***************************************************************************)
(* What the ledger service promises, without shards, logs or messages: a   *)
(* set of accounts and transfers that each commit, moving their amount     *)
(* from source to destination in one indivisible step, or abort, moving    *)
(* nothing; at most one of the two, at most once.                          *)
(***************************************************************************)
EXTENDS Integers

CONSTANTS Accounts, Transfers, Source, Destination, Amount

VARIABLES
  balance,   \* balance[a], for every account a that exists
  outcome    \* outcome[t]: "open", "COMMITTED" or "ABORTED"

avars == <<balance, outcome>>

Init ==
  /\ DOMAIN balance \subseteq Accounts
  /\ \A a \in DOMAIN balance : balance[a] \in Nat
  /\ outcome = [t \in Transfers |-> "open"]

Decide(t, o) ==
  /\ outcome[t] = "open"
  /\ outcome'[t] = o
  /\ \A u \in Transfers \ {t} : outcome'[u] = outcome[u]

Commit(t) ==
  /\ Decide(t, "COMMITTED")
  /\ {Source[t], Destination[t]} \subseteq DOMAIN balance
  /\ 0 < Amount[t] /\ Amount[t] <= balance[Source[t]]
  /\ balance' = [a \in DOMAIN balance |->
                   balance[a] - (IF a = Source[t] THEN Amount[t] ELSE 0)
                              + (IF a = Destination[t] THEN Amount[t] ELSE 0)]

Abort(t) == Decide(t, "ABORTED") /\ UNCHANGED balance

Open(a) ==
  /\ DOMAIN balance' = DOMAIN balance \cup {a}
  /\ balance'[a] >= 0
  /\ \A b \in DOMAIN balance : balance'[b] = balance[b]
  /\ UNCHANGED outcome

Next ==
  \/ outcome' # outcome /\ \E t \in Transfers : Commit(t) \/ Abort(t)
  \/ \E a \in Accounts \ DOMAIN balance : Open(a)

Spec == Init /\ [][Next]_avars
=============================================================================
