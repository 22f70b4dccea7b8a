--------------------------- MODULE WALFileProofs ---------------------------
(***************************************************************************)
(* The log file, for any transactions and any number of power failures,    *)
(* cut writes, failing fsyncs, checkpoints and truncations.                *)
(***************************************************************************)
EXTENDS WALFile, WellFoundedInduction, TLAPS

TypeInv ==
  /\ file \in Seq(Lines)
  /\ durable \in 0 .. Len(file)
  /\ nextLogID \in Nat
  /\ broken \in BOOLEAN
  /\ proc \in {"up", "down", "refused"}
  /\ ledger \subseteq Txns
  /\ pc \in [Txns -> {"idle", "logged", "applied", "done", "aborted", "failed"}]
  /\ store \in [balances : SUBSET Txns, ckpt : Nat]
  /\ ckpt \in [pc : {"idle", "snapped", "stored", "read", "marked"}, snap : SUBSET Txns, last : Nat]

FaultInv ==
  /\ faults \in [WALFaultKinds -> Nat]
  /\ \A k \in WALFaultKinds : faults[k] <= WALFaults[k]

-----------------------------------------------------------------------------
(***************************************************************************)
(* How a file changes.                                                     *)
(***************************************************************************)

\* g is f with one more line, l, or with its last line spoilt.
Grown(f, g, l) ==
  /\ g \in Seq(Lines)
  /\ \A i \in 1 .. Len(f) :
       g[i].id = f[i].id /\ g[i].kind = f[i].kind /\ g[i].txn = f[i].txn /\ (f[i].text = "torn" => g[i].text = "torn")
  /\ \/ Len(g) = Len(f) + 1 /\ g[Len(g)] = l /\ \A i \in 1 .. Len(f) : g[i] = f[i]
     \/ Len(g) = Len(f) /\ Len(g) > 0 /\ g[Len(g)].text = "torn" /\ f[Len(f)].text = "bare"

\* writeEntry adds a line, or spoils the one that has no newline.
LEMMA WrittenGrows ==
  ASSUME NEW f \in Seq(Lines), NEW l \in Lines
  PROVE  Grown(f, Written(f, l), l)
<1>1. CASE f # <<>> /\ f[Len(f)].text = "bare"
  <2> DEFINE n == Len(f)
             g == [f EXCEPT ![n].text = "torn"]
  <2>1. n \in 1 .. Len(f) /\ f[n] \in Lines
    BY <1>1
  <2>2. [f[n] EXCEPT !.text = "torn"] \in Lines
    BY <2>1 DEF Lines, Texts
  <2>3. g \in Seq(Lines) /\ Len(g) = Len(f)
    BY <2>1, <2>2
  <2>4. \A i \in 1 .. Len(f) : i # n => g[i] = f[i]
    BY <2>1
  <2>5. g[n] = [f[n] EXCEPT !.text = "torn"]
    BY <2>1
  <2>6. g[n].id = f[n].id /\ g[n].kind = f[n].kind /\ g[n].txn = f[n].txn /\ g[n].text = "torn"
    BY <2>5, <2>1 DEF Lines
  <2>7. Written(f, l) = g
    BY <1>1 DEF Written
  <2> HIDE DEF g
  <2> QED BY <2>1, <2>3, <2>4, <2>6, <2>7, <1>1 DEF Grown
<1>2. CASE ~(f # <<>> /\ f[Len(f)].text = "bare")
  BY <1>2 DEF Grown, Written
<1> QED BY <1>1, <1>2

\* writeEntry changes the file as follows: with success, with a failed
\* fsync, with a failed flush, or not at all.
Logs(l) ==
  /\ ~broken /\ Grown(file, file', l)
  /\ durable' = Len(file') /\ nextLogID' = nextLogID + 1 /\ broken' = broken /\ faults' = faults

Fails(l) ==
  /\ durable' = durable /\ nextLogID' = nextLogID
  /\ \/ file' = file /\ broken'
     \/ ~broken /\ Grown(file, file', l) /\ ~broken' /\ Happened({"fsync"})'
     \/ ~broken /\ \E x \in {"bare", "torn"} : Grown(file, file', [l EXCEPT !.text = x])
        /\ broken' /\ Happened({"flush"})'

\* Faults are used up one by one.
LEMMA FaultUsed ==
  ASSUME FaultInv, NEW k \in WALFaultKinds, Fault(k)
  PROVE  /\ FaultInv' /\ Happened({k})'
         /\ \A j \in WALFaultKinds : faults'[j] <= faults[j]
<1>1. /\ faults \in [WALFaultKinds -> Nat] /\ faults' = [faults EXCEPT ![k] = @ - 1]
      /\ faults[k] > 0 /\ WALFaults \in [WALFaultKinds -> Nat]
  BY WALAssumption, Zenon DEF FaultInv, Fault
<1>2. faults'[k] = faults[k] - 1 /\ \A j \in WALFaultKinds : j # k => faults'[j] = faults[j]
  BY <1>1
<1>3. faults' \in [WALFaultKinds -> Nat]
  BY <1>1
<1>4. \A j \in WALFaultKinds : faults'[j] <= faults[j] /\ faults[j] \in Nat /\ WALFaults[j] \in Nat
  BY <1>1, <1>2
<1>5. FaultInv'
  BY <1>3, <1>4, <1>1 DEF FaultInv
<1>6. faults'[k] < WALFaults[k]
  BY <1>1, <1>2, <1>4 DEF FaultInv
<1>7. Happened({k})'
  BY <1>6 DEF Happened
<1> QED BY <1>4, <1>5, <1>7

\* A line with another text is a line.
LEMMA Retexted ==
  ASSUME NEW l \in Lines, NEW x \in Texts
  PROVE  /\ [l EXCEPT !.text = x] \in Lines
         /\ [l EXCEPT !.text = x].id = l.id /\ [l EXCEPT !.text = x].kind = l.kind
         /\ [l EXCEPT !.text = x].txn = l.txn /\ [l EXCEPT !.text = x].text = x
BY DEF Lines

\* A write of writeEntry has one of the two shapes above.
LEMMA WriteShape ==
  ASSUME TypeInv, FaultInv, NEW l \in Lines
  PROVE  /\ WriteEntry(l) => Logs(l)
         /\ WriteEntryFails(l) => Fails(l)
<1> file \in Seq(Lines)
  BY DEF TypeInv
<1>1. Grown(file, Written(file, l), l)
  BY WrittenGrows
<1>2. ASSUME NEW x \in {"bare", "torn"}
      PROVE  Grown(file, Written(file, [l EXCEPT !.text = x]), [l EXCEPT !.text = x])
  BY WrittenGrows, Retexted, Zenon DEF Texts
<1>3. WriteEntry(l) => Logs(l)
  BY <1>1 DEF WriteEntry, Logs
<1>4. ASSUME WriteEntryFails(l) PROVE Fails(l)
  <2>1. CASE broken /\ UNCHANGED walVars
    BY <2>1 DEF Fails, walVars
  <2>2. CASE /\ ~broken /\ Fault("fsync")
             /\ file' = Written(file, l)
             /\ UNCHANGED <<durable, nextLogID, broken>>
    <3>1. Happened({"fsync"})'
      BY <2>2, FaultUsed DEF WALFaultKinds
    <3> QED BY <2>2, <3>1, <1>1 DEF Fails
  <2>3. CASE /\ ~broken /\ Fault("flush")
             /\ file' \in {file} \cup {Written(file, [l EXCEPT !.text = x]) : x \in {"bare", "torn"}}
             /\ broken' = TRUE
             /\ UNCHANGED <<durable, nextLogID>>
    <3>1. Happened({"flush"})'
      BY <2>3, FaultUsed DEF WALFaultKinds
    <3>2. file' = file \/ \E x \in {"bare", "torn"} : Grown(file, file', [l EXCEPT !.text = x])
      BY <2>3, <1>2
    <3> QED BY <2>3, <3>1, <3>2 DEF Fails
  <2> QED BY <1>4, <2>1, <2>2, <2>3, Zenon DEF WriteEntryFails
<1> QED BY <1>3, <1>4

\* The type of the file's variables, after a write.
LEMMA WriteTypes ==
  ASSUME TypeInv, NEW l \in Lines, Logs(l) \/ Fails(l)
  PROVE  /\ file' \in Seq(Lines) /\ durable' \in 0 .. Len(file')
         /\ nextLogID' \in Nat /\ Len(file') >= Len(file)
<1>1. /\ file \in Seq(Lines) /\ Len(file) \in Nat /\ durable \in 0 .. Len(file) /\ nextLogID \in Nat
  BY DEF TypeInv
<1>2. CASE Logs(l)
  BY <1>1, <1>2 DEF Logs, Grown
<1>3. CASE Fails(l)
  BY <1>1, <1>3 DEF Fails, Grown
<1> QED BY <1>2, <1>3

\* A record that a handler or Checkpoint appends is a line.
LEMMA RecordIsLine ==
  ASSUME TypeInv, NEW kind \in Kinds, NEW t \in Txns \cup {NoTxn}
  PROVE  /\ Record(kind, t) \in Lines
         /\ Record(kind, t).id = nextLogID /\ Record(kind, t).kind = kind
         /\ Record(kind, t).txn = t /\ Record(kind, t).text = "line"
BY DEF TypeInv, Record, Lines, Texts

\* A power failure leaves a prefix, or the file with a record that was being
\* written.
Loses(k) ==
  /\ k \in durable .. Len(file) /\ file' \in Seq(Lines) /\ Len(file') = k
  /\ \A i \in 1 .. k : file'[i] = file[i]

Cuts(l) ==
  /\ ~broken /\ l \in Lines /\ l.id = nextLogID /\ Grown(file, file', l)
  /\ l.text # "line" => Happened({"cut"})'
  /\ l.kind = "committed" => l.txn \in Txns /\ pc[l.txn] = "applied"

\* What a power failure can cut is a record that some goroutine is writing.
LEMMA InProgressLines ==
  ASSUME TypeInv, NEW l \in InProgress
  PROVE  /\ l \in Lines /\ l.id = nextLogID /\ l.text = "line"
         /\ l.kind = "committed" => l.txn \in Txns /\ pc[l.txn] = "applied"
<1>1. CASE \E t \in Txns : pc[t] = "idle" /\ l = Record("op", t)
  BY <1>1, RecordIsLine DEF Kinds
<1>2. CASE \E t \in Txns : pc[t] = "applied" /\ l = Record("committed", t)
  BY <1>2, RecordIsLine DEF Kinds
<1>3. CASE \E t \in Txns : pc[t] = "logged" /\ l = Record("aborted", t)
  BY <1>3, RecordIsLine DEF Kinds
<1>4. CASE l = Record("checkpoint", NoTxn)
  BY <1>4, RecordIsLine DEF Kinds
<1> QED BY <1>1, <1>2, <1>3, <1>4 DEF InProgress

\* A power failure loses unsynced lines or cuts the line being written.
LEMMA CrashShape ==
  ASSUME TypeInv, FaultInv, Crash
  PROVE  /\ (\E k \in Nat : Loses(k)) \/ (\E l \in Lines : Cuts(l))
         /\ FaultInv' /\ \A j \in WALFaultKinds : faults'[j] <= faults[j]
<1> file \in Seq(Lines) /\ durable \in 0 .. Len(file)
  BY DEF TypeInv
<1>0. /\ faults \in [WALFaultKinds -> Nat] /\ WALFaults \in [WALFaultKinds -> Nat]
      /\ faults["crash"] > 0 /\ "crash" \in WALFaultKinds /\ "cut" \in WALFaultKinds
      /\ \A j \in WALFaultKinds : faults[j] <= WALFaults[j] /\ faults[j] \in Nat /\ WALFaults[j] \in Nat
  BY WALAssumption DEF FaultInv, Crash, WALFaultKinds
<1>a. ASSUME faults' = [faults EXCEPT !["crash"] = @ - 1]
      PROVE  FaultInv' /\ \A j \in WALFaultKinds : faults'[j] <= faults[j]
  BY <1>a, <1>0 DEF FaultInv
<1>b. ASSUME faults' = [faults EXCEPT !["crash"] = @ - 1, !["cut"] = @ - 1], faults["cut"] > 0
      PROVE  /\ FaultInv' /\ \A j \in WALFaultKinds : faults'[j] <= faults[j]
             /\ Happened({"cut"})'
  <2>1. /\ faults'["crash"] = faults["crash"] - 1 /\ faults'["cut"] = faults["cut"] - 1
        /\ \A j \in WALFaultKinds : j \notin {"crash", "cut"} => faults'[j] = faults[j]
    BY <1>b, <1>0
  <2>0. /\ faults' = [faults' EXCEPT !["cut"] = faults'["cut"]] /\ DOMAIN faults' = WALFaultKinds
        /\ \A j \in WALFaultKinds : faults'[j] \in Nat
    <3>1. DOMAIN faults' = WALFaultKinds
      BY <1>b, <1>0
    <3>2. faults["crash"] - 1 \in Nat /\ faults["cut"] - 1 \in Nat
      BY <1>b, <1>0
    <3>3. \A j \in WALFaultKinds : faults'[j] \in Nat
      BY <2>1, <3>2, <1>0, Zenon
    <3> QED BY <3>1, <3>3, <1>b, Zenon
  <2>2. faults' \in [WALFaultKinds -> Nat]
    BY <2>0, <1>b, <1>0
  <2>3. ASSUME NEW j \in WALFaultKinds PROVE faults'[j] <= faults[j]
    <3>1. CASE j \in {"crash", "cut"}
      BY <3>1, <2>1, <1>0
    <3>2. CASE j \notin {"crash", "cut"}
      BY <3>2, <2>1, <1>0
    <3> QED BY <3>1, <3>2
  <2>4. faults'["cut"] < WALFaults["cut"]
    BY <2>1, <1>0
  <2> QED BY <2>2, <2>3, <2>4, <1>0 DEF FaultInv, Happened
<1>1. CASE /\ \E k \in durable .. Len(file) : file' = SubSeq(file, 1, k)
           /\ faults' = [faults EXCEPT !["crash"] = @ - 1]
  <2>1. PICK k \in durable .. Len(file) : file' = SubSeq(file, 1, k)
    BY <1>1
  <2>2. k \in Nat /\ k <= Len(file) /\ Len(file) \in Nat /\ 1 .. k \subseteq 1 .. Len(file)
    OBVIOUS
  <2>3. SubSeq(file, 1, k) \in Seq(Lines) /\ Len(SubSeq(file, 1, k)) = k
    BY <2>2
  <2>4. \A i \in 1 .. k : SubSeq(file, 1, k)[i] = file[i]
    BY <2>2
  <2>5. Loses(k)
    BY <2>1, <2>3, <2>4 DEF Loses
  <2> QED BY <2>2, <2>5, <1>1, <1>a
<1>2. CASE /\ ~broken
           /\ \E l \in InProgress : file' = Written(file, l)
           /\ faults' = [faults EXCEPT !["crash"] = @ - 1]
  <2>1. PICK l \in InProgress : file' = Written(file, l)
    BY <1>2
  <2>2. Cuts(l)
    BY <2>1, <1>2, InProgressLines, WrittenGrows, Zenon DEF Cuts
  <2> QED BY <2>2, <1>2, <1>a, InProgressLines
<1>3. CASE /\ ~broken /\ faults["cut"] > 0
           /\ \E l \in InProgress, x \in {"bare", "torn"} : file' = Written(file, [l EXCEPT !.text = x])
           /\ faults' = [faults EXCEPT !["crash"] = @ - 1, !["cut"] = @ - 1]
  <2>1. PICK l \in InProgress, x \in {"bare", "torn"} : file' = Written(file, [l EXCEPT !.text = x])
    BY <1>3, Zenon
  <2> DEFINE m == [l EXCEPT !.text = x]
  <2>2. l \in Lines /\ x \in Texts
    BY InProgressLines DEF Texts
  <2>3. m \in Lines /\ m.id = l.id /\ m.kind = l.kind /\ m.txn = l.txn
    BY <2>2, Retexted
  <2>4. Grown(file, file', m)
    BY <2>1, <2>3, WrittenGrows
  <2> HIDE DEF m
  <2>5. Cuts(m)
    BY <2>3, <2>4, <1>3, <1>b, InProgressLines DEF Cuts
  <2> QED BY <2>5, <2>3, <1>3, <1>b, Zenon
<1> QED BY <1>1, <1>2, <1>3, Zenon DEF Crash

\* A function on 1 .. n is a sequence.
LEMMA FunIsSeq ==
  ASSUME NEW S, NEW n \in Nat, NEW g \in [1 .. n -> S]
  PROVE  g \in Seq(S) /\ Len(g) = n
OBVIOUS

\* Truncate keeps the lines from position k on, each as a whole line.
Keeps(k) ==
  /\ k \in 1 .. Len(file) + 1 /\ ReadFrom(store.ckpt, k)
  /\ file' \in Seq(Lines) /\ Len(file') = Len(file) - k + 1
  /\ \A i \in 1 .. Len(file') :
       /\ file'[i].id = file[i + k - 1].id /\ file'[i].kind = file[i + k - 1].kind
       /\ file'[i].txn = file[i + k - 1].txn /\ file'[i].text = "line"
  /\ durable' = Len(file') /\ nextLogID' = nextLogID /\ faults' = faults /\ broken' = broken

\* Truncate keeps a suffix of the file, or fails with the file closed.
LEMMA TruncateShape ==
  ASSUME TypeInv, Truncate
  PROVE  \/ \E k \in 1 .. Len(file) + 1 : Keeps(k)
         \/ Fault("truncate") /\ broken' = TRUE /\ UNCHANGED <<file, durable, nextLogID>>
<1> file \in Seq(Lines) /\ Len(file) \in Nat
  BY DEF TypeInv
<1> SUFFICES ASSUME NEW k \in 1 .. Len(file) + 1, ReadFrom(store.ckpt, k),
                    file' = [i \in 1 .. Len(file) - k + 1 |-> [file[i + k - 1] EXCEPT !.text = "line"]],
                    durable' = Len(file'), UNCHANGED <<nextLogID, broken, faults>>
             PROVE  Keeps(k)
  BY DEF Truncate
<1> DEFINE n == Len(file) - k + 1
           g == [i \in 1 .. n |-> [file[i + k - 1] EXCEPT !.text = "line"]]
<1>1. n \in Nat
  OBVIOUS
<1>2. ASSUME NEW i \in 1 .. n
      PROVE  /\ file[i + k - 1] \in Lines /\ g[i] \in Lines
             /\ g[i].id = file[i + k - 1].id /\ g[i].kind = file[i + k - 1].kind
             /\ g[i].txn = file[i + k - 1].txn /\ g[i].text = "line"
  <2>1. i + k - 1 \in 1 .. Len(file)
    OBVIOUS
  <2>2. file[i + k - 1] \in Lines
    BY <2>1
  <2>3. g[i] = [file[i + k - 1] EXCEPT !.text = "line"]
    OBVIOUS
  <2> QED BY <2>2, <2>3, Retexted, Zenon DEF Texts
<1>3. g \in Seq(Lines) /\ Len(g) = n
  <2>1. g \in [1 .. n -> Lines]
    <3> HIDE DEF n
    <3> QED BY <1>2
  <2> HIDE DEF g, n
  <2> QED BY <1>1, <2>1, FunIsSeq
<1>4. file' = g /\ durable' = Len(file') /\ UNCHANGED <<nextLogID, broken, faults>>
  OBVIOUS
<1>5. Len(file') = Len(file) - k + 1
  BY <1>3, <1>4
<1>6. \A i \in 1 .. Len(file') :
        /\ file'[i].id = file[i + k - 1].id /\ file'[i].kind = file[i + k - 1].kind
        /\ file'[i].txn = file[i + k - 1].txn /\ file'[i].text = "line"
  <2> HIDE DEF g
  <2> QED BY <1>2, <1>4, <1>5
<1> HIDE DEF g
<1> QED BY <1>3, <1>4, <1>5, <1>6, Zenon DEF Keeps

-----------------------------------------------------------------------------
(***************************************************************************)
(* Types.                                                                  *)
(***************************************************************************)
Calm == FaultInv' /\ \A j \in WALFaultKinds : faults'[j] <= faults[j]

\* A step without a fault leaves the budget alone.
LEMMA FaultsSame ==
  ASSUME FaultInv, faults' = faults
  PROVE  Calm
BY DEF FaultInv, Calm

\* A fault only lowers the budget.
LEMMA FaultsLess ==
  ASSUME FaultInv, NEW k \in WALFaultKinds, Fault(k)
  PROVE  Calm
BY FaultUsed, Zenon DEF Calm

\* writeEntry keeps the types of the file's variables.
LEMMA FileTypes ==
  ASSUME TypeInv, FaultInv, NEW l \in Lines, WriteEntry(l) \/ WriteEntryFails(l)
  PROVE  /\ file' \in Seq(Lines) /\ durable' \in 0 .. Len(file')
         /\ nextLogID' \in Nat /\ broken' \in BOOLEAN
         /\ Calm
<1>1. /\ file' \in Seq(Lines) /\ durable' \in 0 .. Len(file') /\ nextLogID' \in Nat
  BY WriteShape, WriteTypes
<1>2. broken' \in BOOLEAN
  BY Zenon DEF TypeInv, WriteEntry, WriteEntryFails, walVars
<1>3. Calm
  <2>1. CASE WriteEntry(l)
    BY <2>1, FaultsSame DEF WriteEntry
  <2>2. CASE WriteEntryFails(l)
    BY <2>2, FaultsSame, FaultsLess DEF WriteEntryFails, walVars, WALFaultKinds
  <2> QED BY <2>1, <2>2
<1> QED BY <1>1, <1>2, <1>3

\* The empty log of a first start is within its types.
LEMMA InitTypes == Init => TypeInv /\ FaultInv
<1> SUFFICES ASSUME Init PROVE TypeInv /\ FaultInv
  OBVIOUS
<1>1. TypeInv
  <2>1. /\ file = <<>> /\ durable = 0 /\ nextLogID = 0 /\ broken = FALSE /\ proc = "up" /\ ledger = {}
        /\ store = [balances |-> {}, ckpt |-> 0] /\ ckpt = [pc |-> "idle", snap |-> {}, last |-> 0]
    BY DEF Init, NoCheckpoint
  <2>2. file \in Seq(Lines) /\ Len(file) = 0
    BY <2>1
  <2>3. pc \in [Txns -> {"idle", "logged", "applied", "done", "aborted", "failed"}]
    BY DEF Init
  <2>4. store \in [balances : SUBSET Txns, ckpt : Nat]
    BY <2>1
  <2>5. ckpt \in [pc : {"idle", "snapped", "stored", "read", "marked"}, snap : SUBSET Txns, last : Nat]
    BY <2>1
  <2>6. broken \in BOOLEAN /\ proc \in {"up", "down", "refused"} /\ ledger \subseteq Txns
    BY <2>1, Zenon
  <2>7. durable \in 0 .. Len(file) /\ nextLogID \in Nat
    BY <2>1, <2>2
  <2> QED BY <2>2, <2>3, <2>4, <2>5, <2>6, <2>7 DEF TypeInv
<1>2. FaultInv
  BY WALAssumption DEF Init, FaultInv
<1> QED BY <1>1, <1>2

\* Every step keeps the types and only lowers the budget.
LEMMA StepTypes ==
  ASSUME TypeInv, FaultInv, [Next]_vars
  PROVE  TypeInv' /\ Calm
<1>0. /\ file \in Seq(Lines) /\ durable \in 0 .. Len(file) /\ Len(file) \in Nat
      /\ nextLogID \in Nat /\ broken \in BOOLEAN
      /\ proc \in {"up", "down", "refused"} /\ ledger \subseteq Txns
      /\ pc \in [Txns -> {"idle", "logged", "applied", "done", "aborted", "failed"}]
      /\ store \in [balances : SUBSET Txns, ckpt : Nat]
      /\ ckpt \in [pc : {"idle", "snapped", "stored", "read", "marked"}, snap : SUBSET Txns, last : Nat]
  BY DEF TypeInv
<1>n. NoCheckpoint \in [pc : {"idle", "snapped", "stored", "read", "marked"}, snap : SUBSET Txns, last : Nat]
  BY DEF NoCheckpoint
<1>1. ASSUME NEW t \in Txns, AppendOp(t) PROVE TypeInv' /\ Calm
  <2>1. Record("op", t) \in Lines
    BY RecordIsLine DEF Kinds
  <2>2. /\ file' \in Seq(Lines) /\ durable' \in 0 .. Len(file')
        /\ nextLogID' \in Nat /\ broken' \in BOOLEAN /\ Calm
    BY <2>1, <1>1, FileTypes DEF AppendOp
  <2> QED BY <1>0, <1>1, <2>2, Zenon DEF AppendOp, TypeInv
<1>2. ASSUME NEW t \in Txns, Apply(t) PROVE TypeInv' /\ Calm
  <2>1. Calm
    BY <1>2, FaultsSame DEF Apply, walVars
  <2> QED BY <1>0, <1>2, <2>1 DEF Apply, TypeInv, walVars
<1>3. ASSUME NEW t \in Txns, MarkCommitted(t) PROVE TypeInv' /\ Calm
  <2>1. Record("committed", t) \in Lines
    BY RecordIsLine DEF Kinds
  <2>2. /\ file' \in Seq(Lines) /\ durable' \in 0 .. Len(file')
        /\ nextLogID' \in Nat /\ broken' \in BOOLEAN /\ Calm
    BY <2>1, <1>3, FileTypes DEF MarkCommitted
  <2> QED BY <1>0, <1>3, <2>2 DEF MarkCommitted, TypeInv
<1>4. ASSUME NEW t \in Txns, MarkAborted(t) PROVE TypeInv' /\ Calm
  <2>1. Record("aborted", t) \in Lines
    BY RecordIsLine DEF Kinds
  <2>2. /\ file' \in Seq(Lines) /\ durable' \in 0 .. Len(file')
        /\ nextLogID' \in Nat /\ broken' \in BOOLEAN /\ Calm
    BY <2>1, <1>4, FileTypes DEF MarkAborted
  <2> QED BY <1>0, <1>4, <2>2, Zenon DEF MarkAborted, TypeInv
<1>5. CASE Snapshot
  <2>1. Calm
    BY <1>5, FaultsLess DEF Snapshot, WALFaultKinds
  <2>2. [NoCheckpoint EXCEPT !.pc = "snapped", !.snap = ledger]
          \in [pc : {"idle", "snapped", "stored", "read", "marked"}, snap : SUBSET Txns, last : Nat]
    BY <1>0, Zenon DEF NoCheckpoint
  <2> QED BY <1>0, <1>5, <2>1, <2>2 DEF Snapshot, TypeInv
<1>6. CASE BatchSetBalances
  <2>1. Calm
    BY <1>6, FaultsSame, FaultsLess DEF BatchSetBalances, walVars, WALFaultKinds
  <2>2. /\ [store EXCEPT !.balances = ckpt.snap] \in [balances : SUBSET Txns, ckpt : Nat]
        /\ [ckpt EXCEPT !.pc = "stored"]
             \in [pc : {"idle", "snapped", "stored", "read", "marked"}, snap : SUBSET Txns, last : Nat]
    BY <1>0
  <2> QED BY <1>0, <1>n, <1>6, <2>1, <2>2 DEF BatchSetBalances, TypeInv, walVars
<1>7. CASE NextLogID
  <2>1. Calm
    BY <1>7, FaultsSame DEF NextLogID, walVars
  <2>2. [ckpt EXCEPT !.pc = "read", !.last = nextLogID]
          \in [pc : {"idle", "snapped", "stored", "read", "marked"}, snap : SUBSET Txns, last : Nat]
    BY <1>0, Zenon
  <2> QED BY <1>0, <1>7, <2>1, <2>2 DEF NextLogID, TypeInv, walVars
<1>8. CASE WriteCheckpoint
  <2>1. Record("checkpoint", NoTxn) \in Lines
    BY RecordIsLine DEF Kinds
  <2>2. /\ file' \in Seq(Lines) /\ durable' \in 0 .. Len(file')
        /\ nextLogID' \in Nat /\ broken' \in BOOLEAN /\ Calm
    BY <2>1, <1>8, FileTypes DEF WriteCheckpoint
  <2>3. [ckpt EXCEPT !.pc = "marked"]
          \in [pc : {"idle", "snapped", "stored", "read", "marked"}, snap : SUBSET Txns, last : Nat]
    BY <1>0
  <2> QED BY <1>0, <1>n, <1>8, <2>2, <2>3, Zenon DEF WriteCheckpoint, TypeInv
<1>9. CASE SetCheckpointLogID
  <2>1. Calm
    BY <1>9, FaultsSame, FaultsLess DEF SetCheckpointLogID, walVars, WALFaultKinds
  <2>2. [store EXCEPT !.ckpt = ckpt.last] \in [balances : SUBSET Txns, ckpt : Nat]
    BY <1>0
  <2> QED BY <1>0, <1>n, <1>9, <2>1, <2>2 DEF SetCheckpointLogID, TypeInv, walVars
<1>10. CASE Truncate
  <2>1. CASE \E k \in 1 .. Len(file) + 1 : Keeps(k)
    <3>1. /\ file' \in Seq(Lines) /\ durable' \in 0 .. Len(file')
          /\ nextLogID' = nextLogID /\ broken' = broken /\ faults' = faults
      BY <2>1 DEF Keeps
    <3> QED BY <1>0, <1>10, <3>1, FaultsSame DEF Truncate, TypeInv
  <2>2. CASE Fault("truncate") /\ broken' = TRUE /\ UNCHANGED <<file, durable, nextLogID>>
    <3>1. Calm
      BY <2>2, FaultsLess DEF WALFaultKinds
    <3> QED BY <1>0, <1>10, <2>2, <3>1 DEF Truncate, TypeInv
  <2> QED BY <1>10, <2>1, <2>2, TruncateShape, Zenon
<1>11. CASE Crash
  <2>1. Calm /\ file' \in Seq(Lines)
    BY <1>11, CrashShape DEF Calm, Loses, Cuts, Grown
  <2>2. Len(file') \in Nat
    BY <2>1
  <2>3. pc' \in [Txns -> {"idle", "logged", "applied", "done", "aborted", "failed"}]
    BY <1>0, <1>11 DEF Crash
  <2>4. /\ durable' = Len(file') /\ proc' = "down" /\ broken' = FALSE /\ ledger' = {}
        /\ ckpt' = NoCheckpoint /\ nextLogID' = 0 /\ store' = store
    BY <1>11 DEF Crash
  <2>5. broken' \in BOOLEAN /\ proc' \in {"up", "down", "refused"} /\ ledger' \subseteq Txns
    BY <2>4, Zenon
  <2>6. durable' \in 0 .. Len(file') /\ nextLogID' \in Nat
    BY <2>2, <2>4
  <2>7. /\ store' \in [balances : SUBSET Txns, ckpt : Nat]
        /\ ckpt' \in [pc : {"idle", "snapped", "stored", "read", "marked"}, snap : SUBSET Txns, last : Nat]
    BY <1>0, <1>n, <2>4
  <2> QED BY <2>1, <2>3, <2>5, <2>6, <2>7 DEF TypeInv
<1>12. CASE Open
  <2>1. Calm
    BY <1>12, FaultsSame DEF Open
  <2>2. NextIDAfter(file) \in Nat
    <3>1. CASE file = <<>>
      BY <3>1 DEF NextIDAfter
    <3>2. CASE file # <<>>
      <4>1. file[Len(file)] \in Lines
        BY <3>2, <1>0
      <4>2. file[Len(file)].id \in Nat
        BY <4>1 DEF Lines
      <4> QED BY <3>2, <4>2 DEF NextIDAfter
    <3> QED BY <3>1, <3>2
  <2>3. Replayed(file) \subseteq Txns
    BY DEF Replayed
  <2> QED BY <1>0, <1>12, <2>1, <2>2, <2>3 DEF Open, TypeInv
<1>13. CASE UNCHANGED vars
  <2>1. Calm
    BY <1>13, FaultsSame DEF vars, walVars
  <2> QED BY <1>0, <1>13, <2>1 DEF TypeInv, vars, walVars
<1> QED BY <1>1, <1>2, <1>3, <1>4, <1>5, <1>6, <1>7, <1>8, <1>9, <1>10, <1>11, <1>12, <1>13
        DEF Next, Checkpoint, Idle

-----------------------------------------------------------------------------
(***************************************************************************)
(* What a step does to the file.                                           *)
(***************************************************************************)
Rests ==
  /\ file' = file /\ durable' = durable /\ nextLogID' = nextLogID /\ proc' = proc
  /\ broken => broken'

Writes ==
  /\ proc = "up" /\ proc' = "up"
  /\ \E l \in Lines : l.id = nextLogID /\ l.text = "line" /\ (Logs(l) \/ Fails(l))

Shortens ==
  /\ proc = "up" /\ proc' = "up" /\ store.ckpt > 0 /\ Decodes(file)
  /\ \E k \in 1 .. Len(file) + 1 : Keeps(k)

\* As far as the file goes, a step rests, writes, shortens, crashes or opens.
LEMMA StepShape ==
  ASSUME TypeInv, FaultInv, [Next]_vars
  PROVE  Rests \/ Writes \/ Shortens \/ Crash \/ Open
<1>1. ASSUME NEW kind \in Kinds, NEW t \in Txns \cup {NoTxn}, proc = "up", proc' = proc,
             WriteEntry(Record(kind, t)) \/ WriteEntryFails(Record(kind, t))
      PROVE  Writes
  BY <1>1, RecordIsLine, WriteShape DEF Writes
<1>2. ASSUME NEW t \in Txns, AppendOp(t) \/ MarkCommitted(t) \/ MarkAborted(t) PROVE Writes
  BY <1>1, <1>2 DEF AppendOp, MarkCommitted, MarkAborted, Kinds
<1>3. CASE WriteCheckpoint
  BY <1>1, <1>3 DEF WriteCheckpoint, Kinds
<1>4. CASE Truncate
  BY <1>4, TruncateShape, Zenon DEF Truncate, Shortens, Rests
<1>5. ASSUME NEW t \in Txns, Apply(t) PROVE Rests
  BY <1>5 DEF Apply, Rests, walVars
<1>6. CASE Snapshot \/ BatchSetBalances \/ NextLogID \/ SetCheckpointLogID \/ UNCHANGED vars
  BY <1>6 DEF Snapshot, BatchSetBalances, NextLogID, SetCheckpointLogID, Rests, vars, walVars
<1> QED BY <1>2, <1>3, <1>4, <1>5, <1>6 DEF Next, Checkpoint, Idle

-----------------------------------------------------------------------------
(***************************************************************************)
(* The order of the LogIDs.  They never decrease, and none is above the    *)
(* next one; without a failed fsync both hold strictly, until the writer   *)
(* breaks.                                                                 *)
(***************************************************************************)
Rising(f) == \A i, j \in 1 .. Len(f) : i < j => f[i].id <= f[j].id
UpTo(f, n) == \A i \in 1 .. Len(f) : f[i].id <= n
Increasing(f) == \A i, j \in 1 .. Len(f) : i < j => f[i].id < f[j].id
Under(f, n) == \A i \in 1 .. Len(f) : f[i].id < n

OrderInv ==
  /\ Rising(file)
  /\ proc = "up" => UpTo(file, nextLogID)
  /\ ~Happened({"fsync"}) => Increasing(file)
  /\ ~Happened({"fsync"}) /\ proc = "up" /\ ~broken => Under(file, nextLogID)

\* The lines of a file carry LogIDs.
LEMMA LineIDs ==
  ASSUME NEW f \in Seq(Lines)
  PROVE  Len(f) \in Nat /\ \A i \in 1 .. Len(f) : f[i] \in Lines /\ f[i].id \in Nat
<1>1. Len(f) \in Nat /\ \A i \in 1 .. Len(f) : f[i] \in Lines
  OBVIOUS
<1>2. \A l \in Lines : l.id \in Nat
  BY DEF Lines
<1> QED BY <1>1, <1>2

\* A line with an ID at or above the others keeps the file in order.
LEMMA GrownOrder ==
  ASSUME NEW f \in Seq(Lines), NEW g, NEW l \in Lines, Grown(f, g, l)
  PROVE  /\ Rising(f) /\ UpTo(f, l.id) => Rising(g) /\ UpTo(g, l.id)
         /\ Increasing(f) /\ Under(f, l.id) => Increasing(g) /\ UpTo(g, l.id)
<1>1. /\ g \in Seq(Lines) /\ Len(f) \in Nat /\ Len(g) \in Nat /\ l.id \in Nat
      /\ \A i \in 1 .. Len(f) : f[i].id \in Nat
      /\ \A i \in 1 .. Len(g) : g[i].id \in Nat
  <2>1. g \in Seq(Lines) /\ l.id \in Nat
    BY DEF Grown, Lines
  <2> QED BY <2>1, LineIDs
<1>2. /\ \A i \in 1 .. Len(f) : g[i].id = f[i].id
      /\ Len(g) = Len(f) \/ (Len(g) = Len(f) + 1 /\ g[Len(g)].id = l.id)
  BY DEF Grown
<1>3. \A i \in 1 .. Len(g) : i \in 1 .. Len(f) \/ (i = Len(g) /\ g[i].id = l.id)
  BY <1>1, <1>2
<1>4. ASSUME Rising(f), UpTo(f, l.id) PROVE Rising(g) /\ UpTo(g, l.id)
  <2>1. UpTo(g, l.id)
    BY <1>1, <1>2, <1>3, <1>4 DEF UpTo
  <2>2. Rising(g)
    BY <1>1, <1>2, <1>3, <1>4, <2>1 DEF UpTo, Rising
  <2> QED BY <2>1, <2>2
<1>5. ASSUME Increasing(f), Under(f, l.id) PROVE Increasing(g) /\ UpTo(g, l.id)
  <2>1. UpTo(g, l.id)
    BY <1>1, <1>2, <1>3, <1>5 DEF UpTo, Under
  <2>2. Increasing(g)
    BY <1>1, <1>2, <1>3, <1>5 DEF Under, Increasing
  <2> QED BY <2>1, <2>2
<1> QED BY <1>4, <1>5

\* An event that has happened has happened for good.
LEMMA StillHappened ==
  ASSUME FaultInv, Calm, NEW ks \in SUBSET WALFaultKinds
  PROVE  ~Happened(ks)' => ~Happened(ks)
BY WALAssumption DEF FaultInv, Calm, Happened

\* LogIDs stay in order through every step.
LEMMA StepOrder ==
  ASSUME TypeInv, FaultInv, Calm, TypeInv', OrderInv,
         Rests \/ Writes \/ Shortens \/ Crash \/ Open
  PROVE  OrderInv'
<1>0. /\ file \in Seq(Lines) /\ file' \in Seq(Lines) /\ nextLogID \in Nat
      /\ Len(file) \in Nat /\ \A i \in 1 .. Len(file) : file[i].id \in Nat
      /\ Len(file') \in Nat /\ \A i \in 1 .. Len(file') : file'[i].id \in Nat
  <2>1. file \in Seq(Lines) /\ file' \in Seq(Lines) /\ nextLogID \in Nat
    BY DEF TypeInv
  <2> QED BY <2>1, LineIDs
<1>h. ~Happened({"fsync"})' => ~Happened({"fsync"})
  BY StillHappened DEF WALFaultKinds
<1>1. CASE Rests
  BY <1>0, <1>1, <1>h DEF Rests, OrderInv, Rising, UpTo, Increasing, Under
<1>2. CASE Writes
  <2>1. PICK l \in Lines : l.id = nextLogID /\ l.text = "line" /\ (Logs(l) \/ Fails(l))
    BY <1>2 DEF Writes
  <2>2. CASE Logs(l)
    <3>1. Grown(file, file', l) /\ ~broken /\ nextLogID' = nextLogID + 1
      BY <2>2 DEF Logs
    <3>2. Rising(file') /\ UpTo(file', nextLogID)
      BY <3>1, <2>1, <1>0, <1>2, GrownOrder DEF OrderInv, Writes
    <3>3. ~Happened({"fsync"})' => Increasing(file')
      BY <3>1, <2>1, <1>0, <1>2, <1>h, GrownOrder DEF OrderInv, Writes
    <3>4. UpTo(file', nextLogID') /\ Under(file', nextLogID')
      BY <3>1, <3>2, <1>0 DEF UpTo, Under
    <3> QED BY <3>2, <3>3, <3>4 DEF OrderInv, Rising, UpTo, Increasing, Under
  <2>3. CASE Fails(l) /\ file' = file /\ broken'
    <3>1. nextLogID' = nextLogID /\ proc' = proc
      BY <2>3, <1>2 DEF Fails, Writes
    <3> QED BY <2>3, <3>1, <1>h DEF OrderInv, Rising, UpTo, Increasing
  <2>4. CASE Fails(l) /\ ~broken /\ Grown(file, file', l) /\ ~broken' /\ Happened({"fsync"})'
    <3>1. Rising(file') /\ UpTo(file', nextLogID)
      BY <2>4, <2>1, <1>0, <1>2, GrownOrder DEF OrderInv, Writes
    <3> QED BY <3>1, <2>4 DEF Fails, OrderInv, Rising, UpTo, Happened
  <2>5. CASE Fails(l) /\ ~broken /\ broken' /\ \E x \in {"bare", "torn"} : Grown(file, file', [l EXCEPT !.text = x])
    <3>1. PICK x \in {"bare", "torn"} : Grown(file, file', [l EXCEPT !.text = x])
      BY <2>5
    <3>2. [l EXCEPT !.text = x] \in Lines /\ [l EXCEPT !.text = x].id = nextLogID
      <4>1. x \in Texts
        BY DEF Texts
      <4> QED BY <4>1, <2>1, Retexted
    <3>3. Rising(file') /\ UpTo(file', nextLogID) /\ (~Happened({"fsync"})' => Increasing(file'))
      BY <3>1, <3>2, <2>5, <1>0, <1>2, <1>h, GrownOrder, Zenon DEF OrderInv, Writes
    <3>4. nextLogID' = nextLogID /\ broken'
      BY <2>5 DEF Fails
    <3> QED BY <3>3, <3>4 DEF OrderInv, Rising, UpTo, Increasing
  <2> QED BY <2>1, <2>2, <2>3, <2>4, <2>5 DEF Fails
<1>3. CASE Shortens
  <2>1. PICK k \in 1 .. Len(file) + 1 : Keeps(k)
    BY <1>3 DEF Shortens
  <2>2. Len(file') = Len(file) - k + 1 /\ nextLogID' = nextLogID /\ broken' = broken /\ proc = "up"
    BY <2>1, <1>3 DEF Keeps, Shortens
  <2>3. \A i \in 1 .. Len(file') : i + k - 1 \in 1 .. Len(file) /\ file'[i].id = file[i + k - 1].id
    <3>1. \A i \in 1 .. Len(file') : i + k - 1 \in 1 .. Len(file)
      BY <2>1, <2>2, <1>0
    <3>2. \A i \in 1 .. Len(file') : file'[i].id = file[i + k - 1].id
      BY <2>1 DEF Keeps
    <3> QED BY <3>1, <3>2
  <2>4. UpTo(file', nextLogID)
    BY <2>2, <2>3, <1>0, Zenon DEF OrderInv, UpTo
  <2>a. \A i, j \in 1 .. Len(file') : i < j => i + k - 1 < j + k - 1
    BY <2>1, <1>0
  <2>b. Rising(file')
    <3>1. Rising(file)
      BY DEF OrderInv
    <3> QED BY <2>3, <2>a, <3>1, Zenon DEF Rising
  <2>5. ~Happened({"fsync"})' => Increasing(file')
    <3>1. ~Happened({"fsync"})' => Increasing(file)
      BY <1>h DEF OrderInv
    <3> QED BY <2>3, <2>a, <3>1, Zenon DEF Increasing
  <2>6. ~Happened({"fsync"})' /\ ~broken => Under(file', nextLogID)
    BY <2>2, <2>3, <1>0, <1>h, Zenon DEF OrderInv, Under
  <2> QED BY <2>2, <2>4, <2>b, <2>5, <2>6 DEF OrderInv, Rising, UpTo, Increasing, Under
<1>4. CASE Crash
  <2>1. proc = "up" /\ proc' = "down"
    BY <1>4 DEF Crash
  <2>2. ASSUME NEW k \in Nat, Loses(k) PROVE Rising(file') /\ (~Happened({"fsync"})' => Increasing(file'))
    <3>1. /\ k <= Len(file) /\ Len(file') = k /\ 1 .. k \subseteq 1 .. Len(file)
          /\ \A i \in 1 .. k : file'[i] = file[i]
      BY <2>2, <1>0 DEF Loses
    <3>2. Rising(file) /\ (~Happened({"fsync"})' => Increasing(file))
      BY <1>h DEF OrderInv
    <3> QED BY <3>1, <3>2 DEF Rising, Increasing
  <2>3. ASSUME NEW l \in Lines, Cuts(l) PROVE Rising(file') /\ (~Happened({"fsync"})' => Increasing(file'))
    BY <2>1, <2>3, <1>0, <1>h, GrownOrder DEF Cuts, OrderInv
  <2> QED BY <1>4, <2>1, <2>2, <2>3, CrashShape DEF OrderInv, Rising, Increasing
<1>5. CASE Open
  <2>1. file' = file
    BY <1>5 DEF Open
  <2>2. ASSUME proc' = "up" PROVE UpTo(file, nextLogID') /\ Under(file, nextLogID')
    <3>1. nextLogID' = NextIDAfter(file)
      BY <1>5, <2>2 DEF Open
    <3>2. ASSUME NEW i \in 1 .. Len(file) PROVE file[i].id <= file[Len(file)].id /\ file # <<>>
      BY <1>0 DEF OrderInv, Rising
    <3> QED BY <3>1, <3>2, <1>0 DEF UpTo, Under, NextIDAfter
  <2> QED BY <2>1, <2>2, <1>h DEF OrderInv, Rising, UpTo, Increasing, Under
<1> QED BY <1>1, <1>2, <1>3, <1>4, <1>5

-----------------------------------------------------------------------------
(***************************************************************************)
(* A file whose writes all ended has whole lines only.                     *)
(***************************************************************************)
Whole(f) == \A i \in 1 .. Len(f) : f[i].text = "line"

RestartInv == ~Happened({"cut", "flush"}) => Whole(file) /\ proc # "refused"

\* A whole line added to a file of whole lines leaves it whole.
LEMMA GrownWhole ==
  ASSUME NEW f \in Seq(Lines), NEW g, NEW l \in Lines, Grown(f, g, l), l.text = "line", Whole(f)
  PROVE  Whole(g)
<1>1. Len(f) \in Nat /\ g \in Seq(Lines) /\ Len(g) \in Nat
  BY DEF Grown
<1>2. ~(Len(g) = Len(f) /\ Len(g) > 0 /\ f[Len(f)].text = "bare")
  BY <1>1 DEF Whole
<1>3. Len(g) = Len(f) + 1 /\ g[Len(g)] = l /\ \A i \in 1 .. Len(f) : g[i] = f[i]
  BY <1>2 DEF Grown
<1>4. \A i \in 1 .. Len(g) : i \in 1 .. Len(f) \/ i = Len(g)
  BY <1>1, <1>3
<1> QED BY <1>3, <1>4 DEF Whole

\* Without cut writes and failed flushes the file stays readable for NewWAL.
LEMMA StepRestart ==
  ASSUME TypeInv, FaultInv, Calm, RestartInv,
         Rests \/ Writes \/ Shortens \/ Crash \/ Open
  PROVE  RestartInv'
<1> SUFFICES ASSUME ~Happened({"cut", "flush"})' PROVE Whole(file') /\ proc' # "refused"
  BY DEF RestartInv, Whole
<1>0. file \in Seq(Lines)
  BY DEF TypeInv
<1>h. ~Happened({"cut"})' /\ ~Happened({"flush"})'
  BY DEF Happened
<1>w. Whole(file) /\ proc # "refused"
  BY StillHappened DEF RestartInv, WALFaultKinds
<1>1. CASE Rests
  BY <1>1, <1>w DEF Rests
<1>2. CASE Writes
  <2>1. PICK l \in Lines : l.text = "line" /\ (Logs(l) \/ Fails(l))
    BY <1>2 DEF Writes
  <2>2. file' = file \/ Grown(file, file', l)
    BY <2>1, <1>h DEF Logs, Fails
  <2> QED BY <1>0, <1>2, <1>w, <2>1, <2>2, GrownWhole DEF Writes
<1>3. CASE Shortens
  BY <1>3 DEF Shortens, Keeps, Whole
<1>4. CASE Crash
  <2>1. proc' = "down"
    BY <1>4 DEF Crash
  <2>2. ASSUME NEW k \in Nat, Loses(k) PROVE Whole(file')
    <3>1. 1 .. k \subseteq 1 .. Len(file) /\ Len(file') = k /\ \A i \in 1 .. k : file'[i] = file[i]
      BY <2>2, <1>0 DEF Loses
    <3> QED BY <3>1, <1>w DEF Whole
  <2>3. ASSUME NEW l \in Lines, Cuts(l) PROVE Whole(file')
    BY <2>3, <1>0, <1>h, <1>w, GrownWhole DEF Cuts
  <2> QED BY <1>4, <2>1, <2>2, <2>3, CrashShape
<1>5. CASE Open
  <2>1. Decodes(file)
    BY <1>0, <1>w DEF Decodes, Whole
  <2> QED BY <1>5, <1>w, <2>1 DEF Open
<1> QED BY <1>1, <1>2, <1>3, <1>4, <1>5

-----------------------------------------------------------------------------
(***************************************************************************)
(* The durable part of the file has a line at or above every checkpoint,   *)
(* or a line that stops NewShardServer.                                    *)
(***************************************************************************)
Covers(f, d, n) == \E i \in 1 .. d : f[i].id >= n \/ f[i].text = "torn"

CkptInv ==
  /\ store.ckpt > 0 => Covers(file, durable, store.ckpt)
  /\ ckpt.pc # "idle" => proc = "up"
  /\ ckpt.pc = "read" => nextLogID >= ckpt.last
  /\ ckpt.pc = "marked" => nextLogID > ckpt.last /\ Covers(file, durable, ckpt.last)
  /\ NewIDsAboveCheckpoint

\* A file that reaches up to a LogID still does with one more line.
LEMMA GrownCovers ==
  ASSUME NEW f \in Seq(Lines), NEW g, NEW l \in Lines, Grown(f, g, l),
         NEW d \in 0 .. Len(f), NEW e \in Nat, d <= e, NEW n \in Nat
  PROVE  /\ Covers(f, d, n) => Covers(g, e, n)
         /\ n <= l.id => Covers(g, Len(g), n)
<1>1. Len(f) \in Nat /\ g \in Seq(Lines) /\ Len(g) \in Nat /\ l.id \in Nat
  BY DEF Grown, Lines
<1>2. \A i \in 1 .. d : i \in 1 .. Len(f) /\ i \in 1 .. e
  BY <1>1
<1>3. Covers(f, d, n) => Covers(g, e, n)
  <2>1. \A i \in 1 .. Len(f) : g[i].id = f[i].id /\ (f[i].text = "torn" => g[i].text = "torn")
    BY DEF Grown
  <2> QED BY <1>2, <2>1 DEF Covers
<1>4. ASSUME n <= l.id PROVE Covers(g, Len(g), n)
  <2>1. Len(g) \in 1 .. Len(g)
    BY <1>1 DEF Grown
  <2>2. g[Len(g)].id >= n \/ g[Len(g)].text = "torn"
    BY <1>1, <1>4 DEF Grown
  <2> QED BY <2>1, <2>2 DEF Covers
<1> QED BY <1>3, <1>4

\* No step but a truncation takes a line from the durable part, and no
\* running shard goes back with nextLogID.
LEMMA CoversStep ==
  ASSUME TypeInv, FaultInv, TypeInv', NEW n \in Nat, Covers(file, durable, n),
         Rests \/ Writes \/ Crash \/ Open
  PROVE  Covers(file', durable', n)
<1>0. file \in Seq(Lines) /\ durable \in 0 .. Len(file) /\ Len(file) \in Nat
      /\ durable' \in Nat /\ file' \in Seq(Lines)
  BY DEF TypeInv
<1>1. CASE Rests \/ Open
  BY <1>1 DEF Rests, Open
<1>2. CASE Writes
  <2>1. PICK l \in Lines : Logs(l) \/ Fails(l)
    BY <1>2 DEF Writes
  <2>2. durable <= durable'
    BY <1>0, <2>1 DEF Logs, Fails, Grown
  <2>3. file' = file \/ Grown(file, file', l) \/ \E x \in {"bare", "torn"} : Grown(file, file', [l EXCEPT !.text = x])
    BY <2>1 DEF Logs, Fails
  <2>4. \A x \in {"bare", "torn"} : [l EXCEPT !.text = x] \in Lines
    BY Retexted, Zenon DEF Texts
  <2>5. CASE file' = file
    BY <2>5, <2>2, <1>0 DEF Covers
  <2> QED BY <1>0, <2>2, <2>3, <2>4, <2>5, GrownCovers
<1>3. CASE Crash
  <2>1. durable' = Len(file')
    BY <1>3 DEF Crash
  <2>2. ASSUME NEW k \in Nat, Loses(k) PROVE Covers(file', durable', n)
    <3>1. 1 .. durable \subseteq 1 .. k /\ Len(file') = k /\ \A i \in 1 .. k : file'[i] = file[i]
      BY <2>2, <1>0 DEF Loses
    <3> QED BY <3>1, <2>1 DEF Covers
  <2>3. ASSUME NEW l \in Lines, Cuts(l) PROVE Covers(file', durable', n)
    <3>1. Grown(file, file', l)
      BY <2>3 DEF Cuts
    <3>2. durable <= Len(file')
      BY <1>0, <3>1 DEF Grown
    <3> QED BY <1>0, <2>1, <3>1, <3>2, GrownCovers
  <2> QED BY <1>3, <2>2, <2>3, CrashShape
<1> QED BY <1>1, <1>2, <1>3

\* While the shard runs, nextLogID never goes back.
LEMMA NextIDStep ==
  ASSUME TypeInv, Rests \/ Writes \/ Shortens
  PROVE  nextLogID' >= nextLogID /\ nextLogID \in Nat /\ nextLogID' \in Nat /\ proc' = proc
<1>0. nextLogID \in Nat
  BY DEF TypeInv
<1>1. (nextLogID' = nextLogID \/ nextLogID' = nextLogID + 1) /\ proc' = proc
  <2>1. CASE Rests
    BY <2>1 DEF Rests
  <2>2. CASE Writes
    BY <2>2 DEF Writes, Logs, Fails
  <2>3. CASE Shortens
    BY <2>3 DEF Shortens, Keeps
  <2> QED BY <2>1, <2>2, <2>3
<1> QED BY <1>0, <1>1

\* What Truncate keeps still covers the checkpoint it was called for.
LEMMA ShortensCovers ==
  ASSUME TypeInv, TypeInv', Shortens, Covers(file, durable, store.ckpt)
  PROVE  /\ Covers(file', durable', store.ckpt) /\ durable' >= 1
         /\ file' # <<>> /\ file'[1].id >= store.ckpt
<1>0. /\ file \in Seq(Lines) /\ durable \in 0 .. Len(file) /\ Len(file) \in Nat
      /\ file' \in Seq(Lines) /\ Len(file') \in Nat /\ store.ckpt \in Nat
  BY DEF TypeInv
<1>1. PICK k \in 1 .. Len(file) + 1 : Keeps(k)
  BY DEF Shortens
<1>2. PICK i \in 1 .. durable : file[i].id >= store.ckpt
  BY <1>0 DEF Covers, Shortens, Decodes
<1>3. i \in 1 .. Len(file) /\ file[i].id \in Nat
  BY <1>0, LineIDs
<1>4. i >= k
  <2>1. \A j \in 1 .. k - 1 : file[j].id < store.ckpt
    BY <1>1 DEF Keeps, ReadFrom
  <2>2. ~(file[i].id < store.ckpt)
    BY <1>0, <1>2, <1>3
  <2>3. i \notin 1 .. k - 1
    BY <2>1, <2>2
  <2> QED BY <1>0, <1>3, <2>3
<1>5. Len(file') = Len(file) - k + 1 /\ durable' = Len(file')
  BY <1>1 DEF Keeps
<1>6. 1 \in 1 .. Len(file')
  BY <1>0, <1>3, <1>4, <1>5
<1>7. file'[1].id = file[1 + k - 1].id
  BY <1>1, <1>6 DEF Keeps
<1>8. file[k].id >= store.ckpt
  <2>1. k \in k .. Len(file)
    BY <1>0, <1>1, <1>3, <1>4
  <2> QED BY <1>1, <2>1 DEF Keeps, ReadFrom
<1>9. file'[1].id >= store.ckpt
  BY <1>7, <1>8, <1>1, <1>0
<1> QED BY <1>0, <1>5, <1>6, <1>9 DEF Covers

\* The durable lines keep covering the checkpoint in the JSON store.
LEMMA StepCkpt ==
  ASSUME TypeInv, FaultInv, TypeInv', OrderInv, CkptInv, [Next]_vars
  PROVE  CkptInv'
<1>0. /\ store \in [balances : SUBSET Txns, ckpt : Nat] /\ nextLogID \in Nat
      /\ ckpt \in [pc : {"idle", "snapped", "stored", "read", "marked"}, snap : SUBSET Txns, last : Nat]
      /\ store.ckpt \in Nat /\ ckpt.last \in Nat
  BY DEF TypeInv
<1>1. /\ store.ckpt > 0 => Covers(file, durable, store.ckpt)
      /\ ckpt.pc # "idle" => proc = "up"
      /\ ckpt.pc = "read" => nextLogID >= ckpt.last
      /\ ckpt.pc = "marked" => nextLogID > ckpt.last /\ Covers(file, durable, ckpt.last)
      /\ proc = "up" /\ store.ckpt > 0 => nextLogID > store.ckpt
  BY DEF CkptInv, NewIDsAboveCheckpoint
<1> SUFFICES
      /\ store'.ckpt > 0 => Covers(file', durable', store'.ckpt)
      /\ ckpt'.pc # "idle" => proc' = "up"
      /\ ckpt'.pc = "read" => nextLogID' >= ckpt'.last
      /\ ckpt'.pc = "marked" => nextLogID' > ckpt'.last /\ Covers(file', durable', ckpt'.last)
      /\ proc' = "up" /\ store'.ckpt > 0 => nextLogID' > store'.ckpt
  BY DEF CkptInv, NewIDsAboveCheckpoint, Covers
<1>2. CASE UNCHANGED <<store, ckpt>> /\ (Rests \/ Writes)
  BY <1>0, <1>1, <1>2, CoversStep, NextIDStep
<1>3. CASE Truncate /\ Shortens
  <2>1. ckpt.pc = "idle" /\ UNCHANGED <<store, ckpt>> /\ proc' = proc /\ store.ckpt > 0
    BY <1>3 DEF Truncate
  <2> QED BY <1>0, <1>1, <1>3, <2>1, ShortensCovers, NextIDStep
<1>4. CASE Snapshot
  <2>1. ckpt'.pc = "snapped" /\ store' = store /\ Rests /\ proc = "up"
    BY <1>4 DEF Snapshot, Rests, NoCheckpoint
  <2> QED BY <1>0, <1>1, <2>1, CoversStep, NextIDStep
<1>5. CASE BatchSetBalances
  <2>1. ckpt'.pc \in {"stored", "idle"} /\ store'.ckpt = store.ckpt /\ Rests /\ proc = "up"
    BY <1>0, <1>5 DEF BatchSetBalances, Rests, NoCheckpoint, walVars
  <2> QED BY <1>0, <1>1, <2>1, CoversStep, NextIDStep
<1>6. CASE NextLogID
  <2>1. ckpt'.pc = "read" /\ ckpt'.last = nextLogID /\ store' = store /\ Rests /\ proc = "up"
    BY <1>0, <1>6 DEF NextLogID, Rests, walVars
  <2> QED BY <1>0, <1>1, <2>1, CoversStep, NextIDStep
<1>7. CASE WriteCheckpoint
  <2> DEFINE l == Record("checkpoint", NoTxn)
  <2>1. l \in Lines /\ l.id = nextLogID /\ l.text = "line"
    BY RecordIsLine DEF Kinds
  <2> HIDE DEF l
  <2>2. store' = store /\ proc = "up" /\ proc' = "up" /\ ckpt.pc = "read"
    BY <1>7 DEF WriteCheckpoint
  <2>3. CASE WriteEntry(l) /\ ckpt' = [ckpt EXCEPT !.pc = "marked"]
    <3>1. ckpt'.pc = "marked" /\ ckpt'.last = ckpt.last
      BY <1>0, <2>3
    <3>2. Logs(l)
      BY <2>1, <2>3, WriteShape
    <3>3. Writes
      BY <2>1, <2>2, <3>2 DEF Writes
    <3>4. nextLogID' > ckpt.last
      BY <1>0, <1>1, <2>2, <3>2 DEF Logs
    <3>5. Covers(file', durable', ckpt.last)
      <4>1. Grown(file, file', l) /\ durable' = Len(file')
        BY <3>2 DEF Logs
      <4>2. file \in Seq(Lines) /\ 0 \in 0 .. Len(file) /\ 0 \in Nat
        BY DEF TypeInv
      <4>3. ckpt.last <= l.id
        BY <1>0, <1>1, <2>1, <2>2
      <4> QED BY <1>0, <2>1, <4>1, <4>2, <4>3, GrownCovers
    <3> QED BY <1>0, <1>1, <2>2, <3>1, <3>3, <3>4, <3>5, CoversStep, NextIDStep
  <2>4. CASE WriteEntryFails(l) /\ ckpt' = NoCheckpoint
    <3>1. ckpt'.pc = "idle"
      BY <2>4 DEF NoCheckpoint
    <3>2. Writes
      BY <2>1, <2>2, <2>4, WriteShape DEF Writes
    <3> QED BY <1>0, <1>1, <2>2, <3>1, <3>2, CoversStep, NextIDStep
  <2> QED BY <1>7, <2>3, <2>4 DEF WriteCheckpoint, l
<1>8. CASE SetCheckpointLogID
  <2>1. /\ ckpt'.pc = "idle" /\ store'.ckpt \in {store.ckpt, ckpt.last} /\ Rests /\ proc = "up"
        /\ ckpt.pc = "marked"
    BY <1>0, <1>8 DEF SetCheckpointLogID, Rests, NoCheckpoint, walVars
  <2> QED BY <1>0, <1>1, <2>1, CoversStep, NextIDStep
<1>9. CASE Crash
  <2>1. ckpt'.pc = "idle" /\ store' = store /\ proc' = "down"
    BY <1>9 DEF Crash, NoCheckpoint
  <2> QED BY <1>0, <1>1, <1>9, <2>1, CoversStep
<1>10. CASE Open
  <2>1. UNCHANGED <<store, ckpt, file, durable>> /\ proc = "down"
    BY <1>10 DEF Open
  <2>2. ASSUME proc' = "up", store.ckpt > 0 PROVE nextLogID' > store.ckpt
    <3>1. nextLogID' = NextIDAfter(file) /\ Decodes(file)
      BY <1>10, <2>2 DEF Open
    <3>2. file \in Seq(Lines) /\ Len(file) \in Nat /\ durable \in 0 .. Len(file)
      BY DEF TypeInv
    <3>3. PICK i \in 1 .. durable : file[i].id >= store.ckpt
      BY <1>1, <2>2, <3>1, <3>2 DEF Covers, Decodes
    <3>4. /\ i \in 1 .. Len(file) /\ file # <<>> /\ Len(file) \in 1 .. Len(file)
          /\ file[i].id \in Nat /\ file[Len(file)].id \in Nat
      BY <3>2, LineIDs
    <3>5. file[i].id <= file[Len(file)].id
      BY <3>2, <3>4 DEF OrderInv, Rising
    <3> QED BY <1>0, <3>1, <3>3, <3>4, <3>5 DEF NextIDAfter
  <2> QED BY <1>0, <1>1, <2>1, <2>2
<1>11. ASSUME NEW t \in Txns, AppendOp(t) \/ Apply(t) \/ MarkCommitted(t) \/ MarkAborted(t)
       PROVE  UNCHANGED <<store, ckpt>> /\ proc = "up" /\ proc' = "up"
  BY <1>11 DEF AppendOp, Apply, MarkCommitted, MarkAborted
<1>12. CASE Truncate /\ ~Shortens
  <2>1. UNCHANGED <<store, ckpt>> /\ Rests
    BY <1>12, TruncateShape, Zenon DEF Truncate, Shortens, Rests
  <2> QED BY <2>1, <1>2
<1>13. CASE UNCHANGED vars
  BY <1>2, <1>13 DEF vars, walVars, Rests
<1>14. ASSUME NEW t \in Txns, AppendOp(t) \/ Apply(t) \/ MarkCommitted(t) \/ MarkAborted(t)
       PROVE  Rests \/ Writes
  <2>1. CASE Apply(t)
    BY <2>1 DEF Apply, Rests, walVars
  <2>2. CASE AppendOp(t)
    BY <2>2, RecordIsLine, WriteShape DEF AppendOp, Writes, Kinds
  <2>3. CASE MarkCommitted(t)
    BY <2>3, RecordIsLine, WriteShape DEF MarkCommitted, Writes, Kinds
  <2>4. CASE MarkAborted(t)
    BY <2>4, RecordIsLine, WriteShape DEF MarkAborted, Writes, Kinds
  <2> QED BY <1>14, <2>1, <2>2, <2>3, <2>4
<1> QED BY <1>2, <1>3, <1>4, <1>5, <1>6, <1>7, <1>8, <1>9, <1>10, <1>11, <1>12, <1>13, <1>14, Zenon
        DEF Next, Checkpoint, Idle

-----------------------------------------------------------------------------
(***************************************************************************)
(* Only a transaction that was applied has a COMMITTED marker, and only    *)
(* one whose handler got that far is in the ledger.                        *)
(***************************************************************************)
OutInv ==
  /\ \A t \in Txns : Marked(file, t, "committed") => pc[t] \in {"done", "failed"}
  /\ \A t \in ledger : pc[t] \in {"applied", "done", "failed"}

\* A new marker in the file is that of the line just written.
LEMMA GrownMarked ==
  ASSUME NEW f \in Seq(Lines), NEW g, NEW l, Grown(f, g, l), NEW t, NEW kind, Marked(g, t, kind)
  PROVE  Marked(f, t, kind) \/ (l.kind = kind /\ l.txn = t)
<1>1. /\ g \in Seq(Lines) /\ Len(f) \in Nat /\ Len(g) \in Nat
      /\ DOMAIN f = 1 .. Len(f) /\ DOMAIN g = 1 .. Len(g)
  BY DEF Grown
<1>2. PICK i \in 1 .. Len(g) : g[i].kind = kind /\ g[i].txn = t
  BY <1>1 DEF Marked
<1>3. i \in 1 .. Len(f) \/ (i = Len(g) /\ g[i] = l)
  <2>1. Len(g) = Len(f) \/ (Len(g) = Len(f) + 1 /\ g[Len(g)] = l)
    BY DEF Grown
  <2>2. CASE Len(g) = Len(f)
    BY <2>2
  <2>3. CASE Len(g) = Len(f) + 1 /\ g[Len(g)] = l
    <3>1. i # Len(g) => i \in 1 .. Len(f)
      BY <1>1, <2>3
    <3> QED BY <2>3, <3>1
  <2> QED BY <2>1, <2>2, <2>3
<1>4. i \in 1 .. Len(f) => f[i].kind = kind /\ f[i].txn = t
  BY <1>2 DEF Grown
<1> QED BY <1>1, <1>2, <1>3, <1>4, Zenon DEF Marked

\* writeEntry marks no transaction as committed but its own.
LEMMA WriteMarks ==
  ASSUME TypeInv, FaultInv, NEW kind \in Kinds, NEW t \in Txns \cup {NoTxn},
         WriteEntry(Record(kind, t)) \/ WriteEntryFails(Record(kind, t)),
         NEW u, Marked(file', u, "committed")
  PROVE  Marked(file, u, "committed") \/ (kind = "committed" /\ u = t)
<1> DEFINE l == Record(kind, t)
<1>1. l \in Lines /\ l.kind = kind /\ l.txn = t
  BY RecordIsLine
<1>2. Logs(l) \/ Fails(l)
  BY <1>1, WriteShape
<1> HIDE DEF l
<1>3. file \in Seq(Lines)
  BY DEF TypeInv
<1>4. \A x \in {"bare", "torn"} : [l EXCEPT !.text = x].kind = kind /\ [l EXCEPT !.text = x].txn = t
  BY <1>1, Retexted DEF Texts
<1>5. file' = file \/ Grown(file, file', l) \/ \E x \in {"bare", "torn"} : Grown(file, file', [l EXCEPT !.text = x])
  BY <1>2 DEF Logs, Fails
<1>6. CASE file' = file
  BY <1>6
<1>7. CASE Grown(file, file', l)
  BY <1>1, <1>3, <1>7, GrownMarked
<1>8. ASSUME NEW x \in {"bare", "torn"}, Grown(file, file', [l EXCEPT !.text = x])
      PROVE  Marked(file, u, "committed") \/ (kind = "committed" /\ u = t)
  <2> DEFINE m == [l EXCEPT !.text = x]
  <2>1. m.kind = kind /\ m.txn = t /\ Grown(file, file', m)
    BY <1>4, <1>8
  <2> HIDE DEF m
  <2> QED BY <1>3, <2>1, GrownMarked
<1> QED BY <1>5, <1>6, <1>7, <1>8

\* No step writes a COMMITTED record for an aborted transaction.
LEMMA StepOut ==
  ASSUME TypeInv, FaultInv, OutInv, [Next]_vars
  PROVE  OutInv'
<1>0. /\ pc \in [Txns -> {"idle", "logged", "applied", "done", "aborted", "failed"}]
      /\ file \in Seq(Lines) /\ ledger \subseteq Txns
  BY DEF TypeInv
<1>i. /\ \A t \in Txns : Marked(file, t, "committed") => pc[t] \in {"done", "failed"}
      /\ \A t \in ledger : pc[t] \in {"applied", "done", "failed"}
  BY DEF OutInv
<1> SUFFICES /\ \A u \in Txns : Marked(file', u, "committed") => pc'[u] \in {"done", "failed"}
             /\ \A u \in ledger' : pc'[u] \in {"applied", "done", "failed"}
  BY DEF OutInv, Marked
<1>1. ASSUME NEW t \in Txns, AppendOp(t)
      PROVE  /\ \A u \in Txns : Marked(file', u, "committed") => pc'[u] \in {"done", "failed"}
             /\ \A u \in ledger' : pc'[u] \in {"applied", "done", "failed"}
  <2>1. \A u \in Txns : Marked(file', u, "committed") => Marked(file, u, "committed")
    BY <1>1, WriteMarks DEF AppendOp, Kinds
  <2> QED BY <1>0, <1>i, <1>1, <2>1 DEF AppendOp
<1>2. ASSUME NEW t \in Txns, Apply(t)
      PROVE  /\ \A u \in Txns : Marked(file', u, "committed") => pc'[u] \in {"done", "failed"}
             /\ \A u \in ledger' : pc'[u] \in {"applied", "done", "failed"}
  <2>1. file' = file /\ ledger' = ledger \cup {t} /\ pc[t] = "logged" /\ pc' = [pc EXCEPT ![t] = "applied"]
    BY <1>2 DEF Apply, walVars
  <2>2. pc'[t] = "applied" /\ \A u \in Txns : u # t => pc'[u] = pc[u]
    BY <1>0, <2>1
  <2>3. ~Marked(file, t, "committed")
    BY <1>i, <2>1
  <2> HIDE DEF Marked
  <2> QED BY <1>0, <1>i, <2>1, <2>2, <2>3
<1>3. ASSUME NEW t \in Txns, MarkCommitted(t)
      PROVE  /\ \A u \in Txns : Marked(file', u, "committed") => pc'[u] \in {"done", "failed"}
             /\ \A u \in ledger' : pc'[u] \in {"applied", "done", "failed"}
  <2>1. \A u \in Txns : Marked(file', u, "committed") => Marked(file, u, "committed") \/ u = t
    BY <1>3, WriteMarks DEF MarkCommitted, Kinds
  <2> QED BY <1>0, <1>i, <1>3, <2>1 DEF MarkCommitted
<1>4. ASSUME NEW t \in Txns, MarkAborted(t)
      PROVE  /\ \A u \in Txns : Marked(file', u, "committed") => pc'[u] \in {"done", "failed"}
             /\ \A u \in ledger' : pc'[u] \in {"applied", "done", "failed"}
  <2>1. \A u \in Txns : Marked(file', u, "committed") => Marked(file, u, "committed")
    BY <1>4, WriteMarks DEF MarkAborted, Kinds
  <2> QED BY <1>0, <1>i, <1>4, <2>1 DEF MarkAborted
<1>5. CASE WriteCheckpoint
  <2>1. \A u \in Txns : Marked(file', u, "committed") => Marked(file, u, "committed")
    BY <1>5, WriteMarks DEF WriteCheckpoint, Kinds
  <2> QED BY <1>i, <1>5, <2>1 DEF WriteCheckpoint
<1>6. CASE Snapshot \/ BatchSetBalances \/ NextLogID \/ SetCheckpointLogID \/ UNCHANGED vars
  <2>1. UNCHANGED <<file, pc, ledger>>
    BY <1>6 DEF Snapshot, BatchSetBalances, NextLogID, SetCheckpointLogID, vars, walVars
  <2> QED BY <1>i, <2>1
<1>7. CASE Truncate
  <2>1. UNCHANGED <<pc, ledger>>
    BY <1>7 DEF Truncate
  <2>2. ASSUME NEW u \in Txns, Marked(file', u, "committed") PROVE Marked(file, u, "committed")
    <3>1. CASE file' = file
      BY <2>2, <3>1
    <3>2. ASSUME NEW k \in 1 .. Len(file) + 1, Keeps(k) PROVE Marked(file, u, "committed")
      <4>1. /\ Len(file) \in Nat /\ DOMAIN file = 1 .. Len(file) /\ DOMAIN file' = 1 .. Len(file')
            /\ Len(file') = Len(file) - k + 1
        <5>1. file' \in Seq(Lines) /\ Len(file') = Len(file) - k + 1
          BY <3>2 DEF Keeps
        <5> QED BY <1>0, <5>1
      <4>2. PICK i \in 1 .. Len(file') : file'[i].kind = "committed" /\ file'[i].txn = u
        BY <2>2, <4>1 DEF Marked
      <4>3. i + k - 1 \in 1 .. Len(file)
        BY <4>1
      <4>4. file[i + k - 1].kind = "committed" /\ file[i + k - 1].txn = u
        BY <3>2, <4>2 DEF Keeps
      <4> QED BY <4>1, <4>3, <4>4 DEF Marked
    <3> QED BY <1>7, <3>1, <3>2, TruncateShape, Zenon
  <2> QED BY <1>i, <2>1, <2>2
<1>8. CASE Crash
  <2>1. \A u \in Txns : pc[u] \in {"done", "failed", "applied"} => pc'[u] \in {"done", "failed"}
    BY <1>0, <1>8 DEF Crash
  <2>2. ASSUME NEW k \in Nat, Loses(k), NEW u \in Txns, Marked(file', u, "committed")
        PROVE  Marked(file, u, "committed")
    <3>1. DOMAIN file' = 1 .. k /\ DOMAIN file = 1 .. Len(file) /\ 1 .. k \subseteq 1 .. Len(file)
      BY <1>0, <2>2 DEF Loses
    <3> QED BY <2>2, <3>1 DEF Loses, Marked
  <2>3. ASSUME NEW l \in Lines, Cuts(l), NEW u \in Txns, Marked(file', u, "committed")
        PROVE  Marked(file, u, "committed") \/ pc[u] = "applied"
    BY <1>0, <2>3, GrownMarked DEF Cuts
  <2>4. ledger' = {}
    BY <1>8 DEF Crash
  <2> QED BY <1>i, <1>8, <2>1, <2>2, <2>3, <2>4, CrashShape
<1>9. CASE Open
  <2>1. UNCHANGED <<file, pc>>
    BY <1>9 DEF Open
  <2>2. ledger' = ledger \/ ledger' = Replayed(file)
    BY <1>9 DEF Open
  <2>3. \A u \in Replayed(file) : u \in Txns /\ Marked(file, u, "committed")
    BY DEF Replayed
  <2> QED BY <1>i, <2>1, <2>2, <2>3
<1> QED BY <1>1, <1>2, <1>3, <1>4, <1>5, <1>6, <1>7, <1>8, <1>9 DEF Next, Checkpoint, Idle

-----------------------------------------------------------------------------
(***************************************************************************)
(* What a handler has logged is in the durable part of the file, or        *)
(* NewShardServer refuses the file, until a truncation.                    *)
(***************************************************************************)
Held(f, d, t, kind) == \E i \in 1 .. d : (f[i].kind = kind /\ f[i].txn = t) \/ f[i].text = "torn"

Cropped(f) == f # <<>> /\ f[1].id > 0

AckInv ==
  /\ \A t \in Txns : pc[t] \in {"logged", "applied", "done"} => durable >= 1
  /\ ~Cropped(file) => \A t \in Txns :
       /\ pc[t] \in {"logged", "applied", "done"} => Held(file, durable, t, "op")
       /\ pc[t] = "done" => Held(file, durable, t, "committed")
       /\ proc = "up" /\ pc[t] \in {"applied", "done"} => t \in ledger
  /\ proc # "up" => \A t \in Txns : pc[t] \notin {"logged", "applied"}

\* Records held by the durable lines are still held after a write.
LEMMA GrownHeld ==
  ASSUME NEW f \in Seq(Lines), NEW g, NEW l \in Lines, Grown(f, g, l),
         NEW d \in 0 .. Len(f), NEW e \in Nat, d <= e
  PROVE  /\ \A t, kind : Held(f, d, t, kind) => Held(g, e, t, kind)
         /\ Held(g, Len(g), l.txn, l.kind)
         /\ Cropped(f) => Cropped(g)
         /\ Len(g) >= 1
<1>1. Len(f) \in Nat /\ g \in Seq(Lines) /\ Len(g) \in Nat
  BY DEF Grown
<1>2. \A i \in 1 .. d : i \in 1 .. Len(f) /\ i \in 1 .. e
  BY <1>1
<1>3. \A i \in 1 .. Len(f) :
        /\ g[i].id = f[i].id /\ g[i].kind = f[i].kind /\ g[i].txn = f[i].txn
        /\ f[i].text = "torn" => g[i].text = "torn"
  BY DEF Grown
<1>4. \A t, kind : Held(f, d, t, kind) => Held(g, e, t, kind)
  BY <1>2, <1>3 DEF Held
<1>5. Len(g) >= 1 /\ Len(g) \in 1 .. Len(g)
  BY <1>1 DEF Grown
<1>6. Held(g, Len(g), l.txn, l.kind)
  BY <1>5 DEF Grown, Held
<1>7. Cropped(f) => Cropped(g)
  BY <1>1, <1>3, <1>5 DEF Cropped
<1> QED BY <1>4, <1>5, <1>6, <1>7

\* A write keeps what is held, and what it reports as written is held.
LEMMA WriteHeld ==
  ASSUME TypeInv, FaultInv, TypeInv', NEW kind \in Kinds, NEW t \in Txns \cup {NoTxn},
         WriteEntry(Record(kind, t)) \/ WriteEntryFails(Record(kind, t))
  PROVE  /\ \A u, k : Held(file, durable, u, k) => Held(file', durable', u, k)
         /\ WriteEntry(Record(kind, t)) => Held(file', durable', t, kind) /\ durable' >= 1
         /\ Cropped(file) => Cropped(file')
         /\ durable' >= durable
<1> DEFINE l == Record(kind, t)
<1>1. l \in Lines /\ l.kind = kind /\ l.txn = t
  BY RecordIsLine
<1>2. (WriteEntry(l) => Logs(l)) /\ (Logs(l) \/ Fails(l))
  BY <1>1, WriteShape
<1> HIDE DEF l
<1>3. file \in Seq(Lines) /\ durable \in 0 .. Len(file) /\ Len(file) \in Nat /\ durable' \in Nat
  BY DEF TypeInv
<1>4. durable' >= durable
  BY <1>2, <1>3 DEF Logs, Fails, Grown
<1>5. CASE Logs(l)
  <2>1. Grown(file, file', l) /\ durable' = Len(file')
    BY <1>5 DEF Logs
  <2>2. /\ \A u, k : Held(file, durable, u, k) => Held(file', durable', u, k)
        /\ Held(file', durable', l.txn, l.kind)
        /\ Cropped(file) => Cropped(file')
        /\ durable' >= 1
    BY <1>1, <1>3, <1>4, <2>1, GrownHeld
  <2> QED BY <1>1, <1>4, <2>2
<1>6. CASE Fails(l) /\ ~Logs(l)
  <2>1. durable' = durable
    BY <1>6 DEF Fails
  <2>2. CASE file' = file
    BY <1>2, <1>4, <1>6, <2>1, <2>2 DEF l
  <2>3. ASSUME NEW m \in Lines, Grown(file, file', m)
        PROVE  /\ \A u, k : Held(file, durable, u, k) => Held(file', durable', u, k)
               /\ Cropped(file) => Cropped(file')
    BY <1>3, <1>4, <2>3, GrownHeld
  <2>4. file' = file \/ \E m \in Lines : Grown(file, file', m)
    BY <1>1, <1>6, Retexted, Zenon DEF Fails, Texts
  <2>5. ~WriteEntry(l)
    BY <1>2, <1>6
  <2> QED BY <1>4, <2>2, <2>3, <2>4, <2>5 DEF l
<1> QED BY <1>2, <1>5, <1>6

\* A power failure takes nothing that is held.
LEMMA CrashHeld ==
  ASSUME TypeInv, FaultInv, TypeInv', Crash
  PROVE  /\ \A u, k : Held(file, durable, u, k) => Held(file', durable', u, k)
         /\ durable >= 1 => (Cropped(file) => Cropped(file'))
         /\ durable' >= durable
<1>0. /\ file \in Seq(Lines) /\ durable \in 0 .. Len(file) /\ Len(file) \in Nat
      /\ file' \in Seq(Lines) /\ Len(file') \in Nat /\ durable' = Len(file')
  BY DEF TypeInv, Crash
<1>1. ASSUME NEW k \in Nat, Loses(k)
      PROVE  /\ \A u, d : Held(file, durable, u, d) => Held(file', durable', u, d)
             /\ durable >= 1 => (Cropped(file) => Cropped(file'))
             /\ durable' >= durable
  <2>1. durable <= k /\ Len(file') = k /\ \A i \in 1 .. k : file'[i] = file[i]
    BY <1>0, <1>1 DEF Loses
  <2>2. 1 .. durable \subseteq 1 .. k
    BY <1>0, <2>1
  <2>3. \A u, d : Held(file, durable, u, d) => Held(file', durable', u, d)
    BY <1>0, <2>1, <2>2 DEF Held
  <2>4. durable >= 1 => 1 \in 1 .. k /\ file' # <<>>
    BY <1>0, <2>1
  <2>5. durable >= 1 => (Cropped(file) => Cropped(file'))
    BY <2>1, <2>4 DEF Cropped
  <2> QED BY <1>0, <2>1, <2>3, <2>5
<1>2. ASSUME NEW l \in Lines, Cuts(l)
      PROVE  /\ \A u, d : Held(file, durable, u, d) => Held(file', durable', u, d)
             /\ durable >= 1 => (Cropped(file) => Cropped(file'))
             /\ durable' >= durable
  <2>1. Grown(file, file', l)
    BY <1>2 DEF Cuts
  <2>2. durable <= Len(file')
    BY <1>0, <2>1 DEF Grown
  <2> QED BY <1>0, <2>1, <2>2, GrownHeld
<1> QED BY <1>1, <1>2, CrashShape, Zenon

\* The records behind an acknowledgement stay on disk and are replayed.
LEMMA StepAck ==
  ASSUME TypeInv, FaultInv, TypeInv', CkptInv, AckInv, [Next]_vars
  PROVE  AckInv'
<1> DEFINE Fine(t) ==
      /\ pc'[t] \in {"logged", "applied", "done"} => durable' >= 1
      /\ ~Cropped(file') =>
           /\ pc'[t] \in {"logged", "applied", "done"} => Held(file', durable', t, "op")
           /\ pc'[t] = "done" => Held(file', durable', t, "committed")
           /\ proc' = "up" /\ pc'[t] \in {"applied", "done"} => t \in ledger'
      /\ proc' # "up" => pc'[t] \notin {"logged", "applied"}
<1>0. /\ pc \in [Txns -> {"idle", "logged", "applied", "done", "aborted", "failed"}]
      /\ file \in Seq(Lines) /\ ledger \subseteq Txns
      /\ durable \in Nat /\ durable' \in Nat
  BY DEF TypeInv
<1>i. ASSUME NEW t \in Txns
      PROVE /\ pc[t] \in {"logged", "applied", "done"} => durable >= 1
            /\ ~Cropped(file) =>
                 /\ pc[t] \in {"logged", "applied", "done"} => Held(file, durable, t, "op")
                 /\ pc[t] = "done" => Held(file, durable, t, "committed")
                 /\ proc = "up" /\ pc[t] \in {"applied", "done"} => t \in ledger
            /\ proc # "up" => pc[t] \notin {"logged", "applied"}
  BY DEF AckInv
<1> SUFFICES \A t \in Txns : Fine(t)
  BY Zenon DEF AckInv, Cropped, Held
<1>1. ASSUME NEW t \in Txns, AppendOp(t), NEW u \in Txns PROVE Fine(u)
  <2>1. /\ \A v, k : Held(file, durable, v, k) => Held(file', durable', v, k)
        /\ WriteEntry(Record("op", t)) => Held(file', durable', t, "op") /\ durable' >= 1
        /\ Cropped(file) => Cropped(file')
        /\ durable' >= durable
    BY <1>1, WriteHeld DEF AppendOp, Kinds
  <2>2. proc = "up" /\ proc' = "up" /\ ledger' = ledger /\ pc[t] = "idle"
    BY <1>1 DEF AppendOp
  <2>3. CASE u # t
    <3>1. pc'[u] = pc[u]
      BY <1>0, <1>1, <2>3 DEF AppendOp
    <3> QED BY <1>0, <1>i, <2>1, <2>2, <3>1
  <2>4. CASE u = t
    <3>1. \/ WriteEntry(Record("op", t)) /\ pc'[t] = "logged"
          \/ pc'[t] = "failed"
      BY <1>0, <1>1 DEF AppendOp
    <3> QED BY <2>1, <2>2, <2>4, <3>1
  <2> QED BY <2>3, <2>4
<1>2. ASSUME NEW t \in Txns, Apply(t), NEW u \in Txns PROVE Fine(u)
  <2>1. /\ proc = "up" /\ UNCHANGED <<file, durable, proc>> /\ ledger' = ledger \cup {t} /\ pc[t] = "logged"
        /\ pc'[t] = "applied" /\ (u # t => pc'[u] = pc[u])
    BY <1>0, <1>2 DEF Apply, walVars
  <2> QED BY <1>i, <2>1
<1>3. ASSUME NEW t \in Txns, MarkCommitted(t), NEW u \in Txns PROVE Fine(u)
  <2>1. /\ \A v, k : Held(file, durable, v, k) => Held(file', durable', v, k)
        /\ WriteEntry(Record("committed", t)) => Held(file', durable', t, "committed") /\ durable' >= 1
        /\ Cropped(file) => Cropped(file')
        /\ durable' >= durable
    BY <1>3, WriteHeld DEF MarkCommitted, Kinds
  <2>2. proc = "up" /\ proc' = "up" /\ ledger' = ledger /\ pc[t] = "applied"
    BY <1>3 DEF MarkCommitted
  <2>3. CASE u # t
    <3>1. pc'[u] = pc[u]
      BY <1>0, <1>3, <2>3 DEF MarkCommitted
    <3> QED BY <1>0, <1>i, <2>1, <2>2, <3>1
  <2>4. CASE u = t
    <3>1. \/ WriteEntry(Record("committed", t)) /\ pc'[t] = "done"
          \/ pc'[t] = "failed"
      BY <1>0, <1>3 DEF MarkCommitted
    <3> QED BY <1>i, <2>1, <2>2, <2>4, <3>1
  <2> QED BY <2>3, <2>4
<1>4. ASSUME NEW t \in Txns, MarkAborted(t), NEW u \in Txns PROVE Fine(u)
  <2>1. /\ \A v, k : Held(file, durable, v, k) => Held(file', durable', v, k)
        /\ Cropped(file) => Cropped(file')
        /\ durable' >= durable
    BY <1>4, WriteHeld DEF MarkAborted, Kinds
  <2>2. proc = "up" /\ proc' = "up" /\ ledger' = ledger
    BY <1>4 DEF MarkAborted
  <2>3. pc'[u] = pc[u] \/ pc'[u] \in {"aborted", "failed"}
    BY <1>0, <1>4 DEF MarkAborted
  <2> QED BY <1>0, <1>i, <2>1, <2>2, <2>3
<1>5. ASSUME WriteCheckpoint, NEW u \in Txns PROVE Fine(u)
  <2>1. /\ \A v, k : Held(file, durable, v, k) => Held(file', durable', v, k)
        /\ Cropped(file) => Cropped(file')
        /\ durable' >= durable
    BY <1>5, WriteHeld DEF WriteCheckpoint, Kinds
  <2>2. proc = "up" /\ proc' = "up" /\ ledger' = ledger /\ pc' = pc
    BY <1>5 DEF WriteCheckpoint
  <2> QED BY <1>0, <1>i, <2>1, <2>2
<1>6. ASSUME Snapshot \/ BatchSetBalances \/ NextLogID \/ SetCheckpointLogID \/ UNCHANGED vars,
             NEW u \in Txns
      PROVE  Fine(u)
  <2>1. UNCHANGED <<file, durable, proc, pc, ledger>>
    BY <1>6 DEF Snapshot, BatchSetBalances, NextLogID, SetCheckpointLogID, vars, walVars
  <2> QED BY <1>i, <2>1
<1>7. ASSUME Truncate, NEW u \in Txns PROVE Fine(u)
  <2>1. UNCHANGED <<pc, ledger, proc>> /\ proc = "up" /\ store.ckpt > 0 /\ Decodes(file)
    BY <1>7 DEF Truncate
  <2>2. CASE UNCHANGED <<file, durable>>
    BY <1>i, <2>1, <2>2
  <2>3. CASE \E k \in 1 .. Len(file) + 1 : Keeps(k)
    <3>1. Shortens /\ Covers(file, durable, store.ckpt)
      BY <2>1, <2>3 DEF Shortens, CkptInv
    <3>2. durable' >= 1 /\ file' # <<>> /\ file'[1].id >= store.ckpt
      BY <3>1, ShortensCovers
    <3>3. Cropped(file')
      <4>1. store.ckpt \in Nat /\ file' \in Seq(Lines)
        BY DEF TypeInv
      <4>2. 1 \in 1 .. Len(file')
        BY <3>2, <4>1
      <4>3. file'[1].id \in Nat
        BY <4>1, <4>2, LineIDs
      <4> QED BY <2>1, <3>2, <4>1, <4>3 DEF Cropped
    <3> QED BY <2>1, <3>2, <3>3
  <2> QED BY <1>7, <2>2, <2>3, TruncateShape, Zenon
<1>8. ASSUME Crash, NEW u \in Txns PROVE Fine(u)
  <2>1. /\ \A v, k : Held(file, durable, v, k) => Held(file', durable', v, k)
        /\ durable >= 1 => (Cropped(file) => Cropped(file'))
        /\ durable' >= durable
    BY <1>8, CrashHeld
  <2>2. proc' = "down" /\ pc'[u] \notin {"logged", "applied"} /\ (pc'[u] = "done" => pc[u] = "done")
    BY <1>0, <1>8 DEF Crash
  <2> QED BY <1>0, <1>i, <2>1, <2>2
<1>9. ASSUME Open, NEW u \in Txns PROVE Fine(u)
  <2>1. UNCHANGED <<file, durable, pc>> /\ proc = "down"
    BY <1>9 DEF Open
  <2>2. ASSUME proc' = "up", ~Cropped(file), pc[u] = "done" PROVE u \in ledger'
    <3>1. Decodes(file) /\ ledger' = Replayed(file)
      BY <1>9, <2>2 DEF Open
    <3>2. durable \in 0 .. Len(file) /\ Len(file) \in Nat /\ DOMAIN file = 1 .. Len(file)
      BY DEF TypeInv
    <3>3. 1 .. durable \subseteq DOMAIN file
      BY <3>2
    <3>4. Held(file, durable, u, "op") /\ Held(file, durable, u, "committed")
      BY <1>i, <2>2
    <3>5. Marked(file, u, "op") /\ Marked(file, u, "committed")
      BY <3>1, <3>3, <3>4 DEF Held, Marked, Decodes
    <3> QED BY <3>1, <3>5 DEF Replayed
  <2> QED BY <1>i, <2>1, <2>2
<1> QED BY <1>1, <1>2, <1>3, <1>4, <1>5, <1>6, <1>7, <1>8, <1>9, Zenon DEF Next, Checkpoint, Idle

-----------------------------------------------------------------------------
(***************************************************************************)
(* The theorems.                                                           *)
(***************************************************************************)
IInv == TypeInv /\ FaultInv /\ OrderInv /\ RestartInv /\ CkptInv /\ OutInv /\ AckInv

\* The inductive invariant holds.
LEMMA Inductive == Spec => []IInv
<1>1. Init => IInv
  <2> SUFFICES ASSUME Init PROVE IInv
    OBVIOUS
  <2>1. TypeInv /\ FaultInv
    BY InitTypes
  <2>2. /\ file = <<>> /\ Len(file) = 0 /\ durable = 0 /\ proc = "up" /\ ledger = {} /\ store.ckpt = 0
        /\ ckpt.pc = "idle" /\ \A t \in Txns : pc[t] = "idle"
    BY DEF Init, NoCheckpoint
  <2>3. OrderInv
    BY <2>2 DEF OrderInv, Rising, UpTo, Increasing, Under
  <2>4. RestartInv
    BY <2>2 DEF RestartInv, Whole
  <2>5. CkptInv
    BY <2>2 DEF CkptInv, NewIDsAboveCheckpoint
  <2>6. OutInv
    BY <2>2 DEF OutInv, Marked
  <2>7. AckInv
    BY <2>2 DEF AckInv
  <2> QED BY <2>1, <2>3, <2>4, <2>5, <2>6, <2>7 DEF IInv
<1>2. IInv /\ [Next]_vars => IInv'
  <2> SUFFICES ASSUME IInv, [Next]_vars PROVE IInv'
    OBVIOUS
  <2>0. TypeInv /\ FaultInv /\ OrderInv /\ RestartInv /\ CkptInv /\ OutInv /\ AckInv
    BY DEF IInv
  <2>1. TypeInv' /\ Calm
    BY <2>0, StepTypes
  <2>2. FaultInv'
    BY <2>1 DEF Calm
  <2>3. Rests \/ Writes \/ Shortens \/ Crash \/ Open
    BY <2>0, StepShape
  <2>4. OrderInv' /\ RestartInv'
    BY <2>0, <2>1, <2>3, StepOrder, StepRestart
  <2>5. CkptInv' /\ OutInv' /\ AckInv'
    BY <2>0, <2>1, StepCkpt, StepOut, StepAck
  <2> QED BY <2>1, <2>2, <2>4, <2>5 DEF IInv
<1> QED BY <1>1, <1>2, PTL DEF Spec

\* LogIDs increase along the file as long as no fsync has failed: writeEntry
\* gives every record the next ID, and NewWAL continues after the last line.
THEOREM LogIDsIncreaseHolds == Spec => []LogIDsIncrease
<1>1. IInv => LogIDsIncrease
  <2> SUFFICES ASSUME IInv PROVE LogIDsIncrease
    OBVIOUS
  <2>1. DOMAIN file = 1 .. Len(file)
    BY DEF IInv, TypeInv
  <2> QED BY <2>1 DEF IInv, OrderInv, Increasing, LogIDsIncrease
<1> QED BY <1>1, Inductive, PTL

\* The LogIDs that a running shard hands out are above the checkpoint in the
\* JSON store, through truncations and restarts.
THEOREM NewIDsAboveCheckpointHolds == Spec => []NewIDsAboveCheckpoint
<1>1. IInv => NewIDsAboveCheckpoint
  BY DEF IInv, CkptInv
<1> QED BY <1>1, Inductive, PTL

\* Without a cut write NewShardServer never refuses the log.
THEOREM RestartSucceedsHolds == Spec => []RestartSucceeds
<1>1. IInv => RestartSucceeds
  BY DEF IInv, RestartInv, RestartSucceeds
<1> QED BY <1>1, Inductive, PTL

\* What MarkCommitted acknowledged is in the ledger of a running shard whose
\* log was not truncated.
THEOREM AckedIsReplayedHolds == Spec => []AckedIsReplayed
<1>1. IInv => AckedIsReplayed
  BY DEF IInv, AckInv, AckedIsReplayed, Truncated, Cropped
<1> QED BY <1>1, Inductive, PTL

\* What MarkAborted acknowledged stays out of the ledger.
THEOREM AbortedStaysOutHolds == Spec => []AbortedStaysOut
<1>1. IInv => AbortedStaysOut
  BY DEF IInv, OutInv, AbortedStaysOut
<1> QED BY <1>1, Inductive, PTL

\* Truncate can always cut: in a file whose LogIDs never decrease, the lines
\* that ReadFrom's filter returns are the rest of the file from some position.
THEOREM ReadFromIsSuffix ==
  ASSUME TypeInv, OrderInv, NEW id \in Nat
  PROVE  \E k \in 1 .. Len(file) + 1 : ReadFrom(id, k)
<1> DEFINE n == Len(file)
           T == {i \in 1 .. n + 1 : \A j \in i .. n : file[j].id >= id}
           R == OpToRel(<, Nat)
<1>1. n \in Nat /\ \A i \in 1 .. n : file[i].id \in Nat
  BY LineIDs DEF TypeInv
<1>2. T \subseteq Nat /\ n + 1 \in T
  BY <1>1
<1>3. PICK k \in T : \A y \in T : ~(<<y, k>> \in R)
  <2>1. T # {} /\ IsWellFoundedOn(R, Nat)
    BY <1>2, NatLessThanWellFounded, Zenon
  <2> HIDE DEF T, R
  <2> QED BY <1>2, <2>1, WFMin, Zenon
<1>4. \A y \in T : ~(y < k)
  <2>1. \A y \in T : y < k => <<y, k>> \in R
    BY <1>2 DEF OpToRel
  <2> QED BY <1>3, <2>1, Zenon
<1>5. ASSUME NEW i \in 1 .. k - 1 PROVE file[i].id < id
  <2>1. i \in 1 .. n /\ i < k /\ i \in 1 .. n + 1
    BY <1>1
  <2>2. SUFFICES ASSUME file[i].id >= id PROVE FALSE
    BY <1>1, <2>1
  <2>3. ASSUME NEW j \in i .. n PROVE file[j].id >= id
    <3>1. j \in 1 .. n /\ (i = j \/ i < j)
      BY <1>1, <2>1
    <3>2. file[i].id <= file[j].id
      BY <1>1, <2>1, <3>1 DEF OrderInv, Rising
    <3> QED BY <1>1, <2>1, <2>2, <3>1, <3>2
  <2>4. i \in T
    BY <2>1, <2>3
  <2> QED BY <1>4, <2>1, <2>4
<1>6. ReadFrom(id, k)
  BY <1>5 DEF ReadFrom
<1> QED BY <1>6
=============================================================================
