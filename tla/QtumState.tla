----------------------------- MODULE QtumState -----------------------------
(***************************************************************************)
(* The hybrid account/UTXO state engine of src/evm/libethereum/State.cpp:  *)
(* QtumState::execute over two caches (m_cache for accounts, m_cache_utxo  *)
(* for the VinSets backing contract balances) in front of two tries       *)
(* (m_state, m_state_utxo).  One execution is split where the code hands  *)
(* control to the VM: BeginContract runs the handler up to e.execute(),   *)
(* VMTransfer is a value-moving opcode calling back into the cache, and   *)
(* Finish runs the handler from e.finalize() to its return.              *)
(***************************************************************************)
EXTENDS Naturals, Sequences, SequencesExt

CONSTANTS
    Sender,         \* _t.sender(): the externally owned account paying for the tx
    Author,         \* _envInfo.author(): the block author
    Null,           \* _t.receiveAddress() of a contract creation (Address())
    Others,         \* every other address: contract addresses and plain accounts
    Txs,            \* the transactions a block may carry (records, see TxRec)
    CreatedAddr,    \* createQtumAddress: hash of a creation tx -> its address
    Preexisting,    \* hashes of creations committed before this block
    Amounts,        \* values one VM transfer may move
    VMTargets,      \* addresses a running contract may send value to
    GasFee,         \* _t.gas() * _t.gasPrice(), pre-credited to the sender
    MaxTransfers,   \* bound on the length of the seal engine's txData
    NoAcc,          \* the trie holds no account at this address
    NoVins,         \* the UTXO trie holds no VinSet at this address
    Uncached        \* the cache holds no entry for this address

Addr == {Sender, Author, Null} \cup Others

ASSUME /\ Sender # Author /\ Null \notin Others /\ {Sender, Author} \cap Others = {}
       /\ Amounts \subseteq Nat \ {0} /\ VMTargets \subseteq Addr /\ GasFee \in Nat /\ MaxTransfers \in Nat

Perms == {"Committed", "Reverted"}

TxRec == [hash: STRING, version: {0, 1, 2}, value: Nat, to: Addr]

IsCreation(t) == t.to = Null

ASSUME /\ Txs \subseteq TxRec
       /\ \A t \in Txs : IsCreation(t) => CreatedAddr[t.hash] \in Others
       /\ Preexisting \subseteq DOMAIN CreatedAddr

VARIABLES
    trie,          \* m_state: address -> account record or NoAcc
    cache,         \* m_cache: address -> account record or Uncached
    utxoTrie,      \* m_state_utxo: address -> VinSet or NoVins
    utxoCache,     \* m_cache_utxo: address -> VinSet or Uncached
    pc,            \* "idle" between executions, "vm" while the VM runs, "failed"
    cur,           \* the transaction being executed
    perm,          \* its Permanence
    txData,        \* _sealEngine->txData: the pending transfers
    delAddresses,  \* _sealEngine->delAddresses: addresses purged after the VM
    snapshot,      \* m_cache as it was when the VM started
    done,          \* transactions whose Committed execution has returned
    emitted        \* the transactions the last execution returned

vars == <<trie, cache, utxoTrie, utxoCache, pc, cur, perm, txData, delAddresses,
          snapshot, done, emitted>>

(***************************************************************************)
(* Data.  An account keeps its balance and whether it holds code; a       *)
(* VinSet is a sequence of [op, amt] with op = <<txid, vout>>.  The txid   *)
(* of a block transaction with hash h is <<h, 0>>, that of the i-th        *)
(* synthesized transaction of its execution <<h, i>>.                      *)
(***************************************************************************)
Account == [bal: Nat, code: BOOLEAN]
Vin == [op: (STRING \X Nat) \X Nat, amt: Nat]
Transfer == [sender: Addr, receiver: Addr, value: Nat]
Output == [to: Addr, amt: Nat, type: {"C2C", "P2PKH"}, toContract: BOOLEAN]

TxOutPoint(t) == <<<<t.hash, 0>>, 0>>

(***************************************************************************)
(* The account cache.  ensureCached loads an entry from the trie on first  *)
(* touch, so every read sees the cached entry if there is one, else the   *)
(* trie.  Loading an unchanged entry does not change what is read.        *)
(***************************************************************************)
Acc(c, a) == IF c[a] # Uncached THEN c[a] ELSE trie[a]

addressInUse(c, a) == Acc(c, a) # NoAcc

IsContract(c, a) == addressInUse(c, a) /\ Acc(c, a).code

balance(c, a) == IF addressInUse(c, a) THEN Acc(c, a).bal ELSE 0

addBalance(c, a, v) ==
    [c EXCEPT ![a] = IF addressInUse(c, a)
                     THEN [Acc(c, a) EXCEPT !.bal = @ + v]
                     ELSE [bal |-> v, code |-> FALSE]]

\* Callers only subtract what the account holds (NotEnoughCash otherwise).
subBalance(c, a, v) == [c EXCEPT ![a] = [Acc(c, a) EXCEPT !.bal = @ - v]]

EraseAll(c, S) == [a \in DOMAIN c |-> IF a \in S THEN Uncached ELSE c[a]]

(***************************************************************************)
(* The UTXO cache (ensureCachedUTXO, getVins, addVin, subVins).            *)
(***************************************************************************)
getVins(uc, a) ==
    IF uc[a] # Uncached THEN uc[a]
    ELSE IF utxoTrie[a] # NoVins THEN utxoTrie[a] ELSE <<>>

addVin(uc, a, vin) == [uc EXCEPT ![a] = Append(getVins(uc, a), vin)]

\* Mutant: erasing at begin() instead of begin() + 1.
subVinsFromFront(uc, a, n) ==
    [uc EXCEPT ![a] = SubSeq(getVins(uc, a), n + 1, Len(getVins(uc, a)))]

\* Erases at begin() + 1, n times: index 1 (the sentinel slot) survives.
subVins(uc, a, n) ==
    [uc EXCEPT ![a] = <<getVins(uc, a)[1]>>
                      \o SubSeq(getVins(uc, a), n + 2, Len(getVins(uc, a)))]

SumAmt(s) == FoldLeft(LAMBDA acc, v : acc + v.amt, 0, s)

(***************************************************************************)
(* SelectOutputs: walk the sender's VinSet from its second element,       *)
(* accumulating amounts until the sum reaches the value.                  *)
(***************************************************************************)
RECURSIVE SelectFrom(_, _, _)
SelectFrom(vs, i, rest) ==
    IF i > Len(vs) THEN <<>>
    ELSE IF rest <= vs[i].amt THEN <<vs[i]>>
    ELSE <<vs[i]>> \o SelectFrom(vs, i + 1, rest - vs[i].amt)

SelectOutputs(vs, value) == SelectFrom(vs, 2, value)

\* Mutant: the change output back to the sender is never appended.
CreateOutputsNoChange(c, from, to, value, sum, type) ==
    <<[to |-> to, amt |-> value, type |-> type, toContract |-> IsContract(c, to)]>>

CreateOutputs(c, from, to, value, sum, type) ==
    <<[to |-> to, amt |-> value, type |-> type, toContract |-> IsContract(c, to)]>>
    \o IF value < sum
       THEN <<[to |-> from, amt |-> sum - value, type |-> "C2C",
               toContract |-> IsContract(c, from)]>>
       ELSE <<>>

(***************************************************************************)
(* TxGeneration followed by savedVinToAccount for pending transfer d,     *)
(* applied to st = [c, uc, out, ok].  With no selectable input the code   *)
(* pushes an empty CTransaction; savedVinToAccount then throws from       *)
(* subVins (sender without VinSet) or uses the uninitialised delVinSender *)
(* and reads tx.vout[0] of an empty vector.  Either way execute does not  *)
(* return (ok = FALSE).                                                   *)
(***************************************************************************)
Materialise(st, d, id) ==
    LET sel  == SelectOutputs(getVins(st.uc, d.sender), d.value)
        sum  == SumAmt(sel)
        type == IF addressInUse(st.c, d.receiver) /\ d.receiver \notin {Sender, Author}
                THEN "C2C" ELSE "P2PKH"
        outs == CreateOutputs(st.c, d.sender, d.receiver, d.value, sum, type)
        uc1  == subVins(st.uc, d.sender, Len(sel))
        uc2  == IF type = "C2C"
                THEN addVin(uc1, d.receiver, [op |-> <<id, 0>>, amt |-> outs[1].amt])
                ELSE uc1
        uc3  == IF Len(outs) > 1
                THEN addVin(uc2, d.sender, [op |-> <<id, 1>>, amt |-> outs[2].amt])
                ELSE uc2
    IN IF sel = <<>>
       THEN [st EXCEPT !.ok = FALSE]
       ELSE [st EXCEPT !.uc = uc3,
                       !.out = Append(@, [id |-> id, ins |-> sel, outs |-> outs])]

\* Mutant: the version-1 outer transfer is not skipped.
RECURSIVE GenerateFromNoSkip(_, _, _)
GenerateFromNoSkip(st, t, i) ==
    IF i > Len(txData) \/ ~st.ok THEN st
    ELSE GenerateFromNoSkip(
            IF txData[i].value > 0 THEN Materialise(st, txData[i], <<t.hash, i>>) ELSE st,
            t, i + 1)

\* The loop over _sealEngine->txData; the outer value of a version-1 call
\* is already in the receiver's VinSet, so its entry is skipped.
RECURSIVE GenerateFrom(_, _, _)
GenerateFrom(st, t, i) ==
    IF i > Len(txData) \/ ~st.ok THEN st
    ELSE GenerateFrom(
            IF txData[i].value > 0 /\ ~(t.version = 1 /\ t.value > 0 /\ i = 1)
            THEN Materialise(st, txData[i], <<t.hash, i>>)
            ELSE st, t, i + 1)

(***************************************************************************)
(* QtumState::commit: State::commit writes every cache entry to the trie  *)
(* and clears the cache, then commitUTXO writes each cached VinSet, or    *)
(* removes it when its address is no longer in use.                       *)
(***************************************************************************)
\* State::commit: the trie after every cached account is written to it.
StateCommit(c) == [a \in Addr |-> IF c[a] # Uncached THEN c[a] ELSE trie[a]]

CommitTries(c, uc) ==
    LET newTrie == StateCommit(c)
    IN /\ trie' = newTrie
       /\ utxoTrie' = [a \in Addr |-> IF uc[a] = Uncached THEN utxoTrie[a]
                                      ELSE IF newTrie[a] = NoAcc THEN NoVins
                                      ELSE uc[a]]
       /\ cache' = [a \in Addr |-> Uncached]
       /\ utxoCache' = [a \in Addr |-> Uncached]

ClearCaches ==
    /\ cache' = [a \in Addr |-> Uncached]
    /\ utxoCache' = [a \in Addr |-> Uncached]
    /\ UNCHANGED <<trie, utxoTrie>>

Returned(t, p) == done' = IF p = "Committed" THEN done \cup {t} ELSE done

\* createP2PHTx: spends the tx's own output and pays its value back.
Refund(t) ==
    [id |-> <<t.hash, 0>>, ins |-> <<[op |-> TxOutPoint(t), amt |-> t.value]>>,
     outs |-> <<[to |-> Sender, amt |-> t.value, type |-> "P2PKH", toContract |-> FALSE]>>]

\* Mutant: the receiver's VinSet is left in m_cache_utxo.
exceptionHandlingKeepsVins(t, p, c, uc) ==
    /\ cache' = EraseAll(c, {Sender, Author})
    /\ utxoCache' = uc
    /\ emitted' = IF t.value # 0 THEN <<Refund(t)>> ELSE <<>>
    /\ Returned(t, p)
    /\ pc' = "idle"
    /\ UNCHANGED <<trie, utxoTrie>>

\* exceptionHandling: drops sender and author, the receiver's VinSet, and
\* returns without committing or clearing the caches.
exceptionHandling(t, p, c, uc) ==
    /\ cache' = EraseAll(c, {Sender, Author})
    /\ utxoCache' = EraseAll(uc, {t.to})
    /\ emitted' = IF t.value # 0 THEN <<Refund(t)>> ELSE <<>>
    /\ Returned(t, p)
    /\ pc' = "idle"
    /\ UNCHANGED <<trie, utxoTrie>>

-----------------------------------------------------------------------------
\* What the tries hold after the Preexisting creations were committed.
SentinelOf(h) == [op |-> <<<<h, 0>>, 0>>, amt |-> 0]

Init ==
    /\ LET born == {CreatedAddr[h] : h \in Preexisting}
           hashOf(a) == CHOOSE h \in Preexisting : CreatedAddr[h] = a
       IN /\ trie = [a \in Addr |-> IF a \in born THEN [bal |-> 0, code |-> TRUE] ELSE NoAcc]
          /\ utxoTrie = [a \in Addr |-> IF a \in born THEN <<SentinelOf(hashOf(a))>> ELSE NoVins]
    /\ cache = [a \in Addr |-> Uncached]
    /\ utxoCache = [a \in Addr |-> Uncached]
    /\ pc = "idle"
    /\ cur = CHOOSE t \in Txs : TRUE
    /\ perm = "Committed"
    /\ txData = <<>> /\ delAddresses = {}
    /\ snapshot = [a \in Addr |-> Uncached]
    /\ done = {}
    /\ emitted = <<>>

(***************************************************************************)
(* processingVersionNullAndOne, version 0: a pure deposit, committed or   *)
(* dropped before execute returns.                                        *)
(***************************************************************************)
ExecuteDeposit(t, p) ==
    /\ pc = "idle" /\ t.version = 0
    /\ LET uc == addVin(utxoCache, t.to, [op |-> TxOutPoint(t), amt |-> t.value])
           c  == addBalance(cache, t.to, t.value)
       IN IF p = "Committed" THEN CommitTries(c, uc)
          ELSE /\ cache' = [a \in Addr |-> Uncached]
               /\ utxoCache' = [a \in Addr |-> Uncached]
               /\ UNCHANGED <<trie, utxoTrie>>
    /\ Returned(t, p)
    /\ cur' = t /\ perm' = p /\ emitted' = <<>>
    /\ UNCHANGED <<pc, txData, delAddresses, snapshot>>

EngineKept == UNCHANGED <<txData, delAddresses>>

\* The seal engine is a per-execution scratchpad: the caller hands the next
\* execution a fresh one, as qtumStateTests does.  execute itself never
\* clears txData or delAddresses.
EngineDiscarded == txData' = <<>> /\ delAddresses' = {}

(***************************************************************************)
(* QtumState::execute up to the VM: the version-1 deposit, the sender's   *)
(* pre-credit, sender and author put in delAddresses, e.initialize (which *)
(* may throw and end the execution with its seal engine), the new         *)
(* contract's identity sentinel, then the Executive's outer value        *)
(* transfer.                                                              *)
(***************************************************************************)
BeginContract(t, p) ==
    /\ pc = "idle" /\ t.version # 0
    /\ cur' = t /\ perm' = p
    /\ LET uc1 == IF t.version = 1 /\ t.value > 0
                  THEN addVin(utxoCache, t.to, [op |-> TxOutPoint(t), amt |-> t.value])
                  ELSE utxoCache
           c1  == addBalance(cache, Sender, GasFee + t.value)
           qa  == IF IsCreation(t) THEN CreatedAddr[t.hash] ELSE t.to
           uc2 == IF IsCreation(t)
                  THEN addVin(uc1, qa, SentinelOf(t.hash))
                  ELSE uc1
           c2  == addBalance(subBalance(c1, Sender, t.value), qa, t.value)
           c3  == IF IsCreation(t) THEN [c2 EXCEPT ![qa].code = TRUE] ELSE c2
       IN \/ /\ exceptionHandling(t, p, c1, uc1)
             /\ EngineDiscarded
             /\ UNCHANGED snapshot
          \/ /\ cache' = c3
             /\ utxoCache' = uc2
             /\ snapshot' = c1
             /\ delAddresses' = delAddresses \cup {Sender, Author}
             /\ txData' = txData \o (IF t.value > 0
                                     THEN <<[sender |-> Sender, receiver |-> qa, value |-> t.value]>>
                                     ELSE <<>>)
             /\ pc' = "vm"
             /\ UNCHANGED <<trie, utxoTrie, done, emitted>>

(***************************************************************************)
(* A value-moving opcode of a running contract: transferBalance on the    *)
(* account cache, and the transfer recorded in the seal engine's txData.  *)
(***************************************************************************)
\* Mutant: transferBalance without the balance check.
VMTransferNoCashCheck(from, to, v) ==
    /\ pc = "vm"
    /\ Len(txData) < MaxTransfers
    /\ IsContract(cache, from)
    /\ cache' = addBalance(subBalance(cache, from, v), to, v)
    /\ txData' = Append(txData, [sender |-> from, receiver |-> to, value |-> v])
    /\ UNCHANGED <<trie, utxoTrie, utxoCache, pc, cur, perm, delAddresses, snapshot, done, emitted>>

VMTransfer(from, to, v) ==
    /\ pc = "vm"
    /\ Len(txData) < MaxTransfers
    /\ IsContract(cache, from)
    /\ balance(cache, from) >= v
    /\ cache' = addBalance(subBalance(cache, from, v), to, v)
    /\ txData' = Append(txData, [sender |-> from, receiver |-> to, value |-> v])
    /\ UNCHANGED <<trie, utxoTrie, utxoCache, pc, cur, perm, delAddresses, snapshot, done, emitted>>

(***************************************************************************)
(* QtumState::execute from e.finalize(): purge delAddresses from both     *)
(* caches, route a VM exception to exceptionHandling,   *)
(* else synthesize a transaction per pending transfer, then clear the     *)
(* caches (Reverted) or commit both tries (Committed).                   *)
(***************************************************************************)
\* The caches after finalize (which restores m_cache when the VM excepted)
\* and the purge of delAddresses.
Purged(excepted) ==
    [c  |-> EraseAll(IF excepted THEN snapshot ELSE cache, delAddresses),
     uc |-> EraseAll(utxoCache, delAddresses), out |-> <<>>, ok |-> TRUE]

Finish(excepted) ==
    /\ pc = "vm"
    /\ LET p  == Purged(excepted)
           st == GenerateFrom(p, cur, 1)
       IN IF excepted
          THEN exceptionHandling(cur, perm, p.c, p.uc)
          ELSE IF ~st.ok
          THEN /\ pc' = "failed"
               /\ emitted' = st.out
               /\ UNCHANGED <<trie, cache, utxoTrie, utxoCache, done>>
          ELSE /\ IF perm = "Reverted" THEN ClearCaches ELSE CommitTries(st.c, st.uc)
               /\ emitted' = st.out
               /\ Returned(cur, perm)
               /\ pc' = "idle"
    /\ EngineDiscarded
    \* the VM's saved cache dies with the execution
    /\ snapshot' = [a \in Addr |-> Uncached]
    /\ UNCHANGED <<cur, perm>>

Next ==
    \/ \E t \in Txs \ done, p \in Perms : ExecuteDeposit(t, p) \/ BeginContract(t, p)
    \/ \E from \in Addr, to \in VMTargets, v \in Amounts : VMTransfer(from, to, v)
    \/ \E excepted \in BOOLEAN : Finish(excepted)

Spec == Init /\ [][Next]_vars

-----------------------------------------------------------------------------
TypeOK ==
    /\ trie \in [Addr -> Account \cup {NoAcc}]
    /\ cache \in [Addr -> Account \cup {Uncached}]
    /\ utxoTrie \in [Addr -> Seq(Vin) \cup {NoVins}]
    /\ utxoCache \in [Addr -> Seq(Vin) \cup {Uncached}]
    /\ pc \in {"idle", "vm", "failed"}
    /\ cur \in Txs /\ perm \in Perms
    /\ txData \in Seq(Transfer) /\ Len(txData) <= MaxTransfers
    /\ delAddresses \subseteq Addr
    /\ done \subseteq Txs

CommittedContracts == {a \in Addr : trie[a] # NoAcc /\ trie[a].code}

(***************************************************************************)
(* Every committed contract's balance is backed by its VinSet: the        *)
(* amounts after the identity slot sum to the balance.  This is what lets *)
(* TxGeneration always find inputs for a transfer the VM allowed; it must *)
(* survive deposits, transfers in and out, exceptions and reverts.        *)
(***************************************************************************)
BalanceBacked ==
    \A a \in CommittedContracts :
        /\ utxoTrie[a] # NoVins
        /\ trie[a].bal = SumAmt(Tail(utxoTrie[a]))

(***************************************************************************)
(* The identity sentinel inserted at contract creation stays at index 1   *)
(* of the contract's committed VinSet: subVins and SelectOutputs never    *)
(* consume it and nothing is put in front of it.                          *)
(***************************************************************************)
SentinelFirst ==
    \A h \in DOMAIN CreatedAddr : CreatedAddr[h] \in CommittedContracts =>
        /\ utxoTrie[CreatedAddr[h]] \notin {NoVins, <<>>}
        /\ Head(utxoTrie[CreatedAddr[h]]) = SentinelOf(h)

(***************************************************************************)
(* Every transaction execute returns spends exactly what it pays out.     *)
(***************************************************************************)
EmittedBalanced ==
    \A k \in 1..Len(emitted) :
        SumAmt(emitted[k].ins) = SumAmt(emitted[k].outs)

(***************************************************************************)
(* execute always returns: no pending transfer is left without inputs.    *)
(***************************************************************************)
NeverFails == pc # "failed"

(***************************************************************************)
(* Every execution handed to the VM returns to the caller: finalize, the  *)
(* loop over txData and the commit or clear all complete.                 *)
(***************************************************************************)
ExecutionReturns == [](pc = "vm" => <>(pc = "idle"))

(***************************************************************************)
(* No outpoint backs two committed VinSet entries: otherwise a later      *)
(* synthesized transaction could spend a coin twice.  A Reverted          *)
(* execution must leave nothing behind for a later commit to pick up.     *)
(***************************************************************************)
VinSlots == UNION {{<<a, i>> : i \in 1..Len(utxoTrie[a])} :
                      a \in {b \in Addr : utxoTrie[b] # NoVins}}

OutpointsUnique ==
    \A x, y \in VinSlots :
        x # y => utxoTrie[x[1]][x[2]].op # utxoTrie[y[1]][y[2]].op

(***************************************************************************)
(* TxGeneration pays with the ContractToContract script only to a live    *)
(* contract; any other receiver gets pay-to-pubkey-hash.                  *)
(***************************************************************************)
C2COnlyToContracts ==
    \A k \in 1..Len(emitted) : \A j \in 1..Len(emitted[k].outs) :
        emitted[k].outs[j].type = "C2C" => emitted[k].outs[j].toContract
=============================================================================
