----------------------------- MODULE QtumChain -----------------------------
(***************************************************************************)
(* QtumState with its two databases (m_db under m_state, m_db_utxo under   *)
(* m_state_utxo) as one node processes a block.  A block is recorded by   *)
(* the roots (hashStateRoot, hashUTXORoot) of its header, taken after     *)
(* both overlays were flushed; after a crash the process reopens both     *)
(* databases and sets those roots (setRoot, setRootUTXO).  A root is      *)
(* named here by the trie content it commits to.  QtumState::commit       *)
(* writes the account trie and then commitUTXO; the second may throw on   *)
(* either path that commits.                                              *)
(***************************************************************************)
EXTENDS QtumState

CONSTANT MaxFaults  \* bound on crashes and failing UTXO commits in one run

ASSUME MaxFaults \in Nat

VARIABLES
    hdr,        \* <<state root, UTXO root>> of the last recorded block
    applied,    \* whether this block's roots were recorded
    faults      \* crashes and failed commits so far

chainVars == <<hdr, applied, faults>>
allVars == <<vars, chainVars>>

EmptyCache == [a \in Addr |-> Uncached]

(***************************************************************************)
(* setRoot and setRootUTXO: drop the cache and rebase the trie on root r. *)
(***************************************************************************)
setRoot(r) == cache' = EmptyCache /\ trie' = r

\* Mutant: the VinSet cache survives the rebase.
setRootUTXOKeepsCache(r) == utxoCache' = utxoCache /\ utxoTrie' = r

setRootUTXO(r) == utxoCache' = EmptyCache /\ utxoTrie' = r

ChainInit ==
    /\ Init
    /\ hdr = <<trie, utxoTrie>>
    /\ applied = FALSE
    /\ faults = 0

\* processingVersionNullAndOne: a Committed deposit commits and flushes both.
ChainDeposit(t) == ExecuteDeposit(t, "Committed") /\ UNCHANGED chainVars

ChainBegin(t) == BeginContract(t, "Committed") /\ UNCHANGED chainVars

ChainTransfer(from, to, v) == VMTransfer(from, to, v) /\ UNCHANGED chainVars

\* The contract path commits both tries and flushes dbUTXO() only.
ChainFinish(excepted) == Finish(excepted) /\ UNCHANGED chainVars

(***************************************************************************)
(* QtumState::commit with the second write failing: State::commit has     *)
(* written the account cache c into the trie and cleared m_cache when     *)
(* commitUTXO throws (InvalidTrie on a node it cannot load), so            *)
(* m_cache_utxo keeps uc, the UTXO trie is unchanged and execute throws   *)
(* to its caller.                                                          *)
(***************************************************************************)
CommitThrows(c, uc) ==
    /\ trie' = StateCommit(c) /\ cache' = EmptyCache
    /\ utxoCache' = uc /\ UNCHANGED utxoTrie
    /\ pc' = "aborted" /\ faults' = faults + 1

\* The commit of a Committed deposit (processingVersionNullAndOne) throws.
DepositCommitThrows(t) ==
    /\ pc = "idle" /\ t.version = 0 /\ faults < MaxFaults
    /\ CommitThrows(addBalance(cache, t.to, t.value),
                    addVin(utxoCache, t.to, [op |-> TxOutPoint(t), amt |-> t.value]))
    /\ cur' = t /\ perm' = "Committed" /\ emitted' = <<>>
    /\ UNCHANGED <<done, txData, delAddresses, snapshot, hdr, applied>>

\* The commit at the end of a Committed contract execution throws.
ContractCommitThrows ==
    /\ pc = "vm" /\ faults < MaxFaults
    /\ LET st == GenerateFrom(Purged(FALSE), cur, 1)
       IN st.ok /\ CommitThrows(st.c, st.uc)
    /\ EngineDiscarded /\ snapshot' = EmptyCache
    /\ UNCHANGED <<cur, perm, done, emitted, hdr, applied>>

(***************************************************************************)
(* The caller's answer to a block aborted by a trie error: rebase both    *)
(* tries on the parent roots and process the block again.                 *)
(***************************************************************************)
Rollback ==
    /\ pc = "aborted"
    /\ setRoot(hdr[1]) /\ setRootUTXO(hdr[2])
    /\ pc' = "idle" /\ done' = {} /\ emitted' = <<>>
    /\ UNCHANGED <<cur, perm, txData, delAddresses, snapshot, hdr, applied, faults>>

\* The process dies: caches, overlays and the seal engine are gone.
Crash ==
    /\ pc # "down" /\ faults < MaxFaults
    /\ pc' = "down" /\ faults' = faults + 1
    /\ cache' = EmptyCache /\ utxoCache' = EmptyCache
    /\ txData' = <<>> /\ delAddresses' = {} /\ snapshot' = EmptyCache /\ emitted' = <<>>
    /\ UNCHANGED <<trie, utxoTrie, cur, perm, done, hdr, applied>>

\* Mutant: the two recorded roots passed to the wrong setter.
RestartSwappedRoots ==
    /\ pc = "down"
    /\ setRoot(hdr[2]) /\ setRootUTXO(hdr[1])
    /\ pc' = IF applied THEN "ended" ELSE "idle"
    /\ done' = IF applied THEN done ELSE {}
    /\ UNCHANGED <<cur, perm, txData, delAddresses, snapshot, emitted, hdr, applied, faults>>

(***************************************************************************)
(* InitQtumState and the reopening of WriteAndReadDBTest: open both        *)
(* databases and set the recorded roots.  A block whose roots were not    *)
(* recorded is processed again.                                            *)
(***************************************************************************)
Restart ==
    /\ pc = "down"
    /\ setRoot(hdr[1]) /\ setRootUTXO(hdr[2])
    /\ pc' = IF applied THEN "ended" ELSE "idle"
    /\ done' = IF applied THEN done ELSE {}
    /\ UNCHANGED <<cur, perm, txData, delAddresses, snapshot, emitted, hdr, applied, faults>>

(***************************************************************************)
(* ExecuteQtumTest after its loop, then WriteAndReadDBTest: flush both    *)
(* overlays, then record rootHash() and rootHashUTXO().                   *)
(***************************************************************************)
EndBlock ==
    /\ pc = "idle" /\ done = Txs
    /\ hdr' = <<trie, utxoTrie>>
    /\ applied' = TRUE /\ pc' = "ended"
    /\ UNCHANGED <<faults, trie, cache, utxoTrie, utxoCache, cur, perm,
                   txData, delAddresses, snapshot, done, emitted>>

ChainNext ==
    \/ \E t \in Txs \ done : ChainDeposit(t) \/ ChainBegin(t) \/ DepositCommitThrows(t)
    \/ \E from \in Addr, to \in VMTargets, v \in Amounts : ChainTransfer(from, to, v)
    \/ \E excepted \in BOOLEAN : ChainFinish(excepted)
    \/ ContractCommitThrows \/ Rollback \/ Crash \/ Restart \/ EndBlock

ChainSpec == ChainInit /\ [][ChainNext]_allVars

(***************************************************************************)
(* The VM runs synchronously and is bounded by gas: a run that does not    *)
(* finish normally is ended by an out-of-gas exception, so the exception  *)
(* outcome of finalize, enabled throughout the VM run, is taken if no      *)
(* other.  The caller that sees a block abort rolls it back, and a dead    *)
(* node is restarted; neither is assumed of crashes or failing commits.   *)
(***************************************************************************)
ChainFairSpec ==
    /\ ChainSpec
    /\ WF_allVars(ChainFinish(TRUE))
    /\ WF_allVars(Rollback)
    /\ WF_allVars(Restart)

-----------------------------------------------------------------------------
ChainTypeOK ==
    /\ trie \in [Addr -> Account \cup {NoAcc}]
    /\ utxoTrie \in [Addr -> Seq(Vin) \cup {NoVins}]
    /\ pc \in {"idle", "vm", "failed", "aborted", "down", "ended"}
    /\ hdr \in [Addr -> Account \cup {NoAcc}] \X [Addr -> Seq(Vin) \cup {NoVins}]
    /\ applied \in BOOLEAN /\ faults \in 0..MaxFaults

(***************************************************************************)
(* Whenever the engine is usable (not dead, not between a failed UTXO     *)
(* commit and the rollback), the two tries in memory agree: every         *)
(* committed contract's balance is backed by its VinSet.  A half-done     *)
(* commit, of a deposit or of a contract execution, must not leak into    *)
(* the state the block is processed again on.                              *)
(***************************************************************************)
MemoryConsistent == pc \notin {"aborted", "down"} => BalanceBacked
=============================================================================
