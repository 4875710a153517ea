---------------------------- MODULE ProverService ----------------------------
(***************************************************************************)
(* The prover service (prover-service/src) at work on one market: instances*)
(* that poll the chain, have proofs generated for the sources a market     *)
(* still lacks, submit them one by one and ask for the aggregation.  Each  *)
(* instance acts on a snapshot; between its awaits the market, the other   *)
(* instances and the network move.  The market itself is KrnMarket.        *)
(***************************************************************************)
EXTENDS KrnMarket

CONSTANTS
    Services,    \* running instances
    Registry,    \* the entries of sources.json, a sequence
    FaultKinds,  \* the faults that may happen (model bound)
    MaxInflight, \* transactions in flight at a time (model bound)
    NoTx         \* the instance waits for no transaction

ASSUME ServiceAssumption ==
    /\ Registry \in Seq([domain : STRING, path : STRING, json_path : STRING])
    /\ FaultKinds \subseteq {"mild", "gap", "crash", "rpc"}
    /\ MaxInflight \in Nat

VARIABLES
    pc,        \* where each instance is in the loop of main
    index,     \* i of processMarket's loop
    waiting,   \* the transaction whose rpc() call is awaited
    inflight,  \* transactions sent and neither executed nor expired
    faults     \* kinds of faults that have happened, mild ones apart

instance == <<pc, index, waiting>>
svars    == <<vars, pc, index, waiting, inflight, faults>>

-----------------------------------------------------------------------------
(* Mutants.                                                                *)
NeedsProofsOnce           == state = "Closed" /\ ~DeadlinePassed
                             /\ source_count < config.required_sources
EverySource               == NumSources
ListedFromOne             == OwnList(DOMAIN proofs \ {0})

-----------------------------------------------------------------------------
(* sources.json                                                            *)

(* resolveSource looks a source up by its domain alone: the first entry of *)
(* the domain is taken, whatever path the market was configured with.      *)
Known(domain) == \E n \in DOMAIN Registry : Registry[n].domain = domain

ResolveSource(domain) ==
    Registry[CHOOSE n \in DOMAIN Registry :
                 /\ Registry[n].domain = domain
                 /\ \A m \in 1 .. n - 1 : Registry[m].domain # domain]

(* What a run of the prover on an entry may yield: a proof for the market's *)
(* question read from the entry's page, with the value the page then has.  *)
ReadingsOf(entry) ==
    {pd \in ProofData :
        /\ ProofVerified(pd) /\ SameQuestion(pd)
        /\ pd.domain = entry.domain /\ pd.path = entry.path
        /\ pd.json_path = entry.json_path}

-----------------------------------------------------------------------------
(* One instance                                                            *)

SubmitTx(s, i, pd) == [from |-> s, call |-> "submit_proof", index |-> i, proof |-> pd]
AggregateTx(s)     == [from |-> s, call |-> "aggregate_resolution"]

At(s, label)   == pc[s] = label
Goto(s, label) == pc' = [pc EXCEPT ![s] = label]
GoIdle(s)      == Goto(s, "idle") /\ index' = [index EXCEPT ![s] = 0]

(* A mild fault is one the next poll starts from as if nothing had been    *)
(* tried; it leaves no trace in faults.                                    *)
Fault(kind) == kind \in FaultKinds /\ faults' = (faults \cup {kind}) \ {"mild"}

Send(s, tx) ==
    /\ Cardinality(inflight) < MaxInflight
    /\ inflight' = inflight \cup {tx}
    /\ waiting' = [waiting EXCEPT ![s] = tx]

(* findMarketsNeedingProofs                                                *)
NeedsProofs ==
    /\ state \in {"Closed", "Resolving"}
    /\ source_count < config.required_sources
    /\ ~DeadlinePassed

(* The snapshot's sourceCount is where the loop starts; everything else the *)
(* loop reads from the snapshot never changes.  The rest of the iteration  *)
(* runs later: other markets of the same poll may come first.              *)
Poll(s) ==
    /\ At(s, "idle") /\ NeedsProofs
    /\ index' = [index EXCEPT ![s] = source_count]
    /\ Goto(s, "loop")
    /\ UNCHANGED <<vars, waiting, inflight, faults>>

LoopEnd == config.required_sources

InLoop(s)   == At(s, "loop") /\ index[s] < LoopEnd
DomainOf(s) == config.source_configs[index[s] + 1].domain

NextIndex(s) == index' = [index EXCEPT ![s] = @ + 1]

SkipUnknown(s) ==
    /\ InLoop(s) /\ ~Known(DomainOf(s))
    /\ NextIndex(s)
    /\ UNCHANGED <<vars, pc, waiting, inflight, faults>>

(* generateProof returns, and submitProof sends the transaction.           *)
Submit(s, pd) ==
    /\ InLoop(s) /\ Known(DomainOf(s))
    /\ pd \in ReadingsOf(ResolveSource(DomainOf(s)))
    /\ Send(s, SubmitTx(s, index[s], pd))
    /\ Goto(s, "submitting")
    /\ UNCHANGED <<vars, index, faults>>

(* generateProof throws; the loop goes on with the next source.            *)
GenerateFails(s) ==
    /\ InLoop(s) /\ Known(DomainOf(s))
    /\ Fault(IF index[s] + 1 = LoopEnd THEN "mild" ELSE "gap")
    /\ NextIndex(s)
    /\ UNCHANGED <<vars, pc, waiting, inflight>>

(* rpc() returns or throws; the loop goes on with the next source.         *)
Submitted(s) ==
    /\ At(s, "submitting") /\ waiting[s] \notin inflight
    /\ waiting' = [waiting EXCEPT ![s] = NoTx]
    /\ NextIndex(s) /\ Goto(s, "loop")
    /\ UNCHANGED <<vars, inflight, faults>>

(* The loop is over: the market is fetched again, and aggregated if its    *)
(* proofs suffice.                                                         *)
Refetch(s) ==
    /\ At(s, "loop") /\ index[s] >= LoopEnd
    /\ IF source_count >= config.required_sources
       THEN Send(s, AggregateTx(s)) /\ Goto(s, "aggregating") /\ UNCHANGED index
       ELSE GoIdle(s) /\ UNCHANGED <<waiting, inflight>>
    /\ UNCHANGED <<vars, faults>>

Aggregated(s) ==
    /\ At(s, "aggregating") /\ waiting[s] \notin inflight
    /\ waiting' = [waiting EXCEPT ![s] = NoTx]
    /\ GoIdle(s)
    /\ UNCHANGED <<vars, inflight, faults>>

(* rpc() gives up on a transaction that may still be executed, or the      *)
(* refetch fails: both catch blocks go on as if the call had failed.       *)
GiveUp(s) ==
    /\ Fault("rpc")
    /\ \/ At(s, "submitting") /\ NextIndex(s) /\ Goto(s, "loop")
       \/ At(s, "aggregating") /\ GoIdle(s)
       \/ At(s, "loop") /\ index[s] >= LoopEnd /\ GoIdle(s)
    /\ waiting' = [waiting EXCEPT ![s] = NoTx]
    /\ UNCHANGED <<vars, inflight>>

(* The process stops and is started again; it keeps nothing on disk.       *)
(* Between two sources nothing is lost; later, a transaction or the        *)
(* aggregation may be left behind.                                         *)
Crash(s) ==
    /\ ~At(s, "idle")
    /\ Fault(IF InLoop(s) THEN "mild" ELSE "crash")
    /\ GoIdle(s)
    /\ waiting' = [waiting EXCEPT ![s] = NoTx]
    /\ UNCHANGED <<vars, inflight>>

-----------------------------------------------------------------------------
(* The network                                                             *)

(* aggregateResolution passes the proof address of every source; those     *)
(* without an account count nothing.                                       *)
Listed == OwnList(DOMAIN proofs)

Call(tx) ==
    IF tx.call = "submit_proof" THEN SubmitProof(tx.index, tx.proof)
    ELSE AggregateResolution(Listed)

Execute(tx) ==
    /\ Call(tx)
    /\ inflight' = inflight \ {tx}
    /\ UNCHANGED <<instance, faults>>

(* The program refuses the transaction (or its preflight simulation).      *)
Reject(tx) ==
    /\ ~ENABLED Call(tx)
    /\ inflight' = inflight \ {tx}
    /\ UNCHANGED <<vars, instance, faults>>

(* The transaction's blockhash expires before a leader takes it.           *)
Expire(tx) ==
    /\ Fault("rpc")
    /\ inflight' = inflight \ {tx}
    /\ UNCHANGED <<vars, instance>>

-----------------------------------------------------------------------------
(* Bets have no part in a resolution, so nobody places any here.           *)
Market ==
    /\ \/ \E c \in Creators, p \in MarketParams : InitMarket(c, p)
       \/ CloseMarket
       \/ \E caller \in Creators, o \in 0 .. 2 : FallbackResolve(caller, o)
       \/ Tick
    /\ UNCHANGED <<instance, inflight, faults>>

Instance(s) ==
    \/ Poll(s) \/ SkipUnknown(s) \/ GenerateFails(s)
    \/ \E pd \in ProofData : Submit(s, pd)
    \/ Submitted(s) \/ Refetch(s) \/ Aggregated(s)
    \/ GiveUp(s) \/ Crash(s)

Network == \E tx \in inflight : Execute(tx) \/ Reject(tx) \/ Expire(tx)

ServiceInit ==
    /\ Init
    /\ pc = [s \in Services |-> "idle"]
    /\ index = [s \in Services |-> 0]
    /\ waiting = [s \in Services |-> NoTx]
    /\ inflight = {} /\ faults = {}

ServiceNext == Market \/ Network \/ \E s \in Services : Instance(s)

ServiceSpec == ServiceInit /\ [][ServiceNext]_svars

(* The loop polls every POLL_INTERVAL and no await of it lasts for ever    *)
(* (execSync and rpc() time out); a prover run that is tried again and     *)
(* again succeeds at last; a transaction that does not expire is executed  *)
(* or refused.  The clock may stand still: time is measured by Tick.       *)
ServiceFairness ==
    \A s \in Services :
        /\ WF_svars(Poll(s) \/ SkipUnknown(s) \/ Submitted(s) \/ Refetch(s) \/ Aggregated(s))
        /\ SF_svars(\E pd \in ProofData : Submit(s, pd))
        /\ WF_svars(\E tx \in inflight : tx.from = s /\ (Execute(tx) \/ Reject(tx)))

FairServiceSpec == ServiceSpec /\ ServiceFairness

-----------------------------------------------------------------------------
(* Properties                                                              *)

(* The first required_sources sources decide: however instances race on    *)
(* stale snapshots, retry or restart, none of them submits a proof beyond  *)
(* the quorum that could still swing the vote (index.ts:52).               *)
QuorumSourcesDecide == \A i \in DOMAIN proofs : i < config.required_sources

(* An outcome the service obtained counts every accepted proof, also those *)
(* another instance submitted (submitter.ts:71-83).  Nobody else asks for  *)
(* an aggregation here; KrnMarket says what others may list.               *)
EveryVoteDecides ==
    state = "Resolved" /\ ~DeadlinePassed =>
        outcome = IF HasMajority(OwnList(DOMAIN proofs), YES) THEN YES ELSE NO

(* All sources the service may use have an entry whose page is the         *)
(* configured one.                                                         *)
Registered ==
    \A n \in 1 .. config.required_sources :
        LET source == config.source_configs[n]
        IN  Known(source.domain) /\ ResolveSource(source.domain) = source

ResolvedInTime(hindrances) ==
    state = "Closed" /\ Registered ~>
        \/ state = "Resolved"
        \/ state # "None" /\ DeadlinePassed
        \/ faults \cap hindrances # {}

(* A closed market is resolved before its deadline by instances that run   *)
(* side by side, fail on the last source they need and are restarted       *)
(* between two sources, as long as no other fault happens (index.ts:52-98).*)
ServiceResolves == ResolvedInTime({"gap", "crash", "rpc"})

(* index.ts:81 "Continue with next source, don't abort entire market": a   *)
(* source that failed once does not keep the market from being resolved.   *)
FailedSourceRetried == ResolvedInTime({"crash", "rpc"})

=============================================================================
