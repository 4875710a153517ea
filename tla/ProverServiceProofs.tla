------------------------- MODULE ProverServiceProofs -------------------------
(***************************************************************************)
(* What the votes of a market can be, for any number of instances of the   *)
(* service, any snapshots they act on, and any faults.                     *)
(***************************************************************************)
EXTENDS ProverService, KrnMarketProofs

(* A proof that was sent, or recorded, is for a source within the quorum   *)
(* of the market that exists; before there is one, no instance works.      *)
WithinQuorum(i) == state # "None" /\ i < config.required_sources

SentWithinQuorum ==
    \A tx \in inflight : tx.call = "submit_proof" => WithinQuorum(tx.index)

RecordedWithinQuorum == \A i \in DOMAIN proofs : WithinQuorum(i)

IdleBeforeMarket == state = "None" => \A s \in Services : pc[s] = "idle"

QuorumInv ==
    /\ pc = [s \in Services |-> pc[s]]
    /\ SentWithinQuorum /\ RecordedWithinQuorum /\ IdleBeforeMarket

-----------------------------------------------------------------------------
(* Nobody has done anything.                                               *)
LEMMA InitQuorumInv == ServiceInit => QuorumInv
  <1> SUFFICES ASSUME ServiceInit PROVE QuorumInv
    OBVIOUS
  <1>1. pc = [s \in Services |-> "idle"] /\ inflight = {} /\ DOMAIN proofs = {}
    BY DEF ServiceInit, Init
  <1> QED
    BY <1>1 DEF QuorumInv, SentWithinQuorum, RecordedWithinQuorum, IdleBeforeMarket

(* Instructions that record no proof: what was within the quorum stays     *)
(* within it, because the arguments of a market never change.              *)
LEMMA MarketKeepsQuorum == ASSUME QuorumInv, Market PROVE QuorumInv'
  <1> USE DEF instance, QuorumInv, SentWithinQuorum, RecordedWithinQuorum,
              IdleBeforeMarket, WithinQuorum, accounts, resolution, book
  <1>1. ASSUME NEW c \in Creators, NEW p \in MarketParams, InitMarket(c, p),
               UNCHANGED <<instance, inflight, faults>>
        PROVE  QuorumInv'
    BY <1>1 DEF InitMarket
  <1>2. ASSUME CloseMarket, UNCHANGED <<instance, inflight, faults>> PROVE QuorumInv'
    BY <1>2 DEF CloseMarket
  <1>3. ASSUME NEW caller \in Creators, NEW o \in 0 .. 2, FallbackResolve(caller, o),
               UNCHANGED <<instance, inflight, faults>>
        PROVE  QuorumInv'
    BY <1>3 DEF FallbackResolve
  <1>4. ASSUME Tick, UNCHANGED <<instance, inflight, faults>> PROVE QuorumInv'
    BY <1>4 DEF Tick
  <1> QED  BY <1>1, <1>2, <1>3, <1>4 DEF Market

(* A transaction records a proof only for the source it was sent for.      *)
LEMMA ExecuteKeepsQuorum ==
    ASSUME QuorumInv, NEW tx \in inflight, Execute(tx)
    PROVE  QuorumInv'
  <1> USE DEF instance, book, accounts
  <1>1. /\ inflight' = inflight \ {tx} /\ UNCHANGED <<pc, config>>
        /\ state # "None" /\ state' # "None"
        /\ \/ tx.call = "submit_proof" /\ DOMAIN proofs' = DOMAIN proofs \cup {tx.index}
           \/ proofs' = proofs
    BY DEF Execute, Call, SubmitProof, AggregateResolution, CanAggregate, Put
  <1> QED
    BY <1>1 DEF QuorumInv, SentWithinQuorum, RecordedWithinQuorum, IdleBeforeMarket,
                WithinQuorum

(* A transaction that is refused or expires leaves the market alone.       *)
LEMMA DropKeepsQuorum ==
    ASSUME QuorumInv, NEW tx \in inflight, inflight' = inflight \ {tx},
           UNCHANGED <<vars, instance>>
    PROVE  QuorumInv'
  BY DEF vars, resolution, instance, QuorumInv, SentWithinQuorum, RecordedWithinQuorum,
         IdleBeforeMarket, WithinQuorum

(* An instance that is at work knows of the market; one that has nothing   *)
(* in flight moves its label only.                                         *)
LEMMA LabelKeepsQuorum ==
    ASSUME QuorumInv, NEW s \in Services, NEW label,
           pc' = [pc EXCEPT ![s] = label], state # "None",
           UNCHANGED <<config, state, proofs>>, SentWithinQuorum'
    PROVE  QuorumInv'
  BY DEF QuorumInv, RecordedWithinQuorum, IdleBeforeMarket, WithinQuorum

(* An instance sends proofs only from within its loop.                     *)
LEMMA InstanceKeepsQuorum ==
    ASSUME QuorumInv, NEW s \in Services, Instance(s)
    PROVE  QuorumInv'
  <1>1. UNCHANGED <<config, state, proofs>>
    BY DEF Instance, Poll, SkipUnknown, GenerateFails, Submit, Submitted, Refetch,
           Aggregated, GiveUp, Crash, vars, resolution
  <1>2. pc[s] # "idle" => state # "None"
    BY DEF QuorumInv, IdleBeforeMarket
  <1>3. ASSUME inflight' = inflight PROVE SentWithinQuorum'
    BY <1>3, <1>1 DEF QuorumInv, SentWithinQuorum, WithinQuorum
  <1>4. ASSUME NEW pd \in ProofData, Submit(s, pd) PROVE QuorumInv'
    <2>1. /\ inflight' = inflight \cup {SubmitTx(s, index[s], pd)}
          /\ index[s] < config.required_sources /\ pc[s] = "loop"
          /\ pc' = [pc EXCEPT ![s] = "submitting"]
      BY <1>4 DEF Submit, InLoop, LoopEnd, At, Goto, Send
    <2>2. SubmitTx(s, index[s], pd).index = index[s]
      BY DEF SubmitTx
    <2>3. SentWithinQuorum'
      BY <2>1, <2>2, <1>1, <1>2 DEF QuorumInv, SentWithinQuorum, WithinQuorum
    <2> QED  BY <2>1, <2>3, <1>1, <1>2, LabelKeepsQuorum
  <1>5. ASSUME Refetch(s) PROVE QuorumInv'
    <2>1. pc[s] = "loop" /\ \E label : pc' = [pc EXCEPT ![s] = label]
      BY <1>5 DEF Refetch, At, Goto, GoIdle
    <2>2. inflight' = inflight \/ inflight' = inflight \cup {AggregateTx(s)}
      BY <1>5 DEF Refetch, Send
    <2>3. AggregateTx(s).call # "submit_proof"
      BY DEF AggregateTx
    <2>4. SentWithinQuorum'
      BY <2>2, <2>3, <1>1 DEF QuorumInv, SentWithinQuorum, WithinQuorum
    <2> QED  BY <2>1, <2>4, <1>1, <1>2, LabelKeepsQuorum
  <1>6. ASSUME Poll(s) PROVE QuorumInv'
    <2>1. inflight' = inflight /\ pc' = [pc EXCEPT ![s] = "loop"] /\ state # "None"
      BY <1>6 DEF Poll, NeedsProofs, Goto
    <2> QED  BY <2>1, <1>1, <1>3, LabelKeepsQuorum
  <1>7. ASSUME SkipUnknown(s) \/ GenerateFails(s) PROVE QuorumInv'
    <2>1. inflight' = inflight /\ pc' = pc
      BY <1>7 DEF SkipUnknown, GenerateFails
    <2> QED
      BY <2>1, <1>1, <1>3 DEF QuorumInv, RecordedWithinQuorum, IdleBeforeMarket, WithinQuorum
  <1>8. ASSUME Submitted(s) \/ Aggregated(s) \/ GiveUp(s) \/ Crash(s) PROVE QuorumInv'
    <2>1. /\ inflight' = inflight /\ pc[s] # "idle"
          /\ \E label : pc' = [pc EXCEPT ![s] = label]
      BY <1>8 DEF Submitted, Aggregated, GiveUp, Crash, At, Goto, GoIdle
    <2> QED  BY <2>1, <1>1, <1>2, <1>3, LabelKeepsQuorum
  <1> QED  BY <1>4, <1>5, <1>6, <1>7, <1>8 DEF Instance

(* Every step of the service, the network and the market keeps it.         *)
LEMMA NextQuorumInv == QuorumInv /\ [ServiceNext]_svars => QuorumInv'
  <1> SUFFICES ASSUME QuorumInv, [ServiceNext]_svars PROVE QuorumInv'
    OBVIOUS
  <1>1. CASE UNCHANGED svars
    BY <1>1 DEF svars, vars, resolution, QuorumInv, SentWithinQuorum, RecordedWithinQuorum,
                IdleBeforeMarket, WithinQuorum
  <1>2. ASSUME NEW tx \in inflight, Reject(tx) PROVE QuorumInv'
    BY <1>2, DropKeepsQuorum DEF Reject
  <1>3. ASSUME NEW tx \in inflight, Expire(tx) PROVE QuorumInv'
    BY <1>3, DropKeepsQuorum DEF Expire, instance
  <1> QED
    BY <1>1, <1>2, <1>3, MarketKeepsQuorum, ExecuteKeepsQuorum, InstanceKeepsQuorum
    DEF ServiceNext, Network

(* However many instances race on stale snapshots, retry and restart: only *)
(* the sources of the quorum ever get a proof.                             *)
THEOREM OnlyQuorumVotes == ServiceSpec => []QuorumSourcesDecide
  <1>1. QuorumInv => QuorumSourcesDecide
    BY DEF QuorumInv, RecordedWithinQuorum, WithinQuorum, QuorumSourcesDecide
  <1> QED  BY <1>1, InitQuorumInv, NextQuorumInv, PTL DEF ServiceSpec

-----------------------------------------------------------------------------
(* The service and the network send the market nothing but instructions.   *)

SentTyped ==
    /\ index \in [Services -> Nat]
    /\ \A tx \in inflight : tx.call = "submit_proof" => tx.index \in Nat /\ tx.proof \in ProofData

ServiceInv == TypeInv /\ SentTyped

(* Nobody has done anything.                                               *)
LEMMA InitServiceInv == ServiceInit => ServiceInv
  <1> SUFFICES ASSUME ServiceInit PROVE ServiceInv
    OBVIOUS
  <1>1. Init /\ index = [s \in Services |-> 0] /\ inflight = {}
    BY DEF ServiceInit
  <1> QED  BY <1>1, InitTypeInv DEF ServiceInv, SentTyped

(* A list of all recorded proofs is one a caller may pass.                 *)
LEMMA ListedIsList ==
    ASSUME TypeInv, state # "None"
    PROVE  Listed \in Lists
  <1>1. /\ config \in MarketParams /\ \A i \in DOMAIN proofs : i < NumSources
        /\ DOMAIN proofs \subseteq SourceIndices
    BY DEF TypeInv, Created, Lifecycle, TypeOK
  <1>2. NumSources \in Nat /\ NumSources <= MaxListed /\ MaxListed \in Nat
    BY <1>1, ParamsTyped, ListsAssumption DEF NumSources
  <1>3. DOMAIN proofs \in SUBSET (0 .. MaxListed - 1)
    <2>1. ASSUME NEW i \in DOMAIN proofs PROVE i \in 0 .. MaxListed - 1
      BY <1>1, <1>2, <2>1 DEF SourceIndices, MaxSources
    <2> QED  BY <2>1
  <1>4. ASSUME NEW i \in DOMAIN proofs PROVE Listed[i] \in AccountData
    <2>1. proofs[i].outcome \in {NO, YES}
      BY <1>4 DEF TypeInv, Lifecycle
    <2>2. [verified |-> TRUE, outcome |-> proofs[i].outcome]
              \in [verified : {TRUE}, outcome : {NO, YES}]
      BY <2>1
    <2> QED  BY <2>2, ListsAssumption DEF Listed, OwnList
  <1> QED  BY <1>3, <1>4 DEF Listed, OwnList, Lists

(* What is executed is an instruction of the market.                       *)
LEMMA ExecuteIsInstruction ==
    ASSUME ServiceInv, NEW tx \in inflight, Execute(tx)
    PROVE  Next
  <1>1. CASE tx.call = "submit_proof"
    <2>1. SubmitProof(tx.index, tx.proof) /\ tx.index \in Nat /\ tx.proof \in ProofData
      BY <1>1 DEF Execute, Call, ServiceInv, SentTyped
    <2>2. config \in MarketParams /\ Len(config.source_configs) <= MaxSources
      BY <2>1 DEF SubmitProof, ServiceInv, TypeInv, Created
    <2>3. tx.index < Len(config.source_configs) /\ Len(config.source_configs) \in Nat
      BY <2>1, <2>2, ParamsTyped DEF SubmitProof, NumSources
    <2>4. tx.index \in SourceIndices
      BY <2>1, <2>2, <2>3 DEF SourceIndices, MaxSources
    <2> QED  BY <2>1, <2>4 DEF Next
  <1>2. CASE tx.call # "submit_proof"
    <2>1. AggregateResolution(Listed)
      BY <1>2 DEF Execute, Call
    <2>2. Listed \in Lists
      BY ListedIsList, <2>1 DEF ServiceInv, AggregateResolution, CanAggregate
    <2> QED  BY <2>1, <2>2 DEF Next
  <1> QED  BY <1>1, <1>2

(* A step of the composition is an instruction, the clock, or nothing to   *)
(* the market.                                                             *)
LEMMA StepOfMarket == ServiceInv /\ [ServiceNext]_svars => [Next]_vars
  <1> SUFFICES ASSUME ServiceInv, [ServiceNext]_svars PROVE Next \/ UNCHANGED vars
    OBVIOUS
  <1>1. ASSUME Market PROVE Next
    BY <1>1 DEF Market, Next
  <1>2. ASSUME NEW s \in Services, Instance(s) PROVE UNCHANGED vars
    BY <1>2 DEF Instance, Poll, SkipUnknown, GenerateFails, Submit, Submitted, Refetch,
                Aggregated, GiveUp, Crash
  <1>3. ASSUME NEW tx \in inflight, Reject(tx) \/ Expire(tx) PROVE UNCHANGED vars
    BY <1>3 DEF Reject, Expire
  <1>4. CASE UNCHANGED svars
    BY <1>4 DEF svars
  <1> QED  BY <1>1, <1>2, <1>3, <1>4, ExecuteIsInstruction DEF ServiceNext, Network

(* Instances start from a snapshot's source_count and count upwards.       *)
LEMMA InstanceKeepsTypes ==
    ASSUME ServiceInv, NEW s \in Services, Instance(s)
    PROVE  SentTyped'
  <1>1. ASSUME NEW pd \in ProofData, Submit(s, pd) PROVE SentTyped'
    <2>1. inflight' = inflight \cup {SubmitTx(s, index[s], pd)} /\ index' = index
      BY <1>1 DEF Submit, Send
    <2>2. SubmitTx(s, index[s], pd).index = index[s] /\ SubmitTx(s, index[s], pd).proof = pd
      BY DEF SubmitTx
    <2> QED  BY <2>1, <2>2 DEF ServiceInv, SentTyped
  <1>2. ASSUME Refetch(s) PROVE SentTyped'
    <2>1. /\ inflight' = inflight \/ inflight' = inflight \cup {AggregateTx(s)}
          /\ index' = index \/ index' = [index EXCEPT ![s] = 0]
      BY <1>2 DEF Refetch, Send, GoIdle
    <2>2. AggregateTx(s).call # "submit_proof"
      BY DEF AggregateTx
    <2> QED  BY <2>1, <2>2 DEF ServiceInv, SentTyped
  <1>3. ASSUME Poll(s) PROVE SentTyped'
    <2>1. inflight' = inflight /\ index' = [index EXCEPT ![s] = source_count]
      BY <1>3 DEF Poll
    <2>2. source_count \in Nat
      BY DEF ServiceInv, TypeInv, TypeOK, MaxSources
    <2> QED  BY <2>1, <2>2 DEF ServiceInv, SentTyped
  <1>4. ASSUME \/ SkipUnknown(s) \/ GenerateFails(s) \/ Submitted(s) \/ Aggregated(s)
               \/ GiveUp(s) \/ Crash(s)
        PROVE  SentTyped'
    <2>1. /\ inflight' = inflight
          /\ \/ index' = index
             \/ index' = [index EXCEPT ![s] = 0]
             \/ index' = [index EXCEPT ![s] = @ + 1]
      BY <1>4 DEF SkipUnknown, GenerateFails, Submitted, Aggregated, GiveUp, Crash, GoIdle,
                  NextIndex
    <2> QED  BY <2>1 DEF ServiceInv, SentTyped
  <1> QED  BY <1>1, <1>2, <1>3, <1>4 DEF Instance

(* Every step keeps both types.                                            *)
LEMMA NextServiceInv == ServiceInv /\ [ServiceNext]_svars => ServiceInv'
  <1> SUFFICES ASSUME ServiceInv, [ServiceNext]_svars PROVE ServiceInv'
    OBVIOUS
  <1>1. TypeInv'
    BY StepOfMarket, NextTypeInv DEF ServiceInv
  <1>2. ASSUME index' = index, inflight' \subseteq inflight PROVE SentTyped'
    BY <1>2 DEF ServiceInv, SentTyped
  <1>3. SentTyped'
    BY <1>2, InstanceKeepsTypes
    DEF ServiceNext, Market, Network, Execute, Reject, Expire, instance, svars
  <1> QED  BY <1>1, <1>3 DEF ServiceInv

(* Whatever the instances, the network and the clock do, the market of the *)
(* composition is a market of KrnMarket: all that is proved of the market  *)
(* alone holds of it.                                                      *)
THEOREM MarketObeyed == ServiceSpec => Spec
  <1>1. ServiceInit => Init
    BY DEF ServiceInit
  <1> QED  BY <1>1, StepOfMarket, InitServiceInv, NextServiceInv, PTL DEF ServiceSpec, Spec

-----------------------------------------------------------------------------
(* The vote.                                                               *)

(* The outcome the votes have.                                             *)
VotedOutcome == IF HasMajority(OwnList(DOMAIN proofs), YES) THEN YES ELSE NO

(* Steps that move no vote.                                                *)
LEMMA VotesStay ==
    ASSUME EveryVoteDecides, UNCHANGED resolution, ~DeadlinePassed' => ~DeadlinePassed
    PROVE  EveryVoteDecides'
  <1>1. VotedOutcome' = VotedOutcome
    BY DEF VotedOutcome, HasMajority, Votes, OwnList, resolution
  <1> QED  BY <1>1 DEF EveryVoteDecides, VotedOutcome, resolution

(* A deadline that has passed stays passed.                                *)
LEMMA DeadlineStays ==
    ASSUME TypeInv, Tick, state = "Resolved", ~DeadlinePassed'
    PROVE  ~DeadlinePassed
  <1>1. config \in MarketParams /\ now \in Nat /\ now' \in Nat /\ now' > now /\ config' = config
    BY TimeAssumption DEF TypeInv, TypeOK, Created, Tick
  <1>2. config.resolution_deadline \in Nat
    BY <1>1, ParamsTyped
  <1> QED  BY <1>1, <1>2 DEF DeadlinePassed

(* What the service asks to be aggregated are all proofs there are at the  *)
(* time of the execution, and none can be added later.                     *)
LEMMA NextVote == ServiceInv /\ EveryVoteDecides /\ [ServiceNext]_svars => EveryVoteDecides'
  <1> SUFFICES ASSUME ServiceInv, EveryVoteDecides, [ServiceNext]_svars
               PROVE  EveryVoteDecides'
    OBVIOUS
  <1>1. ASSUME UNCHANGED vars PROVE EveryVoteDecides'
    BY <1>1, VotesStay DEF vars, DeadlinePassed
  <1>2. ASSUME NEW tx \in inflight, Execute(tx) PROVE EveryVoteDecides'
    <2>1. CASE tx.call = "submit_proof"
      BY <2>1, <1>2 DEF Execute, Call, SubmitProof, EveryVoteDecides
    <2>2. CASE tx.call # "submit_proof"
      <3>1. AggregateResolution(OwnList(DOMAIN proofs))
        BY <2>2, <1>2 DEF Execute, Call, Listed
      <3>2. VotedOutcome' = VotedOutcome /\ outcome' = VotedOutcome
        BY <3>1 DEF AggregateResolution, VotedOutcome, HasMajority, Votes, OwnList
      <3> QED  BY <3>2 DEF EveryVoteDecides, VotedOutcome
    <2> QED  BY <2>1, <2>2
  <1>3. ASSUME NEW c \in Creators, NEW p \in MarketParams, InitMarket(c, p)
        PROVE  EveryVoteDecides'
    BY <1>3 DEF InitMarket, EveryVoteDecides
  <1>4. ASSUME CloseMarket PROVE EveryVoteDecides'
    BY <1>4 DEF CloseMarket, EveryVoteDecides
  <1>5. ASSUME NEW caller \in Creators, NEW o \in 0 .. 2, FallbackResolve(caller, o)
        PROVE  EveryVoteDecides'
    BY <1>5 DEF FallbackResolve, EveryVoteDecides, DeadlinePassed
  <1>6. ASSUME Tick PROVE EveryVoteDecides'
    <2>1. CASE state = "Resolved"
      BY <2>1, <1>6, VotesStay, DeadlineStays DEF ServiceInv, Tick
    <2>2. CASE state # "Resolved"
      BY <2>2, <1>6 DEF Tick, resolution, EveryVoteDecides
    <2> QED  BY <2>1, <2>2
  <1>7. CASE UNCHANGED svars
    BY <1>7, <1>1 DEF svars
  <1>8. ASSUME NEW s \in Services, Instance(s) PROVE UNCHANGED vars
    BY <1>8 DEF Instance, Poll, SkipUnknown, GenerateFails, Submit, Submitted, Refetch,
                Aggregated, GiveUp, Crash
  <1>9. ASSUME NEW tx \in inflight, Reject(tx) \/ Expire(tx) PROVE UNCHANGED vars
    BY <1>9 DEF Reject, Expire
  <1> QED
    BY <1>1, <1>2, <1>3, <1>4, <1>5, <1>6, <1>7, <1>8, <1>9 DEF ServiceNext, Network, Market

(* Before the deadline a market has the outcome of all proofs that were    *)
(* accepted, whichever instance submitted or aggregated them.              *)
THEOREM VotesDecide == ServiceSpec => []EveryVoteDecides
  <1>1. ServiceInit => EveryVoteDecides
    BY DEF ServiceInit, Init, EveryVoteDecides
  <1> QED  BY <1>1, NextVote, InitServiceInv, NextServiceInv, PTL DEF ServiceSpec

=============================================================================
