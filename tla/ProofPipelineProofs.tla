------------------------- MODULE ProofPipelineProofs -------------------------
(***************************************************************************)
(* What is proved of the way a proof takes: the chain accepts only proofs  *)
(* of runs of the guest for the question asked, and a run that nothing     *)
(* disturbs is accepted.                                                   *)
(***************************************************************************)
EXTENDS ProofPipeline, KrnGuestProofs

-----------------------------------------------------------------------------
(* The pipeline                                                            *)

(* Types of what is on the way.  Every run of a host is one of the guest   *)
(* that ended well; its fields are those of no particular request.         *)
RequestFile == [server_name : Seq(Byte), path : {r.path : r \in Requests}]

Run ==
    [program : {KrnVkey}, vk_root : {Sp1Root}, exit_code : {0},
     path : {r.path : r \in Requests}, fields : FieldsType]

Host ==
    [pc : {"started"}, request : Requests]
    \cup [pc : {"proved", "halfway"}, run : Run]
    \cup [pc : {"exited", "failed"}]

Proofs == {ProofOf(run) : run \in Run}
Values == {ValuesOf(run) : run \in Run}

ServiceState ==
    {Idle}
    \cup [pc : {"proving"}, request : Requests, host : Nat, alone : BOOLEAN]
    \cup [pc : {"reading"}, request : Requests, alone : BOOLEAN, proof : Proofs]
    \cup [pc : {"submitting"}, request : Requests, alone : BOOLEAN, proof : Proofs,
          values : Values \cup {Nothing}]

PipelineTypeOK ==
    /\ hosts \in Seq(Host)
    /\ hosts # <<>> => input_json \in RequestFile
    /\ proof_bin \in Proofs \cup {Nothing}
    /\ public_values_bin \in Values \cup {Nothing}
    /\ prover \in [Services -> ServiceState]
    /\ DOMAIN accepted = Requests

(* The run answers the request.                                            *)
Answers(run, r) ==
    /\ run \in Run
    /\ run.fields.server_name = r.domain /\ run.fields.json_path = r.json_path
    /\ Question(run.fields) = Question(r)

(* Where a run that nothing disturbs has got to: its host is the only one  *)
(* running, and the files it has written so far are its own.               *)
Proving(h, r) ==
    /\ h \in DOMAIN hosts
    /\ \A g \in DOMAIN hosts : g # h => ~Running(g)
    /\ hosts[h].pc = "started" =>
           hosts[h].request = r /\ input_json = [server_name |-> r.domain, path |-> r.path]
    /\ hosts[h].pc = "proved" => Answers(hosts[h].run, r)
    /\ hosts[h].pc = "halfway" =>
           Answers(hosts[h].run, r) /\ proof_bin = ProofOf(hosts[h].run)
    /\ hosts[h].pc = "exited" =>
           \E run : Answers(run, r) /\ proof_bin = ProofOf(run)
                    /\ public_values_bin = ValuesOf(run)

CleanRun(s) ==
    LET p == prover[s]
    IN  /\ p.pc = "proving" => Proving(p.host, p.request)
        /\ p.pc = "reading" =>
               /\ \A g \in DOMAIN hosts : ~Running(g)
               /\ \E run : Answers(run, p.request) /\ p.proof = ProofOf(run)
                           /\ public_values_bin = ValuesOf(run)
        /\ p.pc = "submitting" =>
               \E run : Answers(run, p.request) /\ p.proof = ProofOf(run)
                        /\ p.values = ValuesOf(run)

CleanRuns ==
    \A s \in Services : prover[s].pc # "idle" /\ prover[s].alone => CleanRun(s)

(* A proof of a run, whatever its envelope.                                *)
Genuine(proof) ==
    /\ proof.statement = ProofOf(proof.run).statement
    /\ proof.run.fields \in FieldsType

Accounted ==
    \A r \in Requests :
        accepted[r] # Nothing =>
            LET proof == accepted[r].proof
                k == Parsed(accepted[r].values)
            IN  /\ Genuine(proof) /\ Verified(proof, accepted[r].values)
                /\ k.threshold = r.threshold /\ k.comparison = r.comparison
                /\ k.server_name = r.domain /\ k.json_path = r.json_path

PipelineInv == PipelineTypeOK /\ CleanRuns /\ Accounted

LEMMA HostProofsGenuine ==
    ASSUME NEW proof \in Proofs
    PROVE  Genuine(proof)
  <1>1. PICK run \in Run : proof = ProofOf(run)
    BY DEF Proofs
  <1>2. proof.run = run
    BY <1>1 DEF ProofOf
  <1>3. run.fields \in FieldsType
    BY DEF Run
  <1> QED  BY <1>1, <1>2, <1>3 DEF Genuine

(* A proof of a run that answers the request is accepted with its values.  *)
LEMMA AnswerAccepted ==
    ASSUME NEW r \in Requests, accepted[r] = Nothing, NEW run, Answers(run, r),
           Unambiguous(TlsOutput), Len(r.domain) < Base, Len(r.json_path) < Base
    PROVE  Accepts(r, ProofOf(run), ValuesOf(run))
  <1>1. /\ run.program = KrnVkey /\ run.vk_root = Sp1Root /\ run.exit_code = 0
        /\ run.fields \in FieldsType
    BY DEF Answers, Run
  <1>2. ValuesOf(run) = Committed(TlsOutput, run.fields)
    BY <1>1 DEF ValuesOf
  <1>3. Readable(TlsOutput, run.fields)
    BY DEF Readable, Answers
  <1>4. WellFormed(ValuesOf(run)) /\ Parsed(ValuesOf(run)) = run.fields
    BY <1>1, <1>2, <1>3, CodecCorrect, OutputAssumption
  <1>5. Verified(ProofOf(run), ValuesOf(run))
    BY <1>1 DEF Verified, ProofOf, ExpectedVkey
  <1>6. /\ run.fields.threshold = r.threshold /\ run.fields.comparison = r.comparison
        /\ run.fields.server_name = r.domain /\ run.fields.json_path = r.json_path
    BY DEF Answers, Question
  <1>7. run.fields.outcome \in {0, 1}
    BY <1>1, FieldsHaveType
  <1> QED  BY <1>4, <1>5, <1>6, <1>7 DEF Accepts

LEMMA InvGivesCleanRun == PipelineInv => CleanRunAccepted
  <1> SUFFICES ASSUME PipelineInv, NEW s \in Services,
                      At(s, "submitting"), Undisturbed(s), accepted[prover[s].request] = Nothing,
                      Unambiguous(TlsOutput), Len(prover[s].request.domain) < Base,
                      Len(prover[s].request.json_path) < Base
               PROVE  Accepts(prover[s].request, prover[s].proof, prover[s].values)
    BY DEF CleanRunAccepted
  <1>1. prover[s].pc = "submitting" /\ prover[s].alone
    BY DEF At, Undisturbed
  <1>2. prover[s].request \in Requests
    <2>1. prover[s] \in ServiceState
      BY DEF PipelineInv, PipelineTypeOK
    <2> QED  BY <1>1, <2>1 DEF ServiceState, Idle
  <1>3. PICK run : /\ Answers(run, prover[s].request) /\ prover[s].proof = ProofOf(run)
                   /\ prover[s].values = ValuesOf(run)
    BY <1>1 DEF PipelineInv, CleanRuns, CleanRun
  <1> QED  BY <1>2, <1>3, AnswerAccepted

LEMMA InvGivesAcceptedAsRead == PipelineInv => AcceptedAsRead
  <1> SUFFICES ASSUME PipelineInv, NEW r \in Requests, accepted[r] # Nothing,
                      NEW proof, proof = accepted[r].proof, NEW run, run = proof.run
               PROVE  /\ run.program = KrnVkey /\ run.exit_code = 0 /\ run.vk_root = Sp1Root
                      /\ Readable(TlsOutput, run.fields) =>
                             /\ run.fields.server_name = r.domain
                             /\ run.fields.json_path = r.json_path
                             /\ Question(run.fields) = Question(r)
                             /\ Parsed(accepted[r].values).outcome = run.fields.outcome
    BY DEF AcceptedAsRead
  <1>1. Genuine(proof) /\ Verified(proof, accepted[r].values)
    BY DEF PipelineInv, Accounted
  <1>2. /\ run.program = KrnVkey /\ run.exit_code = 0 /\ run.vk_root = Sp1Root
        /\ ValuesOf(run) = accepted[r].values
    BY <1>1 DEF Genuine, Verified, ProofOf, ExpectedVkey
  <1>3. ASSUME Readable(TlsOutput, run.fields)
        PROVE  Parsed(accepted[r].values) = run.fields
    <2>1. accepted[r].values = Committed(TlsOutput, run.fields)
      BY <1>2 DEF ValuesOf
    <2> QED  BY <1>1, <1>3, <2>1, CodecCorrect, OutputAssumption DEF Genuine
  <1>4. LET k == Parsed(accepted[r].values)
        IN  /\ k.threshold = r.threshold /\ k.comparison = r.comparison
            /\ k.server_name = r.domain /\ k.json_path = r.json_path
    BY DEF PipelineInv, Accounted
  <1> QED  BY <1>2, <1>3, <1>4 DEF Question

-----------------------------------------------------------------------------
(* What a state of a service and a host is made of.                        *)
LEMMA StateOfService ==
    ASSUME NEW p \in ServiceState
    PROVE  /\ p.pc \in {"idle", "proving", "reading", "submitting"}
           /\ p.pc = "idle" => p = Idle
           /\ p.pc # "idle" => p.request \in Requests /\ p.alone \in BOOLEAN
           /\ p.pc = "proving" => p.host \in Nat
           /\ p.pc \in {"reading", "submitting"} => p.proof \in Proofs
           /\ p.pc = "submitting" => p.values \in Values \cup {Nothing}
           /\ p.pc # "idle" => [p EXCEPT !.alone = FALSE] \in ServiceState
  <1> HIDE DEF Proofs, Values
  <1>1. CASE p = Idle
    BY <1>1 DEF Idle
  <1>2. CASE p \in [pc : {"proving"}, request : Requests, host : Nat, alone : BOOLEAN]
    BY <1>2 DEF ServiceState
  <1>3. CASE p \in [pc : {"reading"}, request : Requests, alone : BOOLEAN, proof : Proofs]
    BY <1>3 DEF ServiceState
  <1>4. CASE p \in [pc : {"submitting"}, request : Requests, alone : BOOLEAN, proof : Proofs,
                    values : Values \cup {Nothing}]
    BY <1>4 DEF ServiceState
  <1> QED  BY <1>1, <1>2, <1>3, <1>4 DEF ServiceState

LEMMA StateOfHost ==
    ASSUME NEW h \in Host
    PROVE  /\ h.pc \in {"started", "proved", "halfway", "exited", "failed"}
           /\ h.pc = "started" => h.request \in Requests
           /\ h.pc \in {"proved", "halfway"} =>
                  h.run \in Run /\ [h EXCEPT !.pc = "halfway"] \in Host
  BY DEF Host

LEMMA HostSet ==
    ASSUME NEW g \in Seq(Host), NEW h \in DOMAIN g, NEW x \in Host
    PROVE  /\ [g EXCEPT ![h] = x] \in Seq(Host)
           /\ DOMAIN [g EXCEPT ![h] = x] = DOMAIN g
           /\ g # <<>>
  <1> HIDE DEF Host
  <1> QED  OBVIOUS

(* What the guest is run on by a host, and what comes of it.               *)
RunOf(r, file, reading) ==
    [program |-> KrnVkey, vk_root |-> Sp1Root, exit_code |-> 0, path |-> file.path,
     fields |-> [server_name |-> file.server_name, json_path |-> r.json_path,
                 threshold |-> r.threshold, comparison |-> r.comparison,
                 value |-> reading.value, outcome |-> reading.outcome]]

LEMMA RunAnswers ==
    ASSUME NEW r \in Requests, NEW file \in RequestFile, NEW reading \in Readings(r)
    PROVE  /\ RunOf(r, file, reading) \in Run
           /\ file.server_name = r.domain => Answers(RunOf(r, file, reading), r)
  <1>1. r.json_path \in Seq(Byte) /\ r.threshold \in Word /\ r.comparison \in Byte
    BY RequestAssumption
  <1>2. file.server_name \in Seq(Byte) /\ file.path \in {q.path : q \in Requests}
    BY DEF RequestFile
  <1>3. reading.value \in Word /\ reading.outcome \in {0, 1}
    BY DEF Readings
  <1> DEFINE fields == RunOf(r, file, reading).fields
  <1>4. fields \in FieldsType
    BY <1>1, <1>2, <1>3 DEF RunOf, FieldsType
  <1>5. RunOf(r, file, reading) \in Run
    <2> HIDE DEF FieldsType, Byte
    <2> QED  BY <1>2, <1>4 DEF RunOf, Run
  <1> QED  BY <1>5 DEF Answers, Question, RunOf

LEMMA ProveRuns ==
    ASSUME NEW h, NEW reading, Prove(h, reading)
    PROVE  hosts' = [hosts EXCEPT ![h] =
                        [pc |-> "proved", run |-> RunOf(hosts[h].request, input_json, reading)]]
  BY DEF Prove, RunOf

LEMMA PipelineInitially == PipelineInit => PipelineInv
  <1> SUFFICES ASSUME PipelineInit PROVE PipelineInv
    OBVIOUS
  <1>1. PipelineTypeOK
    <2>1. Idle \in ServiceState
      BY DEF ServiceState
    <2> HIDE DEF Host, ServiceState, Idle, Proofs, Values
    <2> QED  BY <2>1 DEF PipelineInit, PipelineTypeOK
  <1>2. CleanRuns
    BY DEF PipelineInit, CleanRuns, Idle
  <1>3. Accounted
    BY DEF PipelineInit, Accounted
  <1> QED  BY <1>1, <1>2, <1>3 DEF PipelineInv

-----------------------------------------------------------------------------
(* The types, step by step.                                                *)

(* A step that only sets the state of one service leaves the others.       *)
LEMMA ServiceSet ==
    ASSUME PipelineTypeOK, NEW s \in Services, NEW p \in ServiceState,
           prover' = [prover EXCEPT ![s] = p]
    PROVE  /\ prover' \in [Services -> ServiceState]
           /\ prover'[s] = p
           /\ \A t \in Services : t # s => prover'[t] = prover[t]
  <1> HIDE DEF ServiceState
  <1> QED  BY DEF PipelineTypeOK

LEMMA StartKeepsTypes ==
    ASSUME PipelineTypeOK, NEW s \in Services, NEW r \in Requests, StartProver(s, r)
    PROVE  PipelineTypeOK'
  <1>1. hosts \in Seq(Host) /\ prover \in [Services -> ServiceState]
    BY DEF PipelineTypeOK
  <1>2. hosts' \in Seq(Host)
    <2>1. [pc |-> "started", request |-> r] \in Host
      BY DEF Host
    <2>2. hosts' = Append(hosts, [pc |-> "started", request |-> r])
      BY DEF StartProver
    <2> HIDE DEF Host
    <2> QED  BY <1>1, <2>1, <2>2, AppendProperties
  <1>3. input_json' \in RequestFile
    <2>1. r.domain \in Seq(Byte)
      BY RequestAssumption
    <2> HIDE DEF Byte
    <2> QED  BY <2>1 DEF StartProver, RequestFile
  <1>4. prover' \in [Services -> ServiceState]
    <2> DEFINE first == [pc |-> "proving", request |-> r, host |-> Len(hosts) + 1,
                         alone |-> \A h \in DOMAIN hosts : ~Running(h)]
               state(t) == IF t = s THEN first
                           ELSE IF At(t, "idle") THEN Idle
                           ELSE [prover[t] EXCEPT !.alone = FALSE]
    <2>1. first \in ServiceState
      <3>1. Len(hosts) + 1 \in Nat
        BY <1>1, LenProperties
      <3>2. (\A h \in DOMAIN hosts : ~Running(h)) \in BOOLEAN
        OBVIOUS
      <3> DEFINE quiet == \A h \in DOMAIN hosts : ~Running(h)
      <3> HIDE DEF quiet
      <3>3. [pc |-> "proving", request |-> r, host |-> Len(hosts) + 1, alone |-> quiet]
                \in [pc : {"proving"}, request : Requests, host : Nat, alone : BOOLEAN]
        <4>1. quiet \in BOOLEAN
          BY <3>2 DEF quiet
        <4> QED  BY <3>1, <4>1, Zenon
      <3> QED  BY <3>3, Zenon DEF ServiceState, quiet
    <2>2. ASSUME NEW t \in Services PROVE state(t) \in ServiceState
      <3>1. prover[t] \in ServiceState
        BY <1>1
      <3>2. Idle \in ServiceState
        BY DEF ServiceState
      <3>3. ~At(t, "idle") => [prover[t] EXCEPT !.alone = FALSE] \in ServiceState
        BY <3>1, StateOfService DEF At
      <3> HIDE DEF first, ServiceState
      <3> QED  BY <2>1, <3>2, <3>3
    <2>3. prover' = [t \in Services |-> state(t)]
      BY DEF StartProver
    <2> HIDE DEF state
    <2> QED  BY <2>2, <2>3
  <1> QED  BY <1>2, <1>3, <1>4 DEF PipelineTypeOK, StartProver, files

LEMMA ServiceKeepsTypes ==
    ASSUME PipelineTypeOK, NEW s \in Services,
           ReadProof(s) \/ ReadValues(s) \/ GiveUp(s) \/ Submit(s)
    PROVE  PipelineTypeOK' /\ UNCHANGED <<input_json, files, hosts>>
  <1> DEFINE p == prover[s]
  <1>1. p \in ServiceState
    BY DEF PipelineTypeOK
  <1>2. UNCHANGED <<input_json, files, hosts>>
    BY DEF ReadProof, ReadValues, GiveUp, Submit
  <1>3. DOMAIN accepted' = Requests
    <2>1. UNCHANGED accepted \/ Record(p.request, p.proof, p.values)
      BY DEF ReadProof, ReadValues, GiveUp, Submit
    <2> QED  BY <2>1 DEF Record, PipelineTypeOK
  <1>4. prover' \in [Services -> ServiceState]
    <2>1. CASE ReadProof(s)
      <3> DEFINE q == [pc |-> "reading", request |-> p.request, alone |-> p.alone,
                       proof |-> proof_bin]
      <3>1. prover' = [prover EXCEPT ![s] = q]
        BY <2>1 DEF ReadProof, PipelineTypeOK
      <3>2. p.pc = "proving" /\ proof_bin \in Proofs
        BY <2>1 DEF ReadProof, At, PipelineTypeOK
      <3>3. p.request \in Requests /\ p.alone \in BOOLEAN
        BY <1>1, <3>2, StateOfService
      <3>4. q \in ServiceState
        <4> HIDE DEF Proofs, p
        <4> QED  BY <3>2, <3>3 DEF ServiceState
      <3> HIDE DEF q
      <3> QED  BY <3>1, <3>4, ServiceSet
    <2>2. CASE ReadValues(s)
      <3> DEFINE q == [pc |-> "submitting", request |-> p.request, alone |-> p.alone,
                       proof |-> p.proof, values |-> public_values_bin]
      <3>1. prover' = [prover EXCEPT ![s] = q]
        BY <2>2 DEF ReadValues, PipelineTypeOK
      <3>2. p.pc = "reading" /\ public_values_bin \in Values \cup {Nothing}
        BY <2>2 DEF ReadValues, At, PipelineTypeOK
      <3>3. p.request \in Requests /\ p.alone \in BOOLEAN /\ p.proof \in Proofs
        BY <1>1, <3>2, StateOfService
      <3>4. q \in ServiceState
        <4> HIDE DEF Proofs, Values, p
        <4> QED  BY <3>2, <3>3 DEF ServiceState
      <3> HIDE DEF q
      <3> QED  BY <3>1, <3>4, ServiceSet
    <2>3. CASE GiveUp(s) \/ Submit(s)
      <3>1. prover' = [prover EXCEPT ![s] = Idle]
        BY <2>3 DEF GiveUp, Submit
      <3>2. Idle \in ServiceState
        BY DEF ServiceState
      <3> QED  BY <3>1, <3>2, ServiceSet
    <2> QED  BY <2>1, <2>2, <2>3
  <1> QED  BY <1>2, <1>3, <1>4 DEF PipelineTypeOK, files

LEMMA HostKeepsTypes ==
    ASSUME PipelineTypeOK, NEW h \in DOMAIN hosts, HostStep(h)
    PROVE  /\ PipelineTypeOK' /\ UNCHANGED <<input_json, prover, accepted>>
           /\ DOMAIN hosts' = DOMAIN hosts
           /\ \A g \in DOMAIN hosts : g # h => hosts'[g] = hosts[g]
  <1>1. hosts \in Seq(Host) /\ hosts[h] \in Host
    <2> HIDE DEF Host
    <2> QED  BY DEF PipelineTypeOK
  <1>2. UNCHANGED <<input_json, prover, accepted>>
    BY DEF HostStep, Prove, WriteProof, WriteValues, Fail
  <1>3. PICK x \in Host : hosts' = [hosts EXCEPT ![h] = x]
    <2>1. CASE HostAt(h, "started") /\ \E reading \in Readings(hosts[h].request) : Prove(h, reading)
      <3>1. PICK reading \in Readings(hosts[h].request) : Prove(h, reading)
        BY <2>1
      <3>2. hosts[h].request \in Requests
        BY <1>1, <2>1, StateOfHost DEF HostAt
      <3>3. input_json \in RequestFile
        BY <1>1, HostSet DEF PipelineTypeOK
      <3> DEFINE run == RunOf(hosts[h].request, input_json, reading)
      <3>4. run \in Run
        BY <3>2, <3>3, RunAnswers
      <3>5. hosts' = [hosts EXCEPT ![h] = [pc |-> "proved", run |-> run]]
        BY <3>1, ProveRuns
      <3> HIDE DEF run, Run
      <3>6. [pc |-> "proved", run |-> run] \in Host
        BY <3>4 DEF Host
      <3> QED  BY <3>5, <3>6
    <2>2. CASE WriteProof(h)
      <3>1. hosts[h].pc = "proved"
        BY <2>2 DEF WriteProof, HostAt
      <3>2. hosts' = [hosts EXCEPT ![h] = [hosts[h] EXCEPT !.pc = "halfway"]]
        BY <2>2 DEF WriteProof
      <3> QED  BY <1>1, <3>1, <3>2, StateOfHost
    <2>3. CASE WriteValues(h) \/ Fail(h)
      <3>1. [pc |-> "exited"] \in Host /\ [pc |-> "failed"] \in Host
        BY DEF Host
      <3> QED  BY <2>3, <3>1 DEF WriteValues, Fail
    <2> QED  BY <2>1, <2>2, <2>3 DEF HostStep
  <1>4. /\ hosts' \in Seq(Host) /\ DOMAIN hosts' = DOMAIN hosts /\ hosts # <<>>
        /\ \A g \in DOMAIN hosts : g # h => hosts'[g] = hosts[g]
    <2> HIDE DEF Host
    <2> QED  BY <1>1, <1>3, HostSet
  <1>5. /\ proof_bin' \in Proofs \cup {Nothing}
        /\ public_values_bin' \in Values \cup {Nothing}
    <2>1. CASE UNCHANGED files
      BY <2>1 DEF files, PipelineTypeOK
    <2>2. CASE WriteProof(h)
      <3>1. hosts[h].run \in Run
        BY <1>1, <2>2, StateOfHost DEF WriteProof, HostAt
      <3> HIDE DEF Run
      <3> QED  BY <2>2, <3>1 DEF WriteProof, Proofs, PipelineTypeOK
    <2>3. CASE WriteValues(h)
      <3>1. hosts[h].run \in Run
        BY <1>1, <2>3, StateOfHost DEF WriteValues, HostAt
      <3> HIDE DEF Run
      <3> QED  BY <2>3, <3>1 DEF WriteValues, Values, PipelineTypeOK
    <2> QED  BY <2>1, <2>2, <2>3 DEF HostStep, Prove, Fail
  <1> QED  BY <1>2, <1>4, <1>5 DEF PipelineTypeOK

-----------------------------------------------------------------------------
(* Runs that nothing disturbs, step by step.                               *)

LEMMA StartKeepsCleanRuns ==
    ASSUME PipelineTypeOK, CleanRuns, NEW s \in Services, NEW r \in Requests, StartProver(s, r)
    PROVE  CleanRuns'
  <1>1. hosts \in Seq(Host) /\ prover \in [Services -> ServiceState]
    BY DEF PipelineTypeOK
  <1> SUFFICES ASSUME NEW t \in Services, prover'[t].pc # "idle", prover'[t].alone
               PROVE  CleanRun(t)'
    BY DEF CleanRuns
  <1> DEFINE first == [pc |-> "proving", request |-> r, host |-> Len(hosts) + 1,
                       alone |-> \A h \in DOMAIN hosts : ~Running(h)]
  <1>2. prover' = [u \in Services |-> IF u = s THEN first
                                      ELSE IF At(u, "idle") THEN Idle
                                      ELSE [prover[u] EXCEPT !.alone = FALSE]]
    BY DEF StartProver
  <1>3. t = s
    <2> SUFFICES ASSUME t # s PROVE FALSE
      OBVIOUS
    <2>1. ~At(t, "idle") => prover'[t] = [prover[t] EXCEPT !.alone = FALSE]
      BY <1>2
    <2>2. At(t, "idle") => prover'[t] = Idle
      BY <1>2
    <2>3. ~At(t, "idle") => prover[t] \in ServiceState /\ prover[t].pc # "idle"
      BY <1>1 DEF At
    <2>4. ~At(t, "idle") => prover'[t].alone = FALSE
      <3> SUFFICES ASSUME ~At(t, "idle") PROVE [prover[t] EXCEPT !.alone = FALSE].alone = FALSE
        BY <2>1
      <3> QED  BY <2>3 DEF ServiceState, Idle
    <2> QED  BY <2>2, <2>4 DEF Idle
  <1>4. prover'[t] = first
    BY <1>2, <1>3
  <1>5. \A h \in DOMAIN hosts : ~Running(h)
    BY <1>4
  <1>6. /\ Len(hosts) \in Nat /\ DOMAIN hosts = 1 .. Len(hosts)
        /\ DOMAIN hosts' = 1 .. Len(hosts) + 1
        /\ \A h \in DOMAIN hosts : hosts'[h] = hosts[h]
        /\ hosts'[Len(hosts) + 1] = [pc |-> "started", request |-> r]
    <2> HIDE DEF Host
    <2>1. hosts' = Append(hosts, [pc |-> "started", request |-> r])
      BY DEF StartProver
    <2> QED  BY <1>1, <2>1, AppendProperties
  <1>7. PICK n \in Nat : n = Len(hosts) + 1
    BY <1>6
  <1>8. Proving(n, r)'
    <2>1. n \in DOMAIN hosts' /\ \A g \in DOMAIN hosts' : g # n => ~Running(g)'
      BY <1>5, <1>6, <1>7 DEF Running
    <2>2. input_json' = [server_name |-> r.domain, path |-> r.path]
      BY DEF StartProver
    <2>3. hosts'[n] = [pc |-> "started", request |-> r]
      BY <1>6, <1>7
    <2> QED  BY <2>1, <2>2, <2>3 DEF Proving
  <1>9. prover'[t].pc = "proving" /\ prover'[t].host = n /\ prover'[t].request = r
    BY <1>4, <1>7
  <1> QED  BY <1>8, <1>9 DEF CleanRun

LEMMA ServiceKeepsCleanRuns ==
    ASSUME PipelineTypeOK, CleanRuns, NEW s \in Services,
           ReadProof(s) \/ ReadValues(s) \/ GiveUp(s) \/ Submit(s)
    PROVE  CleanRuns'
  <1>1. UNCHANGED <<input_json, files, hosts>>
    BY ServiceKeepsTypes
  <1> SUFFICES ASSUME NEW t \in Services, prover'[t].pc # "idle", prover'[t].alone
               PROVE  CleanRun(t)'
    BY DEF CleanRuns
  <1>2. CASE t # s
    <2>1. prover'[t] = prover[t]
      BY <1>2 DEF ReadProof, ReadValues, GiveUp, Submit, PipelineTypeOK
    <2>2. CleanRun(t)
      BY <2>1 DEF CleanRuns
    <2> QED  BY <1>1, <2>1, <2>2 DEF CleanRun, Proving, Running, files
  <1>3. CASE t = s /\ ReadProof(s)
    <2> DEFINE p == prover[s]
    <2>1. prover'[s] = [pc |-> "reading", request |-> p.request, alone |-> p.alone,
                        proof |-> proof_bin]
      BY <1>3 DEF ReadProof, PipelineTypeOK
    <2>2. p.pc = "proving" /\ hosts[p.host].pc = "exited" /\ p.alone
      BY <1>3, <2>1 DEF ReadProof, At, Finished
    <2>3. Proving(p.host, p.request)
      BY <2>2 DEF CleanRuns, CleanRun
    <2>4. \A g \in DOMAIN hosts : ~Running(g)
      BY <2>2, <2>3 DEF Proving, Running
    <2>5. \E run : Answers(run, p.request) /\ proof_bin = ProofOf(run)
                   /\ public_values_bin = ValuesOf(run)
      BY <2>2, <2>3 DEF Proving
    <2> HIDE DEF p
    <2> QED  BY <1>1, <1>3, <2>1, <2>4, <2>5 DEF CleanRun, Running, files
  <1>4. CASE t = s /\ ReadValues(s)
    <2> DEFINE p == prover[s]
    <2>1. prover'[s] = [pc |-> "submitting", request |-> p.request, alone |-> p.alone,
                        proof |-> p.proof, values |-> public_values_bin]
      BY <1>4 DEF ReadValues, PipelineTypeOK
    <2>2. p.pc = "reading" /\ p.alone
      BY <1>4, <2>1 DEF ReadValues, At
    <2>3. \E run : Answers(run, p.request) /\ p.proof = ProofOf(run)
                   /\ public_values_bin = ValuesOf(run)
      BY <2>2 DEF CleanRuns, CleanRun
    <2> HIDE DEF p
    <2> QED  BY <1>4, <2>1, <2>3 DEF CleanRun
  <1>5. CASE t = s /\ (GiveUp(s) \/ Submit(s))
    BY <1>5 DEF GiveUp, Submit, Idle, PipelineTypeOK
  <1> QED  BY <1>2, <1>3, <1>4, <1>5

LEMMA HostKeepsCleanRuns ==
    ASSUME PipelineTypeOK, CleanRuns, NEW h \in DOMAIN hosts, HostStep(h)
    PROVE  CleanRuns'
  <1>1. /\ UNCHANGED <<input_json, prover>> /\ DOMAIN hosts' = DOMAIN hosts
        /\ \A g \in DOMAIN hosts : g # h => hosts'[g] = hosts[g]
    BY HostKeepsTypes
  <1>2. Running(h)
    BY DEF HostStep, HostAt, WriteProof, WriteValues, Fail, Running
  <1> SUFFICES ASSUME NEW t \in Services, prover[t].pc # "idle", prover[t].alone
               PROVE  CleanRun(t)'
    BY <1>1 DEF CleanRuns
  <1>3. CleanRun(t)
    BY DEF CleanRuns
  <1>4. prover[t].pc # "reading"
    BY <1>2, <1>3 DEF CleanRun
  <1>5. CASE prover[t].pc # "proving"
    BY <1>1, <1>3, <1>4, <1>5 DEF CleanRun
  <1>6. CASE prover[t].pc = "proving"
    <2> PICK r : r = prover[t].request
      OBVIOUS
    <2>1. Proving(h, r) /\ prover[t].host = h
      BY <1>2, <1>3, <1>6 DEF CleanRun, Proving
    <2> SUFFICES Proving(h, r)'
      BY <1>1, <1>6, <2>1 DEF CleanRun
    <2>2. r \in Requests
      <3>1. prover[t] \in ServiceState
        BY DEF PipelineTypeOK
      <3> QED  BY <3>1, StateOfService
    <2>3. \A g \in DOMAIN hosts' : g # h => ~Running(g)'
      BY <1>1, <2>1 DEF Proving, Running
    <2>4. h \in DOMAIN hosts'
      BY <1>1
    <2>5. CASE HostAt(h, "started") /\ \E reading \in Readings(hosts[h].request) : Prove(h, reading)
      <3>1. hosts[h].request = r /\ input_json = [server_name |-> r.domain, path |-> r.path]
        BY <2>1, <2>5 DEF Proving, HostAt
      <3>2. PICK reading \in Readings(r) : Prove(h, reading)
        BY <2>5, <3>1
      <3> DEFINE run == RunOf(r, input_json, reading)
      <3>3. hosts'[h] = [pc |-> "proved", run |-> run]
        BY <3>1, <3>2, ProveRuns
      <3>4. input_json \in RequestFile
        BY HostSet DEF PipelineTypeOK
      <3>5. Answers(run, r)
        BY <2>2, <3>1, <3>2, <3>4, RunAnswers
      <3> HIDE DEF run
      <3>6. Answers(hosts'[h].run, r) /\ hosts'[h].pc = "proved"
        BY <3>3, <3>5
      <3> QED  BY <2>3, <2>4, <3>6 DEF Proving
    <2>6. CASE WriteProof(h)
      <3>1. hosts[h].pc = "proved" /\ Answers(hosts[h].run, r)
        BY <2>1, <2>6 DEF WriteProof, HostAt, Proving
      <3>2. hosts'[h] = [hosts[h] EXCEPT !.pc = "halfway"] /\ proof_bin' = ProofOf(hosts[h].run)
        BY <2>6 DEF WriteProof
      <3>3. hosts'[h].pc = "halfway" /\ hosts'[h].run = hosts[h].run
        <4>1. hosts[h] \in Host
          <5> HIDE DEF Host
          <5> QED  BY DEF PipelineTypeOK
        <4> QED  BY <3>1, <3>2, <4>1 DEF Host
      <3> QED  BY <2>3, <2>4, <3>1, <3>2, <3>3 DEF Proving
    <2>7. CASE WriteValues(h)
      <3>1. Answers(hosts[h].run, r) /\ proof_bin = ProofOf(hosts[h].run)
        BY <2>1, <2>7 DEF WriteValues, HostAt, Proving
      <3>2. /\ hosts'[h] = [pc |-> "exited"] /\ proof_bin' = proof_bin
            /\ public_values_bin' = ValuesOf(hosts[h].run)
        BY <2>7 DEF WriteValues
      <3> QED  BY <2>3, <2>4, <3>1, <3>2 DEF Proving
    <2>8. CASE Fail(h)
      <3>1. hosts'[h].pc = "failed"
        BY <2>8 DEF Fail
      <3> QED  BY <2>3, <2>4, <3>1 DEF Proving
    <2> QED  BY <2>5, <2>6, <2>7, <2>8 DEF HostStep
  <1> QED  BY <1>5, <1>6

-----------------------------------------------------------------------------
(* What is recorded, step by step.                                         *)

LEMMA RecordKeepsAccounts ==
    ASSUME PipelineTypeOK, Accounted, NEW r \in Requests, NEW proof, NEW entered,
           Genuine(proof), Accepts(r, proof, entered), Record(r, proof, entered)
    PROVE  Accounted'
  <1> SUFFICES ASSUME NEW q \in Requests, accepted'[q] # Nothing
               PROVE  LET k == Parsed(accepted'[q].values)
                      IN  /\ Genuine(accepted'[q].proof)
                          /\ Verified(accepted'[q].proof, accepted'[q].values)
                          /\ k.threshold = q.threshold /\ k.comparison = q.comparison
                          /\ k.server_name = q.domain /\ k.json_path = q.json_path
    BY DEF Accounted
  <1>1. CASE q # r
    <2>1. accepted'[q] = accepted[q]
      BY <1>1 DEF Record, PipelineTypeOK
    <2> QED  BY <2>1 DEF Accounted
  <1>2. CASE q = r
    <2>1. accepted'[q].proof = proof /\ accepted'[q].values = entered
      BY <1>2 DEF Record, PipelineTypeOK
    <2> QED  BY <1>2, <2>1 DEF Accepts
  <1> QED  BY <1>1, <1>2

LEMMA AccountsStep ==
    ASSUME PipelineTypeOK, Accounted, PipelineNext
    PROVE  Accounted'
  <1>1. CASE UNCHANGED accepted
    BY <1>1 DEF Accounted
  <1>2. CASE \E s \in Services : Submit(s)
    <2>1. PICK s \in Services : Submit(s)
      BY <1>2
    <2> DEFINE p == prover[s]
    <2>2. p \in ServiceState /\ p.pc = "submitting"
      BY <2>1 DEF PipelineTypeOK, Submit, At
    <2>3. p.request \in Requests /\ p.proof \in Proofs
      BY <2>2, StateOfService
    <2>4. Genuine(p.proof)
      BY <2>3, HostProofsGenuine
    <2>5. CASE Accepts(p.request, p.proof, p.values)
      <3>1. Record(p.request, p.proof, p.values)
        BY <2>1, <2>5 DEF Submit
      <3> HIDE DEF p
      <3> QED  BY <2>3, <2>4, <2>5, <3>1, RecordKeepsAccounts
    <2> QED  BY <1>1, <2>1, <2>5 DEF Submit
  <1>3. CASE \E r \in Requests, proof \in OtherProofs : SubmitOther(r, proof)
    <2>1. PICK r \in Requests, proof \in OtherProofs : SubmitOther(r, proof)
      BY <1>3
    <2>2. Genuine(proof)
      BY SoundnessAssumption DEF Genuine
    <2> QED  BY <2>1, <2>2, RecordKeepsAccounts DEF SubmitOther
  <1> QED
    BY <1>1, <1>2, <1>3
       DEF PipelineNext, ServiceStep, HostStep, StartProver, ReadProof, ReadValues, GiveUp,
           Prove, WriteProof, WriteValues, Fail

-----------------------------------------------------------------------------
LEMMA PipelineStep == PipelineInv /\ [PipelineNext]_pvars => PipelineInv'
  <1> SUFFICES ASSUME PipelineInv, [PipelineNext]_pvars PROVE PipelineInv'
    OBVIOUS
  <1>1. PipelineTypeOK /\ CleanRuns /\ Accounted
    BY DEF PipelineInv
  <1>2. CASE \E s \in Services, r \in Requests : StartProver(s, r)
    BY <1>1, <1>2, StartKeepsTypes, StartKeepsCleanRuns, AccountsStep
       DEF PipelineInv, PipelineNext, ServiceStep
  <1>3. CASE \E s \in Services : ReadProof(s) \/ ReadValues(s) \/ GiveUp(s) \/ Submit(s)
    BY <1>1, <1>3, ServiceKeepsTypes, ServiceKeepsCleanRuns, AccountsStep
       DEF PipelineInv, PipelineNext, ServiceStep
  <1>4. CASE \E h \in DOMAIN hosts : HostStep(h)
    BY <1>1, <1>4, HostKeepsTypes, HostKeepsCleanRuns, AccountsStep
       DEF PipelineInv, PipelineNext
  <1>5. CASE \E r \in Requests, proof \in OtherProofs : SubmitOther(r, proof)
    <2>1. /\ UNCHANGED <<input_json, files, prover, hosts>>
          /\ DOMAIN accepted' = Requests
      BY <1>1, <1>5 DEF SubmitOther, Record, PipelineTypeOK
    <2>2. PipelineTypeOK'
      BY <1>1, <2>1 DEF PipelineTypeOK, files
    <2>3. CleanRuns'
      BY <1>1, <2>1 DEF CleanRuns, CleanRun, Proving, Running, files
    <2> QED  BY <1>1, <1>5, <2>2, <2>3, AccountsStep DEF PipelineInv, PipelineNext
  <1>6. CASE UNCHANGED pvars
    <2>1. PipelineTypeOK'
      BY <1>1, <1>6 DEF PipelineTypeOK, pvars
    <2>2. CleanRuns'
      BY <1>1, <1>6 DEF CleanRuns, CleanRun, Proving, Running, pvars
    <2>3. Accounted'
      BY <1>1, <1>6 DEF Accounted, pvars
    <2> QED  BY <2>1, <2>2, <2>3 DEF PipelineInv
  <1> QED  BY <1>2, <1>3, <1>4, <1>5, <1>6 DEF PipelineNext, ServiceStep

(* While a run is undisturbed, its host is the only one running and the    *)
(* files it has left are its own; all that is recorded was verified        *)
(* (prover.ts:63-139, sp1_verifier.rs:38-101).                             *)
THEOREM PipelineInvariance == PipelineSpec => []PipelineInv
  BY PipelineInitially, PipelineStep, PTL DEF PipelineSpec

(* For any number of services and hosts, any requests, output and proofs   *)
(* from elsewhere: what is recorded for a source is the outcome of a run   *)
(* of the guest that ended well, on that domain and question               *)
(* (sp1_verifier.rs:38-101, submit_proof.rs:36-75).                        *)
THEOREM AcceptedCorrect == PipelineSpec => []AcceptedAsRead
  BY PipelineInvariance, InvGivesAcceptedAsRead, PTL

(* The layout, the two files and the checks fit together: what a run that  *)
(* nothing disturbed submits is accepted (prover.ts:89-111).               *)
THEOREM CleanRunCorrect == PipelineSpec => []CleanRunAccepted
  BY PipelineInvariance, InvGivesCleanRun, PTL

=============================================================================
