---------------------------- MODULE ProofPipeline ----------------------------
(***************************************************************************)
(* From a source to an accepted proof: generateProof (prover.ts) writes    *)
(* the request to a file and runs the host prover (zktls-prover/script),   *)
(* which leaves proof.bin and public_values.bin; the service reads both    *)
(* and submits them, and submit_proof verifies and parses them.  The files *)
(* have fixed names, and a host may outlive the service that started it.   *)
(* Proofs are submitted by anyone.                                         *)
(***************************************************************************)
EXTENDS KrnPublicValues

CONSTANTS
    Services,    \* instances of the service on one working copy
    Requests,    \* a source of a market and the market's question
    TlsOutput,   \* what the guest commits first
    KrnVkey,     \* KRN_ZKTLS_VKEY_HASH
    Sp1Root,     \* SP1_V6_VK_ROOT
    VkPrefix,    \* VK_HASH_PREFIX
    OtherProofs, \* proofs from elsewhere
    MaxHosts,    \* runs of the host prover (model bound)
    Nothing      \* no file, no submission

Question(r) == [threshold |-> r.threshold, comparison |-> r.comparison]

ASSUME BoundAssumption == MaxHosts \in Nat
ASSUME RequestAssumption ==
    \A r \in Requests :
        /\ {r.domain, r.json_path} \subseteq Seq(Byte)
        /\ r.threshold \in Word /\ r.comparison \in Byte
ASSUME OutputAssumption == TlsOutput \in Seq(Byte)

VARIABLES
    input_json,         \* prover-service-input.json
    proof_bin,
    public_values_bin,
    prover,             \* each service in generateProof and submitProof
    hosts,              \* the host processes, in the order they were started
    accepted            \* ProofSubmission accounts and the proofs behind them

pvars == <<input_json, proof_bin, public_values_bin, prover, hosts, accepted>>
files == <<proof_bin, public_values_bin>>

-----------------------------------------------------------------------------
(* Mutants.                                                                *)
VkeyOfProof(proof) == proof.statement.vkey
ExitCodeIgnored(h) == hosts[h].pc \in {"exited", "failed"}

-----------------------------------------------------------------------------
(* Proofs                                                                  *)

(* A run of a program in the zkVM.  The guest commits the KRN fields last, *)
(* so a run that panicked has only committed the output.                   *)
ValuesOf(run) ==
    IF run.exit_code = 0 THEN Committed(TlsOutput, run.fields) ELSE TlsOutput

(* proof_output.bytes(): an envelope around a Groth16 proof of a statement.*)
(* The nonce, which is in both and free, is left out.                      *)
ProofOf(run) ==
    [prefix |-> VkPrefix, exit_code |-> run.exit_code, vk_root |-> run.vk_root,
     statement |-> [vkey |-> run.program, values |-> ValuesOf(run),
                    exit_code |-> run.exit_code, vk_root |-> run.vk_root],
     run |-> run]

(* A Groth16 proof is of a run, whatever its envelope says.                *)
ASSUME SoundnessAssumption ==
    \A proof \in OtherProofs :
        /\ proof.statement = ProofOf(proof.run).statement
        /\ proof.run.fields \in FieldsType

ExpectedVkey(proof) == KrnVkey

(* verify_sp1_zktls_proof: the Groth16 verification, with the digest of    *)
(* the submitted values as a public input.                                 *)
Verified(proof, values) ==
    /\ proof.prefix = VkPrefix
    /\ proof.exit_code = 0
    /\ proof.vk_root = Sp1Root
    /\ proof.statement =
           [vkey |-> ExpectedVkey(proof), values |-> values,
            exit_code |-> proof.exit_code, vk_root |-> proof.vk_root]

(* handle_submit_proof                                                     *)
Accepts(r, proof, values) ==
    /\ accepted[r] = Nothing
    /\ Verified(proof, values)
    /\ WellFormed(values)
    /\ LET k == Parsed(values)
       IN  /\ k.threshold = r.threshold /\ k.comparison = r.comparison
           /\ k.server_name = r.domain /\ k.json_path = r.json_path
           /\ k.outcome \in {0, 1}

Record(r, proof, values) ==
    accepted' = [accepted EXCEPT ![r] = [proof |-> proof, values |-> values]]

-----------------------------------------------------------------------------
(* The service                                                             *)

Idle == [pc |-> "idle"]

At(s, label) == prover[s].pc = label

Running(h) == hosts[h].pc \notin {"exited", "failed"}

(* The run of s shares the working copy with no other (history).           *)
Undisturbed(s) == prover[s].alone

(* generateProof: the input file, then the prover on it.                   *)
StartProver(s, r) ==
    /\ At(s, "idle") /\ Len(hosts) < MaxHosts
    /\ input_json' = [server_name |-> r.domain, path |-> r.path]
    /\ hosts' = Append(hosts, [pc |-> "started", request |-> r])
    /\ prover' =
           [t \in Services |->
                IF t = s THEN [pc |-> "proving", request |-> r, host |-> Len(hosts) + 1,
                               alone |-> \A h \in DOMAIN hosts : ~Running(h)]
                ELSE IF At(t, "idle") THEN Idle
                ELSE [prover[t] EXCEPT !.alone = FALSE]]
    /\ UNCHANGED <<files, accepted>>

Finished(h) == hosts[h].pc = "exited"

(* execSync returns; proof.bin is read.                                    *)
ReadProof(s) ==
    /\ At(s, "proving") /\ Finished(prover[s].host)
    /\ Nothing \notin {proof_bin, public_values_bin}
    /\ prover' = [prover EXCEPT ![s] = [pc |-> "reading", request |-> @.request,
                                        alone |-> @.alone, proof |-> proof_bin]]
    /\ UNCHANGED <<input_json, files, hosts, accepted>>

ReadValues(s) ==
    /\ At(s, "reading")
    /\ prover' = [prover EXCEPT ![s] = [pc |-> "submitting", request |-> @.request, alone |-> @.alone,
                                        proof |-> @.proof, values |-> public_values_bin]]
    /\ UNCHANGED <<input_json, files, hosts, accepted>>

(* execSync throws: the prover has failed or takes more than five minutes; *)
(* or the service stops and is started again.  The prover may go on.       *)
GiveUp(s) ==
    /\ ~At(s, "idle")
    /\ prover' = [prover EXCEPT ![s] = Idle]
    /\ UNCHANGED <<input_json, files, hosts, accepted>>

(* submitProof                                                             *)
Submit(s) ==
    /\ At(s, "submitting")
    /\ LET p == prover[s]
       IN  IF Accepts(p.request, p.proof, p.values) THEN Record(p.request, p.proof, p.values)
           ELSE UNCHANGED accepted
    /\ prover' = [prover EXCEPT ![s] = Idle]
    /\ UNCHANGED <<input_json, files, hosts>>

-----------------------------------------------------------------------------
(* The host prover: main of zktls-prover/script                            *)

HostAt(h, label) == hosts[h].pc = label

(* Reads the input file, records the session and has the guest run on it;  *)
(* the rest of the question came as arguments.                             *)
Prove(h, reading) ==
    /\ HostAt(h, "started")
    /\ hosts' = [hosts EXCEPT ![h] =
           [pc |-> "proved",
            run |-> [program |-> KrnVkey, vk_root |-> Sp1Root, exit_code |-> 0,
                     path |-> input_json.path,
                     fields |-> [server_name |-> input_json.server_name,
                                 json_path |-> @.request.json_path,
                                 threshold |-> @.request.threshold,
                                 comparison |-> @.request.comparison,
                                 value |-> reading.value, outcome |-> reading.outcome]]]]
    /\ UNCHANGED <<input_json, files, prover, accepted>>

WriteProof(h) ==
    /\ HostAt(h, "proved")
    /\ proof_bin' = ProofOf(hosts[h].run)
    /\ hosts' = [hosts EXCEPT ![h].pc = "halfway"]
    /\ UNCHANGED <<input_json, public_values_bin, prover, accepted>>

(* The files written after it are not read by the service.                 *)
WriteValues(h) ==
    /\ HostAt(h, "halfway")
    /\ public_values_bin' = ValuesOf(hosts[h].run)
    /\ hosts' = [hosts EXCEPT ![h] = [pc |-> "exited"]]
    /\ UNCHANGED <<input_json, proof_bin, prover, accepted>>

(* The session, the guest, the network or a write fails, or it is killed.  *)
Fail(h) ==
    /\ Running(h)
    /\ hosts' = [hosts EXCEPT ![h] = [pc |-> "failed"]]
    /\ UNCHANGED <<input_json, files, prover, accepted>>

-----------------------------------------------------------------------------
SubmitOther(r, proof) ==
    /\ Accepts(r, proof, proof.statement.values)
    /\ Record(r, proof, proof.statement.values)
    /\ UNCHANGED <<input_json, files, prover, hosts>>

(* What a page can show (comparison 0, "greater than").                    *)
Readings(r) ==
    {k \in {[value |-> r.threshold, outcome |-> 0], [value |-> r.threshold + 1, outcome |-> 1]} :
         k.value \in Word}

PipelineInit ==
    /\ input_json = Nothing /\ proof_bin = Nothing /\ public_values_bin = Nothing
    /\ prover = [s \in Services |-> Idle]
    /\ hosts = <<>>
    /\ accepted = [r \in Requests |-> Nothing]

ServiceStep(s) ==
    \/ \E r \in Requests : StartProver(s, r)
    \/ ReadProof(s) \/ ReadValues(s) \/ GiveUp(s) \/ Submit(s)

HostStep(h) ==
    \/ HostAt(h, "started") /\ \E reading \in Readings(hosts[h].request) : Prove(h, reading)
    \/ WriteProof(h) \/ WriteValues(h) \/ Fail(h)

PipelineNext ==
    \/ \E s \in Services : ServiceStep(s)
    \/ \E h \in DOMAIN hosts : HostStep(h)
    \/ \E r \in Requests, proof \in OtherProofs : SubmitOther(r, proof)

PipelineSpec == PipelineInit /\ [][PipelineNext]_pvars

-----------------------------------------------------------------------------
(* Properties                                                              *)

(* However the runs of two services and of provers left behind mix their   *)
(* files, and whatever other proofs are submitted: what the chain records  *)
(* for a source is the outcome of a run of the guest that ended well, on   *)
(* that domain, with that JSON path and question (sp1_verifier.rs:38-101,  *)
(* submit_proof.rs:36-75).  KrnMarket takes it for granted.                *)
AcceptedAsRead ==
    \A r \in Requests :
        accepted[r] # Nothing =>
            LET run == accepted[r].proof.run
            IN  /\ run.program = KrnVkey /\ run.exit_code = 0 /\ run.vk_root = Sp1Root
                /\ Readable(TlsOutput, run.fields) =>
                       /\ run.fields.server_name = r.domain
                       /\ run.fields.json_path = r.json_path
                       /\ Question(run.fields) = Question(r)
                       /\ Parsed(accepted[r].values).outcome = run.fields.outcome

(* What a service submits after a run that nothing disturbed is accepted:  *)
(* the guest's layout, the two files and the checks fit together, and no   *)
(* file of an earlier or a failed run is taken for its own (prover.ts:     *)
(* 89-111, main.rs:87-99, submit_proof.rs:119-198).                        *)
CleanRunAccepted ==
    \A s \in Services :
        At(s, "submitting") /\ Undisturbed(s)
            /\ accepted[prover[s].request] = Nothing
            /\ Unambiguous(TlsOutput)
            /\ Len(prover[s].request.domain) < Base /\ Len(prover[s].request.json_path) < Base
        => Accepts(prover[s].request, prover[s].proof, prover[s].values)

=============================================================================
