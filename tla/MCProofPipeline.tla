--------------------------- MODULE MCProofPipeline ---------------------------
(* Requests and proofs from elsewhere, for TLC.  Bytes and words as in     *)
(* MCKrnExtraction.                                                        *)
EXTENDS ProofPipeline

CONSTANTS KRN_VKEY, OTHER_VKEY, ROOT, OLD_ROOT, PREFIX, OTHER_PREFIX

MarkerKRN == <<5, 4, 3>>
SomeOutput == <<2, 1>>

(* Two sources whose names and JSON paths are the same bytes cut at another *)
(* place, and the first of them in a market with another threshold.        *)
Ask(domain, json_path, threshold) ==
    [domain |-> domain, path |-> 1, json_path |-> json_path,
     threshold |-> threshold, comparison |-> 0]

FewRequests ==
    {Ask(<<1, 1>>, <<1>>, 7), Ask(<<1>>, <<1, 1>>, 7), Ask(<<1, 1>>, <<1>>, 8)}

RunFor(r, program, root, exit) ==
    [program |-> program, vk_root |-> root, exit_code |-> exit, path |-> r.path,
     fields |-> [server_name |-> r.domain, json_path |-> r.json_path,
                 threshold |-> r.threshold, comparison |-> r.comparison,
                 value |-> 0, outcome |-> 1]]

(* Proofs of another program, of an older SP1, of a run that panicked, and *)
(* envelopes that say otherwise.                                           *)
ForeignProofs ==
    LET r == CHOOSE q \in FewRequests : Len(q.json_path) = 1
        honest == ProofOf(RunFor(r, KRN_VKEY, ROOT, 0))
        other  == ProofOf(RunFor(r, OTHER_VKEY, ROOT, 0))
        old    == ProofOf(RunFor(r, KRN_VKEY, OLD_ROOT, 0))
        failed == ProofOf(RunFor(r, KRN_VKEY, ROOT, 1))
    IN  {honest, other, old, failed,
         [old EXCEPT !.vk_root = ROOT], [failed EXCEPT !.exit_code = 0],
         [honest EXCEPT !.prefix = OTHER_PREFIX]}

=============================================================================
