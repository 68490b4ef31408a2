--------------------------- MODULE MCAttestation ---------------------------
(***************************************************************************)
(* Two clients, one CVM that is about to renew its certificate, and the    *)
(* reports of other machines: a copy that was altered, one that no chip    *)
(* signed, one of a guest that can be debugged, and three of another       *)
(* workload, of which two name no VCEK.                                    *)
(***************************************************************************)
EXTENDS Attestation, TLC

MCEnv(v) == [version |-> v, vm_type |-> "cpu", cpu_count |-> 2]
MCEnvironments == {MCEnv("v1")}
MCFiles == [t \in {"cpu"} |-> <<"kernel">>]

MCTcb == [fmc |-> None, bootloader |-> 9, tee |-> 0, snp |-> 23, microcode |-> 72]
MCBody == [version |-> 3, family |-> 25, model |-> 17, chip |-> <<83, 104, 118>>,
           tcb |-> MCTcb, debug |-> FALSE, data |-> << >>, measurement |-> << >>]
MCCvm == [compose |-> "h1", env |-> MCEnv("v1"), key |-> "chip1", body |-> MCBody]

Made(b, compose, data) == [b EXCEPT !.measurement = <<"v1", "cpu", 2, compose>>, !.data = data]
Signed(key, b) == [body |-> b, signature |-> [by |-> key, over |-> b]]
MCForeign ==
    {Signed("other", Made(MCBody, "h1", <<0, 101>>)),
     Signed("chip1", Made([MCBody EXCEPT !.debug = TRUE], "h1", <<0, 101>>)),
     Signed("chip1", Made(MCBody, "h2", <<0, 101>>)),
     [Signed("chip1", Made(MCBody, "h1", <<0, 101>>)) EXCEPT !.signature.over.data = <<0, 1>>],
     Signed("chip1", Made([MCBody EXCEPT !.family = 26], "h2", <<0, 101>>)),
     Signed("chip1", Made([MCBody EXCEPT !.chip = ZeroChip], "h2", <<0, 101>>))}
MCOtherRuns == [k \in {101} |-> "h2"]

Integer(x) == [tag |-> "integer", size |-> 1, value |-> <<x>>]
MCVcek(key, by) ==
    [key |-> key, by |-> by, names |-> {"vcek"},
     ext |-> [BootLoader |-> Integer(9), Tee |-> Integer(0), Snp |-> Integer(23),
              Ucode |-> Integer(72),
              HwId |-> [tag |-> "octets", size |-> 64, value |-> MCBody.chip]]]
MCAmdChain == [p \in Processors |->
                 [ark |-> [key |-> "ark", by |-> "ark"], ask |-> [key |-> "ask", by |-> "ark"]]]
MCKds == [id \in {VcekIdentifier("Genoa", MCBody)} |-> MCVcek("chip1", "ask")]
(* One that AMD did not sign, and the one of another chip.                 *)
MCMirrorCerts == {MCVcek("other", "other"), MCVcek("chip2", "ask")}

Q(kind, compose) ==
    [kind |-> kind, compose |-> compose, https |-> TRUE, ignore |-> FALSE, mirror |-> FALSE]
MCRequests ==
    "c1" :> {[Q("validate", "h1") EXCEPT !.mirror = TRUE],
             [Q("validate", "h1") EXCEPT !.https = FALSE],
             [Q("validate", "h1") EXCEPT !.ignore = TRUE], Q("validate", NotHex),
             Q("verify", "h1"), Q("verify", NotHex), Q("amd", "h1"), Q("hash", "h1")}
    @@ "c2" :> {Q("amd", "h1"), Q("hash", "h1")}

(* Processor::try_from at the limits of its ranges.                        *)
ASSUME \A m \in 0..255 :
    Processor([MCBody EXCEPT !.model = m]) =
        IF m <= 15 THEN "Milan"
        ELSE IF m <= 31 \/ (m >= 160 /\ m < 175) THEN "Genoa" ELSE "NotSupported"

=============================================================================
