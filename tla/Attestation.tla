---------------------------- MODULE Attestation ----------------------------
(***************************************************************************)
(* How a client learns that it talks to a CVM that runs what it expects.   *)
(* nilcc-attester, inside the CVM, asks the hardware for a report over the *)
(* key of the TLS certificate that caddy serves, and again when caddy has  *)
(* a new one. nilcc-verifier fetches the report through TLS, compares the  *)
(* key, recomputes the measurement from the artifacts of the version that  *)
(* the CVM claims to run, and verifies the report with AMD's certificates. *)
(* Validations share a cache of artifacts and one of certificates.         *)
(*                                                                         *)
(* External: AMD's key server (KDS) and a mirror of it that may be given   *)
(* on the command line, the hardware, caddy, and the other endpoints of    *)
(* the network, which show any report that is in circulation.              *)
(***************************************************************************)
EXTENDS ReportVerification

CONSTANTS
    Clients,      \* validations, each of one request
    Requests,     \* Requests[c]: what c may be asked for
    Composes,     \* hashes of compose files
    Cvm,          \* the CVM: its compose file, environment and reports
    Gpu,          \* TRUE: the CVM has a GPU to attest as well
    Foreign,      \* reports of other machines that are in circulation
    Environments, \* what an endpoint may say of its environment
    OtherKeys,    \* the TLS keys of other endpoints
    OtherRuns,    \* OtherRuns[k]: the compose hash behind k, or Nobody
    AmdChain,     \* AmdChain[p]: the ARK and the ASK that KDS serves
    Kds,          \* Kds[id]: the VCEK that KDS serves
    MirrorCerts,  \* certificates that the mirror may serve
    ChipKeys,     \* the keys of AMD's chips
    Files,        \* Files[t]: what is downloaded for a VM of type t, in order
    Renders,      \* the versions whose kernel command line can be rendered
    MaxRetries,   \* MAX_REPORTER_RETRIES
    MaxCerts,     \* bound on the certificates of caddy
    MaxFaults     \* bound on failing calls

VARIABLES
    cert,         \* the key of the certificate that caddy serves
    attester,     \* nilcc-attester
    issued,       \* history: the keys that the CVM made reports for
    client,       \* the validations
    files,        \* files[v][f]: the verifier's cache of artifacts
    chainFile,    \* its cache of certificates: what each file can be read as,
    vcekFile,     \* nothing for one that is missing or torn
    faults

avars == <<cert, attester, issued>>
vars == <<avars, client, files, chainFile, vcekFile, faults>>

Nobody == "nobody"
NotHex == "not_hex"
Junk == << >>     \* the measurement of files that are not complete
NoKey == 0

(* `validate` and `measurement-hash` of the command line, and the handlers *)
(* verify and verify-amd. Only `validate` knows a mirror, and a way not to *)
(* look at the measurement.                                                *)
Request == [kind : {"validate", "hash", "verify", "amd"}, compose : Composes \cup {NotHex},
            https : BOOLEAN, ignore : BOOLEAN, mirror : BOOLEAN]

(* Is the measurement compared with nothing but itself?                    *)
Blind(q) == q.kind = "amd" \/ q.ignore

(* The fields of attestation_report::v2, of the ones that are told apart.  *)
Fields == {"version", "family", "model", "chip", "tcb", "debug", "data", "measurement"}

(* Nothing but these fields and a signature.                               *)
WellFormed(r) ==
    /\ r = [body |-> r.body, signature |-> r.signature]
    /\ r.body = [f \in Fields |-> r.body[f]]
    /\ r.signature = [by |-> r.signature.by, over |-> r.signature.over]

(* Variant: the report of an older format, without the CPUID fields.       *)
FromJsonWithoutCpuid(r) == [r EXCEPT !.body.family = None, !.body.model = None]

(* What the verifier has of a report that went through JSON: each of its   *)
(* fields, copied, and of the signature both halves.                       *)
FromJson(r) == [body |-> [f \in Fields |-> r.body[f]],
                signature |-> [by |-> r.signature.by, over |-> r.signature.over]]

CvmKeys == 1..MaxCerts
RunsIn(k) == IF k \in CvmKeys THEN Cvm.compose ELSE OtherRuns[k]

Range(f) == {f[x] : x \in DOMAIN f}

(* MeasurementGenerator: the launch digest, a hash of all of these.        *)
Measurement(env, compose) == <<env.version, env.vm_type, env.cpu_count, compose>>

(* The report data: a version, then the fingerprint of the key.            *)
ReportData(k) == <<0, k>>

(* fetch_hardware_report: the hardware fills in the rest and signs.        *)
CvmReport(k) ==
    LET body == [Cvm.body EXCEPT !.data = ReportData(k),
                                 !.measurement = Measurement(Cvm.env, Cvm.compose)] IN
    [body |-> body, signature |-> [by |-> Cvm.key, over |-> body]]

Circulating == Foreign \cup {CvmReport(k) : k \in issued}

Genuine(r) == r.signature.by \in ChipKeys /\ r.signature.over = r.body /\ ~r.body.debug

(* AMD signs nothing but the keys of its chips. A chip signs nothing but   *)
(* its own reports, and a CVM that was measured as one of nilCC and cannot *)
(* be debugged asks for reports over the keys of its own certificates.     *)
ASSUME TrustAssumption ==
    /\ \A p \in Processors, c \in MirrorCerts \cup Range(Kds) :
        c.by = AmdChain[p].ask.key => c.key \in ChipKeys
    /\ \A r \in Foreign :
        /\ WellFormed(r)
        /\ r.body.measurement # Junk
        /\ Genuine(r) =>
            \A e \in Environments, h \in Composes, k \in OtherKeys \cup CvmKeys :
                r.body.measurement = Measurement(e, h) /\ r.body.data = ReportData(k)
                    => RunsIn(k) = h

(* The CVM is one of nilCC, on a chip of AMD.                              *)
ASSUME CvmAssumption ==
    /\ Cvm.compose \in Composes
    /\ Cvm.env \in Environments
    /\ Cvm.key \in ChipKeys
    /\ Cvm.body = [f \in Fields |-> Cvm.body[f]] /\ ~Cvm.body.debug
    /\ OtherKeys \cap (CvmKeys \cup {NoKey}) = {}

(* KDS knows the VCEK of every chip whose reports are in circulation.      *)
ASSUME KdsAssumption ==
    \A r \in Foreign \cup {CvmReport(k) : k \in CvmKeys} :
        LET p == detect_processor(r.body) IN
        p \in Processors /\ ~TurinFmc(p, r.body) /\ ~ZeroHardwareId(r.body)
            => VcekIdentifier(p, r.body) \in DOMAIN Kds

(* The CVM can be verified: what KDS serves for its chip is what AMD signed *)
(* for the key that makes its reports, with the versions that they name.   *)
ASSUME CvmCertified ==
    LET p == detect_processor(Cvm.body)
        vcek == Kds[VcekIdentifier(p, Cvm.body)]
    IN  /\ p \in Processors /\ ~TurinFmc(p, Cvm.body) /\ ~ZeroHardwareId(Cvm.body)
        /\ verify_certs(AmdChain[p], vcek)
        /\ vcek.key = Cvm.key
        /\ verify_attestation_tcb(vcek, Cvm.body, p)

ASSUME FilesAssumption ==
    /\ \A e \in Environments : e.vm_type \in DOMAIN Files
    /\ \A t \in DOMAIN Files : Files[t] \in Seq(Range(Files[t]))

ASSUME RequestsAssumption ==
    /\ Requests \in [Clients -> (SUBSET Request) \ {{}}]
    /\ \A c \in Clients : \A q \in Requests[c] : q.ignore \/ q.mirror => q.kind = "validate"

ASSUME BoundsAssumption ==
    MaxCerts \in Nat \ {0} /\ MaxFaults \in Nat /\ MaxRetries \in Nat

Init ==
    /\ cert = 1
    /\ attester = [pc |-> "build", seen |-> NoKey, fingerprint |-> NoKey,
                   attempts |-> 0, data |-> NoKey, token |-> NoKey]
    /\ issued = {}
    /\ client = [c \in Clients |->
                    [pc |-> "idle", req |-> CHOOSE q \in Requests[c] : TRUE, tls |-> NoKey,
                     report |-> CvmReport(NoKey), env |-> Cvm.env, left |-> << >>,
                     clobbered |-> FALSE, expected |-> Junk,
                     chain |-> AmdChain["Genoa"], vcek |-> AmdChain["Genoa"].ask,
                     verdict |-> "none"]]
    /\ files = [v \in {e.version : e \in Environments} |->
                    [f \in UNION {Range(Files[t]) : t \in DOMAIN Files} |-> "none"]]
    /\ chainFile = [p \in Processors |-> {}]
    /\ vcekFile = [id \in DOMAIN Kds |-> {}]
    /\ faults = 0

Fails == faults < MaxFaults /\ faults' = faults + 1

-----------------------------------------------------------------------------
(* nilcc-attester. `data` and `token` are what /v2/report serves, for the  *)
(* key that they attest; nothing is served before the first report.        *)

(* CertFetcher::fetch_fingerprint, of caddy's current certificate.         *)
Fetched(pc) == attester' = [attester EXCEPT !.pc = pc, !.seen = cert]

(* build_reporter gives up after its retries; the container is restarted   *)
(* and starts to count again.                                              *)
Retry == [attester EXCEPT !.pc = "build",
                          !.attempts = IF @ + 1 >= MaxRetries THEN 0 ELSE @ + 1]

(* HardwareReporter::new.                                                  *)
BuildFetch ==
    /\ attester.pc = "build"
    /\ \/ Fetched("build_report") /\ UNCHANGED faults
       \/ Fails /\ attester' = Retry
    /\ UNCHANGED <<cert, issued, client, files, chainFile, vcekFile>>

(* fetch_hardware_report and fetch_gpu_report, over the same key.          *)
Reports(k) ==
    [attester EXCEPT !.pc = "sleep", !.fingerprint = k, !.data = k,
                     !.token = IF Gpu THEN k ELSE NoKey]

BuildReport ==
    /\ attester.pc = "build_report"
    /\ \/ /\ attester' = Reports(attester.seen)
          /\ issued' = issued \cup {attester.seen}
          /\ UNCHANGED faults
       \/ Fails /\ attester' = Retry /\ UNCHANGED issued
    /\ UNCHANGED <<cert, client, files, chainFile, vcekFile>>

(* Worker::run, Worker::fetch.                                             *)
WorkerFetch ==
    /\ attester.pc = "sleep"
    /\ cert # attester.fingerprint
    /\ Fetched("report")
    /\ UNCHANGED <<cert, issued, client, files, chainFile, vcekFile, faults>>

(* Variant: the fingerprint is remembered before the report is made.       *)
WorkerReportEarly ==
    /\ attester.pc = "report"
    /\ \/ /\ attester' = Reports(attester.seen)
          /\ issued' = issued \cup {attester.seen}
          /\ UNCHANGED faults
       \/ /\ Fails
          /\ attester' = [attester EXCEPT !.pc = "sleep", !.fingerprint = attester.seen]
          /\ UNCHANGED issued
    /\ UNCHANGED <<cert, client, files, chainFile, vcekFile>>

WorkerReport ==
    /\ attester.pc = "report"
    /\ \/ /\ attester' = Reports(attester.seen)
          /\ issued' = issued \cup {attester.seen}
          /\ UNCHANGED faults
       \/ Fails /\ attester' = [attester EXCEPT !.pc = "sleep"] /\ UNCHANGED issued
    /\ UNCHANGED <<cert, client, files, chainFile, vcekFile>>

(* Caddy renews its certificate, with a new key.                           *)
Renew ==
    /\ cert < MaxCerts
    /\ cert' = cert + 1
    /\ UNCHANGED <<attester, issued, client, files, chainFile, vcekFile, faults>>

-----------------------------------------------------------------------------
(* A validation: `validate` of the command line, the handlers "verify" and *)
(* "amd" of the verifier's API, and the command that prints a measurement. *)

At(c, pc) == client[c].pc = pc
Becomes(c, r) == client' = [client EXCEPT ![c] = r]
Goes(c, pc) == Becomes(c, [client[c] EXCEPT !.pc = pc])
Ends(c, r, e) == Becomes(c, [r EXCEPT !.pc = "done", !.verdict = error_code(e)])

(* The handlers answer what they cannot do themselves with a 500.          *)
Broken(c, e) == IF client[c].req.kind = "validate" THEN e ELSE "MeasurementHash"

(* Reports and compose hashes that cannot be decoded are refused first,    *)
(* except by `validate`.                                                   *)
Given(c, q, r, e) ==
    [client[c] EXCEPT !.req = q, !.report = r, !.env = e,
                      !.expected = IF q.kind = "amd" THEN r.body.measurement ELSE Junk,
                      !.pc = IF q.kind = "amd" THEN "chain" ELSE "metadata"]

Ask(c) ==
    /\ At(c, "idle")
    /\ \E q \in Requests[c] :
        LET r == [client[c] EXCEPT !.req = q, !.pc = "connect"] IN
        CASE q.kind = "validate" /\ q.https -> Becomes(c, r)
          [] q.kind = "validate" /\ ~q.https -> Ends(c, r, "NotHttpsScheme")
          [] q.kind \in {"hash", "verify"} /\ q.compose \notin Composes ->
                Ends(c, r, "DockerComposeHash")
          [] OTHER ->
                \E e \in Environments,
                   x \in IF q.kind = "hash" THEN {client[c].report} ELSE Circulating :
                    Becomes(c, Given(c, q, x, e))
    /\ UNCHANGED <<avars, files, chainFile, vcekFile, faults>>

(* fetch_report: the TLS handshake, with the CVM or with somebody else ... *)
Connect(c) ==
    /\ At(c, "connect")
    /\ \E k \in OtherKeys \cup {cert} :
        Becomes(c, [client[c] EXCEPT !.pc = "get", !.tls = k])
    /\ UNCHANGED <<avars, files, chainFile, vcekFile, faults>>

(* Variant: the key of the connection is not compared.                     *)
FingerprintIgnored(c, r) == TRUE

FingerprintMatches(c, r) == r.body.data = ReportData(client[c].tls)

(* ... and the answer. Of the CVM it is what the attester has right now.   *)
Answers(c) ==
    IF client[c].tls \in CvmKeys
    THEN {<<CvmReport(k), Cvm.env>> : k \in {attester.data} \ {NoKey}}
    ELSE Circulating \X Environments

Get(c) ==
    /\ At(c, "get")
    /\ \/ /\ \E a \in Answers(c) :
                LET r == [client[c] EXCEPT !.report = FromJson(a[1]), !.env = a[2],
                                           !.pc = "metadata"] IN
                IF FingerprintMatches(c, r.report) THEN Becomes(c, r)
                ELSE Ends(c, r, "TlsFingerprint")
          /\ UNCHANGED faults
       \/ /\ (Answers(c) = {} /\ UNCHANGED faults) \/ Fails
          /\ Ends(c, client[c], "FetchAttestation")
    /\ UNCHANGED <<avars, files, chainFile, vcekFile>>

-----------------------------------------------------------------------------
(* ArtifactsDownloader::download, without disks and without overwriting: a *)
(* file that is there is taken as it is.                                   *)

Version(c) == client[c].env.version
FilesOf(c) == Files[client[c].env.vm_type]
File(c) == Head(client[c].left)
SetFile(c, x) == files' = [files EXCEPT ![Version(c)][File(c)] = x]

(* fetch_metadata, always from the server.                                 *)
Metadata(c) ==
    /\ At(c, "metadata")
    /\ \/ /\ Becomes(c, [client[c] EXCEPT !.pc = "download", !.left = FilesOf(c)])
          /\ UNCHANGED faults
       \/ /\ Fails
          /\ \E e \in {"Download", "DecodeMetadata"} : Ends(c, client[c], Broken(c, e))
    /\ UNCHANGED <<avars, files, chainFile, vcekFile>>

Download(c) ==
    /\ At(c, "download")
    /\ client[c].left # << >>
    /\ \/ /\ IF files[Version(c)][File(c)] = "none" THEN Goes(c, "create")
             ELSE Becomes(c, [client[c] EXCEPT !.left = Tail(@)])
          /\ UNCHANGED faults
       \/ /\ Fails
          /\ \E e \in {"Download", "TargetFile"} : Ends(c, client[c], Broken(c, e))
    /\ UNCHANGED <<avars, files, chainFile, vcekFile>>

(* File::create, when the download has started. Another client that is     *)
(* writing the same file loses what it wrote.                              *)
Create(c) ==
    /\ At(c, "create")
    /\ SetFile(c, "partial")
    /\ client' = [d \in Clients |->
            IF d = c THEN [client[c] EXCEPT !.pc = "write", !.clobbered = FALSE]
            ELSE IF At(d, "write") /\ Version(d) = Version(c) /\ File(d) = File(c)
                 THEN [client[d] EXCEPT !.clobbered = TRUE]
                 ELSE client[d]]
    /\ UNCHANGED <<avars, chainFile, vcekFile, faults>>

Write(c) ==
    /\ At(c, "write")
    /\ \/ /\ Becomes(c, [client[c] EXCEPT !.pc = "download", !.left = Tail(@)])
          /\ IF client[c].clobbered THEN UNCHANGED files ELSE SetFile(c, "full")
          /\ UNCHANGED faults
       \/ Fails /\ Ends(c, client[c], Broken(c, "Download")) /\ UNCHANGED files
    /\ UNCHANGED <<avars, chainFile, vcekFile>>

Complete(c) == \A f \in Range(FilesOf(c)) : files[Version(c)][f] = "full"

(* snp_calc_launch_digest, from the files. Of a file that is not complete  *)
(* it makes something else, or fails.                                      *)
Digest(c) ==
    IF Complete(c) THEN Measurement(client[c].env, client[c].req.compose) ELSE Junk

(* KernelCommandLine::render: the template has a place for both hashes.    *)
Rendered(c) == Version(c) \in Renders

(* The metadata are written, and MeasurementGenerator::generate.           *)
Measure(c) ==
    LET q == client[c].req
        Expects(m, pc) == Becomes(c, [client[c] EXCEPT !.expected = m, !.pc = pc])
    IN
    /\ At(c, "download")
    /\ client[c].left = << >>
    /\ \/ /\ CASE q.ignore -> Expects(client[c].report.body.measurement, "chain")
               [] ~q.ignore /\ q.compose \notin Composes ->
                    Ends(c, client[c], "DockerComposeHash")
               [] OTHER ->
                    \/ /\ Rendered(c)
                       /\ Expects(Digest(c), IF q.kind = "hash" THEN "done" ELSE "chain")
                    \/ /\ ~Rendered(c) \/ ~Complete(c)
                       /\ Ends(c, client[c], "MeasurementHash")
          /\ UNCHANGED faults
       \/ Fails /\ Ends(c, client[c], Broken(c, "TargetFile"))
    /\ UNCHANGED <<avars, files, chainFile, vcekFile>>

-----------------------------------------------------------------------------
(* DefaultCertificateFetcher and verify_report. fs::write empties a file   *)
(* before it writes it.                                                    *)

Body(c) == client[c].report.body
ProcessorOf(c) == detect_processor(Body(c))
Id(c) == VcekIdentifier(ProcessorOf(c), Body(c))

(* The cache may be unreadable, and its directory impossible to create.    *)
Unreadable(c) == Fails /\ Ends(c, client[c], "CachedCert")

LoadChain(c) ==
    LET p == ProcessorOf(c) IN
    /\ At(c, "chain")
    /\ \/ /\ IF p \notin Processors THEN Ends(c, client[c], "DetectProcessor")
             ELSE IF chainFile[p] = {} THEN Goes(c, "chain_get")
             ELSE \E x \in chainFile[p] :
                    Becomes(c, [client[c] EXCEPT !.chain = x, !.pc = "vcek"])
          /\ UNCHANGED faults
       \/ Unreadable(c)
    /\ UNCHANGED <<avars, files, chainFile, vcekFile>>

(* The chain comes from KDS_DOMAIN, whatever the domain of the VCEK is.    *)
GetChain(c) ==
    /\ At(c, "chain_get")
    /\ \/ /\ Becomes(c, [client[c] EXCEPT !.chain = AmdChain[ProcessorOf(c)],
                                         !.pc = "chain_put"])
          /\ chainFile' = [chainFile EXCEPT ![ProcessorOf(c)] = {}]
          /\ UNCHANGED faults
       \/ Fails /\ Ends(c, client[c], "FetchingCert") /\ UNCHANGED chainFile
    /\ UNCHANGED <<avars, files, vcekFile>>

PutChain(c) ==
    /\ At(c, "chain_put")
    /\ \/ /\ Goes(c, "vcek")
          /\ chainFile' = [chainFile EXCEPT ![ProcessorOf(c)] = {client[c].chain}]
          /\ UNCHANGED faults
       \/ Fails /\ Ends(c, client[c], "CachedCert") /\ UNCHANGED chainFile
    /\ UNCHANGED <<avars, files, vcekFile>>

(* verify_report with all it needs: there is nothing left to wait for.     *)
Verify(c, vcek) ==
    LET r == client[c] IN
    Ends(c, [r EXCEPT !.vcek = vcek],
         verify_report(r.report, r.chain, vcek, ProcessorOf(c), r.expected))

LoadVcek(c) ==
    /\ At(c, "vcek")
    /\ \/ /\ CASE TurinFmc(ProcessorOf(c), Body(c)) -> Ends(c, client[c], "TurinFmc")
               [] ~TurinFmc(ProcessorOf(c), Body(c)) /\ ZeroHardwareId(Body(c)) ->
                    Ends(c, client[c], "ZeroHardwareId")
               [] OTHER ->
                    \/ vcekFile[Id(c)] = {} /\ Goes(c, "vcek_get")
                    \/ \E x \in vcekFile[Id(c)] : Verify(c, x)
          /\ UNCHANGED faults
       \/ Unreadable(c)
    /\ UNCHANGED <<avars, files, chainFile, vcekFile>>

GetVcek(c) ==
    /\ At(c, "vcek_get")
    /\ \/ /\ \E x \in {Kds[Id(c)]} \cup (IF client[c].req.mirror THEN MirrorCerts ELSE {}) :
                Becomes(c, [client[c] EXCEPT !.vcek = x, !.pc = "vcek_put"])
          /\ vcekFile' = [vcekFile EXCEPT ![Id(c)] = {}]
          /\ UNCHANGED faults
       \/ /\ Fails
          /\ \E e \in {"FetchingCert"} \cup (IF client[c].req.mirror THEN {"ParsingCert"} ELSE {}) :
                Ends(c, client[c], e)
          /\ UNCHANGED vcekFile
    /\ UNCHANGED <<avars, files, chainFile>>

(* What two clients write over each other may be no certificate at all.    *)
PutVcek(c) ==
    /\ At(c, "vcek_put")
    /\ \/ /\ Verify(c, client[c].vcek)
          /\ \/ vcekFile' = [vcekFile EXCEPT ![Id(c)] = {client[c].vcek}]
             \/ vcekFile[Id(c)] # {} /\ vcekFile' = [vcekFile EXCEPT ![Id(c)] = {}]
          /\ UNCHANGED faults
       \/ Fails /\ Ends(c, client[c], "CachedCert") /\ UNCHANGED vcekFile
    /\ UNCHANGED <<avars, files, chainFile>>

-----------------------------------------------------------------------------

AttesterStep == BuildFetch \/ BuildReport \/ WorkerFetch \/ WorkerReport

ClientStep(c) ==
    \/ Ask(c) \/ Connect(c) \/ Get(c) \/ Metadata(c) \/ Download(c) \/ Create(c) \/ Write(c)
    \/ Measure(c) \/ LoadChain(c) \/ GetChain(c) \/ PutChain(c)
    \/ LoadVcek(c) \/ GetVcek(c) \/ PutVcek(c)

Next == AttesterStep \/ Renew \/ \E c \in Clients : ClientStep(c)

Spec == Init /\ [][Next]_vars

(* The attester's tasks run and its 30 seconds pass; nothing else has to.  *)
FairSpec == Spec /\ WF_vars(AttesterStep)

-----------------------------------------------------------------------------
(* Properties.                                                             *)

(* A validation that succeeds tells the truth: the report was signed by a  *)
(* chip of AMD for a guest that cannot be debugged; unless told not to     *)
(* look, that guest was launched from the artifacts of the version it      *)
(* claims with the compose file that the client asked for; and `validate`  *)
(* talks to that very workload, because the key of its TLS connection is   *)
(* one of that workload's CVM (verify_report and fetch_report, with        *)
(* whatever the caches, the mirror and the other endpoints hold).          *)
AcceptedGenuine ==
    \A c \in Clients : client[c].verdict = "ok" =>
        LET q == client[c].req IN
        /\ Genuine(client[c].report)
        /\ ~Blind(q) =>
            client[c].report.body.measurement = Measurement(client[c].env, q.compose)
        /\ q.kind = "validate" /\ ~q.ignore => RunsIn(client[c].tls) = q.compose

(* The CVM's own report, checked for what the CVM runs.                    *)
OfCvm(c) ==
    LET r == client[c] IN
    /\ IF r.req.kind = "validate" THEN r.tls \in CvmKeys
       ELSE r.report \in {CvmReport(k) : k \in issued}
    /\ r.env = Cvm.env
    /\ r.req.compose = Cvm.compose \/ Blind(r.req)

(* A sound CVM is called invalid only for these causes: its TLS key, when  *)
(* caddy renewed its certificate; its report, when a file in the cache of  *)
(* artifacts is incomplete, because a download failed or another one is    *)
(* under way; its report or AMD's certificates, when somebody used a       *)
(* mirror. Everything else that fails is reported as a failure of a        *)
(* request or of the verifier's disk (ErrorCode::from).                    *)
NoFalseAlarm ==
    \A c \in Clients : OfCvm(c) =>
        /\ client[c].verdict = "InvalidTlsFingerprint" => cert > 1
        /\ client[c].verdict = "InvalidReport" =>
            \/ /\ client[c].expected = Junk
               /\ faults > 0 \/ \E d \in Clients \ {c} : ~At(d, "idle")
            \/ \E d \in Clients : client[d].req.mirror
        /\ client[c].verdict = "InvalidAmdCerts" =>
            \E d \in Clients : client[d].req.mirror

(* The report that the attester serves follows the certificate: through    *)
(* failed attempts and renewals in the middle of them, once caddy keeps    *)
(* its certificate the report, and the token of the GPU, are over its key  *)
(* (build_reporter, Worker::fetch).                                        *)
CertificateAttested ==
    <>[](attester.data = cert /\ attester.token = IF Gpu THEN cert ELSE NoKey)

=============================================================================
