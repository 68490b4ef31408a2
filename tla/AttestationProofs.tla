------------------------- MODULE AttestationProofs -------------------------
(***************************************************************************)
(* Theorems about Attestation, for any clients, requests, reports,         *)
(* certificates, artifacts and bounds.                                     *)
(***************************************************************************)
EXTENDS Attestation, TLAPS

-----------------------------------------------------------------------------
(* The inductive invariant. What a client knows depends on how far it got; *)
(* none of it depends on what the others do, because what they can put     *)
(* into the caches and into circulation is bounded by constants.           *)

AllReports == Foreign \cup {CvmReport(k) : k \in CvmKeys}
Certificates == MirrorCerts \cup Range(Kds)
Chains == {AmdChain[p] : p \in Processors}

ClientFields == {"pc", "req", "tls", "report", "env", "left", "clobbered", "expected",
                 "chain", "vcek", "verdict"}

Fetching == {"metadata", "download", "create", "write"}
WithProcessor == {"chain_get", "chain_put", "vcek", "vcek_get", "vcek_put"}
Judging == {"chain"} \cup WithProcessor

(* The parts of the invariant, of the record r of client c.                *)
Shape(c, r) ==
    /\ DOMAIN r = ClientFields
    /\ r.req \in Requests[c]
    /\ r.env \in Environments
    /\ r.chain \in Chains

(* The report is one that circulates, and `validate` compared its data     *)
(* with the key of the connection.                                         *)
ReportKnown(r) ==
    /\ r.pc \in {"connect", "get"} => r.req.kind = "validate"
    /\ r.pc = "get" => r.tls \in OtherKeys \cup CvmKeys
    /\ r.pc \in Fetching \cup Judging /\ r.req.kind # "hash" => r.report \in AllReports
    /\ r.pc \in Fetching \cup Judging /\ r.req.kind = "validate" =>
        /\ r.tls \in OtherKeys \cup CvmKeys
        /\ r.report.body.data = ReportData(r.tls)

(* What the measurement is compared with.                                  *)
ExpectedKnown(r) ==
    /\ r.pc \in Fetching => r.req.kind # "amd"
    /\ r.pc \in Judging =>
        /\ r.req.kind # "hash"
        /\ ~Blind(r.req) => /\ r.req.compose \in Composes
                            /\ r.expected \in {Junk, Measurement(r.env, r.req.compose)}

(* The certificates that are fetched are for the report's processor.       *)
CertificateKnown(r) ==
    /\ r.pc \in WithProcessor => detect_processor(r.report.body) \in Processors
    /\ r.pc \in {"vcek_get", "vcek_put"} =>
        VcekIdentifier(detect_processor(r.report.body), r.report.body) \in DOMAIN Kds
    /\ r.pc = "vcek_put" => r.vcek \in Certificates

(* AcceptedGenuine, of one client.                                         *)
Justified(r) ==
    /\ Genuine(r.report)
    /\ ~Blind(r.req) => r.report.body.measurement = Measurement(r.env, r.req.compose)
    /\ r.req.kind = "validate" /\ ~r.req.ignore => RunsIn(r.tls) = r.req.compose

VerdictKnown(r) ==
    /\ r.pc # "done" => r.verdict # "ok"
    /\ r.verdict = "ok" => Justified(r)

ClientInv(c, r) ==
    /\ Shape(c, r)
    /\ ReportKnown(r)
    /\ ExpectedKnown(r)
    /\ CertificateKnown(r)
    /\ VerdictKnown(r)

AttesterInv ==
    /\ cert \in CvmKeys
    /\ DOMAIN attester = {"pc", "seen", "fingerprint", "attempts", "data", "token"}
    /\ attester.pc \in {"build_report", "report"} => attester.seen \in CvmKeys
    /\ attester.data \in CvmKeys \cup {NoKey}
    /\ issued \subseteq CvmKeys

CacheInv ==
    /\ DOMAIN chainFile = Processors
    /\ \A p \in Processors : chainFile[p] \subseteq Chains
    /\ DOMAIN vcekFile = DOMAIN Kds
    /\ \A id \in DOMAIN Kds : vcekFile[id] \subseteq Certificates

IInv ==
    /\ AttesterInv
    /\ CacheInv
    /\ DOMAIN client = Clients
    /\ \A c \in Clients : ClientInv(c, client[c])

-----------------------------------------------------------------------------
(* The operators.                                                          *)

(* An error never becomes an acceptance (ErrorCode::from).                 *)
LEMMA ErrorCodeOk ==
    ASSUME NEW e, error_code(e) = "ok"
    PROVE  e = "ok"
  BY DEF error_code

(* What verify_report has established when it accepts.                     *)
LEMMA VerifyReportOk ==
    ASSUME NEW r, NEW chain, NEW vcek, NEW p, NEW m,
           verify_report(r, chain, vcek, p, m) = "ok"
    PROVE  /\ vcek.by = chain.ask.key
           /\ r.body.measurement = m
           /\ r.signature.by = vcek.key
           /\ r.signature.over = r.body
           /\ ~r.body.debug
  BY DEF verify_report, verify_certs, verify_report_signature

(* The key of a certificate that verify_certs accepts is one of a chip of  *)
(* AMD, wherever the certificate comes from.                               *)
LEMMA ChipKey ==
    ASSUME NEW chain \in Chains, NEW vcek \in Certificates, vcek.by = chain.ask.key
    PROVE  vcek.key \in ChipKeys
  BY TrustAssumption DEF Chains, Certificates

LEMMA ReportDataInjective ==
    ASSUME NEW k, NEW l, ReportData(k) = ReportData(l)
    PROVE  k = l
  BY DEF ReportData

LEMMA MeasurementInjective ==
    ASSUME NEW d, NEW e, NEW g, NEW h, Measurement(d, g) = Measurement(e, h)
    PROVE  g = h
  BY DEF Measurement

LEMMA MeasurementNotJunk ==
    ASSUME NEW e, NEW h
    PROVE  Measurement(e, h) # Junk
<1>1. Len(<<e.version, e.vm_type, e.cpu_count, h>>) # Len(<< >>)
  OBVIOUS
<1>. QED BY <1>1 DEF Measurement, Junk

LEMMA CvmReportParts ==
    ASSUME NEW k
    PROVE  /\ CvmReport(k).body.data = ReportData(k)
           /\ CvmReport(k).body.measurement = Measurement(Cvm.env, Cvm.compose)
           /\ CvmReport(k).body = [f \in Fields |-> CvmReport(k).body[f]]
           /\ CvmReport(k).signature = [by |-> Cvm.key, over |-> CvmReport(k).body]
           /\ CvmReport(k) = [body |-> CvmReport(k).body, signature |-> CvmReport(k).signature]
<1>. DEFINE b == [Cvm.body EXCEPT !.data = ReportData(k),
                                  !.measurement = Measurement(Cvm.env, Cvm.compose)]
<1>1. CvmReport(k) = [body |-> b, signature |-> [by |-> Cvm.key, over |-> b]]
  BY DEF CvmReport
<1>2. DOMAIN Cvm.body = Fields
  BY CvmAssumption
<1>3. b = [f \in Fields |-> b[f]]
  BY <1>2
<1>4. b.data = ReportData(k) /\ b.measurement = Measurement(Cvm.env, Cvm.compose)
  BY <1>2 DEF Fields
<1>. HIDE DEF b
<1>. QED BY <1>1, <1>3, <1>4

(* A report survives the way through JSON.                                 *)
LEMMA FromJsonIdentity ==
    ASSUME NEW r \in AllReports
    PROVE  FromJson(r) = r
<1>1. CASE r \in Foreign
  BY <1>1, TrustAssumption DEF WellFormed, FromJson
<1>2. CASE r \in {CvmReport(k) : k \in CvmKeys}
  <2>1. PICK k \in CvmKeys : r = CvmReport(k)
    BY <1>2
  <2>2. /\ r.body = [f \in Fields |-> r.body[f]]
        /\ r.signature = [by |-> Cvm.key, over |-> r.body]
        /\ r = [body |-> r.body, signature |-> r.signature]
    BY <2>1, CvmReportParts, Zenon
  <2>3. r.signature = [by |-> r.signature.by, over |-> r.signature.over]
    BY <2>2
  <2>. QED BY <2>2, <2>3, Zenon DEF FromJson
<1>. QED BY <1>1, <1>2 DEF AllReports

-----------------------------------------------------------------------------
(* One client moves, the others stay as they are.                          *)

LEMMA OneClient ==
    ASSUME IInv, NEW c \in Clients, NEW r, ClientInv(c, r), Becomes(c, r)
    PROVE  DOMAIN client' = Clients /\ \A d \in Clients : ClientInv(d, client'[d])
<1>1. DOMAIN client' = Clients
  BY DEF Becomes, IInv
<1>2. client'[c] = r /\ \A d \in Clients \ {c} : client'[d] = client[d]
  BY DEF Becomes, IInv
<1>. QED BY <1>1, <1>2 DEF IInv

(* A refusal, whatever it is for.                                          *)
LEMMA Refused ==
    ASSUME NEW c \in Clients, NEW r, Shape(c, r), NEW e, e # "ok"
    PROVE  ClientInv(c, [r EXCEPT !.pc = "done", !.verdict = error_code(e)])
<1>. DEFINE s == [r EXCEPT !.pc = "done", !.verdict = error_code(e)]
<1>1. s.pc = "done" /\ s.verdict # "ok" /\ Shape(c, s)
  BY ErrorCodeOk DEF Shape, ClientFields
<1>. HIDE DEF s
<1>2. ReportKnown(s) /\ ExpectedKnown(s) /\ CertificateKnown(s)
  BY <1>1 DEF ReportKnown, ExpectedKnown, CertificateKnown, Fetching, Judging, WithProcessor
<1>3. VerdictKnown(s)
  BY <1>1 DEF VerdictKnown
<1>4. ClientInv(c, s)
  BY <1>1, <1>2, <1>3 DEF ClientInv
<1>. QED BY <1>4 DEF s

LEMMA RefusedClient ==
    ASSUME IInv, NEW c \in Clients, NEW e, e # "ok", Ends(c, client[c], e)
    PROVE  DOMAIN client' = Clients /\ \A d \in Clients : ClientInv(d, client'[d])
<1>1. Shape(c, client[c])
  BY DEF IInv, ClientInv
<1>. QED BY <1>1, Refused, OneClient DEF Ends

(* The acceptance: the report is one that circulates, so that the key that *)
(* signed it and what is known of who is measured how say the rest.        *)
LEMMA Accepted ==
    ASSUME NEW c \in Clients, NEW r, ClientInv(c, r), r.pc \in Judging,
           NEW vcek \in Certificates,
           verify_report(r.report, r.chain, vcek, detect_processor(r.report.body), r.expected)
               = "ok"
    PROVE  Justified(r)
<1>1. /\ vcek.by = r.chain.ask.key
      /\ r.report.body.measurement = r.expected
      /\ r.report.signature.by = vcek.key
      /\ r.report.signature.over = r.report.body
      /\ ~r.report.body.debug
  BY VerifyReportOk
<1>2. Genuine(r.report)
  BY <1>1, ChipKey DEF ClientInv, Shape, Genuine
<1>3. r.req.kind # "hash" /\ r.report \in AllReports
  BY DEF ClientInv, ExpectedKnown, ReportKnown
<1>4. r.report.body.measurement # Junk
  BY <1>3, TrustAssumption, CvmReportParts, MeasurementNotJunk DEF AllReports
<1>5. ASSUME ~Blind(r.req)
      PROVE  /\ r.req.compose \in Composes
             /\ r.report.body.measurement = Measurement(r.env, r.req.compose)
  BY <1>1, <1>4, <1>5 DEF ClientInv, ExpectedKnown
<1>6. ASSUME r.req.kind = "validate", ~r.req.ignore
      PROVE  RunsIn(r.tls) = r.req.compose
  <2>1. ~Blind(r.req)
    BY <1>6 DEF Blind
  <2>2. r.tls \in OtherKeys \cup CvmKeys /\ r.report.body.data = ReportData(r.tls)
    BY <1>6 DEF ClientInv, ReportKnown
  <2>3. r.env \in Environments
    BY DEF ClientInv, Shape
  <2>4. CASE r.report \in Foreign
    BY <1>2, <1>5, <2>1, <2>2, <2>3, <2>4, TrustAssumption
  <2>5. CASE r.report \in {CvmReport(k) : k \in CvmKeys}
    <3>1. PICK k \in CvmKeys : r.report = CvmReport(k)
      BY <2>5
    <3>2. /\ r.report.body.data = ReportData(k)
          /\ r.report.body.measurement = Measurement(Cvm.env, Cvm.compose)
      BY <3>1, CvmReportParts, Zenon
    <3>3. r.tls = k
      BY <2>2, <3>2, ReportDataInjective, Zenon
    <3>4. r.req.compose = Cvm.compose
      BY <1>5, <2>1, <3>2, MeasurementInjective, Zenon
    <3>. QED BY <3>3, <3>4 DEF RunsIn
  <2>. QED BY <1>3, <2>4, <2>5 DEF AllReports
<1>. QED BY <1>2, <1>5, <1>6 DEF Justified

-----------------------------------------------------------------------------
(* The actions.                                                            *)

LEMMA Cached ==
    ASSUME IInv, UNCHANGED avars, CacheInv', DOMAIN client' = Clients,
           \A d \in Clients : ClientInv(d, client'[d])
    PROVE  IInv'
<1>1. AttesterInv'
  BY DEF IInv, AttesterInv, avars
<1>2. \A d \in Clients : ClientInv(d, client[d])'
  BY DEF ClientInv, Shape, ReportKnown, ExpectedKnown, CertificateKnown, VerdictKnown, Justified
<1>. QED BY <1>1, <1>2 DEF IInv

LEMMA Unshared ==
    ASSUME IInv, UNCHANGED <<avars, chainFile, vcekFile>>, DOMAIN client' = Clients,
           \A d \in Clients : ClientInv(d, client'[d])
    PROVE  IInv'
<1>1. CacheInv'
  BY DEF IInv, CacheInv
<1>. QED BY <1>1, Cached

(* What circulates is bounded by the keys of the CVM.                      *)
LEMMA CirculatingKnown ==
    ASSUME IInv
    PROVE  Circulating \subseteq AllReports
  BY DEF IInv, AttesterInv, Circulating, AllReports

LEMMA AskPreserves ==
    ASSUME IInv, NEW c \in Clients, Ask(c)
    PROVE  IInv'
<1>0. Shape(c, client[c]) /\ VerdictKnown(client[c]) /\ At(c, "idle")
  BY DEF IInv, ClientInv, Ask
<1>1. PICK q \in Requests[c] :
        LET r == [client[c] EXCEPT !.req = q, !.pc = "connect"] IN
        CASE q.kind = "validate" /\ q.https -> Becomes(c, r)
          [] q.kind = "validate" /\ ~q.https -> Ends(c, r, "NotHttpsScheme")
          [] q.kind \in {"hash", "verify"} /\ q.compose \notin Composes ->
                Ends(c, r, "DockerComposeHash")
          [] OTHER ->
                \E e \in Environments,
                   x \in IF q.kind = "hash" THEN {client[c].report} ELSE Circulating :
                    Becomes(c, Given(c, q, x, e))
  BY DEF Ask
<1>. DEFINE r == [client[c] EXCEPT !.req = q, !.pc = "connect"]
<1>2. /\ Shape(c, r) /\ r.pc = "connect" /\ r.req = q
      /\ r.verdict = client[c].verdict
  BY <1>0 DEF Shape, ClientFields
<1>3. q \in Request
  BY RequestsAssumption
<1>4. CASE q.kind = "validate" /\ q.https
  <2>1. Becomes(c, r)
    BY <1>1, <1>4
  <2>2. ClientInv(c, r)
    <3>. HIDE DEF r
    <3>. QED BY <1>0, <1>2, <1>4 DEF ClientInv, ReportKnown, ExpectedKnown, CertificateKnown,
                     VerdictKnown, Fetching, Judging, WithProcessor, At
  <2>. QED BY <2>1, <2>2, OneClient, Unshared DEF Ask
<1>5. CASE q.kind = "validate" /\ ~q.https
  <2>1. Ends(c, r, "NotHttpsScheme")
    BY <1>1, <1>5
  <2>. QED BY <2>1, <1>2, Refused, OneClient, Unshared DEF Ask, Ends
<1>6. CASE q.kind \in {"hash", "verify"} /\ q.compose \notin Composes
  <2>1. Ends(c, r, "DockerComposeHash")
    BY <1>1, <1>6
  <2>. QED BY <2>1, <1>2, Refused, OneClient, Unshared DEF Ask, Ends
<1>7. CASE /\ q.kind # "validate"
           /\ ~(q.kind \in {"hash", "verify"} /\ q.compose \notin Composes)
  <2>1. PICK e \in Environments,
             x \in IF q.kind = "hash" THEN {client[c].report} ELSE Circulating :
                Becomes(c, Given(c, q, x, e))
    BY <1>1, <1>7
  <2>. DEFINE g == Given(c, q, x, e)
  <2>2. /\ DOMAIN g = ClientFields /\ g.req = q /\ g.env = e /\ g.report = x
        /\ g.pc = (IF q.kind = "amd" THEN "chain" ELSE "metadata")
        /\ g.chain = client[c].chain /\ g.verdict = client[c].verdict
    BY <1>0 DEF Given, Shape, ClientFields
  <2>. HIDE DEF g
  <2>3. Shape(c, g)
    BY <1>0, <2>2 DEF Shape
  <2>4. g.req.kind # "hash" => g.report \in AllReports
    BY <2>2, CirculatingKnown
  <2>5. ClientInv(c, g)
    BY <1>0, <1>7, <2>2, <2>3, <2>4
       DEF ClientInv, ReportKnown, ExpectedKnown, CertificateKnown, VerdictKnown, Blind,
           Fetching, Judging, WithProcessor, At
  <2>. QED BY <2>1, <2>5, OneClient, Unshared DEF Ask, g
<1>. QED BY <1>3, <1>4, <1>5, <1>6, <1>7 DEF Request

LEMMA ConnectPreserves ==
    ASSUME IInv, NEW c \in Clients, Connect(c)
    PROVE  IInv'
<1>0. ClientInv(c, client[c]) /\ At(c, "connect") /\ cert \in CvmKeys
  BY DEF IInv, AttesterInv, Connect
<1>1. PICK k \in OtherKeys \cup {cert} : Becomes(c, [client[c] EXCEPT !.pc = "get", !.tls = k])
  BY DEF Connect
<1>. DEFINE r == [client[c] EXCEPT !.pc = "get", !.tls = k]
<1>2. /\ Shape(c, r) /\ r.pc = "get" /\ r.tls \in OtherKeys \cup CvmKeys
      /\ r.req = client[c].req /\ r.verdict = client[c].verdict
  BY <1>0 DEF ClientInv, Shape, ClientFields
<1>. HIDE DEF r
<1>3. ClientInv(c, r)
  BY <1>0, <1>2 DEF ClientInv, ReportKnown, ExpectedKnown, CertificateKnown, VerdictKnown,
                    Fetching, Judging, WithProcessor, At
<1>. QED BY <1>1, <1>3, OneClient, Unshared DEF Connect, r

LEMMA GetPreserves ==
    ASSUME IInv, NEW c \in Clients, Get(c)
    PROVE  IInv'
<1>0. ClientInv(c, client[c]) /\ At(c, "get")
  BY DEF IInv, Get
<1>1. ASSUME NEW a \in Answers(c)
      PROVE  a[1] \in AllReports /\ a[2] \in Environments
  <2>1. CASE client[c].tls \in CvmKeys
    <3>1. PICK k \in {attester.data} \ {NoKey} : a = <<CvmReport(k), Cvm.env>>
      BY <2>1, <1>1 DEF Answers
    <3>2. k \in CvmKeys
      BY <3>1 DEF IInv, AttesterInv
    <3>. QED BY <3>1, <3>2, CvmAssumption DEF AllReports
  <2>2. CASE client[c].tls \notin CvmKeys
    BY <2>2, <1>1, CirculatingKnown DEF Answers
  <2>. QED BY <2>1, <2>2
<1>2. ASSUME NEW a \in Answers(c),
             LET r == [client[c] EXCEPT !.report = FromJson(a[1]), !.env = a[2],
                                        !.pc = "metadata"] IN
             IF FingerprintMatches(c, r.report) THEN Becomes(c, r)
             ELSE Ends(c, r, "TlsFingerprint")
      PROVE  IInv'
  <2>. DEFINE r == [client[c] EXCEPT !.report = FromJson(a[1]), !.env = a[2], !.pc = "metadata"]
  <2>1. /\ Shape(c, r) /\ r.pc = "metadata" /\ r.tls = client[c].tls
        /\ r.req = client[c].req /\ r.verdict = client[c].verdict /\ r.report = FromJson(a[1])
    BY <1>0, <1>1 DEF ClientInv, Shape, ClientFields
  <2>2. IF FingerprintMatches(c, r.report) THEN Becomes(c, r) ELSE Ends(c, r, "TlsFingerprint")
    BY <1>2
  <2>. HIDE DEF r
  <2>3. r.report \in AllReports
    BY <2>1, <1>1, FromJsonIdentity
  <2>4. ASSUME FingerprintMatches(c, r.report) PROVE ClientInv(c, r)
    BY <1>0, <2>1, <2>3, <2>4
       DEF ClientInv, ReportKnown, ExpectedKnown, CertificateKnown, VerdictKnown,
           FingerprintMatches, Fetching, Judging, WithProcessor, At
  <2>5. ASSUME ~FingerprintMatches(c, r.report)
        PROVE  DOMAIN client' = Clients /\ \A d \in Clients : ClientInv(d, client'[d])
    BY <2>1, <2>2, <2>5, Refused, OneClient DEF Ends
  <2>. QED BY <2>2, <2>4, <2>5, OneClient, Unshared DEF Get
<1>. QED BY <1>2, RefusedClient, Unshared DEF Get

(* A client that fetches artifacts goes on to fetch them.                  *)
LEMMA StillFetching ==
    ASSUME NEW c \in Clients, NEW r, ClientInv(c, r), r.pc \in Fetching,
           NEW s, DOMAIN s = ClientFields, s.pc \in Fetching,
           \A f \in {"req", "env", "chain", "report", "tls", "verdict"} : s[f] = r[f]
    PROVE  ClientInv(c, s)
<1>1. /\ s.req = r.req /\ s.env = r.env /\ s.chain = r.chain /\ s.report = r.report
      /\ s.tls = r.tls /\ s.verdict = r.verdict
  OBVIOUS
<1>. QED BY <1>1 DEF ClientInv, Shape, ReportKnown, ExpectedKnown, CertificateKnown,
                     VerdictKnown, Fetching, Judging, WithProcessor

LEMMA BrokenNotOk ==
    ASSUME NEW c, NEW e, e # "ok"
    PROVE  Broken(c, e) # "ok"
  BY DEF Broken

LEMMA MetadataPreserves ==
    ASSUME IInv, NEW c \in Clients, Metadata(c)
    PROVE  IInv'
<1>0. ClientInv(c, client[c]) /\ At(c, "metadata")
  BY DEF IInv, Metadata
<1>1. ASSUME Becomes(c, [client[c] EXCEPT !.pc = "download", !.left = FilesOf(c)])
      PROVE  IInv'
  <2>. DEFINE r == [client[c] EXCEPT !.pc = "download", !.left = FilesOf(c)]
  <2>1. ClientInv(c, r)
    BY <1>0, StillFetching DEF ClientInv, Shape, ClientFields, Fetching, At
  <2>. QED BY <1>1, <2>1, OneClient, Unshared DEF Metadata
<1>2. ASSUME NEW e \in {"Download", "DecodeMetadata"}, Ends(c, client[c], Broken(c, e))
      PROVE  IInv'
  BY <1>2, BrokenNotOk, RefusedClient, Unshared DEF Metadata
<1>. QED BY <1>1, <1>2 DEF Metadata

LEMMA DownloadPreserves ==
    ASSUME IInv, NEW c \in Clients, Download(c)
    PROVE  IInv'
<1>0. ClientInv(c, client[c]) /\ At(c, "download")
  BY DEF IInv, Download
<1>1. ASSUME Goes(c, "create")
      PROVE  IInv'
  <2>1. ClientInv(c, [client[c] EXCEPT !.pc = "create"])
    BY <1>0, StillFetching DEF ClientInv, Shape, ClientFields, Fetching, At
  <2>. QED BY <1>1, <2>1, OneClient, Unshared DEF Download, Goes
<1>2. ASSUME Becomes(c, [client[c] EXCEPT !.left = Tail(@)])
      PROVE  IInv'
  <2>1. ClientInv(c, [client[c] EXCEPT !.left = Tail(client[c].left)])
    BY <1>0, StillFetching DEF ClientInv, Shape, ClientFields, Fetching, At
  <2>. QED BY <1>2, <2>1, OneClient, Unshared DEF Download
<1>3. ASSUME NEW e \in {"Download", "TargetFile"}, Ends(c, client[c], Broken(c, e))
      PROVE  IInv'
  BY <1>3, BrokenNotOk, RefusedClient, Unshared DEF Download
<1>. QED BY <1>1, <1>2, <1>3 DEF Download

LEMMA CreatePreserves ==
    ASSUME IInv, NEW c \in Clients, Create(c)
    PROVE  IInv'
<1>1. ClientInv(c, [client[c] EXCEPT !.pc = "write", !.clobbered = FALSE])
  BY StillFetching DEF IInv, Create, ClientInv, Shape, ClientFields, Fetching, At
<1>2. ASSUME NEW d \in Clients, At(d, "write")
      PROVE  ClientInv(d, [client[d] EXCEPT !.clobbered = TRUE])
  BY <1>2, StillFetching DEF IInv, ClientInv, Shape, ClientFields, Fetching, At
<1>3. ASSUME NEW d \in Clients PROVE ClientInv(d, client'[d])
  BY <1>1, <1>2 DEF Create, IInv
<1>4. DOMAIN client' = Clients
  BY DEF Create
<1>. QED BY <1>3, <1>4, Unshared DEF Create

LEMMA WritePreserves ==
    ASSUME IInv, NEW c \in Clients, Write(c)
    PROVE  IInv'
<1>0. ClientInv(c, client[c]) /\ At(c, "write")
  BY DEF IInv, Write
<1>1. ASSUME Becomes(c, [client[c] EXCEPT !.pc = "download", !.left = Tail(@)])
      PROVE  IInv'
  <2>1. ClientInv(c, [client[c] EXCEPT !.pc = "download", !.left = Tail(client[c].left)])
    BY <1>0, StillFetching DEF ClientInv, Shape, ClientFields, Fetching, At
  <2>. QED BY <1>1, <2>1, OneClient, Unshared DEF Write
<1>2. ASSUME Ends(c, client[c], Broken(c, "Download"))
      PROVE  IInv'
  BY <1>2, BrokenNotOk, RefusedClient, Unshared DEF Write
<1>. QED BY <1>1, <1>2 DEF Write

LEMMA MeasurePreserves ==
    ASSUME IInv, NEW c \in Clients, Measure(c)
    PROVE  IInv'
<1>. DEFINE q == client[c].req
            s(m, pc) == [client[c] EXCEPT !.expected = m, !.pc = pc]
<1>0. ClientInv(c, client[c]) /\ At(c, "download")
  BY DEF IInv, Measure
<1>1. ASSUME NEW m, NEW pc \in {"chain", "done"}, Becomes(c, s(m, pc)),
             pc = "chain" =>
                /\ q.kind # "hash"
                /\ ~Blind(q) => q.compose \in Composes
                                /\ m \in {Junk, Measurement(client[c].env, q.compose)}
      PROVE  IInv'
  <2>. DEFINE r == s(m, pc)
  <2>1. /\ Shape(c, r) /\ r.pc = pc /\ r.expected = m /\ r.report = client[c].report
        /\ r.req = q /\ r.env = client[c].env /\ r.verdict = client[c].verdict
        /\ r.tls = client[c].tls
    BY <1>0 DEF ClientInv, Shape, ClientFields
  <2>. HIDE DEF r
  <2>2. r.verdict # "ok"
    BY <1>0, <2>1 DEF ClientInv, VerdictKnown, At
  <2>3. ReportKnown(r)
    BY <1>0, <2>1 DEF ClientInv, ReportKnown, Fetching, Judging, WithProcessor, At
  <2>4. ExpectedKnown(r)
    BY <1>1, <2>1 DEF ExpectedKnown, Fetching, Judging, WithProcessor
  <2>5. CertificateKnown(r)
    BY <2>1 DEF CertificateKnown, WithProcessor
  <2>6. ClientInv(c, r)
    BY <2>1, <2>2, <2>3, <2>4, <2>5 DEF ClientInv, VerdictKnown
  <2>. QED BY <1>1, <2>6, OneClient, Unshared DEF Measure, r
<1>2. ASSUME NEW e, e # "ok", Ends(c, client[c], e)
      PROVE  IInv'
  BY <1>2, RefusedClient, Unshared DEF Measure
<1>3. q \in Request /\ (q.ignore => q.kind = "validate")
  BY <1>0, RequestsAssumption DEF ClientInv, Shape
<1>4. CASE q.ignore /\ Becomes(c, s(client[c].report.body.measurement, "chain"))
  BY <1>1, <1>3, <1>4 DEF Blind
<1>5. CASE ~q.ignore /\ q.compose \in Composes
           /\ Becomes(c, s(Digest(c), IF q.kind = "hash" THEN "done" ELSE "chain"))
  BY <1>1, <1>5 DEF Digest
<1>6. CASE Ends(c, client[c], "DockerComposeHash")
  BY <1>2, <1>6
<1>7. CASE Ends(c, client[c], "MeasurementHash")
  BY <1>2, <1>7
<1>8. CASE Ends(c, client[c], Broken(c, "TargetFile"))
  BY <1>2, <1>8, BrokenNotOk
<1>. QED BY <1>4, <1>5, <1>6, <1>7, <1>8 DEF Measure

(* A client that judges its report goes on to do so.                       *)
LEMMA StillJudging ==
    ASSUME NEW c \in Clients, NEW r, ClientInv(c, r), r.pc \in Judging,
           NEW s, DOMAIN s = ClientFields, s.pc \in WithProcessor, s.chain \in Chains,
           \A f \in {"req", "env", "report", "tls", "expected", "verdict"} : s[f] = r[f],
           CertificateKnown(s)
    PROVE  ClientInv(c, s)
<1>1. /\ s.req = r.req /\ s.env = r.env /\ s.report = r.report
      /\ s.tls = r.tls /\ s.verdict = r.verdict /\ s.expected = r.expected
  OBVIOUS
<1>. QED BY <1>1 DEF ClientInv, Shape, ReportKnown, ExpectedKnown,
                     VerdictKnown, Fetching, Judging, WithProcessor

LEMMA LoadChainPreserves ==
    ASSUME IInv, NEW c \in Clients, LoadChain(c)
    PROVE  IInv'
<1>. DEFINE p == ProcessorOf(c)
<1>0. ClientInv(c, client[c]) /\ client[c].pc = "chain"
  BY DEF IInv, LoadChain, At
<1>1. ASSUME NEW x \in Chains, NEW pc \in {"chain_get", "vcek"}, p \in Processors,
             Becomes(c, [client[c] EXCEPT !.chain = x, !.pc = pc])
      PROVE  IInv'
  <2>. DEFINE r == [client[c] EXCEPT !.chain = x, !.pc = pc]
  <2>1. /\ DOMAIN r = ClientFields /\ r.pc = pc /\ r.chain = x /\ r.report = client[c].report
        /\ \A f \in {"req", "env", "report", "tls", "expected", "verdict"} : r[f] = client[c][f]
    BY <1>0 DEF ClientInv, Shape, ClientFields
  <2>. HIDE DEF r
  <2>2. CertificateKnown(r)
    BY <1>1, <2>1 DEF CertificateKnown, ProcessorOf, Body
  <2>3. ClientInv(c, r)
    BY <1>0, <2>1, <2>2, StillJudging DEF Judging, WithProcessor
  <2>. QED BY <1>1, <2>3, OneClient, Unshared DEF LoadChain, r
<1>2. ASSUME NEW e, e # "ok", Ends(c, client[c], e)
      PROVE  IInv'
  BY <1>2, RefusedClient, Unshared DEF LoadChain
<1>3. CASE p \notin Processors /\ Ends(c, client[c], "DetectProcessor")
  BY <1>2, <1>3
<1>4. CASE p \in Processors /\ Goes(c, "chain_get")
  <2>1. client[c].chain \in Chains
    BY <1>0 DEF ClientInv, Shape
  <2>2. [client[c] EXCEPT !.pc = "chain_get"] =
            [client[c] EXCEPT !.chain = client[c].chain, !.pc = "chain_get"]
    BY <1>0 DEF ClientInv, Shape
  <2>. QED BY <1>1, <1>4, <2>1, <2>2 DEF Goes
<1>5. CASE /\ p \in Processors
           /\ \E x \in chainFile[p] : Becomes(c, [client[c] EXCEPT !.chain = x, !.pc = "vcek"])
  BY <1>1, <1>5 DEF IInv, CacheInv
<1>6. CASE Unreadable(c)
  BY <1>2, <1>6 DEF Unreadable
<1>. QED BY <1>3, <1>4, <1>5, <1>6 DEF LoadChain

LEMMA GetChainPreserves ==
    ASSUME IInv, NEW c \in Clients, GetChain(c)
    PROVE  IInv'
<1>0. ClientInv(c, client[c]) /\ client[c].pc = "chain_get"
  BY DEF IInv, GetChain, At
<1>1. ASSUME Becomes(c, [client[c] EXCEPT !.chain = AmdChain[ProcessorOf(c)],
                                          !.pc = "chain_put"]),
             chainFile' = [chainFile EXCEPT ![ProcessorOf(c)] = {}]
      PROVE  IInv'
  <2>. DEFINE r == [client[c] EXCEPT !.chain = AmdChain[ProcessorOf(c)], !.pc = "chain_put"]
  <2>1. ProcessorOf(c) \in Processors
    BY <1>0 DEF ClientInv, CertificateKnown, WithProcessor, ProcessorOf, Body
  <2>2. /\ DOMAIN r = ClientFields /\ r.pc = "chain_put" /\ r.chain \in Chains
        /\ r.report = client[c].report
        /\ \A f \in {"req", "env", "report", "tls", "expected", "verdict"} : r[f] = client[c][f]
    BY <1>0, <2>1 DEF ClientInv, Shape, ClientFields, Chains
  <2>. HIDE DEF r
  <2>3. CertificateKnown(r)
    BY <2>1, <2>2 DEF CertificateKnown, ProcessorOf, Body
  <2>4. ClientInv(c, r)
    BY <1>0, <2>2, <2>3, StillJudging DEF Judging, WithProcessor
  <2>5. CacheInv'
    BY <1>1 DEF IInv, CacheInv, GetChain
  <2>. QED BY <1>1, <2>4, <2>5, OneClient, Cached DEF GetChain, r
<1>2. CASE Ends(c, client[c], "FetchingCert") /\ UNCHANGED chainFile
  BY <1>2, RefusedClient, Unshared DEF GetChain
<1>. QED BY <1>1, <1>2 DEF GetChain

LEMMA PutChainPreserves ==
    ASSUME IInv, NEW c \in Clients, PutChain(c)
    PROVE  IInv'
<1>0. ClientInv(c, client[c]) /\ client[c].pc = "chain_put"
  BY DEF IInv, PutChain, At
<1>1. ASSUME Goes(c, "vcek"),
             chainFile' = [chainFile EXCEPT ![ProcessorOf(c)] = {client[c].chain}]
      PROVE  IInv'
  <2>. DEFINE r == [client[c] EXCEPT !.pc = "vcek"]
  <2>1. client[c].chain \in Chains
    BY <1>0 DEF ClientInv, Shape
  <2>2. /\ DOMAIN r = ClientFields /\ r.pc = "vcek" /\ r.chain \in Chains
        /\ r.report = client[c].report
        /\ \A f \in {"req", "env", "report", "tls", "expected", "verdict"} : r[f] = client[c][f]
    BY <1>0, <2>1 DEF ClientInv, Shape, ClientFields
  <2>. HIDE DEF r
  <2>3. CertificateKnown(r)
    BY <1>0, <2>2 DEF ClientInv, CertificateKnown, WithProcessor
  <2>4. ClientInv(c, r)
    BY <1>0, <2>2, <2>3, StillJudging DEF Judging, WithProcessor
  <2>5. CacheInv'
    BY <1>1, <2>1 DEF IInv, CacheInv, PutChain
  <2>. QED BY <1>1, <2>4, <2>5, OneClient, Cached DEF PutChain, Goes, r
<1>2. CASE Ends(c, client[c], "CachedCert") /\ UNCHANGED chainFile
  BY <1>2, RefusedClient, Unshared DEF PutChain
<1>. QED BY <1>1, <1>2 DEF PutChain

(* verify_report at the end of a validation.                               *)
LEMMA Verified ==
    ASSUME IInv, NEW c \in Clients, client[c].pc \in Judging,
           NEW vcek \in Certificates, Verify(c, vcek)
    PROVE  DOMAIN client' = Clients /\ \A d \in Clients : ClientInv(d, client'[d])
<1>. DEFINE e == verify_report(client[c].report, client[c].chain, vcek, ProcessorOf(c),
                               client[c].expected)
            v == [client[c] EXCEPT !.vcek = vcek]
            r == [v EXCEPT !.pc = "done", !.verdict = error_code(e)]
<1>0. ClientInv(c, client[c])
  BY DEF IInv
<1>1. Ends(c, v, e)
  BY DEF Verify
<1>2. Shape(c, v)
  BY <1>0 DEF ClientInv, Shape, ClientFields
<1>3. CASE e # "ok"
  <2>. HIDE DEF e, v
  <2>. QED BY <1>1, <1>2, <1>3, Refused, OneClient DEF Ends
<1>4. CASE e = "ok"
  <2>1. Justified(client[c])
    BY <1>0, <1>4, Accepted DEF ProcessorOf, Body
  <2>. HIDE DEF e
  <2>2. /\ Shape(c, r) /\ r.pc = "done" /\ r.report = client[c].report
        /\ r.req = client[c].req /\ r.env = client[c].env /\ r.tls = client[c].tls
    BY <1>0 DEF ClientInv, Shape, ClientFields
  <2>3. Becomes(c, r)
    BY <1>1 DEF Ends
  <2>. HIDE DEF r
  <2>4. Justified(r)
    BY <2>1, <2>2 DEF Justified
  <2>5. ReportKnown(r) /\ ExpectedKnown(r) /\ CertificateKnown(r) /\ VerdictKnown(r)
    BY <2>2, <2>4 DEF ReportKnown, ExpectedKnown, CertificateKnown, VerdictKnown, Fetching,
                      Judging, WithProcessor
  <2>. QED BY <2>2, <2>3, <2>5, OneClient DEF ClientInv
<1>. QED BY <1>3, <1>4

LEMMA LoadVcekPreserves ==
    ASSUME IInv, NEW c \in Clients, LoadVcek(c)
    PROVE  IInv'
<1>. DEFINE p == ProcessorOf(c)
            b == Body(c)
<1>0. ClientInv(c, client[c]) /\ client[c].pc = "vcek"
  BY DEF IInv, LoadVcek, At
<1>1. ASSUME NEW e, e # "ok", Ends(c, client[c], e)
      PROVE  IInv'
  BY <1>1, RefusedClient, Unshared DEF LoadVcek
<1>2. p \in Processors /\ client[c].report \in AllReports
  BY <1>0 DEF ClientInv, CertificateKnown, ExpectedKnown, ReportKnown, WithProcessor, Judging,
              ProcessorOf, Body
<1>3. ASSUME ~TurinFmc(p, b), ~ZeroHardwareId(b)
      PROVE  Id(c) \in DOMAIN Kds
  BY <1>2, <1>3, KdsAssumption DEF AllReports, Id, Body, ProcessorOf
<1>4. ASSUME ~TurinFmc(p, b), ~ZeroHardwareId(b), Goes(c, "vcek_get")
      PROVE  IInv'
  <2>. DEFINE r == [client[c] EXCEPT !.pc = "vcek_get"]
  <2>1. /\ DOMAIN r = ClientFields /\ r.pc = "vcek_get" /\ r.chain \in Chains
        /\ r.report = client[c].report
        /\ \A f \in {"req", "env", "report", "tls", "expected", "verdict"} : r[f] = client[c][f]
    BY <1>0 DEF ClientInv, Shape, ClientFields
  <2>. HIDE DEF r
  <2>2. CertificateKnown(r)
    BY <1>2, <1>3, <1>4, <2>1 DEF CertificateKnown, Id, Body, ProcessorOf
  <2>3. ClientInv(c, r)
    BY <1>0, <2>1, <2>2, StillJudging DEF Judging, WithProcessor
  <2>. QED BY <1>4, <2>3, OneClient, Unshared DEF LoadVcek, Goes, r
<1>5. ASSUME ~TurinFmc(p, b), ~ZeroHardwareId(b), NEW x \in vcekFile[Id(c)], Verify(c, x)
      PROVE  IInv'
  <2>1. x \in Certificates
    BY <1>3, <1>5 DEF IInv, CacheInv
  <2>. QED BY <1>0, <1>5, <2>1, Verified, Unshared DEF LoadVcek, Judging, WithProcessor
<1>6. CASE Ends(c, client[c], "TurinFmc")
  BY <1>1, <1>6
<1>7. CASE Ends(c, client[c], "ZeroHardwareId")
  BY <1>1, <1>7
<1>8. CASE Unreadable(c)
  BY <1>1, <1>8 DEF Unreadable
<1>. QED BY <1>4, <1>5, <1>6, <1>7, <1>8 DEF LoadVcek

LEMMA GetVcekPreserves ==
    ASSUME IInv, NEW c \in Clients, GetVcek(c)
    PROVE  IInv'
<1>0. ClientInv(c, client[c]) /\ client[c].pc = "vcek_get"
  BY DEF IInv, GetVcek, At
<1>1. ASSUME NEW x \in {Kds[Id(c)]} \cup (IF client[c].req.mirror THEN MirrorCerts ELSE {}),
             Becomes(c, [client[c] EXCEPT !.vcek = x, !.pc = "vcek_put"]),
             vcekFile' = [vcekFile EXCEPT ![Id(c)] = {}]
      PROVE  IInv'
  <2>. DEFINE r == [client[c] EXCEPT !.vcek = x, !.pc = "vcek_put"]
  <2>1. Id(c) \in DOMAIN Kds
    BY <1>0 DEF ClientInv, CertificateKnown, Id, ProcessorOf, Body
  <2>2. x \in Certificates
    BY <1>1, <2>1 DEF Certificates, Range
  <2>3. /\ DOMAIN r = ClientFields /\ r.pc = "vcek_put" /\ r.chain \in Chains /\ r.vcek = x
        /\ r.report = client[c].report
        /\ \A f \in {"req", "env", "report", "tls", "expected", "verdict"} : r[f] = client[c][f]
    BY <1>0 DEF ClientInv, Shape, ClientFields
  <2>. HIDE DEF r
  <2>4. CertificateKnown(r)
    BY <1>0, <2>2, <2>3 DEF ClientInv, CertificateKnown, WithProcessor
  <2>5. ClientInv(c, r)
    BY <1>0, <2>3, <2>4, StillJudging DEF Judging, WithProcessor
  <2>6. CacheInv'
    BY <1>1 DEF IInv, CacheInv, GetVcek
  <2>. QED BY <1>1, <2>5, <2>6, OneClient, Cached DEF GetVcek, r
<1>2. ASSUME NEW e, e # "ok", Ends(c, client[c], e), UNCHANGED vcekFile
      PROVE  IInv'
  BY <1>2, RefusedClient, Unshared DEF GetVcek
<1>. QED BY <1>1, <1>2 DEF GetVcek

LEMMA PutVcekPreserves ==
    ASSUME IInv, NEW c \in Clients, PutVcek(c)
    PROVE  IInv'
<1>0. ClientInv(c, client[c]) /\ client[c].pc = "vcek_put"
  BY DEF IInv, PutVcek, At
<1>1. client[c].vcek \in Certificates
  BY <1>0 DEF ClientInv, CertificateKnown
<1>2. CASE /\ Verify(c, client[c].vcek)
           /\ \/ vcekFile' = [vcekFile EXCEPT ![Id(c)] = {client[c].vcek}]
              \/ vcekFile' = [vcekFile EXCEPT ![Id(c)] = {}]
  <2>1. CacheInv'
    BY <1>1, <1>2 DEF IInv, CacheInv, PutVcek
  <2>. QED BY <1>0, <1>1, <1>2, <2>1, Verified, Cached DEF PutVcek, Judging, WithProcessor
<1>3. CASE Ends(c, client[c], "CachedCert") /\ UNCHANGED vcekFile
  BY <1>3, RefusedClient, Unshared DEF PutVcek
<1>. QED BY <1>2, <1>3 DEF PutVcek

LEMMA AttesterPreserves ==
    ASSUME IInv, AttesterStep \/ Renew
    PROVE  IInv'
<1>1. UNCHANGED <<client, chainFile, vcekFile>>
  BY DEF AttesterStep, BuildFetch, BuildReport, WorkerFetch, WorkerReport, Renew
<1>2. AttesterInv'
  <2>1. CASE BuildFetch
    BY <2>1 DEF IInv, AttesterInv, BuildFetch, Fetched, Retry
  <2>2. CASE BuildReport
    BY <2>2 DEF IInv, AttesterInv, BuildReport, Reports, Retry
  <2>3. CASE WorkerFetch
    BY <2>3 DEF IInv, AttesterInv, WorkerFetch, Fetched
  <2>4. CASE WorkerReport
    BY <2>4 DEF IInv, AttesterInv, WorkerReport, Reports
  <2>5. CASE Renew
    BY <2>5, BoundsAssumption DEF IInv, AttesterInv, Renew, CvmKeys
  <2>. QED BY <2>1, <2>2, <2>3, <2>4, <2>5 DEF AttesterStep
<1>3. CacheInv'
  BY <1>1 DEF IInv, CacheInv
<1>4. \A c \in Clients : ClientInv(c, client[c])'
  BY <1>1 DEF IInv, ClientInv, Shape, ReportKnown, ExpectedKnown, CertificateKnown,
              VerdictKnown, Justified
<1>. QED BY <1>1, <1>2, <1>3, <1>4 DEF IInv

LEMMA InitIInv ==
    ASSUME Init
    PROVE  IInv
<1>1. AttesterInv
  BY BoundsAssumption DEF Init, AttesterInv, CvmKeys
<1>2. CacheInv
  BY DEF Init, CacheInv
<1>3. ASSUME NEW c \in Clients PROVE ClientInv(c, client[c])
  <2>1. /\ DOMAIN client[c] = ClientFields
        /\ client[c].pc = "idle" /\ client[c].verdict = "none"
        /\ client[c].env = Cvm.env /\ client[c].chain = AmdChain["Genoa"]
        /\ client[c].req = CHOOSE q \in Requests[c] : TRUE
    BY DEF Init, ClientFields
  <2>2. client[c].req \in Requests[c]
    <3>1. \E q \in Requests[c] : TRUE
      BY RequestsAssumption
    <3>. QED BY <2>1, <3>1, Zenon
  <2>3. Shape(c, client[c])
    BY <2>1, <2>2, CvmAssumption DEF Shape, Chains, Processors
  <2>. QED BY <2>1, <2>3 DEF ClientInv, ReportKnown, ExpectedKnown, CertificateKnown,
                             VerdictKnown, Fetching, Judging, WithProcessor
<1>4. DOMAIN client = Clients
  BY DEF Init
<1>. QED BY <1>1, <1>2, <1>3, <1>4 DEF IInv

LEMMA NextIInv ==
    ASSUME IInv, [Next]_vars
    PROVE  IInv'
<1>1. ASSUME NEW c \in Clients, ClientStep(c) PROVE IInv'
  BY <1>1, AskPreserves, ConnectPreserves, GetPreserves, MetadataPreserves, DownloadPreserves,
     CreatePreserves, WritePreserves, MeasurePreserves, LoadChainPreserves, GetChainPreserves,
     PutChainPreserves, LoadVcekPreserves, GetVcekPreserves, PutVcekPreserves DEF ClientStep
<1>2. CASE UNCHANGED vars
  BY <1>2, Unshared DEF vars, IInv
<1>. QED BY <1>1, <1>2, AttesterPreserves DEF Next

(* A validation that succeeds tells the truth (fetch_report, verify_report *)
(* and the caches), for any number of clients, any reports in circulation, *)
(* any mirror and any history of renewals, faults and torn files.          *)
THEOREM AcceptedGenuineHolds == Spec => []AcceptedGenuine
<1>1. IInv => AcceptedGenuine
  BY DEF IInv, ClientInv, VerdictKnown, Justified, AcceptedGenuine
<1>. QED BY <1>1, InitIInv, NextIInv, PTL DEF Spec

-----------------------------------------------------------------------------
(* No false alarm. The invariant on top of IInv: what is known of a sound  *)
(* CVM, of the caches, and of the files, as long as nobody who used a      *)
(* mirror, no fault and no other validation can have touched them. All     *)
(* three, and the renewals of the certificate, are there to stay.          *)

Mirrored == \E d \in Clients : ~At(d, "idle") /\ client[d].req.mirror
Disturbed(c) == faults > 0 \/ \E d \in Clients \ {c} : ~At(d, "idle")

CvmReports(n) == {CvmReport(k) : k \in 1..n}

(* The report is the CVM's own, checked for what the CVM runs: OfCvm, of   *)
(* a record, and of any report that the CVM may ever make.                 *)
Own(r) ==
    /\ IF r.req.kind = "validate" THEN r.tls \in CvmKeys ELSE r.report \in CvmReports(MaxCerts)
    /\ r.env = Cvm.env
    /\ r.req.compose = Cvm.compose \/ Blind(r.req)

WithChain == {"chain_put", "vcek", "vcek_get", "vcek_put"}
CvmProcessor == detect_processor(Cvm.body)
CvmId == VcekIdentifier(CvmProcessor, Cvm.body)

(* A validation, with record r, while n certificates were issued ...       *)
Told(r, n) ==
    /\ r.tls \in OtherKeys \cup {NoKey} \cup 1..n
    /\ r.pc \in Fetching \cup Judging /\ r.req.kind = "validate" /\ r.tls \in CvmKeys =>
        r.report \in CvmReports(n)
    /\ r.pc \in WithChain => r.chain = AmdChain[detect_processor(r.report.body)]
    /\ r.pc \in Judging /\ Blind(r.req) => r.expected = r.report.body.measurement
    /\ r.pc # "done" => r.verdict = "none"
    /\ r.verdict = "InvalidTlsFingerprint" =>
        /\ r.req.kind = "validate"
        /\ r.report.body.data # ReportData(r.tls)
        /\ r.tls \in CvmKeys => r.report \in CvmReports(n)

(* ... of certificates that no mirror can have touched ...                 *)
Unmirrored(r) ==
    /\ r.pc = "vcek_put" =>
        r.vcek = Kds[VcekIdentifier(detect_processor(r.report.body), r.report.body)]
    /\ r.verdict = "InvalidReport" /\ Own(r) => r.expected = Junk
    /\ r.verdict = "InvalidAmdCerts" => ~Own(r)

(* ... and of artifacts that nothing else can have touched.                *)
Undisturbed(r) ==
    /\ r.pc \in Judging /\ ~Blind(r.req) => r.expected = Measurement(r.env, r.req.compose)
    /\ r.verdict = "InvalidReport" /\ Own(r) => r.expected # Junk

KeysInv ==
    /\ cert \in Nat
    /\ attester.pc \in {"build_report", "report"} => attester.seen \in 1..cert
    /\ attester.data \in 1..cert \cup {NoKey}
    /\ faults \in Nat

CertificatesInv ==
    /\ \A p \in Processors : chainFile[p] \subseteq {AmdChain[p]}
    /\ ~Mirrored => \A id \in DOMAIN Kds : vcekFile[id] \subseteq {Kds[id]}

(* The files, while c is the only validation and nothing failed: all of    *)
(* them are complete or not there, but the one that c is writing; those    *)
(* that c has been through are complete.                                   *)
Downloading == {"download", "create", "write"}

FileTypes ==
    files \in [{e.version : e \in Environments} ->
                  [UNION {Range(Files[t]) : t \in DOMAIN Files} -> {"none", "partial", "full"}]]

FilesAlone(c) ==
    /\ client[c].pc \in Downloading =>
        /\ client[c].left \in Seq(Range(FilesOf(c)))
        /\ client[c].pc \in {"create", "write"} => client[c].left # << >>
        /\ \A f \in Range(FilesOf(c)) : f \in Range(client[c].left) \/ files[Version(c)][f] = "full"
    /\ client[c].pc = "write" => ~client[c].clobbered
    /\ \A v \in DOMAIN files : \A f \in DOMAIN files[v] :
        files[v][f] = "partial" => client[c].pc = "write" /\ v = Version(c) /\ f = File(c)

Tells(c) ==
    /\ Told(client[c], cert)
    /\ Mirrored \/ Unmirrored(client[c])
    /\ Disturbed(c) \/ (Undisturbed(client[c]) /\ FilesAlone(c))

AlarmInv ==
    /\ KeysInv
    /\ CertificatesInv
    /\ FileTypes
    /\ \A c \in Clients : Tells(c)

-----------------------------------------------------------------------------
(* The CVM's reports.                                                      *)

LEMMA CvmReportChecks ==
    ASSUME NEW k
    PROVE  LET r == CvmReport(k) IN
           /\ detect_processor(r.body) = CvmProcessor
           /\ VcekIdentifier(CvmProcessor, r.body) = CvmId
           /\ CvmProcessor \in Processors
           /\ ~TurinFmc(CvmProcessor, r.body) /\ ~ZeroHardwareId(r.body)
           /\ verify_certs(AmdChain[CvmProcessor], Kds[CvmId])
           /\ verify_report_signature(Kds[CvmId], r)
           /\ verify_attestation_tcb(Kds[CvmId], r.body, CvmProcessor)
           /\ ~r.body.debug
<1>1. PICK b : b = [Cvm.body EXCEPT !.data = ReportData(k),
                                    !.measurement = Measurement(Cvm.env, Cvm.compose)]
  OBVIOUS
<1>2. CvmReport(k) = [body |-> b, signature |-> [by |-> Cvm.key, over |-> b]]
  BY <1>1 DEF CvmReport
<1>3. PICK r : r = CvmReport(k)
  OBVIOUS
<1>4. r.body = b /\ r.signature.by = Cvm.key /\ r.signature.over = b
  BY <1>2, <1>3
<1>5. PICK e : e = Cvm.body
  OBVIOUS
<1>6. DOMAIN e = Fields
  BY <1>5, CvmAssumption
<1>7. /\ b.version = e.version /\ b.family = e.family /\ b.model = e.model
      /\ b.chip = e.chip /\ b.tcb = e.tcb /\ b.debug = e.debug
  BY <1>1, <1>5, <1>6 DEF Fields
<1>8. detect_processor(b) = detect_processor(e)
  BY <1>7 DEF detect_processor, Processor
<1>9. \A p : /\ VcekIdentifier(p, b) = VcekIdentifier(p, e)
             /\ TurinFmc(p, b) = TurinFmc(p, e)
  BY <1>7 DEF VcekIdentifier, TurinFmc
<1>10. ZeroHardwareId(b) = ZeroHardwareId(e) /\ Reported(b) = Reported(e)
  BY <1>7 DEF ZeroHardwareId, Reported
<1>11. \A v, p : verify_attestation_tcb(v, e, p) => verify_attestation_tcb(v, b, p)
  BY <1>7, <1>10 DEF verify_attestation_tcb
<1>12. /\ CvmProcessor \in Processors /\ ~TurinFmc(CvmProcessor, e) /\ ~ZeroHardwareId(e)
       /\ verify_certs(AmdChain[CvmProcessor], Kds[CvmId])
       /\ Kds[CvmId].key = Cvm.key
       /\ verify_attestation_tcb(Kds[CvmId], e, CvmProcessor)
       /\ ~e.debug
  BY <1>5, CvmCertified, CvmAssumption DEF CvmProcessor, CvmId
<1>13. verify_report_signature(Kds[CvmId], r)
  BY <1>4, <1>12 DEF verify_report_signature
<1>14. /\ detect_processor(b) = CvmProcessor
       /\ VcekIdentifier(CvmProcessor, b) = CvmId
  BY <1>5, <1>8, <1>9 DEF CvmProcessor, CvmId
<1>. QED BY <1>3, <1>4, <1>7, <1>9, <1>10, <1>11, <1>12, <1>13, <1>14

(* What verify_report may say of a report of the CVM, with the right       *)
(* certificates: at worst, that its measurement is not the expected one.   *)
LEMMA OwnVerified ==
    ASSUME NEW n, NEW r \in CvmReports(n), NEW m,
           NEW p, p = detect_processor(r.body),
           NEW e, e = verify_report(r, AmdChain[p], Kds[VcekIdentifier(p, r.body)], p, m)
    PROVE  e = "ok" \/ (e = "InvalidMeasurement" /\ r.body.measurement # m)
<1>1. PICK k \in 1..n : r = CvmReport(k)
  BY DEF CvmReports
<1>2. /\ p = CvmProcessor
      /\ VcekIdentifier(p, r.body) = CvmId
      /\ verify_certs(AmdChain[p], Kds[CvmId])
      /\ verify_report_signature(Kds[CvmId], r)
      /\ verify_attestation_tcb(Kds[CvmId], r.body, p)
      /\ ~r.body.debug
  BY <1>1, CvmReportChecks
<1>. QED BY <1>2 DEF verify_report

-----------------------------------------------------------------------------
(* One validation moves; what it may do to the others is to clobber a file *)
(* that they are writing.                                                  *)
Moves(c, s) ==
    /\ client' = [client' EXCEPT ![c] = s]
    /\ DOMAIN client' = Clients
    /\ \A d \in Clients \ {c} :
        client'[d] = client[d] \/ client'[d] = [client[d] EXCEPT !.clobbered = TRUE]
    /\ s.pc # "idle"
    /\ client[c].pc = "idle" \/ s.req = client[c].req
    /\ faults' \in Nat /\ faults' >= faults

LEMMA Others ==
    ASSUME IInv, NEW c \in Clients, NEW s, Moves(c, s)
    PROVE  /\ client'[c] = s
           /\ \A d \in Clients \ {c} :
                /\ client'[d].pc = client[d].pc /\ client'[d].req = client[d].req
                /\ client'[d].tls = client[d].tls /\ client'[d].report = client[d].report
                /\ client'[d].env = client[d].env /\ client'[d].expected = client[d].expected
                /\ client'[d].chain = client[d].chain /\ client'[d].vcek = client[d].vcek
                /\ client'[d].verdict = client[d].verdict
<1>1. client'[c] = s
  BY DEF Moves
<1>2. ASSUME NEW d \in Clients \ {c}
      PROVE  /\ client'[d].pc = client[d].pc /\ client'[d].req = client[d].req
             /\ client'[d].tls = client[d].tls /\ client'[d].report = client[d].report
             /\ client'[d].env = client[d].env /\ client'[d].expected = client[d].expected
             /\ client'[d].chain = client[d].chain /\ client'[d].vcek = client[d].vcek
             /\ client'[d].verdict = client[d].verdict
  <2>1. CASE client'[d] = client[d]
    BY <2>1
  <2>2. CASE client'[d] = [client[d] EXCEPT !.clobbered = TRUE]
    <3>1. DOMAIN client[d] = ClientFields
      BY DEF IInv, ClientInv, Shape
    <3>. QED BY <2>2, <3>1 DEF ClientFields
  <2>. QED BY <1>2, <2>1, <2>2 DEF Moves
<1>. QED BY <1>1, <1>2

(* Who used a mirror, and what may have disturbed a validation, stays.     *)
LEMMA Onwards ==
    ASSUME IInv, AlarmInv, NEW c \in Clients, NEW s, Moves(c, s)
    PROVE  /\ Mirrored => Mirrored'
           /\ Disturbed(c) => Disturbed(c)'
           /\ \A d \in Clients \ {c} : Disturbed(d)'
<1>1. faults \in Nat /\ faults' \in Nat /\ faults' >= faults
  BY DEF AlarmInv, KeysInv, Moves
<1>2. client'[c].pc # "idle"
  BY Others DEF Moves
<1>3. ASSUME Mirrored
      PROVE  Mirrored'
  <2>1. PICK d \in Clients : ~At(d, "idle") /\ client[d].req.mirror
    BY <1>3 DEF Mirrored
  <2>2. client'[d].pc # "idle" /\ client'[d].req = client[d].req
    BY <2>1, Others DEF At, Moves
  <2>. QED BY <2>1, <2>2 DEF Mirrored, At
<1>4. ASSUME Disturbed(c)
      PROVE  Disturbed(c)'
  BY <1>1, <1>4, Others DEF Disturbed, At
<1>5. ASSUME NEW d \in Clients \ {c}
      PROVE  Disturbed(d)'
  BY <1>2 DEF Disturbed, At
<1>. QED BY <1>3, <1>4, <1>5

LEMMA OthersTell ==
    ASSUME IInv, AlarmInv, NEW c \in Clients, NEW s, Moves(c, s), UNCHANGED avars,
           Told(s, cert), Mirrored' \/ Unmirrored(s),
           Disturbed(c)' \/ (Undisturbed(s) /\ FilesAlone(c)')
    PROVE  KeysInv' /\ \A d \in Clients : Tells(d)'
<1>1. cert' = cert /\ attester' = attester
  BY DEF avars
<1>2. KeysInv'
  BY <1>1 DEF AlarmInv, KeysInv, Moves
<1>3. Tells(c)'
  <2>1. client'[c] = s
    BY Others
  <2>. QED BY <1>1, <2>1 DEF Tells
<1>4. ASSUME NEW d \in Clients \ {c}
      PROVE  Tells(d)'
  <2>1. PICK r, t : r = client[d] /\ t = client'[d]
    OBVIOUS
  <2>2. /\ t.pc = r.pc /\ t.req = r.req /\ t.tls = r.tls /\ t.report = r.report
        /\ t.env = r.env /\ t.expected = r.expected /\ t.chain = r.chain
        /\ t.vcek = r.vcek /\ t.verdict = r.verdict
    BY <2>1, Others
  <2>3. Told(r, cert) /\ (Mirrored \/ Unmirrored(r))
    BY <2>1 DEF AlarmInv, Tells
  <2>4. Told(t, cert)
    BY <2>2, <2>3 DEF Told, Blind
  <2>5. Mirrored' \/ Unmirrored(t)
    <3>1. Unmirrored(r) => Unmirrored(t)
      BY <2>2 DEF Unmirrored, Own, Blind
    <3>. QED BY <2>3, <3>1, Onwards
  <2>6. Disturbed(d)'
    BY Onwards
  <2>. QED BY <1>1, <2>1, <2>4, <2>5, <2>6 DEF Tells
<1>. QED BY <1>2, <1>3, <1>4

(* A validation changes nothing but its own record.                        *)
LEMMA BecomesMoves ==
    ASSUME IInv, AlarmInv, NEW c \in Clients, NEW s, Becomes(c, s), s.pc # "idle",
           client[c].pc = "idle" \/ s.req = client[c].req,
           UNCHANGED faults \/ Fails
    PROVE  Moves(c, s)
<1>1. DOMAIN client = Clients /\ faults \in Nat
  BY DEF IInv, AlarmInv, KeysInv
<1>2. client' = [client EXCEPT ![c] = s]
  BY DEF Becomes
<1>3. faults' \in Nat /\ faults' >= faults
  BY <1>1 DEF Fails
<1>. QED BY <1>1, <1>2, <1>3 DEF Moves

LEMMA CertificatesKept ==
    ASSUME IInv, AlarmInv, NEW c \in Clients, NEW s, Moves(c, s), UNCHANGED <<chainFile, vcekFile>>
    PROVE  CertificatesInv'
<1>1. Mirrored => Mirrored'
  BY Onwards
<1>. QED BY <1>1 DEF AlarmInv, CertificatesInv

(* Whoever is not downloading, and did not stop in the middle of a file.   *)
LEMMA FilesKept ==
    ASSUME IInv, AlarmInv, NEW c \in Clients, NEW s, Moves(c, s), files' = files,
           s.pc \notin Downloading, client[c].pc # "write"
    PROVE  Disturbed(c)' \/ FilesAlone(c)'
<1>. SUFFICES ASSUME ~Disturbed(c)'
              PROVE  FilesAlone(c)'
  OBVIOUS
<1>1. ~Disturbed(c)
  BY Onwards
<1>2. FilesAlone(c)
  BY <1>1 DEF AlarmInv, Tells
<1>3. client'[c] = s
  BY Others
<1>4. \A v \in DOMAIN files : \A f \in DOMAIN files[v] : files[v][f] # "partial"
  BY <1>2 DEF FilesAlone
<1>. QED BY <1>3, <1>4 DEF FilesAlone, Downloading

(* The errors that make a verdict of the three that blame the CVM.         *)
Alarms == {"InvalidTlsFingerprint", "InvalidReport", "InvalidAmdCerts"}
AlarmErrors ==
    {"TlsFingerprint", "ParsingCert", "CertVerification", "InvalidCertificate", "TurinFmc",
     "ZeroHardwareId", "DetectProcessor", "InvalidMeasurement", "InvalidSignature",
     "DebugAllowed"} \cup Alarms

LEMMA NoAlarm ==
    ASSUME NEW e, e \notin AlarmErrors
    PROVE  error_code(e) \notin Alarms
  BY DEF error_code, AlarmErrors, Alarms

LEMMA RefusedTells ==
    ASSUME IInv, AlarmInv, NEW c \in Clients, NEW r, DOMAIN r = ClientFields,
           r.tls = client[c].tls, client[c].pc = "idle" \/ r.req = client[c].req,
           NEW e, e \notin AlarmErrors, Ends(c, r, e),
           UNCHANGED <<avars, files, chainFile, vcekFile>>,
           (UNCHANGED faults /\ client[c].pc # "write") \/ Fails
    PROVE  AlarmInv'
<1>1. PICK s : s = [r EXCEPT !.pc = "done", !.verdict = error_code(e)]
  OBVIOUS
<1>2. /\ s.pc = "done" /\ s.tls = client[c].tls /\ s.req = r.req
      /\ s.verdict \notin Alarms
  BY <1>1, NoAlarm DEF ClientFields
<1>3. Moves(c, s)
  BY <1>1, <1>2, BecomesMoves DEF Ends
<1>4. Told(s, cert) /\ Unmirrored(s) /\ Undisturbed(s)
  <2>1. Told(client[c], cert)
    BY DEF AlarmInv, Tells
  <2>. QED BY <1>2, <2>1 DEF Told, Unmirrored, Undisturbed, Alarms, Fetching, Judging,
                             WithProcessor, WithChain
<1>5. Disturbed(c)' \/ FilesAlone(c)'
  <2>1. CASE Fails
    BY <2>1 DEF Fails, Disturbed, AlarmInv, KeysInv
  <2>2. CASE client[c].pc # "write"
    BY <1>2, <1>3, <2>2, FilesKept DEF Downloading
  <2>. QED BY <2>1, <2>2
<1>6. KeysInv' /\ \A d \in Clients : Tells(d)'
  BY <1>3, <1>4, <1>5, OthersTell
<1>7. CertificatesInv'
  BY <1>3, CertificatesKept
<1>8. FileTypes'
  BY DEF AlarmInv, FileTypes
<1>. QED BY <1>6, <1>7, <1>8 DEF AlarmInv

(* A step that leaves the caches alone, outside of the downloads.          *)
LEMMA QuietTells ==
    ASSUME IInv, AlarmInv, NEW c \in Clients, NEW s, Becomes(c, s),
           s.pc \notin Downloading \cup {"idle"}, client[c].pc # "write",
           client[c].pc = "idle" \/ s.req = client[c].req,
           UNCHANGED <<avars, files, chainFile, vcekFile>>, UNCHANGED faults \/ Fails,
           Told(s, cert), Mirrored' \/ Unmirrored(s), Disturbed(c)' \/ Undisturbed(s)
    PROVE  AlarmInv'
<1>1. Moves(c, s)
  BY BecomesMoves
<1>2. Disturbed(c)' \/ FilesAlone(c)'
  BY <1>1, FilesKept
<1>3. KeysInv' /\ \A d \in Clients : Tells(d)'
  BY <1>1, <1>2, OthersTell
<1>4. CertificatesInv'
  BY <1>1, CertificatesKept
<1>5. FileTypes'
  BY DEF AlarmInv, FileTypes
<1>. QED BY <1>3, <1>4, <1>5 DEF AlarmInv

-----------------------------------------------------------------------------
(* The actions, again.                                                     *)

LEMMA AskTells ==
    ASSUME IInv, AlarmInv, NEW c \in Clients, Ask(c)
    PROVE  AlarmInv'
<1>0. /\ Shape(c, client[c]) /\ client[c].pc = "idle" /\ client[c].verdict = "none"
      /\ Told(client[c], cert)
      /\ UNCHANGED <<avars, files, chainFile, vcekFile, faults>>
  BY DEF IInv, ClientInv, AlarmInv, Tells, Told, Ask, At
<1>1. PICK q \in Requests[c] :
        LET r == [client[c] EXCEPT !.req = q, !.pc = "connect"] IN
        CASE q.kind = "validate" /\ q.https -> Becomes(c, r)
          [] q.kind = "validate" /\ ~q.https -> Ends(c, r, "NotHttpsScheme")
          [] q.kind \in {"hash", "verify"} /\ q.compose \notin Composes ->
                Ends(c, r, "DockerComposeHash")
          [] OTHER ->
                \E e \in Environments,
                   x \in IF q.kind = "hash" THEN {client[c].report} ELSE Circulating :
                    Becomes(c, Given(c, q, x, e))
  BY DEF Ask
<1>. DEFINE r == [client[c] EXCEPT !.req = q, !.pc = "connect"]
<1>2. /\ DOMAIN r = ClientFields /\ r.pc = "connect" /\ r.req = q
      /\ r.verdict = "none" /\ r.tls = client[c].tls
  BY <1>0 DEF Shape, ClientFields
<1>3. q \in Request
  BY RequestsAssumption
<1>4. CASE q.kind = "validate" /\ q.https
  <2>1. Becomes(c, r)
    BY <1>1, <1>4
  <2>. HIDE DEF r
  <2>2. Told(r, cert) /\ Unmirrored(r) /\ Undisturbed(r)
    BY <1>0, <1>2 DEF Told, Unmirrored, Undisturbed, Fetching, Judging, WithProcessor, WithChain
  <2>. QED BY <1>0, <1>2, <2>1, <2>2, QuietTells DEF Downloading
<1>5. CASE q.kind = "validate" /\ ~q.https
  <2>1. Ends(c, r, "NotHttpsScheme")
    BY <1>1, <1>5
  <2>. HIDE DEF r
  <2>. QED BY <1>0, <1>2, <2>1, RefusedTells DEF AlarmErrors, Alarms
<1>6. CASE q.kind \in {"hash", "verify"} /\ q.compose \notin Composes
  <2>1. Ends(c, r, "DockerComposeHash")
    BY <1>1, <1>6
  <2>. HIDE DEF r
  <2>. QED BY <1>0, <1>2, <2>1, RefusedTells DEF AlarmErrors, Alarms
<1>7. CASE /\ q.kind # "validate"
           /\ ~(q.kind \in {"hash", "verify"} /\ q.compose \notin Composes)
  <2>1. PICK e \in Environments,
             x \in IF q.kind = "hash" THEN {client[c].report} ELSE Circulating :
                Becomes(c, Given(c, q, x, e))
    BY <1>1, <1>7
  <2>. DEFINE g == Given(c, q, x, e)
  <2>2. /\ g.req = q /\ g.report = x
        /\ g.pc = (IF q.kind = "amd" THEN "chain" ELSE "metadata")
        /\ g.expected = (IF q.kind = "amd" THEN x.body.measurement ELSE Junk)
        /\ g.verdict = "none" /\ g.tls = client[c].tls
    BY <1>0 DEF Given, Shape, ClientFields
  <2>. HIDE DEF g
  <2>3. Told(g, cert) /\ Unmirrored(g) /\ Undisturbed(g)
    BY <1>0, <1>7, <2>2 DEF Told, Unmirrored, Undisturbed, Fetching, Judging, WithProcessor,
                            WithChain, Blind
  <2>4. Becomes(c, g)
    BY <2>1 DEF g
  <2>. QED BY <1>0, <2>2, <2>3, <2>4, QuietTells DEF Downloading
<1>. QED BY <1>3, <1>4, <1>5, <1>6, <1>7 DEF Request

LEMMA ConnectTells ==
    ASSUME IInv, AlarmInv, NEW c \in Clients, Connect(c)
    PROVE  AlarmInv'
<1>0. /\ Shape(c, client[c]) /\ client[c].pc = "connect" /\ client[c].verdict = "none"
      /\ cert \in CvmKeys /\ cert \in 1..cert
      /\ UNCHANGED <<avars, files, chainFile, vcekFile, faults>>
  BY BoundsAssumption
     DEF IInv, ClientInv, AlarmInv, Tells, Told, Connect, At, AttesterInv, CvmKeys
<1>1. PICK k \in OtherKeys \cup {cert} : Becomes(c, [client[c] EXCEPT !.pc = "get", !.tls = k])
  BY DEF Connect
<1>2. PICK r : r = [client[c] EXCEPT !.pc = "get", !.tls = k]
  OBVIOUS
<1>3. r.pc = "get" /\ r.tls = k /\ r.req = client[c].req /\ r.verdict = "none"
  BY <1>0, <1>2 DEF Shape, ClientFields
<1>4. Told(r, cert) /\ Unmirrored(r) /\ Undisturbed(r)
  BY <1>0, <1>1, <1>3 DEF Told, Unmirrored, Undisturbed, Fetching, Judging, WithProcessor,
                          WithChain
<1>. QED BY <1>0, <1>1, <1>2, <1>3, <1>4, QuietTells DEF Downloading

LEMMA GetTells ==
    ASSUME IInv, AlarmInv, NEW c \in Clients, Get(c)
    PROVE  AlarmInv'
<1>0. /\ Shape(c, client[c]) /\ client[c].pc = "get" /\ client[c].verdict = "none"
      /\ client[c].req.kind = "validate"
      /\ Told(client[c], cert)
      /\ UNCHANGED <<avars, files, chainFile, vcekFile>>
  BY DEF IInv, ClientInv, ReportKnown, AlarmInv, Tells, Told, Get, At
<1>1. ASSUME NEW a \in Answers(c)
      PROVE  client[c].tls \in CvmKeys => FromJson(a[1]) \in CvmReports(cert)
  <2>1. CASE client[c].tls \in CvmKeys
    <3>1. PICK k \in {attester.data} \ {NoKey} : a = <<CvmReport(k), Cvm.env>>
      BY <2>1, <1>1 DEF Answers
    <3>2. k \in 1..cert /\ k \in CvmKeys
      BY <3>1 DEF AlarmInv, KeysInv, IInv, AttesterInv
    <3>3. FromJson(a[1]) = CvmReport(k)
      BY <3>1, <3>2, FromJsonIdentity DEF AllReports
    <3>. QED BY <3>2, <3>3 DEF CvmReports
  <2>. QED BY <2>1
<1>2. ASSUME NEW a \in Answers(c), UNCHANGED faults,
             LET r == [client[c] EXCEPT !.report = FromJson(a[1]), !.env = a[2],
                                        !.pc = "metadata"] IN
             IF FingerprintMatches(c, r.report) THEN Becomes(c, r)
             ELSE Ends(c, r, "TlsFingerprint")
      PROVE  AlarmInv'
  <2>1. PICK r : r = [client[c] EXCEPT !.report = FromJson(a[1]), !.env = a[2], !.pc = "metadata"]
    OBVIOUS
  <2>2. /\ DOMAIN r = ClientFields /\ r.pc = "metadata" /\ r.tls = client[c].tls
        /\ r.req = client[c].req /\ r.verdict = "none" /\ r.report = FromJson(a[1])
    BY <1>0, <2>1 DEF Shape, ClientFields
  <2>3. IF FingerprintMatches(c, r.report) THEN Becomes(c, r) ELSE Ends(c, r, "TlsFingerprint")
    BY <1>2, <2>1
  <2>4. CASE Becomes(c, r)
    <3>1. Told(r, cert) /\ Unmirrored(r) /\ Undisturbed(r)
      BY <1>0, <1>1, <2>2 DEF Told, Unmirrored, Undisturbed, Fetching, Judging, WithProcessor,
                              WithChain
    <3>. QED BY <1>0, <1>2, <2>2, <2>4, <3>1, QuietTells DEF Downloading
  <2>5. CASE ~FingerprintMatches(c, r.report) /\ Ends(c, r, "TlsFingerprint")
    <3>1. PICK s : s = [r EXCEPT !.pc = "done", !.verdict = error_code("TlsFingerprint")]
      OBVIOUS
    <3>2. error_code("TlsFingerprint") = "InvalidTlsFingerprint"
      BY DEF error_code
    <3>3. /\ s.pc = "done" /\ s.tls = client[c].tls /\ s.req = client[c].req
          /\ s.verdict = "InvalidTlsFingerprint" /\ s.report = r.report
      BY <2>2, <3>1, <3>2 DEF ClientFields
    <3>4. s.report.body.data # ReportData(s.tls)
      BY <2>5, <3>3 DEF FingerprintMatches
    <3>5. Told(s, cert) /\ Unmirrored(s) /\ Undisturbed(s)
      BY <1>0, <1>1, <2>2, <3>3, <3>4
         DEF Told, Unmirrored, Undisturbed, Fetching, Judging, WithProcessor, WithChain
    <3>6. Becomes(c, s)
      BY <2>5, <3>1 DEF Ends
    <3>. QED BY <1>0, <1>2, <3>3, <3>5, <3>6, QuietTells DEF Downloading
  <2>. QED BY <2>3, <2>4, <2>5
<1>3. ASSUME Ends(c, client[c], "FetchAttestation"), UNCHANGED faults \/ Fails
      PROVE  AlarmInv'
  BY <1>0, <1>3, RefusedTells DEF AlarmErrors, Alarms, Shape
<1>. QED BY <1>2, <1>3 DEF Get

(* A client that fetches artifacts goes on to fetch them.                  *)
LEMMA FetchTells ==
    ASSUME IInv, AlarmInv, NEW c \in Clients, NEW s, Moves(c, s),
           client[c].pc \in Fetching, s.pc \in Fetching,
           s.tls = client[c].tls, s.req = client[c].req, s.report = client[c].report,
           s.verdict = client[c].verdict,
           UNCHANGED <<avars, chainFile, vcekFile>>, FileTypes',
           Disturbed(c)' \/ FilesAlone(c)'
    PROVE  AlarmInv'
<1>1. Told(s, cert) /\ Unmirrored(s) /\ Undisturbed(s)
  <2>1. Told(client[c], cert)
    BY DEF AlarmInv, Tells
  <2>. QED BY <2>1 DEF Told, Unmirrored, Undisturbed, Fetching, Judging, WithProcessor, WithChain
<1>2. KeysInv' /\ \A d \in Clients : Tells(d)'
  BY <1>1, OthersTell
<1>3. CertificatesInv'
  BY CertificatesKept
<1>. QED BY <1>2, <1>3 DEF AlarmInv

LEMMA TheFiles ==
    ASSUME IInv, AlarmInv, NEW c \in Clients
    PROVE  /\ Version(c) \in DOMAIN files
           /\ FilesOf(c) \in Seq(Range(FilesOf(c)))
           /\ Range(FilesOf(c)) \subseteq DOMAIN files[Version(c)]
<1>1. client[c].env \in Environments
  BY DEF IInv, ClientInv, Shape
<1>2. client[c].env.vm_type \in DOMAIN Files
  BY <1>1, FilesAssumption
<1>3. FilesOf(c) \in Seq(Range(FilesOf(c)))
  BY <1>2, FilesAssumption DEF FilesOf
<1>4. DOMAIN files = {e.version : e \in Environments}
  BY DEF AlarmInv, FileTypes
<1>5. Version(c) \in DOMAIN files
  BY <1>1, <1>4 DEF Version
<1>6. DOMAIN files[Version(c)] = UNION {Range(Files[t]) : t \in DOMAIN Files}
  BY <1>4, <1>5 DEF AlarmInv, FileTypes
<1>7. Range(FilesOf(c)) \subseteq UNION {Range(Files[t]) : t \in DOMAIN Files}
  BY <1>2 DEF FilesOf
<1>. QED BY <1>3, <1>5, <1>6, <1>7

LEMMA HeadAndTail ==
    ASSUME NEW S, NEW q \in Seq(S), q # << >>
    PROVE  /\ Tail(q) \in Seq(S) /\ Head(q) \in S /\ Head(q) \in Range(q)
           /\ \A x \in Range(q) : x = Head(q) \/ x \in Range(Tail(q))
<1>1. Tail(q) \in Seq(S) /\ Head(q) \in S /\ Head(q) = q[1] /\ 1 \in DOMAIN q
  OBVIOUS
<1>2. ASSUME NEW i \in DOMAIN q, i # 1
      PROVE  q[i] \in Range(Tail(q))
  <2>1. PICK t : t = Tail(q)
    OBVIOUS
  <2>2. i - 1 \in DOMAIN t /\ t[i - 1] = q[i]
    BY <1>2, <2>1
  <2>. QED BY <2>1, <2>2 DEF Range
<1>. QED BY <1>1, <1>2 DEF Range

LEMMA MetadataTells ==
    ASSUME IInv, AlarmInv, NEW c \in Clients, Metadata(c)
    PROVE  AlarmInv'
<1>0. /\ Shape(c, client[c]) /\ client[c].pc = "metadata"
      /\ UNCHANGED <<avars, files, chainFile, vcekFile>>
  BY DEF IInv, ClientInv, Metadata, At
<1>1. ASSUME Becomes(c, [client[c] EXCEPT !.pc = "download", !.left = FilesOf(c)]),
             UNCHANGED faults
      PROVE  AlarmInv'
  <2>1. PICK s : s = [client[c] EXCEPT !.pc = "download", !.left = FilesOf(c)]
    OBVIOUS
  <2>2. /\ s.pc = "download" /\ s.left = FilesOf(c) /\ s.env = client[c].env
        /\ s.tls = client[c].tls /\ s.req = client[c].req /\ s.report = client[c].report
        /\ s.verdict = client[c].verdict
    BY <1>0, <2>1 DEF Shape, ClientFields
  <2>3. Moves(c, s)
    BY <1>1, <2>1, <2>2, BecomesMoves
  <2>4. ASSUME ~Disturbed(c)'
        PROVE  FilesAlone(c)'
    <3>1. ~Disturbed(c)
      BY <2>3, <2>4, Onwards
    <3>2. FilesAlone(c)
      BY <3>1 DEF AlarmInv, Tells
    <3>3. \A v \in DOMAIN files : \A f \in DOMAIN files[v] : files[v][f] # "partial"
      BY <1>0, <3>2 DEF FilesAlone
    <3>4. client'[c] = s
      BY <2>3, Others
    <3>5. FilesOf(c)' = FilesOf(c)
      BY <2>2, <3>4 DEF FilesOf
    <3>. QED BY <1>0, <2>2, <3>3, <3>4, <3>5, TheFiles DEF FilesAlone
  <2>5. FileTypes'
    BY <1>0 DEF AlarmInv, FileTypes
  <2>. QED BY <1>0, <2>2, <2>3, <2>4, <2>5, FetchTells DEF Fetching
<1>2. ASSUME NEW e \in {"Download", "DecodeMetadata"}, Ends(c, client[c], Broken(c, e)), Fails
      PROVE  AlarmInv'
  <2>1. Broken(c, e) \notin AlarmErrors
    BY DEF Broken, AlarmErrors, Alarms
  <2>. QED BY <1>0, <1>2, <2>1, RefusedTells DEF Shape
<1>. QED BY <1>1, <1>2 DEF Metadata

LEMMA DownloadTells ==
    ASSUME IInv, AlarmInv, NEW c \in Clients, Download(c)
    PROVE  AlarmInv'
<1>0. /\ Shape(c, client[c]) /\ client[c].pc = "download" /\ client[c].left # << >>
      /\ UNCHANGED <<avars, files, chainFile, vcekFile>>
  BY DEF IInv, ClientInv, Download, At
<1>1. FileTypes'
  BY <1>0 DEF AlarmInv, FileTypes
<1>2. ASSUME Goes(c, "create"), UNCHANGED faults
      PROVE  AlarmInv'
  <2>1. PICK s : s = [client[c] EXCEPT !.pc = "create"]
    OBVIOUS
  <2>2. /\ s.pc = "create" /\ s.left = client[c].left /\ s.env = client[c].env
        /\ s.tls = client[c].tls /\ s.req = client[c].req /\ s.report = client[c].report
        /\ s.verdict = client[c].verdict
    BY <1>0, <2>1 DEF Shape, ClientFields
  <2>3. Moves(c, s)
    BY <1>0, <1>2, <2>1, <2>2, BecomesMoves DEF Goes
  <2>4. ASSUME ~Disturbed(c)'
        PROVE  FilesAlone(c)'
    <3>1. FilesAlone(c)
      BY <2>3, <2>4, Onwards DEF AlarmInv, Tells
    <3>2. client'[c] = s
      BY <2>3, Others
    <3>3. FilesOf(c)' = FilesOf(c) /\ Version(c)' = Version(c)
      BY <2>2, <3>2 DEF FilesOf, Version
    <3>. QED BY <1>0, <2>2, <3>1, <3>2, <3>3 DEF FilesAlone, Downloading
  <2>. QED BY <1>0, <1>1, <2>2, <2>3, <2>4, FetchTells DEF Fetching
<1>3. ASSUME Becomes(c, [client[c] EXCEPT !.left = Tail(@)]), UNCHANGED faults,
             files[Version(c)][File(c)] # "none"
      PROVE  AlarmInv'
  <2>1. PICK s : s = [client[c] EXCEPT !.left = Tail(@)]
    OBVIOUS
  <2>2. /\ s.pc = "download" /\ s.left = Tail(client[c].left) /\ s.env = client[c].env
        /\ s.tls = client[c].tls /\ s.req = client[c].req /\ s.report = client[c].report
        /\ s.verdict = client[c].verdict
    BY <1>0, <2>1 DEF Shape, ClientFields
  <2>3. Moves(c, s)
    BY <1>0, <1>3, <2>1, <2>2, BecomesMoves
  <2>4. ASSUME ~Disturbed(c)'
        PROVE  FilesAlone(c)'
    <3>1. FilesAlone(c)
      BY <2>3, <2>4, Onwards DEF AlarmInv, Tells
    <3>2. client'[c] = s
      BY <2>3, Others
    <3>3. FilesOf(c)' = FilesOf(c) /\ Version(c)' = Version(c)
      BY <2>2, <3>2 DEF FilesOf, Version
    <3>4. client[c].left \in Seq(Range(FilesOf(c)))
      BY <1>0, <3>1 DEF FilesAlone, Downloading
    <3>5. /\ Tail(client[c].left) \in Seq(Range(FilesOf(c)))
          /\ File(c) \in Range(FilesOf(c))
          /\ \A f \in Range(client[c].left) : f = File(c) \/ f \in Range(Tail(client[c].left))
      BY <1>0, <3>4, HeadAndTail DEF File
    <3>6. files[Version(c)][File(c)] = "full"
      <4>1. files[Version(c)][File(c)] \in {"none", "partial", "full"}
        BY <3>5, TheFiles DEF AlarmInv, FileTypes
      <4>2. files[Version(c)][File(c)] # "partial"
        BY <1>0, <3>1, <3>5, TheFiles DEF FilesAlone
      <4>. QED BY <1>3, <4>1, <4>2
    <3>. QED BY <1>0, <2>2, <3>1, <3>2, <3>3, <3>5, <3>6 DEF FilesAlone, Downloading
  <2>. QED BY <1>0, <1>1, <2>2, <2>3, <2>4, FetchTells DEF Fetching
<1>4. ASSUME NEW e \in {"Download", "TargetFile"}, Ends(c, client[c], Broken(c, e)), Fails
      PROVE  AlarmInv'
  <2>1. Broken(c, e) \notin AlarmErrors
    BY DEF Broken, AlarmErrors, Alarms
  <2>. QED BY <1>0, <1>4, <2>1, RefusedTells DEF Shape
<1>. QED BY <1>2, <1>3, <1>4 DEF Download

LEMMA SetFileTypes ==
    ASSUME IInv, AlarmInv, NEW c \in Clients, NEW x \in {"none", "partial", "full"}, SetFile(c, x),
           NEW n, n = File(c)
    PROVE  /\ FileTypes'
           /\ \A v \in DOMAIN files : \A f \in DOMAIN files[v] :
                files'[v][f] = IF v = Version(c) /\ f = n THEN x ELSE files[v][f]
<1>1. PICK V : V = {e.version : e \in Environments}
  OBVIOUS
<1>2. PICK N : N = UNION {Range(Files[t]) : t \in DOMAIN Files}
  OBVIOUS
<1>3. PICK T : T = {"none", "partial", "full"}
  OBVIOUS
<1>4. files \in [V -> [N -> T]]
  BY <1>1, <1>2, <1>3 DEF AlarmInv, FileTypes
<1>5. PICK w : w = Version(c)
  OBVIOUS
<1>6. w \in V
  BY <1>4, <1>5, TheFiles
<1>7. PICK g : g = [files[w] EXCEPT ![n] = x]
  OBVIOUS
<1>8. files' = [files EXCEPT ![w] = g]
  BY <1>5, <1>7 DEF SetFile
<1>9. g \in [N -> T] /\ \A f \in N : g[f] = IF f = n THEN x ELSE files[w][f]
  BY <1>3, <1>4, <1>6, <1>7
<1>10. files' \in [V -> [N -> T]]
  BY <1>4, <1>6, <1>8, <1>9
<1>11. \A v \in V, f \in N : files'[v][f] = IF v = w /\ f = n THEN x ELSE files[v][f]
  BY <1>4, <1>6, <1>8, <1>9
<1>12. DOMAIN files = V /\ \A v \in V : DOMAIN files[v] = N
  BY <1>4
<1>13. FileTypes'
  BY <1>1, <1>2, <1>3, <1>10 DEF FileTypes
<1>. QED BY <1>5, <1>11, <1>12, <1>13

LEMMA CreateTells ==
    ASSUME IInv, AlarmInv, NEW c \in Clients, Create(c)
    PROVE  AlarmInv'
<1>0. /\ Shape(c, client[c]) /\ client[c].pc = "create" /\ SetFile(c, "partial")
      /\ UNCHANGED <<avars, chainFile, vcekFile, faults>>
  BY DEF IInv, ClientInv, Create, At
<1>1. PICK s : s = [client[c] EXCEPT !.pc = "write", !.clobbered = FALSE]
  OBVIOUS
<1>2. /\ s.pc = "write" /\ ~s.clobbered /\ s.left = client[c].left /\ s.env = client[c].env
      /\ s.tls = client[c].tls /\ s.req = client[c].req /\ s.report = client[c].report
      /\ s.verdict = client[c].verdict
  BY <1>0, <1>1 DEF Shape, ClientFields
<1>3. Moves(c, s)
  <2>1. client'[c] = s /\ DOMAIN client' = Clients
    BY <1>1 DEF Create
  <2>2. ASSUME NEW d \in Clients \ {c}
        PROVE  client'[d] = client[d] \/ client'[d] = [client[d] EXCEPT !.clobbered = TRUE]
    BY DEF Create
  <2>3. client' = [client' EXCEPT ![c] = s]
    BY <2>1 DEF Create
  <2>. QED BY <1>0, <1>2, <2>1, <2>2, <2>3 DEF Moves, AlarmInv, KeysInv
<1>4. PICK n : n = File(c)
  OBVIOUS
<1>5. /\ FileTypes'
      /\ \A v \in DOMAIN files : \A f \in DOMAIN files[v] :
            files'[v][f] = IF v = Version(c) /\ f = n THEN "partial" ELSE files[v][f]
  BY <1>0, <1>4, SetFileTypes
<1>6. ASSUME ~Disturbed(c)'
      PROVE  FilesAlone(c)'
  <2>1. FilesAlone(c)
    BY <1>3, <1>6, Onwards DEF AlarmInv, Tells
  <2>2. client'[c] = s
    BY <1>3, Others
  <2>3. FilesOf(c)' = FilesOf(c) /\ Version(c)' = Version(c) /\ File(c)' = n
    BY <1>2, <1>4, <2>2 DEF FilesOf, Version, File
  <2>4. /\ client[c].left \in Seq(Range(FilesOf(c))) /\ client[c].left # << >>
        /\ \A f \in Range(FilesOf(c)) : f \in Range(client[c].left) \/ files[Version(c)][f] = "full"
    BY <1>0, <2>1 DEF FilesAlone, Downloading
  <2>5. n \in Range(client[c].left)
    BY <1>4, <2>4, HeadAndTail DEF File
  <2>6. \A f \in Range(FilesOf(c)) : f \in Range(client[c].left) \/ files'[Version(c)][f] = "full"
    BY <1>5, <2>4, <2>5, TheFiles
  <2>7. DOMAIN files' = DOMAIN files /\ \A v \in DOMAIN files : DOMAIN files'[v] = DOMAIN files[v]
    BY <1>5 DEF AlarmInv, FileTypes
  <2>8. \A v \in DOMAIN files' : \A f \in DOMAIN files'[v] :
            files'[v][f] = "partial" => v = Version(c) /\ f = n
    BY <1>0, <1>5, <2>1, <2>7 DEF FilesAlone
  <2>. QED BY <1>2, <2>2, <2>3, <2>4, <2>6, <2>8 DEF FilesAlone, Downloading
<1>. QED BY <1>0, <1>2, <1>3, <1>5, <1>6, FetchTells DEF Fetching

LEMMA WriteTells ==
    ASSUME IInv, AlarmInv, NEW c \in Clients, Write(c)
    PROVE  AlarmInv'
<1>0. /\ Shape(c, client[c]) /\ client[c].pc = "write"
      /\ UNCHANGED <<avars, chainFile, vcekFile>>
  BY DEF IInv, ClientInv, Write, At
<1>1. ASSUME Becomes(c, [client[c] EXCEPT !.pc = "download", !.left = Tail(@)]), UNCHANGED faults,
             IF client[c].clobbered THEN UNCHANGED files ELSE SetFile(c, "full")
      PROVE  AlarmInv'
  <2>1. PICK s : s = [client[c] EXCEPT !.pc = "download", !.left = Tail(@)]
    OBVIOUS
  <2>2. /\ s.pc = "download" /\ s.left = Tail(client[c].left) /\ s.env = client[c].env
        /\ s.tls = client[c].tls /\ s.req = client[c].req /\ s.report = client[c].report
        /\ s.verdict = client[c].verdict
    BY <1>0, <2>1 DEF Shape, ClientFields
  <2>3. Moves(c, s)
    BY <1>0, <1>1, <2>1, <2>2, BecomesMoves
  <2>4. PICK n : n = File(c)
    OBVIOUS
  <2>5. FileTypes'
    <3>1. CASE client[c].clobbered
      BY <1>1, <3>1 DEF AlarmInv, FileTypes
    <3>2. CASE ~client[c].clobbered
      BY <1>1, <2>4, <3>2, SetFileTypes
    <3>. QED BY <3>1, <3>2
  <2>6. ASSUME ~Disturbed(c)'
        PROVE  FilesAlone(c)'
    <3>1. FilesAlone(c)
      BY <2>3, <2>6, Onwards DEF AlarmInv, Tells
    <3>2. client'[c] = s
      BY <2>3, Others
    <3>3. FilesOf(c)' = FilesOf(c) /\ Version(c)' = Version(c)
      BY <2>2, <3>2 DEF FilesOf, Version
    <3>4. ~client[c].clobbered
      BY <1>0, <3>1 DEF FilesAlone
    <3>5. \A v \in DOMAIN files : \A f \in DOMAIN files[v] :
              files'[v][f] = IF v = Version(c) /\ f = n THEN "full" ELSE files[v][f]
      BY <1>1, <2>4, <3>4, SetFileTypes
    <3>6. /\ client[c].left \in Seq(Range(FilesOf(c))) /\ client[c].left # << >>
          /\ \A f \in Range(FilesOf(c)) :
                f \in Range(client[c].left) \/ files[Version(c)][f] = "full"
      BY <1>0, <3>1 DEF FilesAlone, Downloading
    <3>7. /\ Tail(client[c].left) \in Seq(Range(FilesOf(c)))
          /\ \A f \in Range(client[c].left) : f = n \/ f \in Range(Tail(client[c].left))
      BY <2>4, <3>6, HeadAndTail DEF File
    <3>8. \A f \in Range(FilesOf(c)) :
              f \in Range(Tail(client[c].left)) \/ files'[Version(c)][f] = "full"
      BY <3>5, <3>6, <3>7, TheFiles
    <3>9. DOMAIN files' = DOMAIN files /\ \A v \in DOMAIN files : DOMAIN files'[v] = DOMAIN files[v]
      BY <2>5 DEF AlarmInv, FileTypes
    <3>10. \A v \in DOMAIN files' : \A f \in DOMAIN files'[v] : files'[v][f] # "partial"
      BY <2>4, <3>1, <3>5, <3>9 DEF FilesAlone
    <3>. QED BY <2>2, <3>2, <3>3, <3>7, <3>8, <3>10 DEF FilesAlone, Downloading
  <2>. QED BY <1>0, <2>2, <2>3, <2>5, <2>6, FetchTells DEF Fetching
<1>2. ASSUME Ends(c, client[c], Broken(c, "Download")), Fails, UNCHANGED files
      PROVE  AlarmInv'
  <2>1. Broken(c, "Download") \notin AlarmErrors
    BY DEF Broken, AlarmErrors, Alarms
  <2>. QED BY <1>0, <1>2, <2>1, RefusedTells DEF Shape
<1>. QED BY <1>1, <1>2 DEF Write

LEMMA MeasureTells ==
    ASSUME IInv, AlarmInv, NEW c \in Clients, Measure(c)
    PROVE  AlarmInv'
<1>. DEFINE q == client[c].req
<1>0. /\ Shape(c, client[c]) /\ client[c].pc = "download" /\ client[c].left = << >>
      /\ Told(client[c], cert) /\ client[c].verdict = "none" /\ q.kind # "amd"
      /\ UNCHANGED <<avars, files, chainFile, vcekFile>>
  BY DEF IInv, ClientInv, ExpectedKnown, Fetching, AlarmInv, Tells, Told, Measure, At
<1>1. ASSUME NEW m, NEW pc \in {"chain", "done"}, UNCHANGED faults,
             Becomes(c, [client[c] EXCEPT !.expected = m, !.pc = pc]),
             Blind(q) => m = client[c].report.body.measurement,
             pc = "chain" /\ ~Blind(q) =>
                Disturbed(c) \/ m = Measurement(client[c].env, q.compose)
      PROVE  AlarmInv'
  <2>1. PICK s : s = [client[c] EXCEPT !.expected = m, !.pc = pc]
    OBVIOUS
  <2>2. /\ s.pc = pc /\ s.expected = m /\ s.env = client[c].env
        /\ s.tls = client[c].tls /\ s.req = q /\ s.report = client[c].report
        /\ s.verdict = "none"
    BY <1>0, <2>1 DEF Shape, ClientFields
  <2>3. Moves(c, s)
    BY <1>0, <1>1, <2>1, <2>2, BecomesMoves
  <2>4. Told(s, cert) /\ Unmirrored(s)
    BY <1>0, <1>1, <2>2 DEF Told, Unmirrored, Fetching, Judging, WithProcessor, WithChain
  <2>5. Disturbed(c)' \/ Undisturbed(s)
    <3>1. Disturbed(c) => Disturbed(c)'
      BY <2>3, Onwards
    <3>2. CASE ~Disturbed(c)
      BY <1>1, <2>2, <3>2 DEF Undisturbed, Judging, WithProcessor
    <3>. QED BY <3>1, <3>2
  <2>. QED BY <1>0, <1>1, <2>1, <2>2, <2>4, <2>5, QuietTells DEF Downloading
<1>2. ASSUME NEW e, e \notin AlarmErrors, Ends(c, client[c], e), UNCHANGED faults \/ Fails
      PROVE  AlarmInv'
  BY <1>0, <1>2, RefusedTells DEF Shape
<1>3. Disturbed(c) \/ Digest(c) = Measurement(client[c].env, q.compose)
  <2>. SUFFICES ASSUME ~Disturbed(c)
                PROVE  Complete(c)
    BY DEF Digest
  <2>1. FilesAlone(c)
    BY DEF AlarmInv, Tells
  <2>2. Range(client[c].left) = {}
    BY <1>0 DEF Range
  <2>. QED BY <1>0, <2>1, <2>2 DEF Complete, FilesAlone, Downloading
<1>4. CASE q.ignore /\ Becomes(c, [client[c] EXCEPT !.expected = client[c].report.body.measurement,
                                                    !.pc = "chain"]) /\ UNCHANGED faults
  BY <1>1, <1>4 DEF Blind
<1>5. CASE /\ ~q.ignore /\ UNCHANGED faults
           /\ Becomes(c, [client[c] EXCEPT !.expected = Digest(c),
                                           !.pc = IF q.kind = "hash" THEN "done" ELSE "chain"])
  BY <1>0, <1>1, <1>3, <1>5 DEF Blind
<1>6. CASE Ends(c, client[c], "DockerComposeHash") /\ UNCHANGED faults
  BY <1>2, <1>6 DEF AlarmErrors, Alarms
<1>7. CASE Ends(c, client[c], "MeasurementHash") /\ UNCHANGED faults
  BY <1>2, <1>7 DEF AlarmErrors, Alarms
<1>8. CASE Ends(c, client[c], Broken(c, "TargetFile")) /\ Fails
  BY <1>2, <1>8 DEF Broken, AlarmErrors, Alarms
<1>. QED BY <1>4, <1>5, <1>6, <1>7, <1>8 DEF Measure

(* The report that a validation of the CVM judges is one of the CVM's.     *)
LEMMA OwnReports ==
    ASSUME IInv, AlarmInv, NEW c \in Clients, client[c].pc \in Judging, Own(client[c])
    PROVE  /\ client[c].report \in CvmReports(MaxCerts)
           /\ client[c].report.body.measurement = Measurement(Cvm.env, Cvm.compose)
           /\ detect_processor(client[c].report.body) = CvmProcessor
           /\ ~TurinFmc(CvmProcessor, client[c].report.body)
           /\ ~ZeroHardwareId(client[c].report.body)
<1>1. CvmReports(cert) \subseteq CvmReports(MaxCerts)
  <2>1. 1..cert \subseteq 1..MaxCerts
    BY BoundsAssumption DEF IInv, AttesterInv, CvmKeys
  <2>. QED BY <2>1 DEF CvmReports
<1>2. client[c].report \in CvmReports(MaxCerts)
  BY <1>1 DEF Own, AlarmInv, Tells, Told
<1>3. PICK k \in 1..MaxCerts : client[c].report = CvmReport(k)
  BY <1>2 DEF CvmReports
<1>. QED BY <1>2, <1>3, CvmReportChecks, CvmReportParts

(* The verdict, with certificates that are right unless somebody used a    *)
(* mirror.                                                                 *)
LEMMA Judged ==
    ASSUME IInv, AlarmInv, NEW c \in Clients, client[c].pc \in WithChain, NEW vcek, Verify(c, vcek),
           Mirrored \/ vcek = Kds[Id(c)]
    PROVE  \E s : /\ Becomes(c, s) /\ s.pc = "done" /\ s.req = client[c].req
                  /\ Told(s, cert)
                  /\ Mirrored \/ Unmirrored(s)
                  /\ Disturbed(c) \/ Undisturbed(s)
<1>1. PICK r : r = client[c]
  OBVIOUS
<1>2. PICK e : e = verify_report(r.report, r.chain, vcek, ProcessorOf(c), r.expected)
  OBVIOUS
<1>3. PICK s : s = [[r EXCEPT !.vcek = vcek] EXCEPT !.pc = "done", !.verdict = error_code(e)]
  OBVIOUS
<1>4. Becomes(c, s)
  BY <1>1, <1>2, <1>3 DEF Verify, Ends
<1>5. /\ Shape(c, r) /\ ExpectedKnown(r) /\ Told(r, cert)
      /\ r.pc \in Judging /\ r.chain = AmdChain[ProcessorOf(c)]
  BY <1>1 DEF IInv, ClientInv, AlarmInv, Tells, Told, WithChain, Judging, WithProcessor,
              ProcessorOf, Body
<1>6. /\ s.pc = "done" /\ s.verdict = error_code(e) /\ s.req = r.req /\ s.tls = r.tls
      /\ s.report = r.report /\ s.env = r.env /\ s.expected = r.expected
  BY <1>3, <1>5 DEF Shape, ClientFields
<1>7. e \in {"CertVerification", "InvalidMeasurement", "InvalidSignature", "InvalidCertificate",
             "DebugAllowed", "ok"}
  BY <1>2 DEF verify_report
<1>8. error_code(e) # "InvalidTlsFingerprint"
  BY <1>7 DEF error_code
<1>9. Own(s) <=> Own(r)
  BY <1>6 DEF Own, Blind
<1>10. Told(s, cert)
  BY <1>5, <1>6, <1>8 DEF Told, Fetching, Judging, WithProcessor, WithChain
<1>11. ASSUME ~Mirrored
       PROVE  Unmirrored(s)
  <2>. SUFFICES ASSUME Own(r), s.verdict \in {"InvalidReport", "InvalidAmdCerts"}
                PROVE  s.verdict = "InvalidReport" /\ s.expected = Junk
    BY <1>6, <1>9 DEF Unmirrored
  <2>1. /\ r.report \in CvmReports(MaxCerts)
        /\ r.report.body.measurement = Measurement(Cvm.env, Cvm.compose)
    BY <1>1, <1>5, OwnReports
  <2>2. e = "ok" \/ (e = "InvalidMeasurement" /\ r.report.body.measurement # r.expected)
    <3>1. vcek = Kds[VcekIdentifier(ProcessorOf(c), r.report.body)]
      BY <1>1, <1>11 DEF Id, Body
    <3>2. ProcessorOf(c) = detect_processor(r.report.body)
      BY <1>1 DEF ProcessorOf, Body
    <3>3. PICK rep, p, m : rep = r.report /\ p = ProcessorOf(c) /\ m = r.expected
      OBVIOUS
    <3>4. e = verify_report(rep, AmdChain[p], Kds[VcekIdentifier(p, rep.body)], p, m)
      <4>1. r.chain = AmdChain[p] /\ vcek = Kds[VcekIdentifier(p, rep.body)]
        BY <1>5, <3>1, <3>3
      <4>. QED BY <1>2, <3>3, <4>1, Zenon
    <3>5. rep \in CvmReports(MaxCerts) /\ p = detect_processor(rep.body)
      BY <2>1, <3>2, <3>3
    <3>6. e = "ok" \/ (e = "InvalidMeasurement" /\ rep.body.measurement # m)
      BY <3>4, <3>5, OwnVerified
    <3>. QED BY <3>3, <3>6
  <2>3. e = "InvalidMeasurement" /\ s.verdict = "InvalidReport"
    BY <1>6, <2>2 DEF error_code
  <2>4. ~Blind(r.req)
    BY <1>5, <2>2, <2>3 DEF Told
  <2>5. r.expected \in {Junk, Measurement(Cvm.env, Cvm.compose)}
    BY <1>5, <2>4 DEF ExpectedKnown, Own
  <2>. QED BY <1>6, <2>1, <2>2, <2>3, <2>5
<1>12. ASSUME ~Disturbed(c)
       PROVE  Undisturbed(s)
  <2>. SUFFICES ASSUME Own(r)
                PROVE  r.expected # Junk
    BY <1>6, <1>9 DEF Undisturbed, Judging, WithProcessor
  <2>1. Undisturbed(r)
    BY <1>1, <1>12 DEF AlarmInv, Tells
  <2>2. CASE Blind(r.req)
    BY <1>1, <1>5, <2>2, OwnReports, MeasurementNotJunk DEF Told
  <2>3. CASE ~Blind(r.req)
    BY <1>5, <2>1, <2>3, MeasurementNotJunk DEF Undisturbed
  <2>. QED BY <2>2, <2>3
<1>. QED BY <1>1, <1>4, <1>6, <1>10, <1>11, <1>12

(* A report that is refused because of what it says is not the CVM's.      *)
LEMMA BlamedTells ==
    ASSUME IInv, AlarmInv, NEW c \in Clients, client[c].pc \in Judging, ~Own(client[c]),
           NEW e, e \in {"DetectProcessor", "TurinFmc", "ZeroHardwareId"}, Ends(c, client[c], e),
           UNCHANGED <<avars, files, chainFile, vcekFile, faults>>
    PROVE  AlarmInv'
<1>1. PICK s : s = [client[c] EXCEPT !.pc = "done", !.verdict = error_code(e)]
  OBVIOUS
<1>2. Shape(c, client[c]) /\ Told(client[c], cert)
  BY DEF IInv, ClientInv, AlarmInv, Tells
<1>3. /\ s.pc = "done" /\ s.tls = client[c].tls /\ s.req = client[c].req
      /\ s.report = client[c].report /\ s.env = client[c].env
      /\ s.verdict = "InvalidReport"
  BY <1>1, <1>2 DEF Shape, ClientFields, error_code
<1>4. ~Own(s)
  BY <1>3 DEF Own, Blind
<1>5. Told(s, cert) /\ Unmirrored(s) /\ Undisturbed(s)
  BY <1>2, <1>3, <1>4 DEF Told, Unmirrored, Undisturbed, Fetching, Judging, WithProcessor, WithChain
<1>6. Becomes(c, s)
  BY <1>1 DEF Ends
<1>. QED BY <1>3, <1>5, <1>6, QuietTells DEF Downloading, Judging, WithProcessor

(* A client that judges its report goes on to do so.                       *)
LEMMA JudgingTold ==
    ASSUME IInv, AlarmInv, NEW c \in Clients, client[c].pc \in Judging,
           NEW s, s.pc \in WithProcessor,
           s.tls = client[c].tls, s.req = client[c].req, s.report = client[c].report,
           s.env = client[c].env, s.expected = client[c].expected,
           s.verdict = client[c].verdict,
           s.pc \in WithChain => s.chain = AmdChain[ProcessorOf(c)],
           s.pc = "vcek_put" => Mirrored \/ s.vcek = Kds[Id(c)]
    PROVE  /\ Told(s, cert)
           /\ Mirrored \/ Unmirrored(s)
           /\ Disturbed(c) \/ Undisturbed(s)
<1>1. Told(client[c], cert) /\ client[c].pc # "done"
  BY DEF AlarmInv, Tells, Judging, WithProcessor
<1>2. s.verdict = "none" /\ s.pc # "done"
  BY <1>1 DEF Told, WithProcessor
<1>3. Told(s, cert)
  BY <1>1, <1>2 DEF Told, Fetching, Judging, WithProcessor, ProcessorOf, Body, Blind
<1>4. Mirrored \/ Unmirrored(s)
  BY <1>2 DEF Unmirrored, Id, ProcessorOf, Body
<1>5. Disturbed(c) \/ Undisturbed(s)
  BY <1>2 DEF AlarmInv, Tells, Undisturbed, Judging, Blind
<1>. QED BY <1>3, <1>4, <1>5

(* A step that only touches the caches of certificates.                    *)
LEMMA CacheTells ==
    ASSUME IInv, AlarmInv, NEW c \in Clients, NEW s, Becomes(c, s),
           s.pc \notin Downloading \cup {"idle"}, client[c].pc # "write",
           s.req = client[c].req,
           UNCHANGED <<avars, files>>, UNCHANGED faults \/ Fails,
           Told(s, cert), Mirrored \/ Unmirrored(s), Disturbed(c) \/ Undisturbed(s),
           CertificatesInv'
    PROVE  AlarmInv'
<1>1. Moves(c, s)
  BY BecomesMoves
<1>0. Mirrored' \/ Unmirrored(s)
  BY <1>1, Onwards
<1>2. Disturbed(c)' \/ (Undisturbed(s) /\ FilesAlone(c)')
  BY <1>1, FilesKept, Onwards
<1>3. KeysInv' /\ \A d \in Clients : Tells(d)'
  BY <1>1, <1>2, <1>0, OthersTell
<1>4. FileTypes'
  BY DEF AlarmInv, FileTypes
<1>. QED BY <1>3, <1>4 DEF AlarmInv

LEMMA GoesOn ==
    ASSUME IInv, AlarmInv, NEW c \in Clients, client[c].pc \in Judging,
           NEW s, Becomes(c, s), s.pc \in WithProcessor,
           s.tls = client[c].tls, s.req = client[c].req, s.report = client[c].report,
           s.env = client[c].env, s.expected = client[c].expected,
           s.verdict = client[c].verdict,
           s.pc \in WithChain => s.chain = AmdChain[ProcessorOf(c)],
           s.pc = "vcek_put" => Mirrored \/ s.vcek = Kds[Id(c)],
           UNCHANGED <<avars, files, faults>>,
           UNCHANGED <<chainFile, vcekFile>> \/ CertificatesInv'
    PROVE  AlarmInv'
<1>1. Told(s, cert) /\ (Mirrored \/ Unmirrored(s)) /\ (Disturbed(c) \/ Undisturbed(s))
  BY JudgingTold
<1>2. s.pc \notin Downloading \cup {"idle"} /\ client[c].pc # "write"
  BY DEF Judging, WithProcessor, Downloading
<1>3. CertificatesInv'
  BY <1>2, BecomesMoves, CertificatesKept
<1>. QED BY <1>1, <1>2, <1>3, CacheTells

LEMMA LoadChainTells ==
    ASSUME IInv, AlarmInv, NEW c \in Clients, LoadChain(c)
    PROVE  AlarmInv'
<1>. DEFINE p == ProcessorOf(c)
<1>0. /\ Shape(c, client[c]) /\ client[c].pc = "chain" /\ client[c].pc \in Judging
      /\ UNCHANGED <<avars, files, chainFile, vcekFile>>
  BY DEF IInv, ClientInv, LoadChain, At, Judging
<1>1. CASE p \notin Processors /\ Ends(c, client[c], "DetectProcessor") /\ UNCHANGED faults
  <2>1. ~Own(client[c])
    BY <1>0, <1>1, OwnReports, CvmCertified DEF CvmProcessor, ProcessorOf, Body
  <2>. QED BY <1>0, <1>1, <2>1, BlamedTells
<1>2. CASE Goes(c, "chain_get") /\ UNCHANGED faults
  <2>1. PICK s : s = [client[c] EXCEPT !.pc = "chain_get"]
    OBVIOUS
  <2>2. /\ s.pc = "chain_get" /\ s.tls = client[c].tls /\ s.req = client[c].req
        /\ s.report = client[c].report /\ s.env = client[c].env
        /\ s.expected = client[c].expected /\ s.verdict = client[c].verdict
    BY <1>0, <2>1 DEF Shape, ClientFields
  <2>3. Becomes(c, s)
    BY <1>2, <2>1 DEF Goes
  <2>. QED BY <1>0, <1>2, <2>2, <2>3, GoesOn DEF WithProcessor, WithChain
<1>3. ASSUME NEW x \in chainFile[p], p \in Processors, UNCHANGED faults,
             Becomes(c, [client[c] EXCEPT !.chain = x, !.pc = "vcek"])
      PROVE  AlarmInv'
  <2>1. PICK s : s = [client[c] EXCEPT !.chain = x, !.pc = "vcek"]
    OBVIOUS
  <2>2. /\ s.pc = "vcek" /\ s.tls = client[c].tls /\ s.req = client[c].req
        /\ s.report = client[c].report /\ s.env = client[c].env /\ s.chain = x
        /\ s.expected = client[c].expected /\ s.verdict = client[c].verdict
    BY <1>0, <2>1 DEF Shape, ClientFields
  <2>3. x = AmdChain[p]
    BY <1>3 DEF AlarmInv, CertificatesInv
  <2>4. Becomes(c, s)
    BY <1>3, <2>1
  <2>. QED BY <1>0, <1>3, <2>2, <2>3, <2>4, GoesOn DEF WithProcessor, WithChain
<1>4. CASE Unreadable(c)
  BY <1>0, <1>4, RefusedTells DEF Unreadable, Shape, AlarmErrors, Alarms
<1>. QED BY <1>1, <1>2, <1>3, <1>4 DEF LoadChain

LEMMA GetChainTells ==
    ASSUME IInv, AlarmInv, NEW c \in Clients, GetChain(c)
    PROVE  AlarmInv'
<1>0. /\ Shape(c, client[c]) /\ client[c].pc = "chain_get" /\ client[c].pc \in Judging
      /\ UNCHANGED <<avars, files, vcekFile>>
  BY DEF IInv, ClientInv, GetChain, At, Judging, WithProcessor
<1>1. ASSUME Becomes(c, [client[c] EXCEPT !.chain = AmdChain[ProcessorOf(c)], !.pc = "chain_put"]),
             chainFile' = [chainFile EXCEPT ![ProcessorOf(c)] = {}], UNCHANGED faults
      PROVE  AlarmInv'
  <2>1. PICK s : s = [client[c] EXCEPT !.chain = AmdChain[ProcessorOf(c)], !.pc = "chain_put"]
    OBVIOUS
  <2>2. /\ s.pc = "chain_put" /\ s.tls = client[c].tls /\ s.req = client[c].req
        /\ s.report = client[c].report /\ s.env = client[c].env
        /\ s.chain = AmdChain[ProcessorOf(c)]
        /\ s.expected = client[c].expected /\ s.verdict = client[c].verdict
    BY <1>0, <2>1 DEF Shape, ClientFields
  <2>3. Becomes(c, s)
    BY <1>1, <2>1
  <2>4. CertificatesInv'
    <3>1. Mirrored => Mirrored'
      BY <1>0, <1>1, <2>2, <2>3, BecomesMoves, Onwards
    <3>2. \A p \in Processors : chainFile'[p] \subseteq {AmdChain[p]}
      BY <1>1 DEF AlarmInv, CertificatesInv, IInv, CacheInv
    <3>. QED BY <1>0, <3>1, <3>2 DEF AlarmInv, CertificatesInv
  <2>. QED BY <1>0, <1>1, <2>2, <2>3, <2>4, GoesOn DEF WithProcessor, WithChain
<1>2. CASE Fails /\ Ends(c, client[c], "FetchingCert") /\ UNCHANGED chainFile
  BY <1>0, <1>2, RefusedTells DEF Shape, AlarmErrors, Alarms
<1>. QED BY <1>1, <1>2 DEF GetChain

LEMMA PutChainTells ==
    ASSUME IInv, AlarmInv, NEW c \in Clients, PutChain(c)
    PROVE  AlarmInv'
<1>0. /\ Shape(c, client[c]) /\ client[c].pc = "chain_put" /\ client[c].pc \in Judging
      /\ client[c].chain = AmdChain[ProcessorOf(c)]
      /\ UNCHANGED <<avars, files, vcekFile>>
  BY DEF IInv, ClientInv, PutChain, At, Judging, WithProcessor, WithChain, AlarmInv, Tells, Told,
         ProcessorOf, Body
<1>1. ASSUME Goes(c, "vcek"), UNCHANGED faults,
             chainFile' = [chainFile EXCEPT ![ProcessorOf(c)] = {client[c].chain}]
      PROVE  AlarmInv'
  <2>1. PICK s : s = [client[c] EXCEPT !.pc = "vcek"]
    OBVIOUS
  <2>2. /\ s.pc = "vcek" /\ s.tls = client[c].tls /\ s.req = client[c].req
        /\ s.report = client[c].report /\ s.env = client[c].env
        /\ s.chain = AmdChain[ProcessorOf(c)]
        /\ s.expected = client[c].expected /\ s.verdict = client[c].verdict
    BY <1>0, <2>1 DEF Shape, ClientFields
  <2>3. Becomes(c, s)
    BY <1>1, <2>1 DEF Goes
  <2>4. CertificatesInv'
    <3>1. Mirrored => Mirrored'
      BY <1>0, <1>1, <2>2, <2>3, BecomesMoves, Onwards
    <3>2. \A p \in Processors : chainFile'[p] \subseteq {AmdChain[p]}
      BY <1>0, <1>1 DEF AlarmInv, CertificatesInv, IInv, CacheInv
    <3>. QED BY <1>0, <3>1, <3>2 DEF AlarmInv, CertificatesInv
  <2>. QED BY <1>0, <1>1, <2>2, <2>3, <2>4, GoesOn DEF WithProcessor, WithChain
<1>2. CASE Fails /\ Ends(c, client[c], "CachedCert") /\ UNCHANGED chainFile
  BY <1>0, <1>2, RefusedTells DEF Shape, AlarmErrors, Alarms
<1>. QED BY <1>1, <1>2 DEF PutChain

LEMMA LoadVcekTells ==
    ASSUME IInv, AlarmInv, NEW c \in Clients, LoadVcek(c)
    PROVE  AlarmInv'
<1>. DEFINE p == ProcessorOf(c)
            b == Body(c)
<1>0. /\ ClientInv(c, client[c]) /\ client[c].pc = "vcek"
      /\ client[c].pc \in Judging /\ client[c].pc \in WithChain
      /\ client[c].chain = AmdChain[p]
      /\ UNCHANGED <<avars, files, chainFile, vcekFile>>
  BY DEF IInv, LoadVcek, At, Judging, WithProcessor, WithChain, AlarmInv, Tells, Told,
         ProcessorOf, Body
<1>1. p \in Processors /\ client[c].report \in AllReports
  BY <1>0 DEF ClientInv, CertificateKnown, ExpectedKnown, ReportKnown, WithProcessor, Judging,
              ProcessorOf, Body
<1>2. CASE TurinFmc(p, b) /\ Ends(c, client[c], "TurinFmc") /\ UNCHANGED faults
  <2>1. ~Own(client[c])
    BY <1>0, <1>2, OwnReports DEF ProcessorOf, Body
  <2>. QED BY <1>0, <1>2, <2>1, BlamedTells
<1>3. CASE ZeroHardwareId(b) /\ Ends(c, client[c], "ZeroHardwareId") /\ UNCHANGED faults
  <2>1. ~Own(client[c])
    BY <1>0, <1>3, OwnReports DEF ProcessorOf, Body
  <2>. QED BY <1>0, <1>3, <2>1, BlamedTells
<1>4. CASE Goes(c, "vcek_get") /\ UNCHANGED faults
  <2>1. PICK s : s = [client[c] EXCEPT !.pc = "vcek_get"]
    OBVIOUS
  <2>2. /\ s.pc = "vcek_get" /\ s.tls = client[c].tls /\ s.req = client[c].req
        /\ s.report = client[c].report /\ s.env = client[c].env
        /\ s.chain = AmdChain[p]
        /\ s.expected = client[c].expected /\ s.verdict = client[c].verdict
    BY <1>0, <2>1 DEF ClientInv, Shape, ClientFields
  <2>3. Becomes(c, s)
    BY <1>4, <2>1 DEF Goes
  <2>. QED BY <1>0, <1>4, <2>2, <2>3, GoesOn DEF WithProcessor, WithChain
<1>5. ASSUME ~TurinFmc(p, b), ~ZeroHardwareId(b), NEW x \in vcekFile[Id(c)], Verify(c, x),
             UNCHANGED faults
      PROVE  AlarmInv'
  <2>1. Id(c) \in DOMAIN Kds
    BY <1>1, <1>5, KdsAssumption DEF AllReports, Id, Body, ProcessorOf
  <2>2. Mirrored \/ x = Kds[Id(c)]
    BY <1>5, <2>1 DEF AlarmInv, CertificatesInv
  <2>3. PICK s : /\ Becomes(c, s) /\ s.pc = "done" /\ s.req = client[c].req
                 /\ Told(s, cert)
                 /\ Mirrored \/ Unmirrored(s)
                 /\ Disturbed(c) \/ Undisturbed(s)
    BY <1>0, <1>5, <2>2, Judged
  <2>4. s.pc \notin Downloading \cup {"idle"} /\ client[c].pc # "write"
    BY <1>0, <2>3 DEF Downloading
  <2>5. CertificatesInv'
    BY <1>0, <1>5, <2>3, <2>4, BecomesMoves, CertificatesKept
  <2>. QED BY <1>0, <1>5, <2>3, <2>4, <2>5, CacheTells
<1>6. CASE Unreadable(c)
  BY <1>0, <1>6, RefusedTells DEF Unreadable, ClientInv, Shape, AlarmErrors, Alarms
<1>. QED BY <1>2, <1>3, <1>4, <1>5, <1>6 DEF LoadVcek

LEMMA GetVcekTells ==
    ASSUME IInv, AlarmInv, NEW c \in Clients, GetVcek(c)
    PROVE  AlarmInv'
<1>0. /\ Shape(c, client[c]) /\ client[c].pc = "vcek_get" /\ client[c].pc \in Judging
      /\ client[c].chain = AmdChain[ProcessorOf(c)]
      /\ Told(client[c], cert)
      /\ UNCHANGED <<avars, files, chainFile>>
  BY DEF IInv, ClientInv, GetVcek, At, Judging, WithProcessor, WithChain, AlarmInv, Tells, Told,
         ProcessorOf, Body
<1>1. client[c].req.mirror => Mirrored
  BY <1>0 DEF Mirrored, At
<1>2. ASSUME NEW x \in {Kds[Id(c)]} \cup (IF client[c].req.mirror THEN MirrorCerts ELSE {}),
             Becomes(c, [client[c] EXCEPT !.vcek = x, !.pc = "vcek_put"]),
             vcekFile' = [vcekFile EXCEPT ![Id(c)] = {}], UNCHANGED faults
      PROVE  AlarmInv'
  <2>1. PICK s : s = [client[c] EXCEPT !.vcek = x, !.pc = "vcek_put"]
    OBVIOUS
  <2>2. /\ s.pc = "vcek_put" /\ s.tls = client[c].tls /\ s.req = client[c].req
        /\ s.report = client[c].report /\ s.env = client[c].env /\ s.vcek = x
        /\ s.chain = AmdChain[ProcessorOf(c)]
        /\ s.expected = client[c].expected /\ s.verdict = client[c].verdict
    BY <1>0, <2>1 DEF Shape, ClientFields
  <2>3. Becomes(c, s)
    BY <1>2, <2>1
  <2>4. Mirrored \/ x = Kds[Id(c)]
    BY <1>1, <1>2
  <2>5. CertificatesInv'
    <3>1. Mirrored => Mirrored'
      BY <1>0, <1>2, <2>2, <2>3, BecomesMoves, Onwards
    <3>2. \A id \in DOMAIN Kds : vcekFile'[id] \subseteq vcekFile[id]
      BY <1>2 DEF IInv, CacheInv
    <3>. QED BY <1>0, <3>1, <3>2 DEF AlarmInv, CertificatesInv
  <2>. QED BY <1>0, <1>2, <2>2, <2>3, <2>4, <2>5, GoesOn DEF WithProcessor, WithChain
<1>3. CASE Fails /\ Ends(c, client[c], "FetchingCert") /\ UNCHANGED vcekFile
  BY <1>0, <1>3, RefusedTells DEF Shape, AlarmErrors, Alarms
<1>4. CASE client[c].req.mirror /\ Fails /\ Ends(c, client[c], "ParsingCert") /\ UNCHANGED vcekFile
  <2>1. PICK s : s = [client[c] EXCEPT !.pc = "done", !.verdict = error_code("ParsingCert")]
    OBVIOUS
  <2>2. /\ s.pc = "done" /\ s.tls = client[c].tls /\ s.req = client[c].req
        /\ s.verdict = "InvalidAmdCerts"
    BY <1>0, <2>1 DEF Shape, ClientFields, error_code
  <2>3. Becomes(c, s)
    BY <1>4, <2>1 DEF Ends
  <2>4. Told(s, cert) /\ Undisturbed(s)
    BY <1>0, <2>2 DEF Told, Undisturbed, Fetching, Judging, WithProcessor, WithChain
  <2>5. Mirrored'
    BY <1>0, <1>1, <1>4, <2>2, <2>3, BecomesMoves, Onwards
  <2>. QED BY <1>0, <1>4, <2>2, <2>3, <2>4, <2>5, QuietTells DEF Downloading
<1>. QED BY <1>2, <1>3, <1>4 DEF GetVcek

LEMMA PutVcekTells ==
    ASSUME IInv, AlarmInv, NEW c \in Clients, PutVcek(c)
    PROVE  AlarmInv'
<1>0. /\ ClientInv(c, client[c]) /\ client[c].pc = "vcek_put"
      /\ client[c].pc \in WithChain
      /\ Mirrored \/ client[c].vcek = Kds[Id(c)]
      /\ UNCHANGED <<avars, files, chainFile>>
  BY DEF IInv, PutVcek, At, WithChain, AlarmInv, Tells, Unmirrored, ProcessorOf, Body, Id
<1>1. CASE /\ Verify(c, client[c].vcek) /\ UNCHANGED faults
           /\ \/ vcekFile' = [vcekFile EXCEPT ![Id(c)] = {client[c].vcek}]
              \/ vcekFile' = [vcekFile EXCEPT ![Id(c)] = {}]
  <2>1. PICK s : /\ Becomes(c, s) /\ s.pc = "done" /\ s.req = client[c].req
                 /\ Told(s, cert)
                 /\ Mirrored \/ Unmirrored(s)
                 /\ Disturbed(c) \/ Undisturbed(s)
    BY <1>0, <1>1, Judged
  <2>2. s.pc \notin Downloading \cup {"idle"} /\ client[c].pc # "write"
    BY <1>0, <2>1 DEF Downloading
  <2>3. CertificatesInv'
    <3>1. Mirrored => Mirrored'
      BY <1>0, <1>1, <2>1, <2>2, BecomesMoves, Onwards
    <3>2. ASSUME ~Mirrored, NEW id \in DOMAIN Kds
          PROVE  vcekFile'[id] \subseteq {Kds[id]}
      BY <1>0, <1>1, <3>2 DEF IInv, CacheInv, AlarmInv, CertificatesInv
    <3>. QED BY <1>0, <3>1, <3>2 DEF AlarmInv, CertificatesInv
  <2>. QED BY <1>0, <1>1, <2>1, <2>2, <2>3, CacheTells
<1>2. CASE Fails /\ Ends(c, client[c], "CachedCert") /\ UNCHANGED vcekFile
  BY <1>0, <1>2, RefusedTells DEF ClientInv, Shape, AlarmErrors, Alarms
<1>. QED BY <1>1, <1>2 DEF PutVcek

(* No validation moves.                                                    *)
LEMMA AllStay ==
    ASSUME AlarmInv, KeysInv', cert' >= cert, faults' >= faults,
           UNCHANGED <<client, files, chainFile, vcekFile>>
    PROVE  AlarmInv'
<1>1. 1..cert \subseteq 1..cert'
  BY DEF AlarmInv, KeysInv
<1>2. ASSUME NEW c \in Clients
      PROVE  Tells(c)'
  <2>1. PICK r : r = client[c]
    OBVIOUS
  <2>2. Told(r, cert')
    <3>1. Told(r, cert)
      BY <2>1 DEF AlarmInv, Tells
    <3>2. CvmReports(cert) \subseteq CvmReports(cert')
      BY <1>1 DEF CvmReports
    <3>. QED BY <1>1, <3>1, <3>2 DEF Told
  <2>3. Mirrored' \/ Unmirrored(r)
    BY <2>1 DEF AlarmInv, Tells, Mirrored, At
  <2>4. Disturbed(c)' \/ (Undisturbed(r) /\ FilesAlone(c)')
    <3>1. Disturbed(c) => Disturbed(c)'
      BY DEF Disturbed, At, AlarmInv, KeysInv
    <3>2. FilesAlone(c) => FilesAlone(c)'
      BY DEF FilesAlone, FilesOf, Version, File
    <3>. QED BY <2>1, <3>1, <3>2 DEF AlarmInv, Tells
  <2>. QED BY <2>1, <2>2, <2>3, <2>4 DEF Tells
<1>3. CertificatesInv' /\ FileTypes'
  BY DEF AlarmInv, CertificatesInv, FileTypes, Mirrored, At
<1>. QED BY <1>2, <1>3 DEF AlarmInv

LEMMA AttesterTells ==
    ASSUME IInv, AlarmInv, AttesterStep \/ Renew
    PROVE  AlarmInv'
<1>1. UNCHANGED <<client, files, chainFile, vcekFile>>
  BY DEF AttesterStep, BuildFetch, BuildReport, WorkerFetch, WorkerReport, Renew
<1>2. /\ cert \in Nat /\ cert' \in Nat /\ cert' >= cert
      /\ faults \in Nat /\ faults' \in Nat /\ faults' >= faults
  BY DEF AlarmInv, KeysInv, AttesterStep, BuildFetch, BuildReport, WorkerFetch, WorkerReport,
         Renew, Fails
<1>3. DOMAIN attester = {"pc", "seen", "fingerprint", "attempts", "data", "token"}
  BY DEF IInv, AttesterInv
<1>4. 1..cert \subseteq 1..cert'
  BY <1>2
<1>5. KeysInv'
  <2>0. cert \in 1..cert
    BY <1>2 DEF IInv, AttesterInv, CvmKeys
  <2>1. CASE BuildFetch
    BY <1>2, <1>3, <2>0, <2>1 DEF AlarmInv, KeysInv, BuildFetch, Fetched, Retry
  <2>2. CASE BuildReport
    BY <1>2, <1>3, <2>2 DEF AlarmInv, KeysInv, BuildReport, Reports, Retry
  <2>3. CASE WorkerFetch
    BY <1>2, <1>3, <2>0, <2>3 DEF AlarmInv, KeysInv, WorkerFetch, Fetched
  <2>4. CASE WorkerReport
    BY <1>2, <1>3, <2>4 DEF AlarmInv, KeysInv, WorkerReport, Reports
  <2>5. CASE Renew
    BY <1>2, <1>4, <2>5 DEF AlarmInv, KeysInv, Renew
  <2>. QED BY <2>1, <2>2, <2>3, <2>4, <2>5 DEF AttesterStep
<1>. QED BY <1>1, <1>2, <1>5, AllStay

LEMMA InitTells ==
    ASSUME Init
    PROVE  AlarmInv
<1>1. KeysInv
  BY DEF Init, KeysInv
<1>2. CertificatesInv
  BY DEF Init, CertificatesInv
<1>3. FileTypes
  BY DEF Init, FileTypes
<1>4. ASSUME NEW c \in Clients
      PROVE  Tells(c)
  <2>1. PICK r : r = client[c]
    OBVIOUS
  <2>2. r.pc = "idle" /\ r.verdict = "none" /\ r.tls = NoKey
    BY <2>1 DEF Init
  <2>3. Told(r, cert) /\ Unmirrored(r) /\ Undisturbed(r)
    BY <2>2 DEF Told, Unmirrored, Undisturbed, Fetching, Judging, WithProcessor, WithChain
  <2>4. FilesAlone(c)
    <3>1. \A v \in DOMAIN files : \A f \in DOMAIN files[v] : files[v][f] = "none"
      BY DEF Init
    <3>. QED BY <2>1, <2>2, <3>1 DEF FilesAlone, Downloading
  <2>. QED BY <2>1, <2>3, <2>4 DEF Tells
<1>. QED BY <1>1, <1>2, <1>3, <1>4 DEF AlarmInv

LEMMA NextTells ==
    ASSUME IInv, AlarmInv, [Next]_vars
    PROVE  AlarmInv'
<1>1. ASSUME NEW c \in Clients, ClientStep(c) PROVE AlarmInv'
  BY <1>1, AskTells, ConnectTells, GetTells, MetadataTells, DownloadTells, CreateTells,
     WriteTells, MeasureTells, LoadChainTells, GetChainTells, PutChainTells, LoadVcekTells,
     GetVcekTells, PutVcekTells DEF ClientStep
<1>2. CASE UNCHANGED vars
  BY <1>2, AllStay DEF vars, avars, AlarmInv, KeysInv
<1>. QED BY <1>1, <1>2, AttesterTells DEF Next

(* A sound CVM is called invalid only for the causes that are known: a     *)
(* renewed certificate, an artifact that a failure or another validation   *)
(* left incomplete, a mirror (ErrorCode::from), for any number of clients, *)
(* any reports in circulation, any mirror and any history of faults.       *)
THEOREM SoundCvmNotBlamed == Spec => []NoFalseAlarm
<1>1. ASSUME IInv, AlarmInv, NEW c \in Clients, OfCvm(c)
      PROVE  /\ client[c].verdict = "InvalidTlsFingerprint" => cert > 1
             /\ client[c].verdict = "InvalidReport" =>
                    \/ client[c].expected = Junk /\ Disturbed(c)
                    \/ Mirrored
             /\ client[c].verdict = "InvalidAmdCerts" => Mirrored
  <2>1. PICK r : r = client[c]
    OBVIOUS
  <2>2. /\ Told(r, cert) /\ cert \in Nat /\ cert <= MaxCerts
        /\ Mirrored \/ Unmirrored(r)
        /\ Disturbed(c) \/ Undisturbed(r)
    BY <1>1, <2>1, BoundsAssumption DEF IInv, AttesterInv, CvmKeys, AlarmInv, KeysInv, Tells
  <2>3. Own(r)
    BY <1>1, <2>1 DEF OfCvm, Own, CvmReports, CvmKeys, IInv, AttesterInv
  <2>4. ASSUME r.verdict = "InvalidTlsFingerprint"
        PROVE  cert > 1
    <3>1. r.tls \in CvmKeys
      BY <2>2, <2>3, <2>4 DEF Told, Own
    <3>2. r.report \in CvmReports(cert) /\ r.report.body.data # ReportData(r.tls)
      BY <2>2, <2>4, <3>1 DEF Told
    <3>3. r.tls \in 1..cert
      BY <2>2, <3>1, BoundsAssumption, CvmAssumption DEF Told, CvmKeys, NoKey
    <3>4. PICK k \in 1..cert : r.report = CvmReport(k)
      BY <3>2 DEF CvmReports
    <3>5. r.report.body.data = ReportData(k)
      BY <3>4, CvmReportParts
    <3>6. k # r.tls
      BY <3>2, <3>5
    <3>. QED BY <2>2, <3>3, <3>4, <3>6
  <2>5. /\ r.verdict = "InvalidReport" => Mirrored \/ (r.expected = Junk /\ Disturbed(c))
        /\ r.verdict = "InvalidAmdCerts" => Mirrored
    BY <2>2, <2>3 DEF Unmirrored, Undisturbed
  <2>. QED BY <2>1, <2>4, <2>5
<1>2. IInv /\ AlarmInv => NoFalseAlarm
  BY <1>1 DEF NoFalseAlarm, Disturbed, Mirrored
<1>. QED BY <1>2, InitIInv, NextIInv, InitTells, NextTells, PTL DEF Spec

=============================================================================
