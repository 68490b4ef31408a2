------------------------ MODULE ReportVerification ------------------------
(***************************************************************************)
(* The checks of an SEV-SNP attestation report (attestation-verification): *)
(* which processor made it, under which identity its VCEK certificate is   *)
(* asked for and cached, and ReportVerifier::verify_report.                *)
(*                                                                         *)
(* Cryptography is abstracted to who signed what: a certificate has a key  *)
(* and the key that signed it, a signature the key that made it and what   *)
(* it was made over. Byte strings are tuples of the parts that the code    *)
(* tells apart: the chip ID is <<byte 0, bytes 1-7, bytes 8-63>>.          *)
(***************************************************************************)
EXTENDS Integers, Sequences

None == -1              \* of an Option of an integer
ZeroChip == <<0, 0, 0>>
Size(bytes) == IF Len(bytes) = 3 THEN 64 ELSE Len(bytes)

-----------------------------------------------------------------------------
(* Processor::try_from: the processor of the body of a report, or an error *)
(* (0xA0..0xAF leaves 0xAF out).                                           *)
Processor(b) ==
    IF b.version < 3
    THEN CASE b.chip = ZeroChip -> "ZeroChipIp"
           [] b.chip # ZeroChip /\ b.chip[3] = 0 -> "Turin"
           [] b.chip # ZeroChip /\ b.chip[3] # 0 -> "AmbiguousMilanGenoa"
    ELSE CASE b.family = None -> "MissingFamilyId"
           [] b.family # None /\ b.model = None -> "MissingModelId"
           [] b.family = 25 /\ b.model \in 0..15 -> "Milan"
           [] b.family = 25 /\ b.model \in (16..31) \cup (160..174) -> "Genoa"
           [] b.family = 26 /\ b.model \in 0..17 -> "Turin"
           [] OTHER -> "NotSupported"

detect_processor(b) ==
    IF Processor(b) = "AmbiguousMilanGenoa" THEN "Genoa" ELSE Processor(b)

Processors == {"Milan", "Genoa", "Turin"}

(* ProcessorVcekIdentifier: both the URL at KDS and the name of the file   *)
(* in the cache are made of all of it.                                     *)
VcekIdentifier(p, b) ==
    [processor |-> p, tcb |-> b.tcb,
     hw_id |-> IF p = "Turin" THEN SubSeq(b.chip, 1, 2) ELSE b.chip]

TurinFmc(p, b) == p = "Turin" /\ b.tcb.fmc = None
ZeroHardwareId(b) == b.chip = ZeroChip

-----------------------------------------------------------------------------
(* verify_certs: the ARK signs itself and the ASK, the ASK the VCEK.       *)
verify_certs(chain, vcek) ==
    /\ chain.ark.by = chain.ark.key
    /\ chain.ask.by = chain.ark.key
    /\ vcek.by = chain.ask.key

(* The signature covers everything in front of it.                         *)
verify_report_signature(vcek, r) ==
    r.signature.by = vcek.key /\ r.signature.over = r.body

(* What the value of an extension says: an integer of one or two octets,   *)
(* of which the last counts, an octet string, or the 64 bytes themselves.  *)
check_cert_bytes(ext, bytes) ==
    \/ ext.tag = "integer" /\ ext.size \in {1, 2} /\ ext.value[1] = bytes[1]
    \/ /\ ext.tag # "integer"
       /\ ext.tag = "octets" => ext.size = 64
       /\ Size(ext.value) = 64 /\ Size(bytes) = 64
       /\ ext.value = bytes

(* The first word of the list that the common name contains decides, so    *)
(* that "SEV-VCEK" is an ASK.                                              *)
parse_common_name(words) ==
    IF "ark" \in words THEN "ARK"
    ELSE IF words \cap {"ask", "sev"} # {} THEN "ASK"
    ELSE IF "vcek" \in words THEN "VCEK"
    ELSE IF "vlek" \in words THEN "VLEK"
    ELSE IF "crl" \in words THEN "CRL"
    ELSE "unknown"

Reported(b) ==
    [BootLoader |-> <<b.tcb.bootloader>>, Tee |-> <<b.tcb.tee>>, Snp |-> <<b.tcb.snp>>,
     Ucode |-> <<b.tcb.microcode>>, HwId |-> b.chip, Fmc |-> <<b.tcb.fmc>>]

(* The extensions that are compared, if the certificate has them.          *)
Compared(vcek, p) ==
    {"BootLoader", "Tee", "Snp", "Ucode"}
    \cup (IF parse_common_name(vcek.names) = "VCEK" THEN {"HwId"} ELSE {})
    \cup (IF p = "Turin" THEN {"Fmc"} ELSE {})

verify_attestation_tcb(vcek, b, p) ==
    /\ parse_common_name(vcek.names) # "unknown"
    /\ \A oid \in Compared(vcek, p) \cap DOMAIN vcek.ext :
        check_cert_bytes(vcek.ext[oid], Reported(b)[oid])
    /\ p = "Turin" =>
        /\ b.version >= 3
        /\ "Fmc" \in DOMAIN vcek.ext => b.tcb.fmc # None

(* verify_report, from the certificates on.                                *)
verify_report(r, chain, vcek, p, measurement) ==
    IF ~verify_certs(chain, vcek) THEN "CertVerification"
    ELSE IF r.body.measurement # measurement THEN "InvalidMeasurement"
    ELSE IF ~verify_report_signature(vcek, r) THEN "InvalidSignature"
    ELSE IF ~verify_attestation_tcb(vcek, r.body, p) THEN "InvalidCertificate"
    ELSE IF r.body.debug THEN "DebugAllowed"
    ELSE "ok"

(* ErrorCode::from, of the errors that a validation may end with.          *)
error_code(e) ==
    CASE e = "DockerComposeHash" -> "InvalidDockerComposeHash"
      [] e = "TlsFingerprint" -> "InvalidTlsFingerprint"
      [] e = "DecodeMetadata" -> "InvalidArtifacts"
      [] e \in {"CertCacheDirectories", "TargetFile", "CachedCert"} -> "Filesystem"
      [] e \in {"NotHttpsScheme", "FetchAttestation", "Download", "FetchingCert"} -> "Request"
      [] e \in {"ParsingCert", "CertVerification", "InvalidCertificate"} -> "InvalidAmdCerts"
      [] e \in {"TurinFmc", "ZeroHardwareId", "DetectProcessor", "InvalidMeasurement",
                "InvalidSignature", "DebugAllowed"} -> "InvalidReport"
      [] e = "MeasurementHash" -> "Internal"
      [] OTHER -> e

=============================================================================
