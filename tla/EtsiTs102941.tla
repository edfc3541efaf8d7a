---------------------------- MODULE EtsiTs102941 ----------------------------
(***************************************************************************)
(* The messages of the certificate authorities and the trust lists (ETSI   *)
(* TS 102 941), with the profiles of ETSI TS 103 097, as generated in      *)
(* src/vanetza-extension/asn1/pki. Each definition is the type descriptor  *)
(* of that name, with its members, PER and OER constraints and constraint  *)
(* function; a type that C declares inside another one carries the name of *)
(* the outer one first.                                                    *)
(***************************************************************************)
EXTENDS AsnDescriptors

asn_DEF_AaEntry == SEQUENCE(-1, <<
    Member("aaCertificate", "EtsiTs103097Certificate"), Member("accessPoint", "Url")>>)
asn_DEF_CrlEntry == OCTET_STRING(OerFixed(PerSize(0, 8, 8), 8), SizeIn(8, 8))
asn_DEF_CtlCommand == CHOICE(PerValueExt(1, 0, 1), 2, <<
    Member("add", "CtlEntry"), Member("delete", "CtlDelete")>>)
asn_DEF_CtlDelete == CHOICE(PerValueExt(1, 0, 1), 2, <<
    Member("cert", "HashedId8"), Member("dc", "DcDelete")>>)
asn_DEF_CtlEntry == CHOICE(PerValueExt(3, 0, 4), 5, <<
    Member("rca", "RootCaEntry"), Member("ea", "EaEntry"), Member("aa", "AaEntry"),
    Member("dc", "DcEntry"), Member("tlm", "TlmEntry")>>)
asn_DEF_CtlFormat_ctlCommands_6 == SEQUENCE_OF(NoPer, Member("", "CtlCommand"))
asn_DEF_CtlFormat == SEQUENCE(5, <<
    Member("version", "Version"), Member("nextUpdate", "Time32"),
    Member("isFullCtl", "BOOLEAN"),
    Limited(Member("ctlSequence", "NativeInteger"), OerNumber(PerValue(8, 0, 255), 1, 1), ValueIn(0, 255)),
    Member("ctlCommands", "CtlFormat_ctlCommands_6")>>)
asn_DEF_DcDelete == OCTET_STRING(NoPer, IA5String_constraint)
asn_DEF_DcEntry_cert_3 == SEQUENCE_OF(NoPer, Member("", "HashedId8"))
asn_DEF_DcEntry == SEQUENCE(-1, <<Member("url", "Url"), Member("cert", "DcEntry_cert_3")>>)
asn_DEF_DeltaCtl == WithCheck(SEQUENCE(5, <<
    Member("version", "Version"), Member("nextUpdate", "Time32"),
    Member("isFullCtl", "BOOLEAN"),
    Limited(Member("ctlSequence", "NativeInteger"), OerNumber(PerValue(8, 0, 255), 1, 1), ValueIn(0, 255)),
    Member("ctlCommands", "CtlFormat_ctlCommands_6")>>), PerNone, OwnCheck)
asn_DEF_EaEntry == SEQUENCE(-1, <<
    Member("eaCertificate", "EtsiTs103097Certificate"), Member("aaAccessPoint", "Url"),
    Optional("itsAccessPoint", "Url")>>)
asn_DEF_FullCtl == WithCheck(SEQUENCE(5, <<
    Member("version", "Version"), Member("nextUpdate", "Time32"),
    Member("isFullCtl", "BOOLEAN"),
    Limited(Member("ctlSequence", "NativeInteger"), OerNumber(PerValue(8, 0, 255), 1, 1), ValueIn(0, 255)),
    Member("ctlCommands", "CtlFormat_ctlCommands_6")>>), PerNone, OwnCheck)
asn_DEF_RootCaEntry == SEQUENCE(-1, <<
    Member("selfsignedRootCa", "EtsiTs103097Certificate"),
    Optional("linkRootCaCertificate", "EtsiTs103097Certificate")>>)
asn_DEF_TlmEntry == SEQUENCE(-1, <<
    Member("selfSignedTLMCertificate", "EtsiTs103097Certificate"),
    Optional("linkTLMCertificate", "EtsiTs103097Certificate"), Member("accessPoint", "Url")>>)
asn_DEF_ToBeSignedCrl_entries_5 == SEQUENCE_OF(NoPer, Member("", "CrlEntry"))
asn_DEF_ToBeSignedCrl == SEQUENCE(4, <<
    Member("version", "Version"), Member("thisUpdate", "Time32"),
    Member("nextUpdate", "Time32"), Member("entries", "ToBeSignedCrl_entries_5")>>)
asn_DEF_ToBeSignedRcaCtl == WithCheck(SEQUENCE(5, <<
    Member("version", "Version"), Member("nextUpdate", "Time32"),
    Member("isFullCtl", "BOOLEAN"),
    Limited(Member("ctlSequence", "NativeInteger"), OerNumber(PerValue(8, 0, 255), 1, 1), ValueIn(0, 255)),
    Member("ctlCommands", "CtlFormat_ctlCommands_6")>>), PerNone, OwnCheck)
asn_DEF_ToBeSignedTlmCtl == WithCheck(SEQUENCE(5, <<
    Member("version", "Version"), Member("nextUpdate", "Time32"),
    Member("isFullCtl", "BOOLEAN"),
    Limited(Member("ctlSequence", "NativeInteger"), OerNumber(PerValue(8, 0, 255), 1, 1), ValueIn(0, 255)),
    Member("ctlCommands", "CtlFormat_ctlCommands_6")>>), PerNone, OwnCheck)
asn_DEF_Url == OCTET_STRING(Per(Constrained(7, 0, 127), SemiConstrained), IA5String_constraint)
asn_DEF_AuthorizationRequestMessage == WithCheck(SEQUENCE(-1, <<
    Limited(Member("protocolVersion", "Uint8"), OerNumber(PerValue(0, 3, 3), 1, 1), ValueIn(3, 3)),
    Pointer("content", "Ieee1609Dot2Content")>>), PerNone, OwnCheck)
asn_DEF_AuthorizationRequestMessageWithPop == WithCheck(SEQUENCE(-1, <<
    Limited(Member("protocolVersion", "Uint8"), OerNumber(PerValue(0, 3, 3), 1, 1), ValueIn(3, 3)),
    Pointer("content", "Ieee1609Dot2Content")>>), PerNone, OwnCheck)
asn_DEF_AuthorizationResponseMessage == WithCheck(SEQUENCE(-1, <<
    Limited(Member("protocolVersion", "Uint8"), OerNumber(PerValue(0, 3, 3), 1, 1), ValueIn(3, 3)),
    Pointer("content", "Ieee1609Dot2Content")>>), PerNone, OwnCheck)
asn_DEF_AuthorizationValidationRequestMessage == WithCheck(SEQUENCE(-1, <<
    Limited(Member("protocolVersion", "Uint8"), OerNumber(PerValue(0, 3, 3), 1, 1), ValueIn(3, 3)),
    Pointer("content", "Ieee1609Dot2Content")>>), PerNone, OwnCheck)
asn_DEF_AuthorizationValidationResponseMessage == WithCheck(SEQUENCE(-1, <<
    Limited(Member("protocolVersion", "Uint8"), OerNumber(PerValue(0, 3, 3), 1, 1), ValueIn(3, 3)),
    Pointer("content", "Ieee1609Dot2Content")>>), PerNone, OwnCheck)
asn_DEF_CaCertificateRekeyingMessage == WithCheck(SEQUENCE(-1, <<
    Limited(Member("protocolVersion", "Uint8"), OerNumber(PerValue(0, 3, 3), 1, 1), ValueIn(3, 3)),
    Pointer("content", "Ieee1609Dot2Content")>>), PerNone, OwnCheck)
asn_DEF_CaCertificateRequestMessage == WithCheck(SEQUENCE(-1, <<
    Limited(Member("protocolVersion", "Uint8"), OerNumber(PerValue(0, 3, 3), 1, 1), ValueIn(3, 3)),
    Pointer("content", "Ieee1609Dot2Content")>>), PerNone, OwnCheck)
asn_DEF_CertificateRevocationListMessage == WithCheck(SEQUENCE(-1, <<
    Limited(Member("protocolVersion", "Uint8"), OerNumber(PerValue(0, 3, 3), 1, 1), ValueIn(3, 3)),
    Pointer("content", "Ieee1609Dot2Content")>>), PerNone, OwnCheck)
asn_DEF_EnrolmentRequestMessage == WithCheck(SEQUENCE(-1, <<
    Limited(Member("protocolVersion", "Uint8"), OerNumber(PerValue(0, 3, 3), 1, 1), ValueIn(3, 3)),
    Pointer("content", "Ieee1609Dot2Content")>>), PerNone, OwnCheck)
asn_DEF_EnrolmentResponseMessage == WithCheck(SEQUENCE(-1, <<
    Limited(Member("protocolVersion", "Uint8"), OerNumber(PerValue(0, 3, 3), 1, 1), ValueIn(3, 3)),
    Pointer("content", "Ieee1609Dot2Content")>>), PerNone, OwnCheck)
asn_DEF_EtsiTs102941Data == SEQUENCE(-1, <<
    Limited(Member("version", "Version"), OerNumber(PerValue(0, 1, 1), 1, 1), ValueIn(1, 1)),
    Member("content", "EtsiTs102941DataContent")>>)
asn_DEF_EtsiTs102941DataContent == CHOICE(PerValueExt(4, 0, 9), 10, <<
    Member("enrolmentRequest", "InnerEcRequestSignedForPop"),
    Member("enrolmentResponse", "InnerEcResponse"),
    Member("authorizationRequest", "InnerAtRequest"),
    Member("authorizationResponse", "InnerAtResponse"),
    Member("certificateRevocationList", "ToBeSignedCrl"),
    Member("certificateTrustListTlm", "ToBeSignedTlmCtl"),
    Member("certificateTrustListRca", "ToBeSignedRcaCtl"),
    Member("authorizationValidationRequest", "AuthorizationValidationRequest"),
    Member("authorizationValidationResponse", "AuthorizationValidationResponse"),
    Member("caCertificateRequest", "CaCertificateRequest")>>)
asn_DEF_RcaCertificateTrustListMessage == WithCheck(SEQUENCE(-1, <<
    Limited(Member("protocolVersion", "Uint8"), OerNumber(PerValue(0, 3, 3), 1, 1), ValueIn(3, 3)),
    Pointer("content", "Ieee1609Dot2Content")>>), PerNone, OwnCheck)
asn_DEF_TlmCertificateTrustListMessage == WithCheck(SEQUENCE(-1, <<
    Limited(Member("protocolVersion", "Uint8"), OerNumber(PerValue(0, 3, 3), 1, 1), ValueIn(3, 3)),
    Pointer("content", "Ieee1609Dot2Content")>>), PerNone, OwnCheck)
asn_DEF_AuthorizationResponseCode == NativeEnumerated(PerValueExt(5, 0, 26), 27, 28)
asn_DEF_InnerAtRequest == SEQUENCE(4, <<
    Member("publicKeys", "PublicKeys"),
    Limited(Member("hmacKey", "OCTET_STRING"), OerFixed(PerSize(0, 32, 32), 32), SizeIn(32, 32)),
    Member("sharedAtRequest", "SharedAtRequest"), Member("ecSignature", "EcSignature")>>)
asn_DEF_InnerAtResponse == WithCheck(SEQUENCE(3, <<
    Limited(Member("requestHash", "OCTET_STRING"), OerFixed(PerSize(0, 16, 16), 16), SizeIn(16, 16)),
    Member("responseCode", "AuthorizationResponseCode"),
    Optional("certificate", "EtsiTs103097Certificate")>>), PerNone, SEQUENCE_constraint)
asn_DEF_SharedAtRequest == SEQUENCE(4, <<
    Member("eaId", "HashedId8"),
    Limited(Member("keyTag", "OCTET_STRING"), OerFixed(PerSize(0, 16, 16), 16), SizeIn(16, 16)),
    Member("certificateFormat", "CertificateFormat"),
    Limited(Member("requestedSubjectAttributes", "CertificateSubjectAttributes"), PerNone, OwnCheck)>>)
asn_DEF_AuthorizationValidationRequest == SEQUENCE(2, <<
    Member("sharedAtRequest", "SharedAtRequest"), Member("ecSignature", "EcSignature")>>)
asn_DEF_AuthorizationValidationResponse == WithCheck(SEQUENCE(3, <<
    Limited(Member("requestHash", "OCTET_STRING"), OerFixed(PerSize(0, 16, 16), 16), SizeIn(16, 16)),
    Member("responseCode", "AuthorizationValidationResponseCode"),
    Limited(Optional("confirmedSubjectAttributes", "CertificateSubjectAttributes"), PerNone, OwnCheck)>>), PerNone, SEQUENCE_constraint)
asn_DEF_AuthorizationValidationResponseCode == NativeEnumerated(PerValueExt(4, 0, 14), 15, 16)
asn_DEF_CaCertificateRequest == SEQUENCE(2, <<
    Member("publicKeys", "PublicKeys"),
    Member("requestedSubjectAttributes", "CertificateSubjectAttributes")>>)
asn_DEF_CertificateFormat == NativeInteger(OerNumber(PerValue(8, 1, 255), 1, 1), ValueIn(1, 255))
asn_DEF_CertificateSubjectAttributes == WithCheck(SEQUENCE(6, <<
    Optional("id", "CertificateId"), Optional("validityPeriod", "ValidityPeriod"),
    Optional("region", "GeographicRegion"), Optional("assuranceLevel", "SubjectAssurance"),
    Optional("appPermissions", "SequenceOfPsidSsp"),
    Optional("certIssuePermissions", "SequenceOfPsidGroupPermissions")>>), PerNone, SEQUENCE_constraint)
asn_DEF_EcSignature == CHOICE(PerValue(1, 0, 1), -1, <<
    Member("encryptedEcSignature", "EtsiTs103097Data_Encrypted_85P0"),
    Member("ecSignature", "EtsiTs103097Data_SignedExternalPayload")>>)
asn_DEF_EtsiTs103097Data_Encrypted_Unicast_55P0 == WithCheck(SEQUENCE(-1, <<
    Limited(Member("protocolVersion", "Uint8"), OerNumber(PerValue(0, 3, 3), 1, 1), ValueIn(3, 3)),
    Pointer("content", "Ieee1609Dot2Content")>>), PerNone, OwnCheck)
asn_DEF_EtsiTs103097Data_SignedAndEncrypted_Unicast_64P0 == WithCheck(SEQUENCE(-1, <<
    Limited(Member("protocolVersion", "Uint8"), OerNumber(PerValue(0, 3, 3), 1, 1), ValueIn(3, 3)),
    Pointer("content", "Ieee1609Dot2Content")>>), PerNone, OwnCheck)
asn_DEF_PublicKeys == SEQUENCE(-1, <<
    Member("verificationKey", "PublicVerificationKey"),
    Optional("encryptionKey", "PublicEncryptionKey")>>)
asn_DEF_Version == NativeInteger(NoPer, Accepts)
asn_DEF_EnrolmentResponseCode == NativeEnumerated(PerValueExt(4, 0, 13), 14, 15)
asn_DEF_InnerEcRequest == SEQUENCE(4, <<
    Member("itsId", "OCTET_STRING"), Member("certificateFormat", "CertificateFormat"),
    Member("publicKeys", "PublicKeys"),
    Limited(Member("requestedSubjectAttributes", "CertificateSubjectAttributes"), PerNone, OwnCheck)>>)
asn_DEF_InnerEcRequestSignedForPop == WithCheck(SEQUENCE(-1, <<
    Limited(Member("protocolVersion", "Uint8"), OerNumber(PerValue(0, 3, 3), 1, 1), ValueIn(3, 3)),
    Pointer("content", "Ieee1609Dot2Content")>>), PerNone, OwnCheck)
asn_DEF_InnerEcResponse == WithCheck(SEQUENCE(3, <<
    Limited(Member("requestHash", "OCTET_STRING"), OerFixed(PerSize(0, 16, 16), 16), SizeIn(16, 16)),
    Member("responseCode", "EnrolmentResponseCode"),
    Optional("certificate", "EtsiTs103097Certificate")>>), PerNone, SEQUENCE_constraint)
asn_DEF_EtsiTs103097Certificate == WithCheck(SEQUENCE(-1, <<
    Limited(Member("version", "Uint8"), OerNumber(PerValue(0, 3, 3), 1, 1), ValueIn(3, 3)),
    Member("type", "CertificateType"), Member("issuer", "IssuerIdentifier"),
    Member("toBeSigned", "ToBeSignedCertificate"), Optional("signature", "Signature")>>), PerNone, OwnCheck)
asn_DEF_EtsiTs103097Data_Encrypted_85P0 == WithCheck(SEQUENCE(-1, <<
    Limited(Member("protocolVersion", "Uint8"), OerNumber(PerValue(0, 3, 3), 1, 1), ValueIn(3, 3)),
    Pointer("content", "Ieee1609Dot2Content")>>), PerNone, OwnCheck)
asn_DEF_EtsiTs103097Data_Encrypted_85P1 == WithCheck(SEQUENCE(-1, <<
    Limited(Member("protocolVersion", "Uint8"), OerNumber(PerValue(0, 3, 3), 1, 1), ValueIn(3, 3)),
    Pointer("content", "Ieee1609Dot2Content")>>), PerNone, OwnCheck)
asn_DEF_EtsiTs103097Data_Encrypted_85P2 == WithCheck(SEQUENCE(-1, <<
    Limited(Member("protocolVersion", "Uint8"), OerNumber(PerValue(0, 3, 3), 1, 1), ValueIn(3, 3)),
    Pointer("content", "Ieee1609Dot2Content")>>), PerNone, OwnCheck)
asn_DEF_EtsiTs103097Data_Signed_55P0 == WithCheck(SEQUENCE(-1, <<
    Limited(Member("protocolVersion", "Uint8"), OerNumber(PerValue(0, 3, 3), 1, 1), ValueIn(3, 3)),
    Pointer("content", "Ieee1609Dot2Content")>>), PerNone, OwnCheck)
asn_DEF_EtsiTs103097Data_Signed_55P1 == WithCheck(SEQUENCE(-1, <<
    Limited(Member("protocolVersion", "Uint8"), OerNumber(PerValue(0, 3, 3), 1, 1), ValueIn(3, 3)),
    Pointer("content", "Ieee1609Dot2Content")>>), PerNone, OwnCheck)
asn_DEF_EtsiTs103097Data_Signed_55P2 == WithCheck(SEQUENCE(-1, <<
    Limited(Member("protocolVersion", "Uint8"), OerNumber(PerValue(0, 3, 3), 1, 1), ValueIn(3, 3)),
    Pointer("content", "Ieee1609Dot2Content")>>), PerNone, OwnCheck)
asn_DEF_EtsiTs103097Data_SignedExternalPayload == WithCheck(SEQUENCE(-1, <<
    Limited(Member("protocolVersion", "Uint8"), OerNumber(PerValue(0, 3, 3), 1, 1), ValueIn(3, 3)),
    Pointer("content", "Ieee1609Dot2Content")>>), PerNone, OwnCheck)
asn_DEF_EtsiTs103097Data == WithCheck(SEQUENCE(-1, <<
    Limited(Member("protocolVersion", "Uint8"), OerNumber(PerValue(0, 3, 3), 1, 1), ValueIn(3, 3)),
    Pointer("content", "Ieee1609Dot2Content")>>), PerNone, OwnCheck)
asn_DEF_SingleEtsiTs103097Certificate == SEQUENCE(-1, <<
    Member("only", "EtsiTs103097Certificate")>>)

-----------------------------------------------------------------------------
EtsiTs102941Types ==
    [AaEntry |-> asn_DEF_AaEntry, CrlEntry |-> asn_DEF_CrlEntry,
     CtlCommand |-> asn_DEF_CtlCommand, CtlDelete |-> asn_DEF_CtlDelete,
     CtlEntry |-> asn_DEF_CtlEntry, CtlFormat_ctlCommands_6 |-> asn_DEF_CtlFormat_ctlCommands_6,
     CtlFormat |-> asn_DEF_CtlFormat, DcDelete |-> asn_DEF_DcDelete,
     DcEntry_cert_3 |-> asn_DEF_DcEntry_cert_3, DcEntry |-> asn_DEF_DcEntry,
     DeltaCtl |-> asn_DEF_DeltaCtl, EaEntry |-> asn_DEF_EaEntry, FullCtl |-> asn_DEF_FullCtl,
     RootCaEntry |-> asn_DEF_RootCaEntry, TlmEntry |-> asn_DEF_TlmEntry,
     ToBeSignedCrl_entries_5 |-> asn_DEF_ToBeSignedCrl_entries_5,
     ToBeSignedCrl |-> asn_DEF_ToBeSignedCrl, ToBeSignedRcaCtl |-> asn_DEF_ToBeSignedRcaCtl,
     ToBeSignedTlmCtl |-> asn_DEF_ToBeSignedTlmCtl, Url |-> asn_DEF_Url,
     AuthorizationRequestMessage |-> asn_DEF_AuthorizationRequestMessage,
     AuthorizationRequestMessageWithPop |-> asn_DEF_AuthorizationRequestMessageWithPop,
     AuthorizationResponseMessage |-> asn_DEF_AuthorizationResponseMessage,
     AuthorizationValidationRequestMessage |-> asn_DEF_AuthorizationValidationRequestMessage,
     AuthorizationValidationResponseMessage |-> asn_DEF_AuthorizationValidationResponseMessage,
     CaCertificateRekeyingMessage |-> asn_DEF_CaCertificateRekeyingMessage,
     CaCertificateRequestMessage |-> asn_DEF_CaCertificateRequestMessage,
     CertificateRevocationListMessage |-> asn_DEF_CertificateRevocationListMessage,
     EnrolmentRequestMessage |-> asn_DEF_EnrolmentRequestMessage,
     EnrolmentResponseMessage |-> asn_DEF_EnrolmentResponseMessage,
     EtsiTs102941Data |-> asn_DEF_EtsiTs102941Data,
     EtsiTs102941DataContent |-> asn_DEF_EtsiTs102941DataContent,
     RcaCertificateTrustListMessage |-> asn_DEF_RcaCertificateTrustListMessage,
     TlmCertificateTrustListMessage |-> asn_DEF_TlmCertificateTrustListMessage,
     AuthorizationResponseCode |-> asn_DEF_AuthorizationResponseCode,
     InnerAtRequest |-> asn_DEF_InnerAtRequest, InnerAtResponse |-> asn_DEF_InnerAtResponse,
     SharedAtRequest |-> asn_DEF_SharedAtRequest,
     AuthorizationValidationRequest |-> asn_DEF_AuthorizationValidationRequest,
     AuthorizationValidationResponse |-> asn_DEF_AuthorizationValidationResponse,
     AuthorizationValidationResponseCode |-> asn_DEF_AuthorizationValidationResponseCode,
     CaCertificateRequest |-> asn_DEF_CaCertificateRequest,
     CertificateFormat |-> asn_DEF_CertificateFormat,
     CertificateSubjectAttributes |-> asn_DEF_CertificateSubjectAttributes,
     EcSignature |-> asn_DEF_EcSignature,
     EtsiTs103097Data_Encrypted_Unicast_55P0 |-> asn_DEF_EtsiTs103097Data_Encrypted_Unicast_55P0,
     EtsiTs103097Data_SignedAndEncrypted_Unicast_64P0 |-> asn_DEF_EtsiTs103097Data_SignedAndEncrypted_Unicast_64P0,
     PublicKeys |-> asn_DEF_PublicKeys, Version |-> asn_DEF_Version,
     EnrolmentResponseCode |-> asn_DEF_EnrolmentResponseCode,
     InnerEcRequest |-> asn_DEF_InnerEcRequest,
     InnerEcRequestSignedForPop |-> asn_DEF_InnerEcRequestSignedForPop,
     InnerEcResponse |-> asn_DEF_InnerEcResponse,
     EtsiTs103097Certificate |-> asn_DEF_EtsiTs103097Certificate,
     EtsiTs103097Data_Encrypted_85P0 |-> asn_DEF_EtsiTs103097Data_Encrypted_85P0,
     EtsiTs103097Data_Encrypted_85P1 |-> asn_DEF_EtsiTs103097Data_Encrypted_85P1,
     EtsiTs103097Data_Encrypted_85P2 |-> asn_DEF_EtsiTs103097Data_Encrypted_85P2,
     EtsiTs103097Data_Signed_55P0 |-> asn_DEF_EtsiTs103097Data_Signed_55P0,
     EtsiTs103097Data_Signed_55P1 |-> asn_DEF_EtsiTs103097Data_Signed_55P1,
     EtsiTs103097Data_Signed_55P2 |-> asn_DEF_EtsiTs103097Data_Signed_55P2,
     EtsiTs103097Data_SignedExternalPayload |-> asn_DEF_EtsiTs103097Data_SignedExternalPayload,
     EtsiTs103097Data |-> asn_DEF_EtsiTs103097Data,
     SingleEtsiTs103097Certificate |-> asn_DEF_SingleEtsiTs103097Certificate]
=============================================================================
