---------------------------- MODULE Ieee1609Dot2 ----------------------------
(***************************************************************************)
(* Secured messages and certificates (IEEE 1609.2), as generated in        *)
(* src/vanetza-extension/asn1/security; src/vanetza-extension/asn1/pki     *)
(* holds the same files. Each definition is the type descriptor of that    *)
(* name, with its members, PER and OER constraints and constraint          *)
(* function; a type that C declares inside another one carries the name of *)
(* the outer one first.                                                    *)
(***************************************************************************)
EXTENDS AsnDescriptors

asn_DEF_AesCcmCiphertext == SEQUENCE(-1, <<
    Limited(Member("nonce", "OCTET_STRING"), OerFixed(PerSize(0, 12, 12), 12), SizeIn(12, 12)),
    Member("ccmCiphertext", "Opaque")>>)
asn_DEF_Certificate == WithCheck(SEQUENCE(-1, <<
    Limited(Member("version", "Uint8"), OerNumber(PerValue(0, 3, 3), 1, 1), ValueIn(3, 3)),
    Member("type", "CertificateType"), Member("issuer", "IssuerIdentifier"),
    Member("toBeSigned", "ToBeSignedCertificate"), Optional("signature", "Signature")>>), PerNone, OwnCheck)
asn_DEF_CertificateBase == SEQUENCE(-1, <<
    Limited(Member("version", "Uint8"), OerNumber(PerValue(0, 3, 3), 1, 1), ValueIn(3, 3)),
    Member("type", "CertificateType"), Member("issuer", "IssuerIdentifier"),
    Member("toBeSigned", "ToBeSignedCertificate"), Optional("signature", "Signature")>>)
asn_DEF_CertificateId == CHOICE(PerValueExt(2, 0, 3), 4, <<
    Member("linkageData", "LinkageData"), Member("name", "Hostname"),
    Limited(Member("binaryId", "OCTET_STRING"), PerSize(6, 1, 64), SizeIn(1, 64)),
    Member("none", "NULL")>>)
asn_DEF_CertificateType == NativeEnumerated(PerValueExt(1, 0, 1), 2, 3)
asn_DEF_Countersignature == WithCheck(SEQUENCE(-1, <<
    Limited(Member("protocolVersion", "Uint8"), OerNumber(PerValue(0, 3, 3), 1, 1), ValueIn(3, 3)),
    Pointer("content", "Ieee1609Dot2Content")>>), PerNone, OwnCheck)
asn_DEF_EncryptedData == SEQUENCE(-1, <<
    Member("recipients", "SequenceOfRecipientInfo"), Member("ciphertext", "SymmetricCiphertext")>>)
asn_DEF_EncryptedDataEncryptionKey == CHOICE(PerValueExt(1, 0, 1), 2, <<
    Member("eciesNistP256", "EciesP256EncryptedKey"),
    Member("eciesBrainpoolP256r1", "EciesP256EncryptedKey")>>)
asn_DEF_EndEntityType == BIT_STRING(OerFixed(PerSize(0, 8, 8), 8), SizeIn(8, 8))
asn_DEF_ExplicitCertificate == WithCheck(SEQUENCE(-1, <<
    Limited(Member("version", "Uint8"), OerNumber(PerValue(0, 3, 3), 1, 1), ValueIn(3, 3)),
    Member("type", "CertificateType"), Member("issuer", "IssuerIdentifier"),
    Member("toBeSigned", "ToBeSignedCertificate"), Optional("signature", "Signature")>>), PerNone, OwnCheck)
asn_DEF_HashedData == CHOICE(PerValueExt(0, 0, 0), 1, <<
    Limited(Member("sha256HashedData", "OCTET_STRING"), OerFixed(PerSize(0, 32, 32), 32), SizeIn(32, 32))>>)
asn_DEF_HeaderInfo == SEQUENCE(7, <<
    Member("psid", "Psid"), Optional("generationTime", "Time64"),
    Optional("expiryTime", "Time64"), Optional("generationLocation", "ThreeDLocation"),
    Optional("p2pcdLearningRequest", "HashedId3"),
    Optional("missingCrlIdentifier", "MissingCrlIdentifier"),
    Optional("encryptionKey", "EncryptionKey"),
    Optional("inlineP2pcdRequest", "SequenceOfHashedId3"),
    Optional("requestedCertificate", "Certificate")>>)
asn_DEF_Ieee1609Dot2Content == CHOICE(PerValueExt(2, 0, 3), 4, <<
    Member("unsecuredData", "Opaque"), Pointer("signedData", "SignedData"),
    Member("encryptedData", "EncryptedData"), Member("signedCertificateRequest", "Opaque")>>)
asn_DEF_Ieee1609Dot2Data == SEQUENCE(-1, <<
    Limited(Member("protocolVersion", "Uint8"), OerNumber(PerValue(0, 3, 3), 1, 1), ValueIn(3, 3)),
    Pointer("content", "Ieee1609Dot2Content")>>)
asn_DEF_ImplicitCertificate == WithCheck(SEQUENCE(-1, <<
    Limited(Member("version", "Uint8"), OerNumber(PerValue(0, 3, 3), 1, 1), ValueIn(3, 3)),
    Member("type", "CertificateType"), Member("issuer", "IssuerIdentifier"),
    Member("toBeSigned", "ToBeSignedCertificate"), Optional("signature", "Signature")>>), PerNone, OwnCheck)
asn_DEF_IssuerIdentifier == CHOICE(PerValueExt(1, 0, 1), 2, <<
    Member("sha256AndDigest", "HashedId8"), Member("self", "HashAlgorithm"),
    Member("sha384AndDigest", "HashedId8")>>)
asn_DEF_LinkageData == SEQUENCE(-1, <<
    Member("iCert", "IValue"), Member("linkage-value", "LinkageValue"),
    Optional("group-linkage-value", "GroupLinkageValue")>>)
asn_DEF_MissingCrlIdentifier == SEQUENCE(2, <<
    Member("cracaId", "HashedId3"), Member("crlSeries", "CrlSeries")>>)
asn_DEF_PKRecipientInfo == SEQUENCE(-1, <<
    Member("recipientId", "HashedId8"), Member("encKey", "EncryptedDataEncryptionKey")>>)
asn_DEF_PreSharedKeyRecipientInfo == OCTET_STRING(OerFixed(PerSize(0, 8, 8), 8), SizeIn(8, 8))
asn_DEF_PsidGroupPermissions == SEQUENCE(-1, <<
    Member("subjectPermissions", "SubjectPermissions"),
    OptionalDefault("minChainLength", "NativeInteger", Long(1)),
    Default("chainLengthRange", "NativeInteger", Long(0)), Optional("eeType", "EndEntityType")>>)
asn_DEF_RecipientInfo == CHOICE(PerValue(3, 0, 4), -1, <<
    Member("pskRecipInfo", "PreSharedKeyRecipientInfo"),
    Member("symmRecipInfo", "SymmRecipientInfo"), Member("certRecipInfo", "PKRecipientInfo"),
    Member("signedDataRecipInfo", "PKRecipientInfo"), Member("rekRecipInfo", "PKRecipientInfo")>>)
asn_DEF_SequenceOfCertificate == SEQUENCE_OF(NoPer, Member("", "Certificate"))
asn_DEF_SequenceOfPsidGroupPermissions == SEQUENCE_OF(NoPer, Member("", "PsidGroupPermissions"))
asn_DEF_SequenceOfRecipientInfo == SEQUENCE_OF(NoPer, Member("", "RecipientInfo"))
asn_DEF_SignedData == SEQUENCE(-1, <<
    Member("hashId", "HashAlgorithm"), Pointer("tbsData", "ToBeSignedData"),
    Member("signer", "SignerIdentifier"), Member("signature", "Signature")>>)
asn_DEF_SignedDataPayload == WithCheck(SEQUENCE(2, <<
    Optional("data", "Ieee1609Dot2Data"), Optional("extDataHash", "HashedData")>>), PerNone, SEQUENCE_constraint)
asn_DEF_SignerIdentifier == CHOICE(PerValueExt(2, 0, 2), 3, <<
    Member("digest", "HashedId8"), Member("certificate", "SequenceOfCertificate"),
    Member("self", "NULL")>>)
asn_DEF_SubjectPermissions == CHOICE(PerValueExt(1, 0, 1), 2, <<
    Member("explicit", "SequenceOfPsidSspRange"), Member("all", "NULL")>>)
asn_DEF_SymmRecipientInfo == SEQUENCE(-1, <<
    Member("recipientId", "HashedId8"), Member("encKey", "SymmetricCiphertext")>>)
asn_DEF_SymmetricCiphertext == CHOICE(PerValueExt(0, 0, 0), 1, <<
    Member("aes128ccm", "AesCcmCiphertext")>>)
asn_DEF_ToBeSignedCertificate == WithCheck(SEQUENCE(12, <<
    Member("id", "CertificateId"), Member("cracaId", "HashedId3"),
    Member("crlSeries", "CrlSeries"), Member("validityPeriod", "ValidityPeriod"),
    Optional("region", "GeographicRegion"), Optional("assuranceLevel", "SubjectAssurance"),
    Optional("appPermissions", "SequenceOfPsidSsp"),
    Optional("certIssuePermissions", "SequenceOfPsidGroupPermissions"),
    Optional("certRequestPermissions", "SequenceOfPsidGroupPermissions"),
    Optional("canRequestRollover", "NULL"), Optional("encryptionKey", "PublicEncryptionKey"),
    Member("verifyKeyIndicator", "VerificationKeyIndicator")>>), PerNone, SEQUENCE_constraint)
asn_DEF_ToBeSignedData == SEQUENCE(-1, <<
    Pointer("payload", "SignedDataPayload"), Member("headerInfo", "HeaderInfo")>>)
asn_DEF_VerificationKeyIndicator == CHOICE(PerValueExt(1, 0, 1), 2, <<
    Member("verificationKey", "PublicVerificationKey"),
    Member("reconstructionValue", "EccP256CurvePoint")>>)

-----------------------------------------------------------------------------
Ieee1609Dot2Types ==
    [AesCcmCiphertext |-> asn_DEF_AesCcmCiphertext, Certificate |-> asn_DEF_Certificate,
     CertificateBase |-> asn_DEF_CertificateBase, CertificateId |-> asn_DEF_CertificateId,
     CertificateType |-> asn_DEF_CertificateType, Countersignature |-> asn_DEF_Countersignature,
     EncryptedData |-> asn_DEF_EncryptedData,
     EncryptedDataEncryptionKey |-> asn_DEF_EncryptedDataEncryptionKey,
     EndEntityType |-> asn_DEF_EndEntityType,
     ExplicitCertificate |-> asn_DEF_ExplicitCertificate, HashedData |-> asn_DEF_HashedData,
     HeaderInfo |-> asn_DEF_HeaderInfo, Ieee1609Dot2Content |-> asn_DEF_Ieee1609Dot2Content,
     Ieee1609Dot2Data |-> asn_DEF_Ieee1609Dot2Data,
     ImplicitCertificate |-> asn_DEF_ImplicitCertificate,
     IssuerIdentifier |-> asn_DEF_IssuerIdentifier, LinkageData |-> asn_DEF_LinkageData,
     MissingCrlIdentifier |-> asn_DEF_MissingCrlIdentifier,
     PKRecipientInfo |-> asn_DEF_PKRecipientInfo,
     PreSharedKeyRecipientInfo |-> asn_DEF_PreSharedKeyRecipientInfo,
     PsidGroupPermissions |-> asn_DEF_PsidGroupPermissions,
     RecipientInfo |-> asn_DEF_RecipientInfo,
     SequenceOfCertificate |-> asn_DEF_SequenceOfCertificate,
     SequenceOfPsidGroupPermissions |-> asn_DEF_SequenceOfPsidGroupPermissions,
     SequenceOfRecipientInfo |-> asn_DEF_SequenceOfRecipientInfo,
     SignedData |-> asn_DEF_SignedData, SignedDataPayload |-> asn_DEF_SignedDataPayload,
     SignerIdentifier |-> asn_DEF_SignerIdentifier,
     SubjectPermissions |-> asn_DEF_SubjectPermissions,
     SymmRecipientInfo |-> asn_DEF_SymmRecipientInfo,
     SymmetricCiphertext |-> asn_DEF_SymmetricCiphertext,
     ToBeSignedCertificate |-> asn_DEF_ToBeSignedCertificate,
     ToBeSignedData |-> asn_DEF_ToBeSignedData,
     VerificationKeyIndicator |-> asn_DEF_VerificationKeyIndicator]
=============================================================================
