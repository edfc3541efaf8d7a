----------------------- MODULE Ieee1609Dot2BaseTypes -----------------------
(***************************************************************************)
(* The base types of secured messages (IEEE 1609.2), as generated in       *)
(* src/vanetza-extension/asn1/security; src/vanetza-extension/asn1/pki     *)
(* holds the same files. Each definition is the type descriptor of that    *)
(* name, with its members, PER and OER constraints and constraint          *)
(* function; a type that C declares inside another one carries the name of *)
(* the outer one first.                                                    *)
(***************************************************************************)
EXTENDS AsnDescriptors

asn_DEF_BasePublicEncryptionKey == CHOICE(PerValueExt(1, 0, 1), 2, <<
    Member("eciesNistP256", "EccP256CurvePoint"),
    Member("eciesBrainpoolP256r1", "EccP256CurvePoint")>>)
asn_DEF_BitmapSsp == OCTET_STRING(PerSize(5, 0, 31), SizeIn(0, 31))
asn_DEF_BitmapSspRange == SEQUENCE(-1, <<
    Limited(Member("sspValue", "OCTET_STRING"), PerSize(5, 1, 32), SizeIn(1, 32)),
    Limited(Member("sspBitmask", "OCTET_STRING"), PerSize(5, 1, 32), SizeIn(1, 32))>>)
asn_DEF_CircularRegion == SEQUENCE(-1, <<
    Member("center", "TwoDLocation"), Member("radius", "Uint16")>>)
asn_DEF_CountryAndRegions == SEQUENCE(-1, <<
    Member("countryOnly", "CountryOnly"), Member("regions", "SequenceOfUint8")>>)
asn_DEF_CountryAndSubregions == SEQUENCE(-1, <<
    Member("country", "CountryOnly"),
    Member("regionAndSubregions", "SequenceOfRegionAndSubregions")>>)
asn_DEF_CountryOnly == NativeInteger(OerNumber(PerValue(16, 0, 65535), 2, 1), ValueIn(0, 65535))
asn_DEF_CrlSeries == NativeInteger(OerNumber(PerValue(16, 0, 65535), 2, 1), ValueIn(0, 65535))
asn_DEF_Duration == CHOICE(PerValue(3, 0, 6), -1, <<
    Member("microseconds", "Uint16"), Member("milliseconds", "Uint16"),
    Member("seconds", "Uint16"), Member("minutes", "Uint16"), Member("hours", "Uint16"),
    Member("sixtyHours", "Uint16"), Member("years", "Uint16")>>)
asn_DEF_EccP256CurvePoint_uncompressedP256_6 == SEQUENCE(-1, <<
    Limited(Member("x", "OCTET_STRING"), OerFixed(PerSize(0, 32, 32), 32), SizeIn(32, 32)),
    Limited(Member("y", "OCTET_STRING"), OerFixed(PerSize(0, 32, 32), 32), SizeIn(32, 32))>>)
asn_DEF_EccP256CurvePoint == CHOICE(PerValue(3, 0, 4), -1, <<
    Limited(Member("x-only", "OCTET_STRING"), OerFixed(PerSize(0, 32, 32), 32), SizeIn(32, 32)),
    Member("fill", "NULL"),
    Limited(Member("compressed-y-0", "OCTET_STRING"), OerFixed(PerSize(0, 32, 32), 32), SizeIn(32, 32)),
    Limited(Member("compressed-y-1", "OCTET_STRING"), OerFixed(PerSize(0, 32, 32), 32), SizeIn(32, 32)),
    Member("uncompressedP256", "EccP256CurvePoint_uncompressedP256_6")>>)
asn_DEF_EccP384CurvePoint_uncompressedP384_6 == SEQUENCE(-1, <<
    Limited(Member("x", "OCTET_STRING"), OerFixed(PerSize(0, 48, 48), 48), SizeIn(48, 48)),
    Limited(Member("y", "OCTET_STRING"), OerFixed(PerSize(0, 48, 48), 48), SizeIn(48, 48))>>)
asn_DEF_EccP384CurvePoint == CHOICE(PerValue(3, 0, 4), -1, <<
    Limited(Member("x-only", "OCTET_STRING"), OerFixed(PerSize(0, 48, 48), 48), SizeIn(48, 48)),
    Member("fill", "NULL"),
    Limited(Member("compressed-y-0", "OCTET_STRING"), OerFixed(PerSize(0, 48, 48), 48), SizeIn(48, 48)),
    Limited(Member("compressed-y-1", "OCTET_STRING"), OerFixed(PerSize(0, 48, 48), 48), SizeIn(48, 48)),
    Member("uncompressedP384", "EccP384CurvePoint_uncompressedP384_6")>>)
asn_DEF_EcdsaP256Signature == SEQUENCE(-1, <<
    Member("rSig", "EccP256CurvePoint"),
    Limited(Member("sSig", "OCTET_STRING"), OerFixed(PerSize(0, 32, 32), 32), SizeIn(32, 32))>>)
asn_DEF_EcdsaP384Signature == SEQUENCE(-1, <<
    Member("rSig", "EccP384CurvePoint"),
    Limited(Member("sSig", "OCTET_STRING"), OerFixed(PerSize(0, 48, 48), 48), SizeIn(48, 48))>>)
asn_DEF_EciesP256EncryptedKey == SEQUENCE(-1, <<
    Member("v", "EccP256CurvePoint"),
    Limited(Member("c", "OCTET_STRING"), OerFixed(PerSize(0, 16, 16), 16), SizeIn(16, 16)),
    Limited(Member("t", "OCTET_STRING"), OerFixed(PerSize(0, 16, 16), 16), SizeIn(16, 16))>>)
asn_DEF_ElevInt == NativeInteger(OerNumber(PerValue(16, 0, 65535), 2, 1), ValueIn(0, 65535))
asn_DEF_Elevation == NativeInteger(OerNumber(PerValue(16, 0, 65535), 2, 1), ValueIn(0, 65535))
asn_DEF_EncryptionKey == CHOICE(PerValue(1, 0, 1), -1, <<
    Member("public", "PublicEncryptionKey"), Member("symmetric", "SymmetricEncryptionKey")>>)
asn_DEF_GeographicRegion == CHOICE(PerValueExt(2, 0, 3), 4, <<
    Member("circularRegion", "CircularRegion"),
    Member("rectangularRegion", "SequenceOfRectangularRegion"),
    Member("polygonalRegion", "PolygonalRegion"),
    Member("identifiedRegion", "SequenceOfIdentifiedRegion")>>)
asn_DEF_GroupLinkageValue == SEQUENCE(-1, <<
    Limited(Member("jValue", "OCTET_STRING"), OerFixed(PerSize(0, 4, 4), 4), SizeIn(4, 4)),
    Limited(Member("value", "OCTET_STRING"), OerFixed(PerSize(0, 9, 9), 9), SizeIn(9, 9))>>)
asn_DEF_HashAlgorithm == NativeEnumerated(PerValueExt(0, 0, 0), 2, 2)
asn_DEF_HashedId10 == OCTET_STRING(OerFixed(PerSize(0, 10, 10), 10), SizeIn(10, 10))
asn_DEF_HashedId3 == OCTET_STRING(OerFixed(PerSize(0, 3, 3), 3), SizeIn(3, 3))
asn_DEF_HashedId8 == OCTET_STRING(OerFixed(PerSize(0, 8, 8), 8), SizeIn(8, 8))
asn_DEF_Hostname == OCTET_STRING(PerNone, CharactersIn(0, 255))
asn_DEF_IValue == NativeInteger(OerNumber(PerValue(16, 0, 65535), 2, 1), ValueIn(0, 65535))
asn_DEF_IdentifiedRegion == CHOICE(PerValueExt(2, 0, 2), 3, <<
    Member("countryOnly", "CountryOnly"), Member("countryAndRegions", "CountryAndRegions"),
    Member("countryAndSubregions", "CountryAndSubregions")>>)
asn_DEF_KnownLatitude ==
    NativeInteger(OerNumber(PerValue(31, -900000000, 900000000), 4, 0), ValueIn(-900000000, 900000000))
asn_DEF_KnownLongitude ==
    NativeInteger(OerNumber(PerValue(32, -1799999999, 1800000000), 4, 0), ValueIn(-1799999999, 1800000000))
asn_DEF_LaId == OCTET_STRING(OerFixed(PerSize(0, 2, 2), 2), SizeIn(2, 2))
asn_DEF_Latitude ==
    NativeInteger(OerNumber(PerValue(31, -900000000, 900000001), 4, 0), ValueIn(-900000000, 900000001))
asn_DEF_LinkageSeed == OCTET_STRING(OerFixed(PerSize(0, 16, 16), 16), SizeIn(16, 16))
asn_DEF_LinkageValue == OCTET_STRING(OerFixed(PerSize(0, 9, 9), 9), SizeIn(9, 9))
asn_DEF_Longitude ==
    NativeInteger(OerNumber(PerValue(32, -1799999999, 1800000001), 4, 0), ValueIn(-1799999999, 1800000001))
asn_DEF_NinetyDegreeInt ==
    NativeInteger(OerNumber(PerValue(31, -900000000, 900000001), 4, 0), ValueIn(-900000000, 900000001))
asn_DEF_OneEightyDegreeInt ==
    NativeInteger(OerNumber(PerValue(32, -1799999999, 1800000001), 4, 0), ValueIn(-1799999999, 1800000001))
asn_DEF_Opaque == OCTET_STRING(NoPer, Accepts)
asn_DEF_PolygonalRegion ==
    SEQUENCE_OF(Per(Unconstrained, SemiConstrainedFrom(3)), Member("", "TwoDLocation"))
asn_DEF_Psid == Unsigned(NativeInteger(OerNumber(Per(SemiConstrained, Unconstrained), 0, 1), OwnCheck))
asn_DEF_PsidSsp == SEQUENCE(-1, <<
    Member("psid", "Psid"), Optional("ssp", "ServiceSpecificPermissions")>>)
asn_DEF_PsidSspRange == SEQUENCE(-1, <<
    Member("psid", "Psid"), Optional("sspRange", "SspRange")>>)
asn_DEF_PublicEncryptionKey == SEQUENCE(-1, <<
    Member("supportedSymmAlg", "SymmAlgorithm"), Member("publicKey", "BasePublicEncryptionKey")>>)
asn_DEF_PublicVerificationKey == CHOICE(PerValueExt(1, 0, 1), 2, <<
    Member("ecdsaNistP256", "EccP256CurvePoint"),
    Member("ecdsaBrainpoolP256r1", "EccP256CurvePoint"),
    Member("ecdsaBrainpoolP384r1", "EccP384CurvePoint")>>)
asn_DEF_RectangularRegion == SEQUENCE(-1, <<
    Member("northWest", "TwoDLocation"), Member("southEast", "TwoDLocation")>>)
asn_DEF_RegionAndSubregions == SEQUENCE(-1, <<
    Member("region", "Uint8"), Member("subregions", "SequenceOfUint16")>>)
asn_DEF_SequenceOfHashedId3 == SEQUENCE_OF(NoPer, Member("", "HashedId3"))
asn_DEF_SequenceOfIdentifiedRegion == SEQUENCE_OF(NoPer, Member("", "IdentifiedRegion"))
asn_DEF_SequenceOfOctetString ==
    SEQUENCE_OF(PerSizeSemi, Limited(Member("", "OCTET_STRING"), PerSizeSemi, OwnCheck))
asn_DEF_SequenceOfPsid == SEQUENCE_OF(NoPer, Member("", "Psid"))
asn_DEF_SequenceOfPsidSsp == SEQUENCE_OF(NoPer, Member("", "PsidSsp"))
asn_DEF_SequenceOfPsidSspRange == SEQUENCE_OF(NoPer, Member("", "PsidSspRange"))
asn_DEF_SequenceOfRectangularRegion == SEQUENCE_OF(NoPer, Member("", "RectangularRegion"))
asn_DEF_SequenceOfRegionAndSubregions == SEQUENCE_OF(NoPer, Member("", "RegionAndSubregions"))
asn_DEF_SequenceOfUint16 == SEQUENCE_OF(NoPer, Member("", "Uint16"))
asn_DEF_SequenceOfUint8 == SEQUENCE_OF(NoPer, Member("", "Uint8"))
asn_DEF_ServiceSpecificPermissions == CHOICE(PerValueExt(0, 0, 0), 1, <<
    Limited(Member("opaque", "OCTET_STRING"), PerSizeSemi, OwnCheck),
    Member("bitmapSsp", "BitmapSsp")>>)
asn_DEF_Signature == CHOICE(PerValueExt(1, 0, 1), 2, <<
    Member("ecdsaNistP256Signature", "EcdsaP256Signature"),
    Member("ecdsaBrainpoolP256r1Signature", "EcdsaP256Signature"),
    Member("ecdsaBrainpoolP384r1Signature", "EcdsaP384Signature")>>)
asn_DEF_SspRange == CHOICE(PerValueExt(1, 0, 1), 2, <<
    Member("opaque", "SequenceOfOctetString"), Member("all", "NULL"),
    Member("bitmapSspRange", "BitmapSspRange")>>)
asn_DEF_SubjectAssurance == OCTET_STRING(OerFixed(PerSize(0, 1, 1), 1), SizeIn(1, 1))
asn_DEF_SymmAlgorithm == NativeEnumerated(PerValueExt(0, 0, 0), 1, 2)
asn_DEF_SymmetricEncryptionKey == CHOICE(PerValueExt(0, 0, 0), 1, <<
    Limited(Member("aes128Ccm", "OCTET_STRING"), OerFixed(PerSize(0, 16, 16), 16), SizeIn(16, 16))>>)
asn_DEF_ThreeDLocation == SEQUENCE(-1, <<
    Member("latitude", "Latitude"), Member("longitude", "Longitude"),
    Member("elevation", "Elevation")>>)
asn_DEF_Time32 ==
    Unsigned(NativeInteger(OerNumber(PerValueLong(32, <<0, 0, 0>>, <<0, 255, 16777215>>), 4, 1), Accepts))
asn_DEF_Time64 ==
    INTEGER(OerNumber(PerValue(64, 0, -1), 8, 1), ValueInLong(Long(0), LONG_MAX))
asn_DEF_TwoDLocation == SEQUENCE(-1, <<
    Member("latitude", "Latitude"), Member("longitude", "Longitude")>>)
asn_DEF_Uint16 == NativeInteger(OerNumber(PerValue(16, 0, 65535), 2, 1), ValueIn(0, 65535))
asn_DEF_Uint3 == NativeInteger(OerNumber(PerValue(3, 0, 7), 1, 1), ValueIn(0, 7))
asn_DEF_Uint32 ==
    Unsigned(NativeInteger(OerNumber(PerValueLong(32, <<0, 0, 0>>, <<0, 255, 16777215>>), 4, 1), Accepts))
asn_DEF_Uint64 ==
    INTEGER(OerNumber(PerValue(64, 0, -1), 8, 1), ValueInLong(Long(0), LONG_MAX))
asn_DEF_Uint8 == NativeInteger(OerNumber(PerValue(8, 0, 255), 1, 1), ValueIn(0, 255))
asn_DEF_UnknownLatitude ==
    NativeInteger(OerNumber(PerValue(0, 900000001, 900000001), 4, 1), ValueIn(900000001, 900000001))
asn_DEF_UnknownLongitude ==
    NativeInteger(OerNumber(PerValue(0, 1800000001, 1800000001), 4, 1), ValueIn(1800000001, 1800000001))
asn_DEF_ValidityPeriod == SEQUENCE(-1, <<
    Member("start", "Time32"), Member("duration", "Duration")>>)

-----------------------------------------------------------------------------
Ieee1609Dot2BaseTypesTypes ==
    [BasePublicEncryptionKey |-> asn_DEF_BasePublicEncryptionKey,
     BitmapSsp |-> asn_DEF_BitmapSsp, BitmapSspRange |-> asn_DEF_BitmapSspRange,
     CircularRegion |-> asn_DEF_CircularRegion, CountryAndRegions |-> asn_DEF_CountryAndRegions,
     CountryAndSubregions |-> asn_DEF_CountryAndSubregions, CountryOnly |-> asn_DEF_CountryOnly,
     CrlSeries |-> asn_DEF_CrlSeries, Duration |-> asn_DEF_Duration,
     EccP256CurvePoint_uncompressedP256_6 |-> asn_DEF_EccP256CurvePoint_uncompressedP256_6,
     EccP256CurvePoint |-> asn_DEF_EccP256CurvePoint,
     EccP384CurvePoint_uncompressedP384_6 |-> asn_DEF_EccP384CurvePoint_uncompressedP384_6,
     EccP384CurvePoint |-> asn_DEF_EccP384CurvePoint,
     EcdsaP256Signature |-> asn_DEF_EcdsaP256Signature,
     EcdsaP384Signature |-> asn_DEF_EcdsaP384Signature,
     EciesP256EncryptedKey |-> asn_DEF_EciesP256EncryptedKey, ElevInt |-> asn_DEF_ElevInt,
     Elevation |-> asn_DEF_Elevation, EncryptionKey |-> asn_DEF_EncryptionKey,
     GeographicRegion |-> asn_DEF_GeographicRegion,
     GroupLinkageValue |-> asn_DEF_GroupLinkageValue, HashAlgorithm |-> asn_DEF_HashAlgorithm,
     HashedId10 |-> asn_DEF_HashedId10, HashedId3 |-> asn_DEF_HashedId3,
     HashedId8 |-> asn_DEF_HashedId8, Hostname |-> asn_DEF_Hostname, IValue |-> asn_DEF_IValue,
     IdentifiedRegion |-> asn_DEF_IdentifiedRegion, KnownLatitude |-> asn_DEF_KnownLatitude,
     KnownLongitude |-> asn_DEF_KnownLongitude, LaId |-> asn_DEF_LaId,
     Latitude |-> asn_DEF_Latitude, LinkageSeed |-> asn_DEF_LinkageSeed,
     LinkageValue |-> asn_DEF_LinkageValue, Longitude |-> asn_DEF_Longitude,
     NinetyDegreeInt |-> asn_DEF_NinetyDegreeInt,
     OneEightyDegreeInt |-> asn_DEF_OneEightyDegreeInt, Opaque |-> asn_DEF_Opaque,
     PolygonalRegion |-> asn_DEF_PolygonalRegion, Psid |-> asn_DEF_Psid,
     PsidSsp |-> asn_DEF_PsidSsp, PsidSspRange |-> asn_DEF_PsidSspRange,
     PublicEncryptionKey |-> asn_DEF_PublicEncryptionKey,
     PublicVerificationKey |-> asn_DEF_PublicVerificationKey,
     RectangularRegion |-> asn_DEF_RectangularRegion,
     RegionAndSubregions |-> asn_DEF_RegionAndSubregions,
     SequenceOfHashedId3 |-> asn_DEF_SequenceOfHashedId3,
     SequenceOfIdentifiedRegion |-> asn_DEF_SequenceOfIdentifiedRegion,
     SequenceOfOctetString |-> asn_DEF_SequenceOfOctetString,
     SequenceOfPsid |-> asn_DEF_SequenceOfPsid, SequenceOfPsidSsp |-> asn_DEF_SequenceOfPsidSsp,
     SequenceOfPsidSspRange |-> asn_DEF_SequenceOfPsidSspRange,
     SequenceOfRectangularRegion |-> asn_DEF_SequenceOfRectangularRegion,
     SequenceOfRegionAndSubregions |-> asn_DEF_SequenceOfRegionAndSubregions,
     SequenceOfUint16 |-> asn_DEF_SequenceOfUint16, SequenceOfUint8 |-> asn_DEF_SequenceOfUint8,
     ServiceSpecificPermissions |-> asn_DEF_ServiceSpecificPermissions,
     Signature |-> asn_DEF_Signature, SspRange |-> asn_DEF_SspRange,
     SubjectAssurance |-> asn_DEF_SubjectAssurance, SymmAlgorithm |-> asn_DEF_SymmAlgorithm,
     SymmetricEncryptionKey |-> asn_DEF_SymmetricEncryptionKey,
     ThreeDLocation |-> asn_DEF_ThreeDLocation, Time32 |-> asn_DEF_Time32,
     Time64 |-> asn_DEF_Time64, TwoDLocation |-> asn_DEF_TwoDLocation,
     Uint16 |-> asn_DEF_Uint16, Uint3 |-> asn_DEF_Uint3, Uint32 |-> asn_DEF_Uint32,
     Uint64 |-> asn_DEF_Uint64, Uint8 |-> asn_DEF_Uint8,
     UnknownLatitude |-> asn_DEF_UnknownLatitude, UnknownLongitude |-> asn_DEF_UnknownLongitude,
     ValidityPeriod |-> asn_DEF_ValidityPeriod]
=============================================================================
