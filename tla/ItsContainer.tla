---------------------------- MODULE ItsContainer ----------------------------
(***************************************************************************)
(* The data elements and frames of ITS-Container (ETSI TS 102 894-2), as   *)
(* generated in src/vanetza-extension/asn1/its. Each definition is the     *)
(* type descriptor of that name, with its members, PER constraints and     *)
(* constraint function; a type that C declares inside another one carries  *)
(* the name of the outer one first.                                        *)
(***************************************************************************)
EXTENDS AsnDescriptors

asn_DEF_AccelerationConfidence == NativeInteger(PerValue(7, 0, 102), ValueIn(0, 102))
asn_DEF_AccelerationControl == BIT_STRING(PerSize(0, 7, 7), SizeIn(7, 7))
asn_DEF_AccidentSubCauseCode == NativeInteger(PerValue(8, 0, 255), ValueIn(0, 255))
asn_DEF_ActionID == SEQUENCE(-1, <<
    Member("originatingStationID", "StationID"), Member("sequenceNumber", "SequenceNumber")>>)
asn_DEF_AdverseWeatherCondition_AdhesionSubCauseCode ==
    NativeInteger(PerValue(8, 0, 255), ValueIn(0, 255))
asn_DEF_AdverseWeatherCondition_ExtremeWeatherConditionSubCauseCode ==
    NativeInteger(PerValue(8, 0, 255), ValueIn(0, 255))
asn_DEF_AdverseWeatherCondition_PrecipitationSubCauseCode ==
    NativeInteger(PerValue(8, 0, 255), ValueIn(0, 255))
asn_DEF_AdverseWeatherCondition_VisibilitySubCauseCode ==
    NativeInteger(PerValue(8, 0, 255), ValueIn(0, 255))
asn_DEF_Altitude == SEQUENCE(-1, <<
    Member("altitudeValue", "AltitudeValue"), Member("altitudeConfidence", "AltitudeConfidence")>>)
asn_DEF_AltitudeConfidence == NativeEnumerated(PerValue(4, 0, 15), 16, 0)
asn_DEF_AltitudeValue == NativeInteger(PerValue(20, -100000, 800001), ValueIn(-100000, 800001))
asn_DEF_CauseCode == SEQUENCE(2, <<
    Member("causeCode", "CauseCodeType"), Member("subCauseCode", "SubCauseCodeType")>>)
asn_DEF_CauseCodeType == NativeInteger(PerValue(8, 0, 255), ValueIn(0, 255))
asn_DEF_CenDsrcTollingZone == SEQUENCE(3, <<
    Member("protectedZoneLatitude", "Latitude"), Member("protectedZoneLongitude", "Longitude"),
    Optional("cenDsrcTollingZoneID", "CenDsrcTollingZoneID")>>)
asn_DEF_CenDsrcTollingZoneID == NativeInteger(PerValue(27, 0, 134217727), ValueIn(0, 134217727))
asn_DEF_ClosedLanes == SEQUENCE(3, <<
    Optional("innerhardShoulderStatus", "HardShoulderStatus"),
    Optional("outerhardShoulderStatus", "HardShoulderStatus"),
    Optional("drivingLaneStatus", "DrivingLaneStatus")>>)
asn_DEF_CollisionRiskSubCauseCode == NativeInteger(PerValue(8, 0, 255), ValueIn(0, 255))
asn_DEF_Curvature == SEQUENCE(-1, <<
    Member("curvatureValue", "CurvatureValue"),
    Member("curvatureConfidence", "CurvatureConfidence")>>)
asn_DEF_CurvatureCalculationMode == NativeEnumerated(PerValueExt(2, 0, 2), 3, 4)
asn_DEF_CurvatureConfidence == NativeEnumerated(PerValue(3, 0, 7), 8, 0)
asn_DEF_CurvatureValue == NativeInteger(PerValue(11, -1023, 1023), ValueIn(-1023, 1023))
asn_DEF_DangerousEndOfQueueSubCauseCode == NativeInteger(PerValue(8, 0, 255), ValueIn(0, 255))
asn_DEF_DangerousGoodsBasic == NativeEnumerated(PerValue(5, 0, 19), 20, 0)
asn_DEF_DangerousGoodsExtended == SEQUENCE(8, <<
    Member("dangerousGoodsType", "DangerousGoodsBasic"),
    Limited(Member("unNumber", "NativeInteger"), PerValue(14, 0, 9999), ValueIn(0, 9999)),
    Member("elevatedTemperature", "BOOLEAN"), Member("tunnelsRestricted", "BOOLEAN"),
    Member("limitedQuantity", "BOOLEAN"),
    Limited(Optional("emergencyActionCode", "IA5String"), Per(Constrained(7, 0, 127), Constrained(5, 1, 24)), SizeInFrom(1, 24, IA5Characters)),
    Optional("phoneNumber", "PhoneNumber"),
    Limited(Optional("companyName", "UTF8String"), PerNone, CharactersIn(1, 24))>>)
asn_DEF_DangerousSituationSubCauseCode == NativeInteger(PerValue(8, 0, 255), ValueIn(0, 255))
asn_DEF_DeltaAltitude == NativeInteger(PerValue(15, -12700, 12800), ValueIn(-12700, 12800))
asn_DEF_DeltaLatitude == NativeInteger(PerValue(18, -131071, 131072), ValueIn(-131071, 131072))
asn_DEF_DeltaLongitude == NativeInteger(PerValue(18, -131071, 131072), ValueIn(-131071, 131072))
asn_DEF_DeltaReferencePosition == SEQUENCE(-1, <<
    Member("deltaLatitude", "DeltaLatitude"), Member("deltaLongitude", "DeltaLongitude"),
    Member("deltaAltitude", "DeltaAltitude")>>)
asn_DEF_DigitalMap == SEQUENCE_OF(PerSize(8, 1, 256), Member("", "ReferencePosition"))
asn_DEF_DriveDirection == NativeEnumerated(PerValue(2, 0, 2), 3, 0)
asn_DEF_DrivingLaneStatus == BIT_STRING(PerSize(4, 1, 13), SizeIn(1, 13))
asn_DEF_EmbarkationStatus == BOOLEAN_t
asn_DEF_EmergencyPriority == BIT_STRING(PerSize(0, 2, 2), SizeIn(2, 2))
asn_DEF_EmergencyVehicleApproachingSubCauseCode ==
    NativeInteger(PerValue(8, 0, 255), ValueIn(0, 255))
asn_DEF_EnergyStorageType == BIT_STRING(PerSize(0, 7, 7), SizeIn(7, 7))
asn_DEF_EventHistory == SEQUENCE_OF(PerSize(5, 1, 23), Member("", "EventPoint"))
asn_DEF_EventPoint == SEQUENCE(-1, <<
    Member("eventPosition", "DeltaReferencePosition"),
    Optional("eventDeltaTime", "PathDeltaTime"),
    Member("informationQuality", "InformationQuality")>>)
asn_DEF_ExteriorLights == BIT_STRING(PerSize(0, 8, 8), SizeIn(8, 8))
asn_DEF_HardShoulderStatus == NativeEnumerated(PerValue(2, 0, 2), 3, 0)
asn_DEF_HazardousLocation_AnimalOnTheRoadSubCauseCode ==
    NativeInteger(PerValue(8, 0, 255), ValueIn(0, 255))
asn_DEF_HazardousLocation_DangerousCurveSubCauseCode ==
    NativeInteger(PerValue(8, 0, 255), ValueIn(0, 255))
asn_DEF_HazardousLocation_ObstacleOnTheRoadSubCauseCode ==
    NativeInteger(PerValue(8, 0, 255), ValueIn(0, 255))
asn_DEF_HazardousLocation_SurfaceConditionSubCauseCode ==
    NativeInteger(PerValue(8, 0, 255), ValueIn(0, 255))
asn_DEF_Heading == SEQUENCE(-1, <<
    Member("headingValue", "HeadingValue"), Member("headingConfidence", "HeadingConfidence")>>)
asn_DEF_HeadingConfidence == NativeInteger(PerValue(7, 1, 127), ValueIn(1, 127))
asn_DEF_HeadingValue == NativeInteger(PerValue(12, 0, 3601), ValueIn(0, 3601))
asn_DEF_HeightLonCarr == NativeInteger(PerValue(7, 1, 100), ValueIn(1, 100))
asn_DEF_HumanPresenceOnTheRoadSubCauseCode ==
    NativeInteger(PerValue(8, 0, 255), ValueIn(0, 255))
asn_DEF_HumanProblemSubCauseCode == NativeInteger(PerValue(8, 0, 255), ValueIn(0, 255))
asn_DEF_InformationQuality == NativeInteger(PerValue(3, 0, 7), ValueIn(0, 7))
asn_DEF_ItineraryPath == SEQUENCE_OF(PerSize(6, 1, 40), Member("", "ReferencePosition"))
asn_DEF_ItsPduHeader == SEQUENCE(-1, <<
    Limited(Member("protocolVersion", "NativeInteger"), PerValue(8, 0, 255), ValueIn(0, 255)),
    Limited(Member("messageID", "NativeInteger"), PerValue(8, 0, 255), ValueIn(0, 255)),
    Member("stationID", "StationID")>>)
asn_DEF_LanePosition == NativeInteger(PerValue(4, -1, 14), ValueIn(-1, 14))
asn_DEF_LateralAcceleration == SEQUENCE(-1, <<
    Member("lateralAccelerationValue", "LateralAccelerationValue"),
    Member("lateralAccelerationConfidence", "AccelerationConfidence")>>)
asn_DEF_LateralAccelerationValue == NativeInteger(PerValue(9, -160, 161), ValueIn(-160, 161))
(* WRONG variant: the constraint function does not know "unavailable" *)
asn_DEF_Latitude_known ==
    NativeInteger(PerValue(31, -900000000, 900000001), ValueIn(-900000000, 900000000))
asn_DEF_Latitude ==
    NativeInteger(PerValue(31, -900000000, 900000001), ValueIn(-900000000, 900000001))
asn_DEF_LightBarSirenInUse == BIT_STRING(PerSize(0, 2, 2), SizeIn(2, 2))
asn_DEF_Longitude ==
    NativeInteger(PerValue(32, -1800000000, 1800000001), ValueIn(-1800000000, 1800000001))
asn_DEF_LongitudinalAcceleration == SEQUENCE(-1, <<
    Member("longitudinalAccelerationValue", "LongitudinalAccelerationValue"),
    Member("longitudinalAccelerationConfidence", "AccelerationConfidence")>>)
asn_DEF_LongitudinalAccelerationValue ==
    NativeInteger(PerValue(9, -160, 161), ValueIn(-160, 161))
asn_DEF_NumberOfOccupants == NativeInteger(PerValue(7, 0, 127), ValueIn(0, 127))
asn_DEF_OpeningDaysHours == OCTET_STRING(NoPer, UTF8String_constraint)
asn_DEF_PathDeltaTime == NativeInteger(PerValueExt(16, 1, 65535), ValueIn(1, 65535))
asn_DEF_PathHistory == SEQUENCE_OF(PerSize(6, 0, 40), Member("", "PathPoint"))
asn_DEF_PathPoint == SEQUENCE(-1, <<
    Member("pathPosition", "DeltaReferencePosition"), Optional("pathDeltaTime", "PathDeltaTime")>>)
asn_DEF_PerformanceClass == NativeInteger(PerValue(3, 0, 7), ValueIn(0, 7))
asn_DEF_PhoneNumber ==
    OCTET_STRING(PerAlphabet(Constrained(4, 32, 57), Constrained(4, 1, 16), <<32>> \o [i \in 1 .. 10 |-> 47 + i]), SizeInFrom(1, 16, NumericCharacters))
asn_DEF_PosCentMass == NativeInteger(PerValue(6, 1, 63), ValueIn(1, 63))
asn_DEF_PosConfidenceEllipse == SEQUENCE(-1, <<
    Member("semiMajorConfidence", "SemiAxisLength"),
    Member("semiMinorConfidence", "SemiAxisLength"),
    Member("semiMajorOrientation", "HeadingValue")>>)
asn_DEF_PosFrontAx == NativeInteger(PerValue(5, 1, 20), ValueIn(1, 20))
asn_DEF_PosLonCarr == NativeInteger(PerValue(7, 1, 127), ValueIn(1, 127))
asn_DEF_PosPillar == NativeInteger(PerValue(5, 1, 30), ValueIn(1, 30))
asn_DEF_PositionOfOccupants == BIT_STRING(PerSize(0, 20, 20), SizeIn(20, 20))
asn_DEF_PositionOfPillars == SEQUENCE_OF(PerSizeExt(2, 1, 3), Member("", "PosPillar"))
asn_DEF_PositioningSolutionType == NativeEnumerated(PerValueExt(3, 0, 5), 6, 7)
asn_DEF_PostCrashSubCauseCode == NativeInteger(PerValue(8, 0, 255), ValueIn(0, 255))
asn_DEF_ProtectedCommunicationZone == SEQUENCE(6, <<
    Member("protectedZoneType", "ProtectedZoneType"), Optional("expiryTime", "TimestampIts"),
    Member("protectedZoneLatitude", "Latitude"), Member("protectedZoneLongitude", "Longitude"),
    Optional("protectedZoneRadius", "ProtectedZoneRadius"),
    Optional("protectedZoneID", "ProtectedZoneID")>>)
asn_DEF_ProtectedCommunicationZonesRSU ==
    SEQUENCE_OF(PerSize(4, 1, 16), Member("", "ProtectedCommunicationZone"))
asn_DEF_ProtectedZoneID == NativeInteger(PerValue(27, 0, 134217727), ValueIn(0, 134217727))
asn_DEF_ProtectedZoneRadius == NativeInteger(PerValueExt(8, 1, 255), ValueIn(1, 255))
asn_DEF_ProtectedZoneType == NativeEnumerated(PerValueExt(0, 0, 0), 2, 2)
asn_DEF_PtActivation == SEQUENCE(-1, <<
    Member("ptActivationType", "PtActivationType"),
    Member("ptActivationData", "PtActivationData")>>)
asn_DEF_PtActivationData == OCTET_STRING(PerSize(5, 1, 20), SizeIn(1, 20))
asn_DEF_PtActivationType == NativeInteger(PerValue(8, 0, 255), ValueIn(0, 255))
asn_DEF_ReferencePosition == SEQUENCE(-1, <<
    Member("latitude", "Latitude"), Member("longitude", "Longitude"),
    Member("positionConfidenceEllipse", "PosConfidenceEllipse"), Member("altitude", "Altitude")>>)
asn_DEF_RelevanceDistance == NativeEnumerated(PerValue(3, 0, 7), 8, 0)
asn_DEF_RelevanceTrafficDirection == NativeEnumerated(PerValue(2, 0, 3), 4, 0)
asn_DEF_RequestResponseIndication == NativeEnumerated(PerValue(1, 0, 1), 2, 0)
asn_DEF_RescueAndRecoveryWorkInProgressSubCauseCode ==
    NativeInteger(PerValue(8, 0, 255), ValueIn(0, 255))
asn_DEF_RestrictedTypes == SEQUENCE_OF(PerSizeExt(2, 1, 3), Member("", "StationType"))
asn_DEF_RoadType == NativeEnumerated(PerValue(2, 0, 3), 4, 0)
asn_DEF_RoadworksSubCauseCode == NativeInteger(PerValue(8, 0, 255), ValueIn(0, 255))
asn_DEF_SemiAxisLength == NativeInteger(PerValue(12, 0, 4095), ValueIn(0, 4095))
asn_DEF_SequenceNumber == NativeInteger(PerValue(16, 0, 65535), ValueIn(0, 65535))
asn_DEF_SignalViolationSubCauseCode == NativeInteger(PerValue(8, 0, 255), ValueIn(0, 255))
asn_DEF_SlowVehicleSubCauseCode == NativeInteger(PerValue(8, 0, 255), ValueIn(0, 255))
asn_DEF_SpecialTransportType == BIT_STRING(PerSize(0, 4, 4), SizeIn(4, 4))
asn_DEF_Speed == SEQUENCE(-1, <<
    Member("speedValue", "SpeedValue"), Member("speedConfidence", "SpeedConfidence")>>)
asn_DEF_SpeedConfidence == NativeInteger(PerValue(7, 1, 127), ValueIn(1, 127))
asn_DEF_SpeedLimit == NativeInteger(PerValue(8, 1, 255), ValueIn(1, 255))
asn_DEF_SpeedValue == NativeInteger(PerValue(14, 0, 16383), ValueIn(0, 16383))
asn_DEF_StationID ==
    Unsigned(NativeInteger(PerValueLong(32, <<0, 0, 0>>, <<0, 255, 16777215>>), Accepts))
asn_DEF_StationType == NativeInteger(PerValue(8, 0, 255), ValueIn(0, 255))
asn_DEF_StationarySince == NativeEnumerated(PerValue(2, 0, 3), 4, 0)
asn_DEF_StationaryVehicleSubCauseCode == NativeInteger(PerValue(8, 0, 255), ValueIn(0, 255))
asn_DEF_SteeringWheelAngle == SEQUENCE(-1, <<
    Member("steeringWheelAngleValue", "SteeringWheelAngleValue"),
    Member("steeringWheelAngleConfidence", "SteeringWheelAngleConfidence")>>)
asn_DEF_SteeringWheelAngleConfidence == NativeInteger(PerValue(7, 1, 127), ValueIn(1, 127))
asn_DEF_SteeringWheelAngleValue == NativeInteger(PerValue(10, -511, 512), ValueIn(-511, 512))
asn_DEF_SubCauseCodeType == NativeInteger(PerValue(8, 0, 255), ValueIn(0, 255))
asn_DEF_Temperature == NativeInteger(PerValue(7, -60, 67), ValueIn(-60, 67))
asn_DEF_TimestampIts ==
    INTEGER(PerValueLong(42, <<0, 0, 0>>, <<0, 262143, 16777215>>), ValueInLong(<<0, 0, 0>>, <<0, 262143, 16777215>>))
asn_DEF_Traces == SEQUENCE_OF(PerSize(3, 1, 7), Member("", "PathHistory"))
asn_DEF_TrafficConditionSubCauseCode == NativeInteger(PerValue(8, 0, 255), ValueIn(0, 255))
asn_DEF_TrafficRule == NativeEnumerated(PerValueExt(2, 0, 3), 4, 5)
asn_DEF_TransmissionInterval == NativeInteger(PerValue(14, 1, 10000), ValueIn(1, 10000))
asn_DEF_TurningRadius == NativeInteger(PerValue(8, 1, 255), ValueIn(1, 255))
asn_DEF_VDS ==
    OCTET_STRING(Per(Constrained(7, 0, 127), Constrained(0, 6, 6)), SizeInFrom(6, 6, IA5Characters))
asn_DEF_ValidityDuration == NativeInteger(PerValue(17, 0, 86400), ValueIn(0, 86400))
asn_DEF_VehicleBreakdownSubCauseCode == NativeInteger(PerValue(8, 0, 255), ValueIn(0, 255))
asn_DEF_VehicleIdentification == SEQUENCE(2, <<
    Optional("wMInumber", "WMInumber"), Optional("vDS", "VDS")>>)
asn_DEF_VehicleLength == SEQUENCE(-1, <<
    Member("vehicleLengthValue", "VehicleLengthValue"),
    Member("vehicleLengthConfidenceIndication", "VehicleLengthConfidenceIndication")>>)
asn_DEF_VehicleLengthConfidenceIndication == NativeEnumerated(PerValue(3, 0, 4), 5, 0)
asn_DEF_VehicleLengthValue == NativeInteger(PerValue(10, 1, 1023), ValueIn(1, 1023))
asn_DEF_VehicleMass == NativeInteger(PerValue(10, 1, 1024), ValueIn(1, 1024))
asn_DEF_VehicleRole == NativeEnumerated(PerValue(4, 0, 15), 16, 0)
asn_DEF_VehicleWidth == NativeInteger(PerValue(6, 1, 62), ValueIn(1, 62))
asn_DEF_VerticalAcceleration == SEQUENCE(-1, <<
    Member("verticalAccelerationValue", "VerticalAccelerationValue"),
    Member("verticalAccelerationConfidence", "AccelerationConfidence")>>)
asn_DEF_VerticalAccelerationValue == NativeInteger(PerValue(9, -160, 161), ValueIn(-160, 161))
asn_DEF_WMInumber ==
    OCTET_STRING(Per(Constrained(7, 0, 127), Constrained(2, 1, 3)), SizeInFrom(1, 3, IA5Characters))
asn_DEF_WheelBaseVehicle == NativeInteger(PerValue(7, 1, 127), ValueIn(1, 127))
asn_DEF_WrongWayDrivingSubCauseCode == NativeInteger(PerValue(8, 0, 255), ValueIn(0, 255))
asn_DEF_YawRate == SEQUENCE(-1, <<
    Member("yawRateValue", "YawRateValue"), Member("yawRateConfidence", "YawRateConfidence")>>)
asn_DEF_YawRateConfidence == NativeEnumerated(PerValue(4, 0, 8), 9, 0)
asn_DEF_YawRateValue == NativeInteger(PerValue(16, -32766, 32767), ValueIn(-32766, 32767))

-----------------------------------------------------------------------------
ItsContainerTypes ==
    [AccelerationConfidence |-> asn_DEF_AccelerationConfidence,
     AccelerationControl |-> asn_DEF_AccelerationControl,
     AccidentSubCauseCode |-> asn_DEF_AccidentSubCauseCode, ActionID |-> asn_DEF_ActionID,
     AdverseWeatherCondition_AdhesionSubCauseCode |-> asn_DEF_AdverseWeatherCondition_AdhesionSubCauseCode,
     AdverseWeatherCondition_ExtremeWeatherConditionSubCauseCode |-> asn_DEF_AdverseWeatherCondition_ExtremeWeatherConditionSubCauseCode,
     AdverseWeatherCondition_PrecipitationSubCauseCode |-> asn_DEF_AdverseWeatherCondition_PrecipitationSubCauseCode,
     AdverseWeatherCondition_VisibilitySubCauseCode |-> asn_DEF_AdverseWeatherCondition_VisibilitySubCauseCode,
     Altitude |-> asn_DEF_Altitude, AltitudeConfidence |-> asn_DEF_AltitudeConfidence,
     AltitudeValue |-> asn_DEF_AltitudeValue, CauseCode |-> asn_DEF_CauseCode,
     CauseCodeType |-> asn_DEF_CauseCodeType, CenDsrcTollingZone |-> asn_DEF_CenDsrcTollingZone,
     CenDsrcTollingZoneID |-> asn_DEF_CenDsrcTollingZoneID, ClosedLanes |-> asn_DEF_ClosedLanes,
     CollisionRiskSubCauseCode |-> asn_DEF_CollisionRiskSubCauseCode,
     Curvature |-> asn_DEF_Curvature,
     CurvatureCalculationMode |-> asn_DEF_CurvatureCalculationMode,
     CurvatureConfidence |-> asn_DEF_CurvatureConfidence,
     CurvatureValue |-> asn_DEF_CurvatureValue,
     DangerousEndOfQueueSubCauseCode |-> asn_DEF_DangerousEndOfQueueSubCauseCode,
     DangerousGoodsBasic |-> asn_DEF_DangerousGoodsBasic,
     DangerousGoodsExtended |-> asn_DEF_DangerousGoodsExtended,
     DangerousSituationSubCauseCode |-> asn_DEF_DangerousSituationSubCauseCode,
     DeltaAltitude |-> asn_DEF_DeltaAltitude, DeltaLatitude |-> asn_DEF_DeltaLatitude,
     DeltaLongitude |-> asn_DEF_DeltaLongitude,
     DeltaReferencePosition |-> asn_DEF_DeltaReferencePosition,
     DigitalMap |-> asn_DEF_DigitalMap, DriveDirection |-> asn_DEF_DriveDirection,
     DrivingLaneStatus |-> asn_DEF_DrivingLaneStatus,
     EmbarkationStatus |-> asn_DEF_EmbarkationStatus,
     EmergencyPriority |-> asn_DEF_EmergencyPriority,
     EmergencyVehicleApproachingSubCauseCode |-> asn_DEF_EmergencyVehicleApproachingSubCauseCode,
     EnergyStorageType |-> asn_DEF_EnergyStorageType, EventHistory |-> asn_DEF_EventHistory,
     EventPoint |-> asn_DEF_EventPoint, ExteriorLights |-> asn_DEF_ExteriorLights,
     HardShoulderStatus |-> asn_DEF_HardShoulderStatus,
     HazardousLocation_AnimalOnTheRoadSubCauseCode |-> asn_DEF_HazardousLocation_AnimalOnTheRoadSubCauseCode,
     HazardousLocation_DangerousCurveSubCauseCode |-> asn_DEF_HazardousLocation_DangerousCurveSubCauseCode,
     HazardousLocation_ObstacleOnTheRoadSubCauseCode |-> asn_DEF_HazardousLocation_ObstacleOnTheRoadSubCauseCode,
     HazardousLocation_SurfaceConditionSubCauseCode |-> asn_DEF_HazardousLocation_SurfaceConditionSubCauseCode,
     Heading |-> asn_DEF_Heading, HeadingConfidence |-> asn_DEF_HeadingConfidence,
     HeadingValue |-> asn_DEF_HeadingValue, HeightLonCarr |-> asn_DEF_HeightLonCarr,
     HumanPresenceOnTheRoadSubCauseCode |-> asn_DEF_HumanPresenceOnTheRoadSubCauseCode,
     HumanProblemSubCauseCode |-> asn_DEF_HumanProblemSubCauseCode,
     InformationQuality |-> asn_DEF_InformationQuality, ItineraryPath |-> asn_DEF_ItineraryPath,
     ItsPduHeader |-> asn_DEF_ItsPduHeader, LanePosition |-> asn_DEF_LanePosition,
     LateralAcceleration |-> asn_DEF_LateralAcceleration,
     LateralAccelerationValue |-> asn_DEF_LateralAccelerationValue,
     Latitude |-> asn_DEF_Latitude, LightBarSirenInUse |-> asn_DEF_LightBarSirenInUse,
     Longitude |-> asn_DEF_Longitude,
     LongitudinalAcceleration |-> asn_DEF_LongitudinalAcceleration,
     LongitudinalAccelerationValue |-> asn_DEF_LongitudinalAccelerationValue,
     NumberOfOccupants |-> asn_DEF_NumberOfOccupants,
     OpeningDaysHours |-> asn_DEF_OpeningDaysHours, PathDeltaTime |-> asn_DEF_PathDeltaTime,
     PathHistory |-> asn_DEF_PathHistory, PathPoint |-> asn_DEF_PathPoint,
     PerformanceClass |-> asn_DEF_PerformanceClass, PhoneNumber |-> asn_DEF_PhoneNumber,
     PosCentMass |-> asn_DEF_PosCentMass, PosConfidenceEllipse |-> asn_DEF_PosConfidenceEllipse,
     PosFrontAx |-> asn_DEF_PosFrontAx, PosLonCarr |-> asn_DEF_PosLonCarr,
     PosPillar |-> asn_DEF_PosPillar, PositionOfOccupants |-> asn_DEF_PositionOfOccupants,
     PositionOfPillars |-> asn_DEF_PositionOfPillars,
     PositioningSolutionType |-> asn_DEF_PositioningSolutionType,
     PostCrashSubCauseCode |-> asn_DEF_PostCrashSubCauseCode,
     ProtectedCommunicationZone |-> asn_DEF_ProtectedCommunicationZone,
     ProtectedCommunicationZonesRSU |-> asn_DEF_ProtectedCommunicationZonesRSU,
     ProtectedZoneID |-> asn_DEF_ProtectedZoneID,
     ProtectedZoneRadius |-> asn_DEF_ProtectedZoneRadius,
     ProtectedZoneType |-> asn_DEF_ProtectedZoneType, PtActivation |-> asn_DEF_PtActivation,
     PtActivationData |-> asn_DEF_PtActivationData,
     PtActivationType |-> asn_DEF_PtActivationType,
     ReferencePosition |-> asn_DEF_ReferencePosition,
     RelevanceDistance |-> asn_DEF_RelevanceDistance,
     RelevanceTrafficDirection |-> asn_DEF_RelevanceTrafficDirection,
     RequestResponseIndication |-> asn_DEF_RequestResponseIndication,
     RescueAndRecoveryWorkInProgressSubCauseCode |-> asn_DEF_RescueAndRecoveryWorkInProgressSubCauseCode,
     RestrictedTypes |-> asn_DEF_RestrictedTypes, RoadType |-> asn_DEF_RoadType,
     RoadworksSubCauseCode |-> asn_DEF_RoadworksSubCauseCode,
     SemiAxisLength |-> asn_DEF_SemiAxisLength, SequenceNumber |-> asn_DEF_SequenceNumber,
     SignalViolationSubCauseCode |-> asn_DEF_SignalViolationSubCauseCode,
     SlowVehicleSubCauseCode |-> asn_DEF_SlowVehicleSubCauseCode,
     SpecialTransportType |-> asn_DEF_SpecialTransportType, Speed |-> asn_DEF_Speed,
     SpeedConfidence |-> asn_DEF_SpeedConfidence, SpeedLimit |-> asn_DEF_SpeedLimit,
     SpeedValue |-> asn_DEF_SpeedValue, StationID |-> asn_DEF_StationID,
     StationType |-> asn_DEF_StationType, StationarySince |-> asn_DEF_StationarySince,
     StationaryVehicleSubCauseCode |-> asn_DEF_StationaryVehicleSubCauseCode,
     SteeringWheelAngle |-> asn_DEF_SteeringWheelAngle,
     SteeringWheelAngleConfidence |-> asn_DEF_SteeringWheelAngleConfidence,
     SteeringWheelAngleValue |-> asn_DEF_SteeringWheelAngleValue,
     SubCauseCodeType |-> asn_DEF_SubCauseCodeType, Temperature |-> asn_DEF_Temperature,
     TimestampIts |-> asn_DEF_TimestampIts, Traces |-> asn_DEF_Traces,
     TrafficConditionSubCauseCode |-> asn_DEF_TrafficConditionSubCauseCode,
     TrafficRule |-> asn_DEF_TrafficRule, TransmissionInterval |-> asn_DEF_TransmissionInterval,
     TurningRadius |-> asn_DEF_TurningRadius, VDS |-> asn_DEF_VDS,
     ValidityDuration |-> asn_DEF_ValidityDuration,
     VehicleBreakdownSubCauseCode |-> asn_DEF_VehicleBreakdownSubCauseCode,
     VehicleIdentification |-> asn_DEF_VehicleIdentification,
     VehicleLength |-> asn_DEF_VehicleLength,
     VehicleLengthConfidenceIndication |-> asn_DEF_VehicleLengthConfidenceIndication,
     VehicleLengthValue |-> asn_DEF_VehicleLengthValue, VehicleMass |-> asn_DEF_VehicleMass,
     VehicleRole |-> asn_DEF_VehicleRole, VehicleWidth |-> asn_DEF_VehicleWidth,
     VerticalAcceleration |-> asn_DEF_VerticalAcceleration,
     VerticalAccelerationValue |-> asn_DEF_VerticalAccelerationValue,
     WMInumber |-> asn_DEF_WMInumber, WheelBaseVehicle |-> asn_DEF_WheelBaseVehicle,
     WrongWayDrivingSubCauseCode |-> asn_DEF_WrongWayDrivingSubCauseCode,
     YawRate |-> asn_DEF_YawRate, YawRateConfidence |-> asn_DEF_YawRateConfidence,
     YawRateValue |-> asn_DEF_YawRateValue]
=============================================================================
