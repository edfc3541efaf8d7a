------------------------------ MODULE ItsPdus ------------------------------
(***************************************************************************)
(* The messages the application layer decodes (CAM, DENM, MAPEM, SPATEM),  *)
(* the collective perception message, and their own containers, as         *)
(* generated in src/vanetza-extension/asn1/its. Each definition is the     *)
(* type descriptor of that name, with its members, PER constraints and     *)
(* constraint function; a type that C declares inside another one carries  *)
(* the name of the outer one first.                                        *)
(***************************************************************************)
EXTENDS AsnDescriptors

asn_DEF_AlacarteContainer == SEQUENCE(6, <<
    Optional("lanePosition", "LanePosition"),
    Optional("impactReduction", "ImpactReductionContainer"),
    Optional("externalTemperature", "Temperature"),
    Optional("roadWorks", "RoadWorksContainerExtended"),
    Optional("positioningSolution", "PositioningSolutionType"),
    Optional("stationaryVehicle", "StationaryVehicleContainer")>>)
asn_DEF_DENM == SEQUENCE(-1, <<
    Member("header", "ItsPduHeader"),
    Member("denm", "DecentralizedEnvironmentalNotificationMessage")>>)
asn_DEF_DecentralizedEnvironmentalNotificationMessage == SEQUENCE(-1, <<
    Member("management", "ManagementContainer"), Optional("situation", "SituationContainer"),
    Optional("location", "LocationContainer"), Optional("alacarte", "AlacarteContainer")>>)
asn_DEF_ImpactReductionContainer == SEQUENCE(-1, <<
    Member("heightLonCarrLeft", "HeightLonCarr"), Member("heightLonCarrRight", "HeightLonCarr"),
    Member("posLonCarrLeft", "PosLonCarr"), Member("posLonCarrRight", "PosLonCarr"),
    Member("positionOfPillars", "PositionOfPillars"), Member("posCentMass", "PosCentMass"),
    Member("wheelBaseVehicle", "WheelBaseVehicle"), Member("turningRadius", "TurningRadius"),
    Member("posFrontAx", "PosFrontAx"), Member("positionOfOccupants", "PositionOfOccupants"),
    Member("vehicleMass", "VehicleMass"),
    Member("requestResponseIndication", "RequestResponseIndication")>>)
asn_DEF_LocationContainer == SEQUENCE(4, <<
    Optional("eventSpeed", "Speed"), Optional("eventPositionHeading", "Heading"),
    Member("traces", "Traces"), Optional("roadType", "RoadType")>>)
asn_DEF_ManagementContainer == SEQUENCE(10, <<
    Member("actionID", "ActionID"), Member("detectionTime", "TimestampIts"),
    Member("referenceTime", "TimestampIts"), Optional("termination", "Termination"),
    Member("eventPosition", "ReferencePosition"),
    Optional("relevanceDistance", "RelevanceDistance"),
    Optional("relevanceTrafficDirection", "RelevanceTrafficDirection"),
    OptionalDefault("validityDuration", "ValidityDuration", Long(600)),
    Optional("transmissionInterval", "TransmissionInterval"),
    Member("stationType", "StationType")>>)
asn_DEF_ReferenceDenms == SEQUENCE_OF(PerSizeExt(3, 1, 8), Member("", "ActionID"))
asn_DEF_RoadWorksContainerExtended == SEQUENCE(-1, <<
    Optional("lightBarSirenInUse", "LightBarSirenInUse"),
    Optional("closedLanes", "ClosedLanes"), Optional("restriction", "RestrictedTypes"),
    Optional("speedLimit", "SpeedLimit"), Optional("incidentIndication", "CauseCode"),
    Optional("recommendedPath", "ItineraryPath"),
    Optional("startingPointSpeedLimit", "DeltaReferencePosition"),
    Optional("trafficFlowRule", "TrafficRule"), Optional("referenceDenms", "ReferenceDenms")>>)
asn_DEF_SituationContainer == SEQUENCE(4, <<
    Member("informationQuality", "InformationQuality"), Member("eventType", "CauseCode"),
    Optional("linkedCause", "CauseCode"), Optional("eventHistory", "EventHistory")>>)
asn_DEF_StationaryVehicleContainer == SEQUENCE(-1, <<
    Optional("stationarySince", "StationarySince"), Optional("stationaryCause", "CauseCode"),
    Optional("carryingDangerousGoods", "DangerousGoodsExtended"),
    Optional("numberOfOccupants", "NumberOfOccupants"),
    Optional("vehicleIdentification", "VehicleIdentification"),
    Optional("energyStorageType", "EnergyStorageType")>>)
asn_DEF_Termination == NativeEnumerated(PerValue(1, 0, 1), 2, 0)
asn_DEF_BasicContainer == SEQUENCE(2, <<
    Member("stationType", "StationType"), Member("referencePosition", "ReferencePosition")>>)
asn_DEF_BasicVehicleContainerHighFrequency == SEQUENCE(-1, <<
    Member("heading", "Heading"), Member("speed", "Speed"),
    Member("driveDirection", "DriveDirection"), Member("vehicleLength", "VehicleLength"),
    Member("vehicleWidth", "VehicleWidth"),
    Member("longitudinalAcceleration", "LongitudinalAcceleration"),
    Member("curvature", "Curvature"),
    Member("curvatureCalculationMode", "CurvatureCalculationMode"),
    Member("yawRate", "YawRate"), Optional("accelerationControl", "AccelerationControl"),
    Optional("lanePosition", "LanePosition"),
    Optional("steeringWheelAngle", "SteeringWheelAngle"),
    Optional("lateralAcceleration", "LateralAcceleration"),
    Optional("verticalAcceleration", "VerticalAcceleration"),
    Optional("performanceClass", "PerformanceClass"),
    Optional("cenDsrcTollingZone", "CenDsrcTollingZone")>>)
asn_DEF_BasicVehicleContainerLowFrequency == SEQUENCE(-1, <<
    Member("vehicleRole", "VehicleRole"), Member("exteriorLights", "ExteriorLights"),
    Member("pathHistory", "PathHistory")>>)
asn_DEF_CAM == SEQUENCE(-1, <<
    Member("header", "ItsPduHeader"), Member("cam", "CoopAwareness")>>)
asn_DEF_CamParameters == SEQUENCE(4, <<
    Member("basicContainer", "BasicContainer"),
    Member("highFrequencyContainer", "HighFrequencyContainer"),
    Optional("lowFrequencyContainer", "LowFrequencyContainer"),
    Optional("specialVehicleContainer", "SpecialVehicleContainer")>>)
asn_DEF_CoopAwareness == SEQUENCE(-1, <<
    Member("generationDeltaTime", "GenerationDeltaTime"),
    Member("camParameters", "CamParameters")>>)
asn_DEF_DangerousGoodsContainer == SEQUENCE(-1, <<
    Member("dangerousGoodsBasic", "DangerousGoodsBasic")>>)
asn_DEF_EmergencyContainer == SEQUENCE(-1, <<
    Member("lightBarSirenInUse", "LightBarSirenInUse"),
    Optional("incidentIndication", "CauseCode"),
    Optional("emergencyPriority", "EmergencyPriority")>>)
asn_DEF_GenerationDeltaTime == NativeInteger(PerValue(16, 0, 65535), ValueIn(0, 65535))
asn_DEF_HighFrequencyContainer == CHOICE(PerValueExt(1, 0, 1), 2, <<
    Member("basicVehicleContainerHighFrequency", "BasicVehicleContainerHighFrequency"),
    Member("rsuContainerHighFrequency", "RSUContainerHighFrequency")>>)
asn_DEF_LowFrequencyContainer == CHOICE(PerValueExt(0, 0, 0), 1, <<
    Member("basicVehicleContainerLowFrequency", "BasicVehicleContainerLowFrequency")>>)
asn_DEF_PublicTransportContainer == SEQUENCE(-1, <<
    Member("embarkationStatus", "EmbarkationStatus"), Optional("ptActivation", "PtActivation")>>)
asn_DEF_RSUContainerHighFrequency == SEQUENCE(1, <<
    Optional("protectedCommunicationZonesRSU", "ProtectedCommunicationZonesRSU")>>)
asn_DEF_RescueContainer == SEQUENCE(-1, <<Member("lightBarSirenInUse", "LightBarSirenInUse")>>)
asn_DEF_RoadWorksContainerBasic == SEQUENCE(-1, <<
    Optional("roadworksSubCauseCode", "RoadworksSubCauseCode"),
    Member("lightBarSirenInUse", "LightBarSirenInUse"), Optional("closedLanes", "ClosedLanes")>>)
asn_DEF_SafetyCarContainer == SEQUENCE(-1, <<
    Member("lightBarSirenInUse", "LightBarSirenInUse"),
    Optional("incidentIndication", "CauseCode"), Optional("trafficRule", "TrafficRule"),
    Optional("speedLimit", "SpeedLimit")>>)
asn_DEF_SpecialTransportContainer == SEQUENCE(-1, <<
    Member("specialTransportType", "SpecialTransportType"),
    Member("lightBarSirenInUse", "LightBarSirenInUse")>>)
asn_DEF_SpecialVehicleContainer == CHOICE(PerValueExt(3, 0, 6), 7, <<
    Member("publicTransportContainer", "PublicTransportContainer"),
    Member("specialTransportContainer", "SpecialTransportContainer"),
    Member("dangerousGoodsContainer", "DangerousGoodsContainer"),
    Member("roadWorksContainerBasic", "RoadWorksContainerBasic"),
    Member("rescueContainer", "RescueContainer"),
    Member("emergencyContainer", "EmergencyContainer"),
    Member("safetyCarContainer", "SafetyCarContainer")>>)
asn_DEF_MAPEM == SEQUENCE(-1, <<Member("header", "ItsPduHeader"), Member("map", "MapData")>>)
asn_DEF_SPATEM == SEQUENCE(-1, <<Member("header", "ItsPduHeader"), Member("spat", "SPAT")>>)

-----------------------------------------------------------------------------
ItsPdusTypes ==
    [AlacarteContainer |-> asn_DEF_AlacarteContainer, DENM |-> asn_DEF_DENM,
     DecentralizedEnvironmentalNotificationMessage |-> asn_DEF_DecentralizedEnvironmentalNotificationMessage,
     ImpactReductionContainer |-> asn_DEF_ImpactReductionContainer,
     LocationContainer |-> asn_DEF_LocationContainer,
     ManagementContainer |-> asn_DEF_ManagementContainer,
     ReferenceDenms |-> asn_DEF_ReferenceDenms,
     RoadWorksContainerExtended |-> asn_DEF_RoadWorksContainerExtended,
     SituationContainer |-> asn_DEF_SituationContainer,
     StationaryVehicleContainer |-> asn_DEF_StationaryVehicleContainer,
     Termination |-> asn_DEF_Termination, BasicContainer |-> asn_DEF_BasicContainer,
     BasicVehicleContainerHighFrequency |-> asn_DEF_BasicVehicleContainerHighFrequency,
     BasicVehicleContainerLowFrequency |-> asn_DEF_BasicVehicleContainerLowFrequency,
     CAM |-> asn_DEF_CAM, CamParameters |-> asn_DEF_CamParameters,
     CoopAwareness |-> asn_DEF_CoopAwareness,
     DangerousGoodsContainer |-> asn_DEF_DangerousGoodsContainer,
     EmergencyContainer |-> asn_DEF_EmergencyContainer,
     GenerationDeltaTime |-> asn_DEF_GenerationDeltaTime,
     HighFrequencyContainer |-> asn_DEF_HighFrequencyContainer,
     LowFrequencyContainer |-> asn_DEF_LowFrequencyContainer,
     PublicTransportContainer |-> asn_DEF_PublicTransportContainer,
     RSUContainerHighFrequency |-> asn_DEF_RSUContainerHighFrequency,
     RescueContainer |-> asn_DEF_RescueContainer,
     RoadWorksContainerBasic |-> asn_DEF_RoadWorksContainerBasic,
     SafetyCarContainer |-> asn_DEF_SafetyCarContainer,
     SpecialTransportContainer |-> asn_DEF_SpecialTransportContainer,
     SpecialVehicleContainer |-> asn_DEF_SpecialVehicleContainer, MAPEM |-> asn_DEF_MAPEM,
     SPATEM |-> asn_DEF_SPATEM]

-----------------------------------------------------------------------------
(* Collective perception. *)

asn_DEF_AngleConfidence == NativeInteger(PerValue(7, 1, 127), ValueIn(1, 127))
asn_DEF_AnimalSubclass == SEQUENCE(-1, <<
    Default("type", "AnimalSubclassType", Long(0)),
    Default("confidence", "ClassConfidence", Long(0))>>)
asn_DEF_AnimalSubclassType == NativeInteger(PerValue(8, 0, 255), ValueIn(0, 255))
asn_DEF_AreaCircular == SEQUENCE(-1, <<
    Optional("nodeCenterPoint", "OffsetPoint"), Member("radius", "Radius")>>)
asn_DEF_AreaEllipse == SEQUENCE(-1, <<
    Optional("nodeCenterPoint", "OffsetPoint"),
    Member("semiMinorRangeLength", "SemiRangeLength"),
    Member("semiMajorRangeLength", "SemiRangeLength"),
    Member("semiMajorRangeOrientation", "WGS84AngleValue"),
    Optional("semiHeight", "SemiRangeLength")>>)
asn_DEF_AreaPolygon == SEQUENCE(-1, <<Member("polyPointList", "PolyPointList")>>)
asn_DEF_AreaRadial == SEQUENCE(7, <<
    Member("range", "Range"),
    Member("stationaryHorizontalOpeningAngleStart", "WGS84AngleValue"),
    Member("stationaryHorizontalOpeningAngleEnd", "WGS84AngleValue"),
    Optional("verticalOpeningAngleStart", "CartesianAngleValue"),
    Optional("verticalOpeningAngleEnd", "CartesianAngleValue"),
    Optional("sensorPositionOffset", "OffsetPoint"), Optional("sensorHeight", "SensorHeight")>>)
asn_DEF_AreaRectangle == SEQUENCE(-1, <<
    Optional("nodeCenterPoint", "OffsetPoint"),
    Member("semiMajorRangeLength", "SemiRangeLength"),
    Member("semiMinorRangeLength", "SemiRangeLength"),
    Member("semiMajorRangeOrientation", "WGS84AngleValue"),
    Optional("semiHeight", "SemiRangeLength")>>)
asn_DEF_CPM == SEQUENCE(-1, <<
    Member("header", "ItsPduHeader"), Member("cpm", "CollectivePerceptionMessage")>>)
asn_DEF_CartesianAngle == SEQUENCE(-1, <<
    Member("value", "CartesianAngleValue"), Member("confidence", "AngleConfidence")>>)
asn_DEF_CartesianAngleValue == NativeInteger(PerValue(12, 0, 3601), ValueIn(0, 3601))
asn_DEF_ClassConfidence == NativeInteger(PerValue(7, 0, 101), ValueIn(0, 101))
asn_DEF_CollectivePerceptionMessage == SEQUENCE(-1, <<
    Member("generationDeltaTime", "GenerationDeltaTime"),
    Member("cpmParameters", "CpmParameters")>>)
asn_DEF_CpmManagementContainer == SEQUENCE(3, <<
    Member("stationType", "StationType"),
    Optional("perceivedObjectContainerSegmentInfo", "PerceivedObjectContainerSegmentInfo"),
    Member("referencePosition", "ReferencePosition")>>)
asn_DEF_CpmParameters == SEQUENCE(6, <<
    Member("managementContainer", "CpmManagementContainer"),
    Optional("stationDataContainer", "StationDataContainer"),
    Optional("sensorInformationContainer", "SensorInformationContainer"),
    Optional("perceivedObjectContainer", "PerceivedObjectContainer"),
    Optional("freeSpaceAddendumContainer", "FreeSpaceAddendumContainer"),
    Member("numberOfPerceivedObjects", "NumberOfPerceivedObjects")>>)
asn_DEF_DetectionArea == CHOICE(PerValueExt(3, 0, 5), 6, <<
    Member("vehicleSensor", "VehicleSensor"), Member("stationarySensorRadial", "AreaRadial"),
    Member("stationarySensorPolygon", "AreaPolygon"),
    Member("stationarySensorCircular", "AreaCircular"),
    Member("stationarySensorEllipse", "AreaEllipse"),
    Member("stationarySensorRectangle", "AreaRectangle")>>)
asn_DEF_DistanceConfidence == NativeInteger(PerValue(7, 0, 102), ValueIn(0, 102))
asn_DEF_DistanceValue == NativeInteger(PerValue(19, -132768, 132767), ValueIn(-132768, 132767))
asn_DEF_DynamicStatus == NativeInteger(PerValue(2, 0, 2), ValueIn(0, 2))
asn_DEF_FreeSpaceAddendum == SEQUENCE(4, <<
    Member("freeSpaceConfidence", "FreeSpaceConfidence"),
    Member("freeSpaceArea", "FreeSpaceArea"), Optional("sensorIDList", "SensorIdList"),
    OptionalDefault("shadowingApplies", "ShadowingApplies", 1)>>)
asn_DEF_FreeSpaceAddendumContainer ==
    SEQUENCE_OF(PerSize(7, 1, 128), Member("", "FreeSpaceAddendum"))
asn_DEF_FreeSpaceArea == CHOICE(PerValueExt(2, 0, 3), 4, <<
    Member("freeSpacePolygon", "AreaPolygon"), Member("freeSpaceCircular", "AreaCircular"),
    Member("freeSpaceEllipse", "AreaEllipse"), Member("freeSpaceRectangle", "AreaRectangle")>>)
asn_DEF_FreeSpaceConfidence == NativeInteger(PerValue(7, 0, 101), ValueIn(0, 101))
asn_DEF_FrontOverhang == NativeInteger(PerValue(6, 0, 50), ValueIn(0, 50))
asn_DEF_HitchPointOffset == NativeInteger(PerValue(7, 0, 100), ValueIn(0, 100))
asn_DEF_Identifier == NativeInteger(PerValue(8, 0, 255), ValueIn(0, 255))
asn_DEF_LongitudinalLanePosition == SEQUENCE(-1, <<
    Member("longitudinalLanePositionValue", "LongitudinalLanePositionValue"),
    Member("longitudinalLanePositionConfidence", "LongitudinalLanePositionConfidence")>>)
asn_DEF_LongitudinalLanePositionConfidence ==
    NativeInteger(PerValue(7, 0, 102), ValueIn(0, 102))
asn_DEF_LongitudinalLanePositionValue ==
    NativeInteger(PerValue(15, 0, 32767), ValueIn(0, 32767))
asn_DEF_MatchedPosition == SEQUENCE(2, <<
    Optional("laneID", "LaneID"),
    Optional("longitudinalLanePosition", "LongitudinalLanePosition")>>)
asn_DEF_NodeOffsetPointZ == CHOICE(PerValue(3, 0, 5), -1, <<
    Member("node-Z1", "Offset_B10"), Member("node-Z2", "Offset_B11"),
    Member("node-Z3", "Offset_B12"), Member("node-Z4", "Offset_B13"),
    Member("node-Z5", "Offset_B14"), Member("node-Z6", "Offset_B16")>>)
asn_DEF_NumberOfPerceivedObjects == NativeInteger(PerValue(8, 0, 255), ValueIn(0, 255))
asn_DEF_ObjectAge == NativeInteger(PerValue(11, 0, 1500), ValueIn(0, 1500))
asn_DEF_ObjectClass_class_3 == CHOICE(PerValue(2, 0, 3), -1, <<
    Member("vehicle", "VehicleSubclass"), Member("person", "PersonSubclass"),
    Member("animal", "AnimalSubclass"), Member("other", "OtherSubclass")>>)
asn_DEF_ObjectClass == SEQUENCE(-1, <<
    Member("confidence", "ClassConfidence"), Member("class", "ObjectClass_class_3")>>)
asn_DEF_ObjectClassDescription == SEQUENCE_OF(PerSize(3, 1, 8), Member("", "ObjectClass"))
asn_DEF_ObjectConfidence == NativeInteger(PerValue(7, 0, 101), ValueIn(0, 101))
asn_DEF_ObjectDimension == SEQUENCE(-1, <<
    Member("value", "ObjectDimensionValue"), Member("confidence", "ObjectDimensionConfidence")>>)
asn_DEF_ObjectDimensionConfidence == NativeInteger(PerValue(7, 0, 102), ValueIn(0, 102))
asn_DEF_ObjectDimensionValue == NativeInteger(PerValue(10, 0, 1023), ValueIn(0, 1023))
asn_DEF_ObjectDistanceWithConfidence == SEQUENCE(-1, <<
    Member("value", "DistanceValue"), Member("confidence", "DistanceConfidence")>>)
asn_DEF_ObjectRefPoint == NativeInteger(PerValue(4, 0, 8), ValueIn(0, 8))
asn_DEF_OffsetPoint == SEQUENCE(-1, <<
    Limited(Member("nodeOffsetPointxy", "NodeOffsetPointXY"), PerValue(3, 0, 7), OwnCheck),
    Optional("nodeOffsetPointZ", "NodeOffsetPointZ")>>)
asn_DEF_OriginatingRSUContainer == CHOICE(PerValueExt(1, 0, 1), 2, <<
    Member("intersectionReferenceId", "IntersectionReferenceID"),
    Member("roadSegmentReferenceId", "RoadSegmentReferenceID")>>)
asn_DEF_OriginatingVehicleContainer == SEQUENCE(14, <<
    Member("heading", "Heading"), Member("speed", "Speed"),
    Optional("vehicleOrientationAngle", "WGS84Angle"),
    Default("driveDirection", "DriveDirection", 0),
    Optional("longitudinalAcceleration", "LongitudinalAcceleration"),
    Optional("lateralAcceleration", "LateralAcceleration"),
    Optional("verticalAcceleration", "VerticalAcceleration"), Optional("yawRate", "YawRate"),
    Optional("pitchAngle", "CartesianAngle"), Optional("rollAngle", "CartesianAngle"),
    Optional("vehicleLength", "VehicleLength"), Optional("vehicleWidth", "VehicleWidth"),
    Optional("vehicleHeight", "VehicleHeight"),
    Optional("trailerDataContainer", "TrailerDataContainer")>>)
asn_DEF_OtherSubclass == SEQUENCE(-1, <<
    Default("type", "OtherSublassType", Long(0)),
    Default("confidence", "ClassConfidence", Long(0))>>)
asn_DEF_OtherSublassType == NativeInteger(PerValue(8, 0, 255), ValueIn(0, 255))
asn_DEF_PerceivedObject == SEQUENCE(22, <<
    Member("objectID", "Identifier"), Optional("sensorIDList", "SensorIdList"),
    Member("timeOfMeasurement", "TimeOfMeasurement"), Optional("objectAge", "ObjectAge"),
    Default("objectConfidence", "ObjectConfidence", Long(0)),
    Member("xDistance", "ObjectDistanceWithConfidence"),
    Member("yDistance", "ObjectDistanceWithConfidence"),
    Optional("zDistance", "ObjectDistanceWithConfidence"), Member("xSpeed", "SpeedExtended"),
    Member("ySpeed", "SpeedExtended"), Optional("zSpeed", "SpeedExtended"),
    Optional("xAcceleration", "LongitudinalAcceleration"),
    Optional("yAcceleration", "LateralAcceleration"),
    Optional("zAcceleration", "VerticalAcceleration"), Optional("yawAngle", "CartesianAngle"),
    Optional("planarObjectDimension1", "ObjectDimension"),
    Optional("planarObjectDimension2", "ObjectDimension"),
    Optional("verticalObjectDimension", "ObjectDimension"),
    Default("objectRefPoint", "ObjectRefPoint", Long(0)),
    Optional("dynamicStatus", "DynamicStatus"),
    Optional("classification", "ObjectClassDescription"),
    Optional("matchedPosition", "MatchedPosition")>>)
asn_DEF_PerceivedObjectContainer ==
    SEQUENCE_OF(PerSize(7, 1, 128), Member("", "PerceivedObject"))
asn_DEF_PerceivedObjectContainerSegmentInfo == SEQUENCE(-1, <<
    Member("totalMsgSegments", "SegmentCount"), Member("thisSegmentNum", "SegmentCount")>>)
asn_DEF_PersonSubclass == SEQUENCE(-1, <<
    Default("type", "PersonSubclassType", Long(0)),
    Default("confidence", "ClassConfidence", Long(0))>>)
asn_DEF_PersonSubclassType == NativeInteger(PerValue(8, 0, 255), ValueIn(0, 255))
asn_DEF_PolyPointList == SEQUENCE_OF(PerSizeExt(4, 3, 16), Member("", "OffsetPoint"))
asn_DEF_Radius == NativeInteger(PerValue(14, 0, 10000), ValueIn(0, 10000))
asn_DEF_Range == NativeInteger(PerValue(14, 0, 10000), ValueIn(0, 10000))
asn_DEF_RearOverhang == NativeInteger(PerValue(8, 0, 150), ValueIn(0, 150))
asn_DEF_RefPointId == NativeInteger(PerValue(8, 0, 255), ValueIn(0, 255))
asn_DEF_SegmentCount == NativeInteger(PerValue(7, 1, 127), ValueIn(1, 127))
asn_DEF_SemiRangeLength == NativeInteger(PerValue(14, 0, 10000), ValueIn(0, 10000))
asn_DEF_SensorHeight == NativeInteger(PerValue(14, -5000, 5000), ValueIn(-5000, 5000))
asn_DEF_SensorIdList == SEQUENCE_OF(PerSize(7, 1, 128), Member("", "Identifier"))
asn_DEF_SensorInformation == SEQUENCE(4, <<
    Member("sensorID", "Identifier"), Member("type", "SensorType"),
    Member("detectionArea", "DetectionArea"),
    Optional("freeSpaceConfidence", "FreeSpaceConfidence")>>)
asn_DEF_SensorInformationContainer ==
    SEQUENCE_OF(PerSize(7, 1, 128), Member("", "SensorInformation"))
asn_DEF_SensorType == NativeInteger(PerValue(4, 0, 15), ValueIn(0, 15))
asn_DEF_ShadowingApplies == BOOLEAN_t
asn_DEF_SpeedExtended == SEQUENCE(-1, <<
    Member("value", "SpeedValueExtended"), Member("confidence", "SpeedConfidence")>>)
asn_DEF_SpeedValueExtended == NativeInteger(PerValue(15, -16383, 16383), ValueIn(-16383, 16383))
asn_DEF_StationDataContainer == CHOICE(PerValueExt(1, 0, 1), 2, <<
    Member("originatingVehicleContainer", "OriginatingVehicleContainer"),
    Member("originatingRSUContainer", "OriginatingRSUContainer")>>)
asn_DEF_TimeOfMeasurement == NativeInteger(PerValue(12, -1500, 1500), ValueIn(-1500, 1500))
asn_DEF_TrailerData == SEQUENCE(6, <<
    Member("refPointId", "RefPointId"), Member("hitchPointOffset", "HitchPointOffset"),
    Member("frontOverhang", "FrontOverhang"), Member("rearOverhang", "RearOverhang"),
    Optional("trailerWidth", "VehicleWidth"), Optional("hitchAngle", "CartesianAngle")>>)
asn_DEF_TrailerDataContainer == SEQUENCE_OF(PerSize(1, 1, 2), Member("", "TrailerData"))
asn_DEF_VehicleSensor == SEQUENCE(5, <<
    Default("refPointId", "RefPointId", Long(0)), Member("xSensorOffset", "XSensorOffset"),
    Member("ySensorOffset", "YSensorOffset"), Optional("zSensorOffset", "ZSensorOffset"),
    Member("vehicleSensorPropertyList", "VehicleSensorPropertyList")>>)
asn_DEF_VehicleSensorProperties == SEQUENCE(5, <<
    Member("range", "Range"), Member("horizontalOpeningAngleStart", "CartesianAngleValue"),
    Member("horizontalOpeningAngleEnd", "CartesianAngleValue"),
    Optional("verticalOpeningAngleStart", "CartesianAngleValue"),
    Optional("verticalOpeningAngleEnd", "CartesianAngleValue")>>)
asn_DEF_VehicleSensorPropertyList ==
    SEQUENCE_OF(PerSize(4, 1, 10), Member("", "VehicleSensorProperties"))
asn_DEF_VehicleSubclass == SEQUENCE(-1, <<
    Default("type", "VehicleSubclassType", Long(0)),
    Default("confidence", "ClassConfidence", Long(0))>>)
asn_DEF_VehicleSubclassType == NativeInteger(PerValue(8, 0, 255), ValueIn(0, 255))
asn_DEF_WGS84Angle == SEQUENCE(-1, <<
    Member("value", "WGS84AngleValue"), Member("confidence", "AngleConfidence")>>)
asn_DEF_WGS84AngleValue == NativeInteger(PerValue(12, 0, 3601), ValueIn(0, 3601))
asn_DEF_XSensorOffset == NativeInteger(PerValue(13, -5000, 0), ValueIn(-5000, 0))
asn_DEF_YSensorOffset == NativeInteger(PerValue(11, -1000, 1000), ValueIn(-1000, 1000))
asn_DEF_ZSensorOffset == NativeInteger(PerValue(10, 0, 1000), ValueIn(0, 1000))

-----------------------------------------------------------------------------
CpmTypes ==
    [AngleConfidence |-> asn_DEF_AngleConfidence, AnimalSubclass |-> asn_DEF_AnimalSubclass,
     AnimalSubclassType |-> asn_DEF_AnimalSubclassType, AreaCircular |-> asn_DEF_AreaCircular,
     AreaEllipse |-> asn_DEF_AreaEllipse, AreaPolygon |-> asn_DEF_AreaPolygon,
     AreaRadial |-> asn_DEF_AreaRadial, AreaRectangle |-> asn_DEF_AreaRectangle,
     CPM |-> asn_DEF_CPM, CartesianAngle |-> asn_DEF_CartesianAngle,
     CartesianAngleValue |-> asn_DEF_CartesianAngleValue,
     ClassConfidence |-> asn_DEF_ClassConfidence,
     CollectivePerceptionMessage |-> asn_DEF_CollectivePerceptionMessage,
     CpmManagementContainer |-> asn_DEF_CpmManagementContainer,
     CpmParameters |-> asn_DEF_CpmParameters, DetectionArea |-> asn_DEF_DetectionArea,
     DistanceConfidence |-> asn_DEF_DistanceConfidence, DistanceValue |-> asn_DEF_DistanceValue,
     DynamicStatus |-> asn_DEF_DynamicStatus, FreeSpaceAddendum |-> asn_DEF_FreeSpaceAddendum,
     FreeSpaceAddendumContainer |-> asn_DEF_FreeSpaceAddendumContainer,
     FreeSpaceArea |-> asn_DEF_FreeSpaceArea,
     FreeSpaceConfidence |-> asn_DEF_FreeSpaceConfidence,
     FrontOverhang |-> asn_DEF_FrontOverhang, HitchPointOffset |-> asn_DEF_HitchPointOffset,
     Identifier |-> asn_DEF_Identifier,
     LongitudinalLanePosition |-> asn_DEF_LongitudinalLanePosition,
     LongitudinalLanePositionConfidence |-> asn_DEF_LongitudinalLanePositionConfidence,
     LongitudinalLanePositionValue |-> asn_DEF_LongitudinalLanePositionValue,
     MatchedPosition |-> asn_DEF_MatchedPosition, NodeOffsetPointZ |-> asn_DEF_NodeOffsetPointZ,
     NumberOfPerceivedObjects |-> asn_DEF_NumberOfPerceivedObjects,
     ObjectAge |-> asn_DEF_ObjectAge, ObjectClass_class_3 |-> asn_DEF_ObjectClass_class_3,
     ObjectClass |-> asn_DEF_ObjectClass,
     ObjectClassDescription |-> asn_DEF_ObjectClassDescription,
     ObjectConfidence |-> asn_DEF_ObjectConfidence, ObjectDimension |-> asn_DEF_ObjectDimension,
     ObjectDimensionConfidence |-> asn_DEF_ObjectDimensionConfidence,
     ObjectDimensionValue |-> asn_DEF_ObjectDimensionValue,
     ObjectDistanceWithConfidence |-> asn_DEF_ObjectDistanceWithConfidence,
     ObjectRefPoint |-> asn_DEF_ObjectRefPoint, OffsetPoint |-> asn_DEF_OffsetPoint,
     OriginatingRSUContainer |-> asn_DEF_OriginatingRSUContainer,
     OriginatingVehicleContainer |-> asn_DEF_OriginatingVehicleContainer,
     OtherSubclass |-> asn_DEF_OtherSubclass, OtherSublassType |-> asn_DEF_OtherSublassType,
     PerceivedObject |-> asn_DEF_PerceivedObject,
     PerceivedObjectContainer |-> asn_DEF_PerceivedObjectContainer,
     PerceivedObjectContainerSegmentInfo |-> asn_DEF_PerceivedObjectContainerSegmentInfo,
     PersonSubclass |-> asn_DEF_PersonSubclass,
     PersonSubclassType |-> asn_DEF_PersonSubclassType, PolyPointList |-> asn_DEF_PolyPointList,
     Radius |-> asn_DEF_Radius, Range |-> asn_DEF_Range, RearOverhang |-> asn_DEF_RearOverhang,
     RefPointId |-> asn_DEF_RefPointId, SegmentCount |-> asn_DEF_SegmentCount,
     SemiRangeLength |-> asn_DEF_SemiRangeLength, SensorHeight |-> asn_DEF_SensorHeight,
     SensorIdList |-> asn_DEF_SensorIdList, SensorInformation |-> asn_DEF_SensorInformation,
     SensorInformationContainer |-> asn_DEF_SensorInformationContainer,
     SensorType |-> asn_DEF_SensorType, ShadowingApplies |-> asn_DEF_ShadowingApplies,
     SpeedExtended |-> asn_DEF_SpeedExtended, SpeedValueExtended |-> asn_DEF_SpeedValueExtended,
     StationDataContainer |-> asn_DEF_StationDataContainer,
     TimeOfMeasurement |-> asn_DEF_TimeOfMeasurement, TrailerData |-> asn_DEF_TrailerData,
     TrailerDataContainer |-> asn_DEF_TrailerDataContainer,
     VehicleSensor |-> asn_DEF_VehicleSensor,
     VehicleSensorProperties |-> asn_DEF_VehicleSensorProperties,
     VehicleSensorPropertyList |-> asn_DEF_VehicleSensorPropertyList,
     VehicleSubclass |-> asn_DEF_VehicleSubclass,
     VehicleSubclassType |-> asn_DEF_VehicleSubclassType, WGS84Angle |-> asn_DEF_WGS84Angle,
     WGS84AngleValue |-> asn_DEF_WGS84AngleValue, XSensorOffset |-> asn_DEF_XSensorOffset,
     YSensorOffset |-> asn_DEF_YSensorOffset, ZSensorOffset |-> asn_DEF_ZSensorOffset]
=============================================================================
