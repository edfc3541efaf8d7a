-------------------------------- MODULE Dsrc --------------------------------
(***************************************************************************)
(* The DSRC data frames behind MAPEM and SPATEM (ISO TS 19091), as         *)
(* generated in src/vanetza-extension/asn1/its. Each definition is the     *)
(* type descriptor of that name, with its members, PER constraints and     *)
(* constraint function; a type that C declares inside another one carries  *)
(* the name of the outer one first.                                        *)
(***************************************************************************)
EXTENDS AsnDescriptors

asn_DEF_AdvisorySpeed_regional_7 ==
    SEQUENCE_OF(PerSize(2, 1, 4), Member("", "RegionalExtension_369P0"))
asn_DEF_AdvisorySpeed == SEQUENCE(6, <<
    Member("type", "AdvisorySpeedType"), Optional("speed", "SpeedAdvice"),
    Optional("confidence", "SpeedConfidence"), Optional("distance", "ZoneLength"),
    Optional("class", "RestrictionClassID"),
    Limited(Optional("regional", "AdvisorySpeed_regional_7"), PerSize(2, 1, 4), SizeInOf(1, 4))>>)
asn_DEF_AdvisorySpeedList == SEQUENCE_OF(PerSize(4, 1, 16), Member("", "AdvisorySpeed"))
asn_DEF_AdvisorySpeedType == NativeEnumerated(PerValueExt(2, 0, 3), 4, 5)
asn_DEF_AllowedManeuvers == BIT_STRING(PerSize(0, 12, 12), SizeIn(12, 12))
asn_DEF_Angle == NativeInteger(PerValue(15, 0, 28800), ValueIn(0, 28800))
asn_DEF_AntennaOffsetSet == SEQUENCE(-1, <<
    Member("antOffsetX", "Offset_B12"), Member("antOffsetY", "Offset_B09"),
    Member("antOffsetZ", "Offset_B10")>>)
asn_DEF_ApproachID == NativeInteger(PerValue(4, 0, 15), ValueIn(0, 15))
asn_DEF_BasicVehicleRole == NativeEnumerated(PerValueExt(5, 0, 22), 23, 24)
asn_DEF_ComputedLane_offsetXaxis_3 == CHOICE(PerValue(1, 0, 1), -1, <<
    Member("small", "DrivenLineOffsetSm"), Member("large", "DrivenLineOffsetLg")>>)
asn_DEF_ComputedLane_offsetYaxis_6 == CHOICE(PerValue(1, 0, 1), -1, <<
    Member("small", "DrivenLineOffsetSm"), Member("large", "DrivenLineOffsetLg")>>)
asn_DEF_ComputedLane_regional_12 ==
    SEQUENCE_OF(PerSize(2, 1, 4), Member("", "RegionalExtension_369P0"))
asn_DEF_ComputedLane == SEQUENCE(7, <<
    Member("referenceLaneId", "LaneID"), Member("offsetXaxis", "ComputedLane_offsetXaxis_3"),
    Member("offsetYaxis", "ComputedLane_offsetYaxis_6"), Optional("rotateXY", "Angle"),
    Optional("scaleXaxis", "Scale_B12"), Optional("scaleYaxis", "Scale_B12"),
    Limited(Optional("regional", "ComputedLane_regional_12"), PerSize(2, 1, 4), SizeInOf(1, 4))>>)
asn_DEF_ConnectingLane == SEQUENCE(-1, <<
    Member("lane", "LaneID"), Optional("maneuver", "AllowedManeuvers")>>)
asn_DEF_Connection == SEQUENCE(-1, <<
    Member("connectingLane", "ConnectingLane"),
    Optional("remoteIntersection", "IntersectionReferenceID"),
    Optional("signalGroup", "SignalGroupID"), Optional("userClass", "RestrictionClassID"),
    Optional("connectionID", "LaneConnectionID")>>)
asn_DEF_ConnectionManeuverAssist_regional_7 ==
    SEQUENCE_OF(PerSize(2, 1, 4), Member("", "RegionalExtension_369P0"))
asn_DEF_ConnectionManeuverAssist == SEQUENCE(6, <<
    Member("connectionID", "LaneConnectionID"), Optional("queueLength", "ZoneLength"),
    Optional("availableStorageLength", "ZoneLength"), Optional("waitOnStop", "WaitOnStopline"),
    Optional("pedBicycleDetect", "PedestrianBicycleDetect"),
    Limited(Optional("regional", "ConnectionManeuverAssist_regional_7"), PerSize(2, 1, 4), SizeInOf(1, 4))>>)
asn_DEF_ConnectsToList == SEQUENCE_OF(PerSize(4, 1, 16), Member("", "Connection"))
asn_DEF_DDateTime == SEQUENCE(-1, <<
    Optional("year", "DYear"), Optional("month", "DMonth"), Optional("day", "DDay"),
    Optional("hour", "DHour"), Optional("minute", "DMinute"), Optional("second", "DSecond"),
    Optional("offset", "DOffset")>>)
asn_DEF_DDay == NativeInteger(PerValue(5, 0, 31), ValueIn(0, 31))
asn_DEF_DHour == NativeInteger(PerValue(5, 0, 31), ValueIn(0, 31))
asn_DEF_DMinute == NativeInteger(PerValue(6, 0, 60), ValueIn(0, 60))
asn_DEF_DMonth == NativeInteger(PerValue(4, 0, 12), ValueIn(0, 12))
asn_DEF_DOffset == NativeInteger(PerValue(11, -840, 840), ValueIn(-840, 840))
asn_DEF_DSRCmsgID == NativeInteger(PerValue(15, 0, 32767), ValueIn(0, 32767))
asn_DEF_DSecond == NativeInteger(PerValue(16, 0, 65535), ValueIn(0, 65535))
asn_DEF_DYear == NativeInteger(PerValue(12, 0, 4095), ValueIn(0, 4095))
asn_DEF_DataParameters == SEQUENCE(4, <<
    Limited(Optional("processMethod", "IA5String"), Per(Constrained(7, 0, 127), Constrained(8, 1, 255)), SizeInFrom(1, 255, IA5Characters)),
    Limited(Optional("processAgency", "IA5String"), Per(Constrained(7, 0, 127), Constrained(8, 1, 255)), SizeInFrom(1, 255, IA5Characters)),
    Limited(Optional("lastCheckedDate", "IA5String"), Per(Constrained(7, 0, 127), Constrained(8, 1, 255)), SizeInFrom(1, 255, IA5Characters)),
    Limited(Optional("geoidUsed", "IA5String"), Per(Constrained(7, 0, 127), Constrained(8, 1, 255)), SizeInFrom(1, 255, IA5Characters))>>)
asn_DEF_DeltaAngle == NativeInteger(PerValue(9, -150, 150), ValueIn(-150, 150))
asn_DEF_DeltaTime == NativeInteger(PerValue(8, -122, 121), ValueIn(-122, 121))
asn_DEF_DescriptiveName ==
    OCTET_STRING(Per(Constrained(7, 0, 127), Constrained(6, 1, 63)), SizeInFrom(1, 63, IA5Characters))
asn_DEF_DrivenLineOffsetLg == NativeInteger(PerValue(16, -32767, 32767), ValueIn(-32767, 32767))
asn_DEF_DrivenLineOffsetSm == NativeInteger(PerValue(12, -2047, 2047), ValueIn(-2047, 2047))
asn_DEF_Elevation == NativeInteger(PerValue(16, -4096, 61439), ValueIn(-4096, 61439))
asn_DEF_ElevationConfidence == NativeEnumerated(PerValue(4, 0, 15), 16, 0)
asn_DEF_EnabledLaneList == SEQUENCE_OF(PerSize(4, 1, 16), Member("", "LaneID"))
asn_DEF_FuelType == NativeInteger(PerValue(4, 0, 15), ValueIn(0, 15))
asn_DEF_FullPositionVector == SEQUENCE(10, <<
    Optional("utcTime", "DDateTime"), Member("long", "Longitude"), Member("lat", "Latitude"),
    Optional("elevation", "Elevation"), Optional("heading", "Heading"),
    Optional("speed", "TransmissionAndSpeed"), Optional("posAccuracy", "PositionalAccuracy"),
    Optional("timeConfidence", "TimeConfidence"),
    Optional("posConfidence", "PositionConfidenceSet"),
    Optional("speedConfidence", "SpeedandHeadingandThrottleConfidence")>>)
asn_DEF_GNSSstatus == BIT_STRING(PerSize(0, 8, 8), SizeIn(8, 8))
asn_DEF_GenericLane_regional_11 ==
    SEQUENCE_OF(PerSize(2, 1, 4), Member("", "RegionalExtension_369P0"))
asn_DEF_GenericLane == SEQUENCE(10, <<
    Member("laneID", "LaneID"), Optional("name", "DescriptiveName"),
    Optional("ingressApproach", "ApproachID"), Optional("egressApproach", "ApproachID"),
    Member("laneAttributes", "LaneAttributes"), Optional("maneuvers", "AllowedManeuvers"),
    Member("nodeList", "NodeListXY"), Optional("connectsTo", "ConnectsToList"),
    Optional("overlays", "OverlayLaneList"),
    Limited(Optional("regional", "GenericLane_regional_11"), PerSize(2, 1, 4), SizeInOf(1, 4))>>)
asn_DEF_IntersectionAccessPoint == CHOICE(PerValueExt(2, 0, 2), 3, <<
    Member("lane", "LaneID"), Member("approach", "ApproachID"),
    Member("connection", "LaneConnectionID")>>)
asn_DEF_IntersectionGeometry_regional_10 ==
    SEQUENCE_OF(PerSize(2, 1, 4), Member("", "RegionalExtension_369P0"))
asn_DEF_IntersectionGeometry == SEQUENCE(9, <<
    Optional("name", "DescriptiveName"), Member("id", "IntersectionReferenceID"),
    Member("revision", "MsgCount"), Member("refPoint", "Position3D"),
    Optional("laneWidth", "LaneWidth"), Optional("speedLimits", "SpeedLimitList"),
    Member("laneSet", "LaneList"), Optional("preemptPriorityData", "PreemptPriorityList"),
    Limited(Optional("regional", "IntersectionGeometry_regional_10"), PerSize(2, 1, 4), SizeInOf(1, 4))>>)
asn_DEF_IntersectionGeometryList ==
    SEQUENCE_OF(PerSize(5, 1, 32), Member("", "IntersectionGeometry"))
asn_DEF_IntersectionID == NativeInteger(PerValue(16, 0, 65535), ValueIn(0, 65535))
asn_DEF_IntersectionReferenceID == SEQUENCE(-1, <<
    Optional("region", "RoadRegulatorID"), Member("id", "IntersectionID")>>)
asn_DEF_IntersectionState_regional_11 ==
    SEQUENCE_OF(PerSize(2, 1, 4), Member("", "RegionalExtension_369P0"))
asn_DEF_IntersectionState == SEQUENCE(10, <<
    Optional("name", "DescriptiveName"), Member("id", "IntersectionReferenceID"),
    Member("revision", "MsgCount"), Member("status", "IntersectionStatusObject"),
    Optional("moy", "MinuteOfTheYear"), Optional("timeStamp", "DSecond"),
    Optional("enabledLanes", "EnabledLaneList"), Member("states", "MovementList"),
    Optional("maneuverAssistList", "ManeuverAssistList"),
    Limited(Optional("regional", "IntersectionState_regional_11"), PerSize(2, 1, 4), SizeInOf(1, 4))>>)
asn_DEF_IntersectionStateList == SEQUENCE_OF(PerSize(5, 1, 32), Member("", "IntersectionState"))
asn_DEF_IntersectionStatusObject == BIT_STRING(PerSize(0, 16, 16), SizeIn(16, 16))
asn_DEF_LaneAttributes_Barrier == BIT_STRING(PerSize(0, 16, 16), SizeIn(16, 16))
asn_DEF_LaneAttributes_Bike == BIT_STRING(PerSize(0, 16, 16), SizeIn(16, 16))
asn_DEF_LaneAttributes_Crosswalk == BIT_STRING(PerSize(0, 16, 16), SizeIn(16, 16))
asn_DEF_LaneAttributes_Parking == BIT_STRING(PerSize(0, 16, 16), SizeIn(16, 16))
asn_DEF_LaneAttributes_Sidewalk == BIT_STRING(PerSize(0, 16, 16), SizeIn(16, 16))
asn_DEF_LaneAttributes_Striping == BIT_STRING(PerSize(0, 16, 16), SizeIn(16, 16))
asn_DEF_LaneAttributes_TrackedVehicle == BIT_STRING(PerSize(0, 16, 16), SizeIn(16, 16))
asn_DEF_LaneAttributes_Vehicle == BIT_STRING(PerSizeExt(0, 8, 8), SizeIn(8, 8))
asn_DEF_LaneAttributes == SEQUENCE(-1, <<
    Member("directionalUse", "LaneDirection"), Member("sharedWith", "LaneSharing"),
    Member("laneType", "LaneTypeAttributes"), Optional("regional", "RegionalExtension_369P0")>>)
asn_DEF_LaneConnectionID == NativeInteger(PerValue(8, 0, 255), ValueIn(0, 255))
asn_DEF_LaneDataAttribute_regional_8 ==
    SEQUENCE_OF(PerSize(2, 1, 4), Member("", "RegionalExtension_369P0"))
asn_DEF_LaneDataAttribute == CHOICE(PerValueExt(3, 0, 6), 7, <<
    Member("pathEndPointAngle", "DeltaAngle"),
    Member("laneCrownPointCenter", "RoadwayCrownAngle"),
    Member("laneCrownPointLeft", "RoadwayCrownAngle"),
    Member("laneCrownPointRight", "RoadwayCrownAngle"),
    Member("laneAngle", "MergeDivergeNodeAngle"), Member("speedLimits", "SpeedLimitList"),
    Limited(Member("regional", "LaneDataAttribute_regional_8"), PerSize(2, 1, 4), SizeInOf(1, 4))>>)
asn_DEF_LaneDataAttributeList == SEQUENCE_OF(PerSize(3, 1, 8), Member("", "LaneDataAttribute"))
asn_DEF_LaneDirection == BIT_STRING(PerSize(0, 2, 2), SizeIn(2, 2))
asn_DEF_LaneID == NativeInteger(PerValue(8, 0, 255), ValueIn(0, 255))
asn_DEF_LaneList == SEQUENCE_OF(PerSize(8, 1, 255), Member("", "GenericLane"))
asn_DEF_LaneSharing == BIT_STRING(PerSize(0, 10, 10), SizeIn(10, 10))
asn_DEF_LaneTypeAttributes == CHOICE(PerValueExt(3, 0, 7), 8, <<
    Member("vehicle", "LaneAttributes_Vehicle"),
    Member("crosswalk", "LaneAttributes_Crosswalk"), Member("bikeLane", "LaneAttributes_Bike"),
    Member("sidewalk", "LaneAttributes_Sidewalk"), Member("median", "LaneAttributes_Barrier"),
    Member("striping", "LaneAttributes_Striping"),
    Member("trackedVehicle", "LaneAttributes_TrackedVehicle"),
    Member("parking", "LaneAttributes_Parking")>>)
asn_DEF_LaneWidth == NativeInteger(PerValue(15, 0, 32767), ValueIn(0, 32767))
asn_DEF_LayerID == NativeInteger(PerValue(7, 0, 100), ValueIn(0, 100))
asn_DEF_LayerType == NativeEnumerated(PerValueExt(3, 0, 7), 8, 9)
asn_DEF_ManeuverAssistList ==
    SEQUENCE_OF(PerSize(4, 1, 16), Member("", "ConnectionManeuverAssist"))
asn_DEF_MapData_regional_10 ==
    SEQUENCE_OF(PerSize(2, 1, 4), Member("", "RegionalExtension_369P0"))
asn_DEF_MapData == SEQUENCE(9, <<
    Optional("timeStamp", "MinuteOfTheYear"), Member("msgIssueRevision", "MsgCount"),
    Optional("layerType", "LayerType"), Optional("layerID", "LayerID"),
    Optional("intersections", "IntersectionGeometryList"),
    Optional("roadSegments", "RoadSegmentList"), Optional("dataParameters", "DataParameters"),
    Optional("restrictionList", "RestrictionClassList"),
    Limited(Optional("regional", "MapData_regional_10"), PerSize(2, 1, 4), SizeInOf(1, 4))>>)
asn_DEF_MergeDivergeNodeAngle == NativeInteger(PerValue(9, -180, 180), ValueIn(-180, 180))
asn_DEF_MinuteOfTheYear == NativeInteger(PerValue(20, 0, 527040), ValueIn(0, 527040))
asn_DEF_MovementEvent_regional_5 ==
    SEQUENCE_OF(PerSize(2, 1, 4), Member("", "RegionalExtension_369P0"))
asn_DEF_MovementEvent == SEQUENCE(4, <<
    Member("eventState", "MovementPhaseState"), Optional("timing", "TimeChangeDetails"),
    Optional("speeds", "AdvisorySpeedList"),
    Limited(Optional("regional", "MovementEvent_regional_5"), PerSize(2, 1, 4), SizeInOf(1, 4))>>)
asn_DEF_MovementEventList == SEQUENCE_OF(PerSize(4, 1, 16), Member("", "MovementEvent"))
asn_DEF_MovementList == SEQUENCE_OF(PerSize(8, 1, 255), Member("", "MovementState"))
asn_DEF_MovementPhaseState == NativeEnumerated(PerValue(4, 0, 9), 10, 0)
asn_DEF_MovementState_regional_6 ==
    SEQUENCE_OF(PerSize(2, 1, 4), Member("", "RegionalExtension_369P0"))
asn_DEF_MovementState == SEQUENCE(5, <<
    Optional("movementName", "DescriptiveName"), Member("signalGroup", "SignalGroupID"),
    Member("state-time-speed", "MovementEventList"),
    Optional("maneuverAssistList", "ManeuverAssistList"),
    Limited(Optional("regional", "MovementState_regional_6"), PerSize(2, 1, 4), SizeInOf(1, 4))>>)
asn_DEF_MsgCount == NativeInteger(PerValue(7, 0, 127), ValueIn(0, 127))
asn_DEF_Node_LLmD_64b == SEQUENCE(-1, <<Member("lon", "Longitude"), Member("lat", "Latitude")>>)
asn_DEF_Node_XY_20b == SEQUENCE(-1, <<Member("x", "Offset_B10"), Member("y", "Offset_B10")>>)
asn_DEF_Node_XY_22b == SEQUENCE(-1, <<Member("x", "Offset_B11"), Member("y", "Offset_B11")>>)
asn_DEF_Node_XY_24b == SEQUENCE(-1, <<Member("x", "Offset_B12"), Member("y", "Offset_B12")>>)
asn_DEF_Node_XY_26b == SEQUENCE(-1, <<Member("x", "Offset_B13"), Member("y", "Offset_B13")>>)
asn_DEF_Node_XY_28b == SEQUENCE(-1, <<Member("x", "Offset_B14"), Member("y", "Offset_B14")>>)
asn_DEF_Node_XY_32b == SEQUENCE(-1, <<Member("x", "Offset_B16"), Member("y", "Offset_B16")>>)
asn_DEF_NodeAttributeSetXY_regional_8 ==
    SEQUENCE_OF(PerSize(2, 1, 4), Member("", "RegionalExtension_369P0"))
asn_DEF_NodeAttributeSetXY == SEQUENCE(7, <<
    Optional("localNode", "NodeAttributeXYList"),
    Optional("disabled", "SegmentAttributeXYList"),
    Optional("enabled", "SegmentAttributeXYList"), Optional("data", "LaneDataAttributeList"),
    Optional("dWidth", "Offset_B10"), Optional("dElevation", "Offset_B10"),
    Limited(Optional("regional", "NodeAttributeSetXY_regional_8"), PerSize(2, 1, 4), SizeInOf(1, 4))>>)
asn_DEF_NodeAttributeXY == NativeEnumerated(PerValueExt(4, 0, 11), 12, 13)
asn_DEF_NodeAttributeXYList == SEQUENCE_OF(PerSize(3, 1, 8), Member("", "NodeAttributeXY"))
asn_DEF_NodeListXY == CHOICE(PerValueExt(1, 0, 1), 2, <<
    Member("nodes", "NodeSetXY"), Member("computed", "ComputedLane")>>)
asn_DEF_NodeOffsetPointXY == CHOICE(PerValue(3, 0, 7), -1, <<
    Member("node-XY1", "Node_XY_20b"), Member("node-XY2", "Node_XY_22b"),
    Member("node-XY3", "Node_XY_24b"), Member("node-XY4", "Node_XY_26b"),
    Member("node-XY5", "Node_XY_28b"), Member("node-XY6", "Node_XY_32b"),
    Member("node-LatLon", "Node_LLmD_64b"), Member("regional", "RegionalExtension_369P0")>>)
asn_DEF_NodeSetXY == SEQUENCE_OF(PerSize(6, 2, 63), Member("", "NodeXY"))
asn_DEF_NodeXY == SEQUENCE(2, <<
    Member("delta", "NodeOffsetPointXY"), Optional("attributes", "NodeAttributeSetXY")>>)
asn_DEF_Offset_B09 == NativeInteger(PerValue(9, -256, 255), ValueIn(-256, 255))
asn_DEF_Offset_B10 == NativeInteger(PerValue(10, -512, 511), ValueIn(-512, 511))
asn_DEF_Offset_B11 == NativeInteger(PerValue(11, -1024, 1023), ValueIn(-1024, 1023))
asn_DEF_Offset_B12 == NativeInteger(PerValue(12, -2048, 2047), ValueIn(-2048, 2047))
asn_DEF_Offset_B13 == NativeInteger(PerValue(13, -4096, 4095), ValueIn(-4096, 4095))
asn_DEF_Offset_B14 == NativeInteger(PerValue(14, -8192, 8191), ValueIn(-8192, 8191))
asn_DEF_Offset_B16 == NativeInteger(PerValue(16, -32768, 32767), ValueIn(-32768, 32767))
asn_DEF_OverlayLaneList == SEQUENCE_OF(PerSize(3, 1, 5), Member("", "LaneID"))
asn_DEF_PedestrianBicycleDetect == BOOLEAN_t
asn_DEF_Position3D_regional_5 ==
    SEQUENCE_OF(PerSize(2, 1, 4), Member("", "RegionalExtension_369P0"))
asn_DEF_Position3D == SEQUENCE(4, <<
    Member("lat", "Latitude"), Member("long", "Longitude"), Optional("elevation", "Elevation"),
    Limited(Optional("regional", "Position3D_regional_5"), PerSize(2, 1, 4), SizeInOf(1, 4))>>)
asn_DEF_PositionConfidence == NativeEnumerated(PerValue(4, 0, 15), 16, 0)
asn_DEF_PositionConfidenceSet == SEQUENCE(-1, <<
    Member("pos", "PositionConfidence"), Member("elevation", "ElevationConfidence")>>)
asn_DEF_PositionalAccuracy == SEQUENCE(-1, <<
    Member("semiMajor", "SemiMajorAxisAccuracy"), Member("semiMinor", "SemiMinorAxisAccuracy"),
    Member("orientation", "SemiMajorAxisOrientation")>>)
asn_DEF_PreemptPriorityList == SEQUENCE_OF(PerSize(5, 1, 32), Member("", "SignalControlZone"))
asn_DEF_PrioritizationResponseStatus == NativeEnumerated(PerValueExt(3, 0, 7), 8, 9)
asn_DEF_PriorityRequestType == NativeEnumerated(PerValueExt(2, 0, 3), 4, 5)
asn_DEF_RTCM_Revision == NativeEnumerated(PerValueExt(2, 0, 3), 4, 5)
asn_DEF_RTCMcorrections_regional_8 ==
    SEQUENCE_OF(PerSize(2, 1, 4), Member("", "RegionalExtension_369P0"))
asn_DEF_RTCMcorrections == SEQUENCE(7, <<
    Member("msgCnt", "MsgCount"), Member("rev", "RTCM_Revision"),
    Optional("timeStamp", "MinuteOfTheYear"), Optional("anchorPoint", "FullPositionVector"),
    Optional("rtcmHeader", "RTCMheader"), Member("msgs", "RTCMmessageList"),
    Limited(Optional("regional", "RTCMcorrections_regional_8"), PerSize(2, 1, 4), SizeInOf(1, 4))>>)
asn_DEF_RTCMheader == SEQUENCE(-1, <<
    Member("status", "GNSSstatus"), Member("offsetSet", "AntennaOffsetSet")>>)
asn_DEF_RTCMmessage == OCTET_STRING(PerSize(10, 1, 1023), SizeIn(1, 1023))
asn_DEF_RTCMmessageList == SEQUENCE_OF(PerSize(3, 1, 5), Member("", "RTCMmessage"))
asn_DEF_RegionId == NativeInteger(PerValue(8, 0, 255), ValueIn(0, 255))
asn_DEF_RegionalExtension_regExtValue_3 == OPEN_TYPE
asn_DEF_RegionalExtension_369P0 == SEQUENCE(-1, <<
    Limited(Member("regionId", "RegionId"), PerValue(8, 0, 255), ValueIn(0, 255)),
    Limited(OpenType("regExtValue", "RegionalExtension_regExtValue_3"), PerNone, OwnCheck)>>)
asn_DEF_RegulatorySpeedLimit == SEQUENCE(-1, <<
    Member("type", "SpeedLimitType"), Member("speed", "Velocity")>>)
asn_DEF_RequestID == NativeInteger(PerValue(8, 0, 255), ValueIn(0, 255))
asn_DEF_RequestImportanceLevel == NativeEnumerated(PerValue(4, 0, 15), 16, 0)
asn_DEF_RequestSubRole == NativeEnumerated(PerValue(4, 0, 15), 16, 0)
asn_DEF_RequestorDescription_regional_10 ==
    SEQUENCE_OF(PerSize(2, 1, 4), Member("", "RegionalExtension_369P0"))
asn_DEF_RequestorDescription == SEQUENCE(9, <<
    Member("id", "VehicleID"), Optional("type", "RequestorType"),
    Optional("position", "RequestorPositionVector"), Optional("name", "DescriptiveName"),
    Optional("routeName", "DescriptiveName"), Optional("transitStatus", "TransitVehicleStatus"),
    Optional("transitOccupancy", "TransitVehicleOccupancy"),
    Optional("transitSchedule", "DeltaTime"),
    Limited(Optional("regional", "RequestorDescription_regional_10"), PerSize(2, 1, 4), SizeInOf(1, 4))>>)
asn_DEF_RequestorPositionVector == SEQUENCE(3, <<
    Member("position", "Position3D"), Optional("heading", "Angle"),
    Optional("speed", "TransmissionAndSpeed")>>)
asn_DEF_RequestorType == SEQUENCE(6, <<
    Member("role", "BasicVehicleRole"), Optional("subrole", "RequestSubRole"),
    Optional("request", "RequestImportanceLevel"), Optional("iso3883", "Iso3833VehicleType"),
    Optional("hpmsType", "VehicleType"), Optional("regional", "RegionalExtension_369P0")>>)
asn_DEF_RestrictionAppliesTo == NativeEnumerated(PerValueExt(4, 0, 13), 14, 15)
asn_DEF_RestrictionClassAssignment == SEQUENCE(-1, <<
    Member("id", "RestrictionClassID"), Member("users", "RestrictionUserTypeList")>>)
asn_DEF_RestrictionClassID == NativeInteger(PerValue(8, 0, 255), ValueIn(0, 255))
asn_DEF_RestrictionClassList ==
    SEQUENCE_OF(PerSize(8, 1, 254), Member("", "RestrictionClassAssignment"))
asn_DEF_RestrictionUserType_regional_3 ==
    SEQUENCE_OF(PerSize(2, 1, 4), Member("", "RegionalExtension_369P0"))
asn_DEF_RestrictionUserType == CHOICE(PerValueExt(1, 0, 1), 2, <<
    Member("basicType", "RestrictionAppliesTo"),
    Limited(Member("regional", "RestrictionUserType_regional_3"), PerSize(2, 1, 4), SizeInOf(1, 4))>>)
asn_DEF_RestrictionUserTypeList ==
    SEQUENCE_OF(PerSize(4, 1, 16), Member("", "RestrictionUserType"))
asn_DEF_RoadLaneSetList == SEQUENCE_OF(PerSize(8, 1, 255), Member("", "GenericLane"))
asn_DEF_RoadRegulatorID == NativeInteger(PerValue(16, 0, 65535), ValueIn(0, 65535))
asn_DEF_RoadSegment_regional_9 ==
    SEQUENCE_OF(PerSize(2, 1, 4), Member("", "RegionalExtension_369P0"))
asn_DEF_RoadSegment == SEQUENCE(8, <<
    Optional("name", "DescriptiveName"), Member("id", "RoadSegmentReferenceID"),
    Member("revision", "MsgCount"), Member("refPoint", "Position3D"),
    Optional("laneWidth", "LaneWidth"), Optional("speedLimits", "SpeedLimitList"),
    Member("roadLaneSet", "RoadLaneSetList"),
    Limited(Optional("regional", "RoadSegment_regional_9"), PerSize(2, 1, 4), SizeInOf(1, 4))>>)
asn_DEF_RoadSegmentID == NativeInteger(PerValue(16, 0, 65535), ValueIn(0, 65535))
asn_DEF_RoadSegmentList == SEQUENCE_OF(PerSize(5, 1, 32), Member("", "RoadSegment"))
asn_DEF_RoadSegmentReferenceID == SEQUENCE(-1, <<
    Optional("region", "RoadRegulatorID"), Member("id", "RoadSegmentID")>>)
asn_DEF_RoadwayCrownAngle == NativeInteger(PerValue(8, -128, 127), ValueIn(-128, 127))
asn_DEF_SPAT_regional_5 == SEQUENCE_OF(PerSize(2, 1, 4), Member("", "RegionalExtension_369P0"))
asn_DEF_SPAT == SEQUENCE(4, <<
    Optional("timeStamp", "MinuteOfTheYear"), Optional("name", "DescriptiveName"),
    Member("intersections", "IntersectionStateList"),
    Limited(Optional("regional", "SPAT_regional_5"), PerSize(2, 1, 4), SizeInOf(1, 4))>>)
asn_DEF_Scale_B12 == NativeInteger(PerValue(12, -2048, 2047), ValueIn(-2048, 2047))
asn_DEF_SegmentAttributeXY == NativeEnumerated(PerValueExt(6, 0, 37), 38, 39)
asn_DEF_SegmentAttributeXYList ==
    SEQUENCE_OF(PerSize(3, 1, 8), Member("", "SegmentAttributeXY"))
asn_DEF_SemiMajorAxisAccuracy == NativeInteger(PerValue(8, 0, 255), ValueIn(0, 255))
asn_DEF_SemiMajorAxisOrientation == NativeInteger(PerValue(16, 0, 65535), ValueIn(0, 65535))
asn_DEF_SemiMinorAxisAccuracy == NativeInteger(PerValue(8, 0, 255), ValueIn(0, 255))
asn_DEF_SignalControlZone == SEQUENCE(1, <<Member("zone", "RegionalExtension_369P0")>>)
asn_DEF_SignalGroupID == NativeInteger(PerValue(8, 0, 255), ValueIn(0, 255))
asn_DEF_SignalRequest_regional_7 ==
    SEQUENCE_OF(PerSize(2, 1, 4), Member("", "RegionalExtension_369P0"))
asn_DEF_SignalRequest == SEQUENCE(6, <<
    Member("id", "IntersectionReferenceID"), Member("requestID", "RequestID"),
    Member("requestType", "PriorityRequestType"),
    Member("inBoundLane", "IntersectionAccessPoint"),
    Optional("outBoundLane", "IntersectionAccessPoint"),
    Limited(Optional("regional", "SignalRequest_regional_7"), PerSize(2, 1, 4), SizeInOf(1, 4))>>)
asn_DEF_SignalRequestList == SEQUENCE_OF(PerSize(5, 1, 32), Member("", "SignalRequestPackage"))
asn_DEF_SignalRequestMessage_regional_7 ==
    SEQUENCE_OF(PerSize(2, 1, 4), Member("", "RegionalExtension_369P0"))
asn_DEF_SignalRequestMessage == SEQUENCE(6, <<
    Optional("timeStamp", "MinuteOfTheYear"), Member("second", "DSecond"),
    Optional("sequenceNumber", "MsgCount"), Optional("requests", "SignalRequestList"),
    Member("requestor", "RequestorDescription"),
    Limited(Optional("regional", "SignalRequestMessage_regional_7"), PerSize(2, 1, 4), SizeInOf(1, 4))>>)
asn_DEF_SignalRequestPackage_regional_6 ==
    SEQUENCE_OF(PerSize(2, 1, 4), Member("", "RegionalExtension_369P0"))
asn_DEF_SignalRequestPackage == SEQUENCE(5, <<
    Member("request", "SignalRequest"), Optional("minute", "MinuteOfTheYear"),
    Optional("second", "DSecond"), Optional("duration", "DSecond"),
    Limited(Optional("regional", "SignalRequestPackage_regional_6"), PerSize(2, 1, 4), SizeInOf(1, 4))>>)
asn_DEF_SignalRequesterInfo == SEQUENCE(5, <<
    Member("id", "VehicleID"), Member("request", "RequestID"),
    Member("sequenceNumber", "MsgCount"), Optional("role", "BasicVehicleRole"),
    Optional("typeData", "RequestorType")>>)
asn_DEF_SignalStatus_regional_5 ==
    SEQUENCE_OF(PerSize(2, 1, 4), Member("", "RegionalExtension_369P0"))
asn_DEF_SignalStatus == SEQUENCE(4, <<
    Member("sequenceNumber", "MsgCount"), Member("id", "IntersectionReferenceID"),
    Member("sigStatus", "SignalStatusPackageList"),
    Limited(Optional("regional", "SignalStatus_regional_5"), PerSize(2, 1, 4), SizeInOf(1, 4))>>)
asn_DEF_SignalStatusList == SEQUENCE_OF(PerSize(5, 1, 32), Member("", "SignalStatus"))
asn_DEF_SignalStatusMessage_regional_6 ==
    SEQUENCE_OF(PerSize(2, 1, 4), Member("", "RegionalExtension_369P0"))
asn_DEF_SignalStatusMessage == SEQUENCE(5, <<
    Optional("timeStamp", "MinuteOfTheYear"), Member("second", "DSecond"),
    Optional("sequenceNumber", "MsgCount"), Member("status", "SignalStatusList"),
    Limited(Optional("regional", "SignalStatusMessage_regional_6"), PerSize(2, 1, 4), SizeInOf(1, 4))>>)
asn_DEF_SignalStatusPackage_regional_9 ==
    SEQUENCE_OF(PerSize(2, 1, 4), Member("", "RegionalExtension_369P0"))
asn_DEF_SignalStatusPackage == SEQUENCE(8, <<
    Optional("requester", "SignalRequesterInfo"),
    Member("inboundOn", "IntersectionAccessPoint"),
    Optional("outboundOn", "IntersectionAccessPoint"), Optional("minute", "MinuteOfTheYear"),
    Optional("second", "DSecond"), Optional("duration", "DSecond"),
    Member("status", "PrioritizationResponseStatus"),
    Limited(Optional("regional", "SignalStatusPackage_regional_9"), PerSize(2, 1, 4), SizeInOf(1, 4))>>)
asn_DEF_SignalStatusPackageList ==
    SEQUENCE_OF(PerSize(5, 1, 32), Member("", "SignalStatusPackage"))
asn_DEF_SpeedAdvice == NativeInteger(PerValue(9, 0, 500), ValueIn(0, 500))
asn_DEF_SpeedLimitList == SEQUENCE_OF(PerSize(4, 1, 9), Member("", "RegulatorySpeedLimit"))
asn_DEF_SpeedLimitType == NativeEnumerated(PerValueExt(4, 0, 12), 13, 14)
asn_DEF_SpeedandHeadingandThrottleConfidence == SEQUENCE(-1, <<
    Member("heading", "HeadingConfidence"), Member("speed", "SpeedConfidence"),
    Member("throttle", "ThrottleConfidence")>>)
asn_DEF_TemporaryID == OCTET_STRING(PerSize(0, 4, 4), SizeIn(4, 4))
asn_DEF_ThrottleConfidence == NativeEnumerated(PerValue(2, 0, 3), 4, 0)
asn_DEF_TimeChangeDetails == SEQUENCE(-1, <<
    Optional("startTime", "TimeMark"), Member("minEndTime", "TimeMark"),
    Optional("maxEndTime", "TimeMark"), Optional("likelyTime", "TimeMark"),
    Optional("confidence", "TimeIntervalConfidence"), Optional("nextTime", "TimeMark")>>)
asn_DEF_TimeConfidence == NativeEnumerated(PerValue(6, 0, 39), 40, 0)
asn_DEF_TimeIntervalConfidence == NativeInteger(PerValue(4, 0, 15), ValueIn(0, 15))
asn_DEF_TimeMark == NativeInteger(PerValue(16, 0, 36001), ValueIn(0, 36001))
asn_DEF_TransitVehicleOccupancy == NativeEnumerated(PerValue(3, 0, 7), 8, 0)
asn_DEF_TransitVehicleStatus == BIT_STRING(PerSize(0, 8, 8), SizeIn(8, 8))
asn_DEF_TransmissionAndSpeed == SEQUENCE(-1, <<
    Member("transmisson", "TransmissionState"), Member("speed", "Velocity")>>)
asn_DEF_TransmissionState == NativeEnumerated(PerValue(3, 0, 7), 8, 0)
asn_DEF_VehicleHeight == NativeInteger(PerValue(7, 0, 127), ValueIn(0, 127))
asn_DEF_VehicleID == CHOICE(PerValue(1, 0, 1), -1, <<
    Member("entityID", "TemporaryID"), Member("stationID", "StationID")>>)
asn_DEF_VehicleType == NativeEnumerated(PerValueExt(4, 0, 15), 16, 17)
asn_DEF_Velocity == NativeInteger(PerValue(13, 0, 8191), ValueIn(0, 8191))
asn_DEF_WaitOnStopline == BOOLEAN_t
asn_DEF_ZoneLength == NativeInteger(PerValue(14, 0, 10000), ValueIn(0, 10000))

-----------------------------------------------------------------------------
DsrcTypes ==
    [AdvisorySpeed_regional_7 |-> asn_DEF_AdvisorySpeed_regional_7,
     AdvisorySpeed |-> asn_DEF_AdvisorySpeed, AdvisorySpeedList |-> asn_DEF_AdvisorySpeedList,
     AdvisorySpeedType |-> asn_DEF_AdvisorySpeedType,
     AllowedManeuvers |-> asn_DEF_AllowedManeuvers, Angle |-> asn_DEF_Angle,
     AntennaOffsetSet |-> asn_DEF_AntennaOffsetSet, ApproachID |-> asn_DEF_ApproachID,
     BasicVehicleRole |-> asn_DEF_BasicVehicleRole,
     ComputedLane_offsetXaxis_3 |-> asn_DEF_ComputedLane_offsetXaxis_3,
     ComputedLane_offsetYaxis_6 |-> asn_DEF_ComputedLane_offsetYaxis_6,
     ComputedLane_regional_12 |-> asn_DEF_ComputedLane_regional_12,
     ComputedLane |-> asn_DEF_ComputedLane, ConnectingLane |-> asn_DEF_ConnectingLane,
     Connection |-> asn_DEF_Connection,
     ConnectionManeuverAssist_regional_7 |-> asn_DEF_ConnectionManeuverAssist_regional_7,
     ConnectionManeuverAssist |-> asn_DEF_ConnectionManeuverAssist,
     ConnectsToList |-> asn_DEF_ConnectsToList, DDateTime |-> asn_DEF_DDateTime,
     DDay |-> asn_DEF_DDay, DHour |-> asn_DEF_DHour, DMinute |-> asn_DEF_DMinute,
     DMonth |-> asn_DEF_DMonth, DOffset |-> asn_DEF_DOffset, DSRCmsgID |-> asn_DEF_DSRCmsgID,
     DSecond |-> asn_DEF_DSecond, DYear |-> asn_DEF_DYear,
     DataParameters |-> asn_DEF_DataParameters, DeltaAngle |-> asn_DEF_DeltaAngle,
     DeltaTime |-> asn_DEF_DeltaTime, DescriptiveName |-> asn_DEF_DescriptiveName,
     DrivenLineOffsetLg |-> asn_DEF_DrivenLineOffsetLg,
     DrivenLineOffsetSm |-> asn_DEF_DrivenLineOffsetSm, Elevation |-> asn_DEF_Elevation,
     ElevationConfidence |-> asn_DEF_ElevationConfidence,
     EnabledLaneList |-> asn_DEF_EnabledLaneList, FuelType |-> asn_DEF_FuelType,
     FullPositionVector |-> asn_DEF_FullPositionVector, GNSSstatus |-> asn_DEF_GNSSstatus,
     GenericLane_regional_11 |-> asn_DEF_GenericLane_regional_11,
     GenericLane |-> asn_DEF_GenericLane,
     IntersectionAccessPoint |-> asn_DEF_IntersectionAccessPoint,
     IntersectionGeometry_regional_10 |-> asn_DEF_IntersectionGeometry_regional_10,
     IntersectionGeometry |-> asn_DEF_IntersectionGeometry,
     IntersectionGeometryList |-> asn_DEF_IntersectionGeometryList,
     IntersectionID |-> asn_DEF_IntersectionID,
     IntersectionReferenceID |-> asn_DEF_IntersectionReferenceID,
     IntersectionState_regional_11 |-> asn_DEF_IntersectionState_regional_11,
     IntersectionState |-> asn_DEF_IntersectionState,
     IntersectionStateList |-> asn_DEF_IntersectionStateList,
     IntersectionStatusObject |-> asn_DEF_IntersectionStatusObject,
     LaneAttributes_Barrier |-> asn_DEF_LaneAttributes_Barrier,
     LaneAttributes_Bike |-> asn_DEF_LaneAttributes_Bike,
     LaneAttributes_Crosswalk |-> asn_DEF_LaneAttributes_Crosswalk,
     LaneAttributes_Parking |-> asn_DEF_LaneAttributes_Parking,
     LaneAttributes_Sidewalk |-> asn_DEF_LaneAttributes_Sidewalk,
     LaneAttributes_Striping |-> asn_DEF_LaneAttributes_Striping,
     LaneAttributes_TrackedVehicle |-> asn_DEF_LaneAttributes_TrackedVehicle,
     LaneAttributes_Vehicle |-> asn_DEF_LaneAttributes_Vehicle,
     LaneAttributes |-> asn_DEF_LaneAttributes, LaneConnectionID |-> asn_DEF_LaneConnectionID,
     LaneDataAttribute_regional_8 |-> asn_DEF_LaneDataAttribute_regional_8,
     LaneDataAttribute |-> asn_DEF_LaneDataAttribute,
     LaneDataAttributeList |-> asn_DEF_LaneDataAttributeList,
     LaneDirection |-> asn_DEF_LaneDirection, LaneID |-> asn_DEF_LaneID,
     LaneList |-> asn_DEF_LaneList, LaneSharing |-> asn_DEF_LaneSharing,
     LaneTypeAttributes |-> asn_DEF_LaneTypeAttributes, LaneWidth |-> asn_DEF_LaneWidth,
     LayerID |-> asn_DEF_LayerID, LayerType |-> asn_DEF_LayerType,
     ManeuverAssistList |-> asn_DEF_ManeuverAssistList,
     MapData_regional_10 |-> asn_DEF_MapData_regional_10, MapData |-> asn_DEF_MapData,
     MergeDivergeNodeAngle |-> asn_DEF_MergeDivergeNodeAngle,
     MinuteOfTheYear |-> asn_DEF_MinuteOfTheYear,
     MovementEvent_regional_5 |-> asn_DEF_MovementEvent_regional_5,
     MovementEvent |-> asn_DEF_MovementEvent, MovementEventList |-> asn_DEF_MovementEventList,
     MovementList |-> asn_DEF_MovementList, MovementPhaseState |-> asn_DEF_MovementPhaseState,
     MovementState_regional_6 |-> asn_DEF_MovementState_regional_6,
     MovementState |-> asn_DEF_MovementState, MsgCount |-> asn_DEF_MsgCount,
     Node_LLmD_64b |-> asn_DEF_Node_LLmD_64b, Node_XY_20b |-> asn_DEF_Node_XY_20b,
     Node_XY_22b |-> asn_DEF_Node_XY_22b, Node_XY_24b |-> asn_DEF_Node_XY_24b,
     Node_XY_26b |-> asn_DEF_Node_XY_26b, Node_XY_28b |-> asn_DEF_Node_XY_28b,
     Node_XY_32b |-> asn_DEF_Node_XY_32b,
     NodeAttributeSetXY_regional_8 |-> asn_DEF_NodeAttributeSetXY_regional_8,
     NodeAttributeSetXY |-> asn_DEF_NodeAttributeSetXY,
     NodeAttributeXY |-> asn_DEF_NodeAttributeXY,
     NodeAttributeXYList |-> asn_DEF_NodeAttributeXYList, NodeListXY |-> asn_DEF_NodeListXY,
     NodeOffsetPointXY |-> asn_DEF_NodeOffsetPointXY, NodeSetXY |-> asn_DEF_NodeSetXY,
     NodeXY |-> asn_DEF_NodeXY, Offset_B09 |-> asn_DEF_Offset_B09,
     Offset_B10 |-> asn_DEF_Offset_B10, Offset_B11 |-> asn_DEF_Offset_B11,
     Offset_B12 |-> asn_DEF_Offset_B12, Offset_B13 |-> asn_DEF_Offset_B13,
     Offset_B14 |-> asn_DEF_Offset_B14, Offset_B16 |-> asn_DEF_Offset_B16,
     OverlayLaneList |-> asn_DEF_OverlayLaneList,
     PedestrianBicycleDetect |-> asn_DEF_PedestrianBicycleDetect,
     Position3D_regional_5 |-> asn_DEF_Position3D_regional_5, Position3D |-> asn_DEF_Position3D,
     PositionConfidence |-> asn_DEF_PositionConfidence,
     PositionConfidenceSet |-> asn_DEF_PositionConfidenceSet,
     PositionalAccuracy |-> asn_DEF_PositionalAccuracy,
     PreemptPriorityList |-> asn_DEF_PreemptPriorityList,
     PrioritizationResponseStatus |-> asn_DEF_PrioritizationResponseStatus,
     PriorityRequestType |-> asn_DEF_PriorityRequestType,
     RTCM_Revision |-> asn_DEF_RTCM_Revision,
     RTCMcorrections_regional_8 |-> asn_DEF_RTCMcorrections_regional_8,
     RTCMcorrections |-> asn_DEF_RTCMcorrections, RTCMheader |-> asn_DEF_RTCMheader,
     RTCMmessage |-> asn_DEF_RTCMmessage, RTCMmessageList |-> asn_DEF_RTCMmessageList,
     RegionId |-> asn_DEF_RegionId,
     RegionalExtension_regExtValue_3 |-> asn_DEF_RegionalExtension_regExtValue_3,
     RegionalExtension_369P0 |-> asn_DEF_RegionalExtension_369P0,
     RegulatorySpeedLimit |-> asn_DEF_RegulatorySpeedLimit, RequestID |-> asn_DEF_RequestID,
     RequestImportanceLevel |-> asn_DEF_RequestImportanceLevel,
     RequestSubRole |-> asn_DEF_RequestSubRole,
     RequestorDescription_regional_10 |-> asn_DEF_RequestorDescription_regional_10,
     RequestorDescription |-> asn_DEF_RequestorDescription,
     RequestorPositionVector |-> asn_DEF_RequestorPositionVector,
     RequestorType |-> asn_DEF_RequestorType,
     RestrictionAppliesTo |-> asn_DEF_RestrictionAppliesTo,
     RestrictionClassAssignment |-> asn_DEF_RestrictionClassAssignment,
     RestrictionClassID |-> asn_DEF_RestrictionClassID,
     RestrictionClassList |-> asn_DEF_RestrictionClassList,
     RestrictionUserType_regional_3 |-> asn_DEF_RestrictionUserType_regional_3,
     RestrictionUserType |-> asn_DEF_RestrictionUserType,
     RestrictionUserTypeList |-> asn_DEF_RestrictionUserTypeList,
     RoadLaneSetList |-> asn_DEF_RoadLaneSetList, RoadRegulatorID |-> asn_DEF_RoadRegulatorID,
     RoadSegment_regional_9 |-> asn_DEF_RoadSegment_regional_9,
     RoadSegment |-> asn_DEF_RoadSegment, RoadSegmentID |-> asn_DEF_RoadSegmentID,
     RoadSegmentList |-> asn_DEF_RoadSegmentList,
     RoadSegmentReferenceID |-> asn_DEF_RoadSegmentReferenceID,
     RoadwayCrownAngle |-> asn_DEF_RoadwayCrownAngle,
     SPAT_regional_5 |-> asn_DEF_SPAT_regional_5, SPAT |-> asn_DEF_SPAT,
     Scale_B12 |-> asn_DEF_Scale_B12, SegmentAttributeXY |-> asn_DEF_SegmentAttributeXY,
     SegmentAttributeXYList |-> asn_DEF_SegmentAttributeXYList,
     SemiMajorAxisAccuracy |-> asn_DEF_SemiMajorAxisAccuracy,
     SemiMajorAxisOrientation |-> asn_DEF_SemiMajorAxisOrientation,
     SemiMinorAxisAccuracy |-> asn_DEF_SemiMinorAxisAccuracy,
     SignalControlZone |-> asn_DEF_SignalControlZone, SignalGroupID |-> asn_DEF_SignalGroupID,
     SignalRequest_regional_7 |-> asn_DEF_SignalRequest_regional_7,
     SignalRequest |-> asn_DEF_SignalRequest, SignalRequestList |-> asn_DEF_SignalRequestList,
     SignalRequestMessage_regional_7 |-> asn_DEF_SignalRequestMessage_regional_7,
     SignalRequestMessage |-> asn_DEF_SignalRequestMessage,
     SignalRequestPackage_regional_6 |-> asn_DEF_SignalRequestPackage_regional_6,
     SignalRequestPackage |-> asn_DEF_SignalRequestPackage,
     SignalRequesterInfo |-> asn_DEF_SignalRequesterInfo,
     SignalStatus_regional_5 |-> asn_DEF_SignalStatus_regional_5,
     SignalStatus |-> asn_DEF_SignalStatus, SignalStatusList |-> asn_DEF_SignalStatusList,
     SignalStatusMessage_regional_6 |-> asn_DEF_SignalStatusMessage_regional_6,
     SignalStatusMessage |-> asn_DEF_SignalStatusMessage,
     SignalStatusPackage_regional_9 |-> asn_DEF_SignalStatusPackage_regional_9,
     SignalStatusPackage |-> asn_DEF_SignalStatusPackage,
     SignalStatusPackageList |-> asn_DEF_SignalStatusPackageList,
     SpeedAdvice |-> asn_DEF_SpeedAdvice, SpeedLimitList |-> asn_DEF_SpeedLimitList,
     SpeedLimitType |-> asn_DEF_SpeedLimitType,
     SpeedandHeadingandThrottleConfidence |-> asn_DEF_SpeedandHeadingandThrottleConfidence,
     TemporaryID |-> asn_DEF_TemporaryID, ThrottleConfidence |-> asn_DEF_ThrottleConfidence,
     TimeChangeDetails |-> asn_DEF_TimeChangeDetails, TimeConfidence |-> asn_DEF_TimeConfidence,
     TimeIntervalConfidence |-> asn_DEF_TimeIntervalConfidence, TimeMark |-> asn_DEF_TimeMark,
     TransitVehicleOccupancy |-> asn_DEF_TransitVehicleOccupancy,
     TransitVehicleStatus |-> asn_DEF_TransitVehicleStatus,
     TransmissionAndSpeed |-> asn_DEF_TransmissionAndSpeed,
     TransmissionState |-> asn_DEF_TransmissionState, VehicleHeight |-> asn_DEF_VehicleHeight,
     VehicleID |-> asn_DEF_VehicleID, VehicleType |-> asn_DEF_VehicleType,
     Velocity |-> asn_DEF_Velocity, WaitOnStopline |-> asn_DEF_WaitOnStopline,
     ZoneLength |-> asn_DEF_ZoneLength]
=============================================================================
