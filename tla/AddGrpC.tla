------------------------------ MODULE AddGrpC ------------------------------
(***************************************************************************)
(* The regional additions to DSRC and the electronic registration data     *)
(* (ISO TS 19091 addendum C, ISO TS 24534), as generated in src/vanetza-   *)
(* extension/asn1/its. Each definition is the type descriptor of that      *)
(* name, with its members, PER constraints and constraint function; a type *)
(* that C declares inside another one carries the name of the outer one    *)
(* first.                                                                  *)
(***************************************************************************)
EXTENDS AsnDescriptors

asn_DEF_BatteryStatus == NativeEnumerated(PerValueExt(2, 0, 3), 4, 5)
asn_DEF_ConnectionManeuverAssist_addGrpC == SEQUENCE(1, <<
    Optional("itsStationPosition", "ItsStationPositionList")>>)
asn_DEF_ConnectionTrajectory_addGrpC == SEQUENCE(2, <<
    Member("nodes", "NodeSetXY"), Member("connectionID", "LaneConnectionID")>>)
asn_DEF_EmissionType == NativeEnumerated(PerValueExt(3, 0, 5), 6, 7)
asn_DEF_ExceptionalCondition == NativeEnumerated(PerValueExt(4, 0, 12), 13, 14)
asn_DEF_IntersectionState_addGrpC == SEQUENCE(1, <<
    Optional("activePrioritizations", "PrioritizationResponseList")>>)
asn_DEF_ItsStationPosition == SEQUENCE(4, <<
    Member("stationID", "StationID"), Optional("laneID", "LaneID"),
    Optional("nodeXY", "NodeOffsetPointXY"), Optional("timeReference", "TimeReference")>>)
asn_DEF_ItsStationPositionList ==
    SEQUENCE_OF(PerSize(3, 1, 5), Member("", "ItsStationPosition"))
asn_DEF_LaneAttributes_addGrpC == SEQUENCE(2, <<
    Optional("maxVehicleHeight", "VehicleHeight"), Optional("maxVehicleWeight", "VehicleMass")>>)
asn_DEF_MapData_addGrpC == SEQUENCE(1, <<
    Optional("signalHeadLocations", "SignalHeadLocationList")>>)
asn_DEF_MovementEvent_addGrpC == SEQUENCE(1, <<
    Optional("stateChangeReason", "ExceptionalCondition")>>)
asn_DEF_Node == SEQUENCE(4, <<
    Member("id", "NativeInteger"), Optional("lane", "LaneID"),
    Optional("connectionID", "LaneConnectionID"), Optional("intersectionID", "IntersectionID")>>)
asn_DEF_NodeAttributeSet_addGrpC == SEQUENCE(3, <<
    Optional("ptvRequest", "PtvRequestType"), Optional("nodeLink", "NodeLink"),
    Optional("node", "Node")>>)
asn_DEF_NodeLink == SEQUENCE_OF(PerSize(3, 1, 5), Member("", "Node"))
asn_DEF_Position3D_addGrpC == SEQUENCE(1, <<Member("altitude", "Altitude")>>)
asn_DEF_PrioritizationResponse == SEQUENCE(3, <<
    Member("stationID", "StationID"), Member("priorState", "PrioritizationResponseStatus"),
    Member("signalGroup", "SignalGroupID")>>)
asn_DEF_PrioritizationResponseList ==
    SEQUENCE_OF(PerSize(4, 1, 10), Member("", "PrioritizationResponse"))
asn_DEF_PtvRequestType == NativeEnumerated(PerValueExt(3, 0, 4), 5, 6)
asn_DEF_RejectedReason == NativeEnumerated(PerValueExt(3, 0, 5), 6, 7)
asn_DEF_RequestorDescription_addGrpC == SEQUENCE(2, <<
    Optional("fuel", "FuelType"), Optional("batteryStatus", "BatteryStatus")>>)
asn_DEF_RestrictionUserType_addGrpC == SEQUENCE(2, <<
    Optional("emission", "EmissionType"), Optional("fuel", "FuelType")>>)
asn_DEF_SignalHeadLocation == SEQUENCE(3, <<
    Member("nodeXY", "NodeOffsetPointXY"), Member("nodeZ", "DeltaAltitude"),
    Member("signalGroupID", "SignalGroupID")>>)
asn_DEF_SignalHeadLocationList ==
    SEQUENCE_OF(PerSize(6, 1, 64), Member("", "SignalHeadLocation"))
asn_DEF_SignalStatusPackage_addGrpC == SEQUENCE(2, <<
    Optional("synchToSchedule", "DeltaTime"), Optional("rejectedReason", "RejectedReason")>>)
asn_DEF_TimeReference == NativeInteger(PerValue(16, 0, 60000), ValueIn(0, 60000))
asn_DEF_EuVehicleCategoryCode == CHOICE(PerValue(3, 0, 5), -1, <<
    Member("euVehicleCategoryL", "EuVehicleCategoryL"),
    Member("euVehicleCategoryM", "EuVehicleCategoryM"),
    Member("euVehicleCategoryN", "EuVehicleCategoryN"),
    Member("euVehicleCategoryO", "EuVehicleCategoryO"), Member("euVehilcleCategoryT", "NULL"),
    Member("euVehilcleCategoryG", "NULL")>>)
asn_DEF_EuVehicleCategoryL == NativeEnumerated(PerValue(3, 0, 6), 7, 0)
asn_DEF_EuVehicleCategoryM == NativeEnumerated(PerValue(2, 0, 2), 3, 0)
asn_DEF_EuVehicleCategoryN == NativeEnumerated(PerValue(2, 0, 2), 3, 0)
asn_DEF_EuVehicleCategoryO == NativeEnumerated(PerValue(2, 0, 3), 4, 0)
asn_DEF_Iso3833VehicleType == NativeInteger(PerValue(8, 0, 255), ValueIn(0, 255))

-----------------------------------------------------------------------------
AddGrpCTypes ==
    [BatteryStatus |-> asn_DEF_BatteryStatus,
     ConnectionManeuverAssist_addGrpC |-> asn_DEF_ConnectionManeuverAssist_addGrpC,
     ConnectionTrajectory_addGrpC |-> asn_DEF_ConnectionTrajectory_addGrpC,
     EmissionType |-> asn_DEF_EmissionType,
     ExceptionalCondition |-> asn_DEF_ExceptionalCondition,
     IntersectionState_addGrpC |-> asn_DEF_IntersectionState_addGrpC,
     ItsStationPosition |-> asn_DEF_ItsStationPosition,
     ItsStationPositionList |-> asn_DEF_ItsStationPositionList,
     LaneAttributes_addGrpC |-> asn_DEF_LaneAttributes_addGrpC,
     MapData_addGrpC |-> asn_DEF_MapData_addGrpC,
     MovementEvent_addGrpC |-> asn_DEF_MovementEvent_addGrpC, Node |-> asn_DEF_Node,
     NodeAttributeSet_addGrpC |-> asn_DEF_NodeAttributeSet_addGrpC,
     NodeLink |-> asn_DEF_NodeLink, Position3D_addGrpC |-> asn_DEF_Position3D_addGrpC,
     PrioritizationResponse |-> asn_DEF_PrioritizationResponse,
     PrioritizationResponseList |-> asn_DEF_PrioritizationResponseList,
     PtvRequestType |-> asn_DEF_PtvRequestType, RejectedReason |-> asn_DEF_RejectedReason,
     RequestorDescription_addGrpC |-> asn_DEF_RequestorDescription_addGrpC,
     RestrictionUserType_addGrpC |-> asn_DEF_RestrictionUserType_addGrpC,
     SignalHeadLocation |-> asn_DEF_SignalHeadLocation,
     SignalHeadLocationList |-> asn_DEF_SignalHeadLocationList,
     SignalStatusPackage_addGrpC |-> asn_DEF_SignalStatusPackage_addGrpC,
     TimeReference |-> asn_DEF_TimeReference,
     EuVehicleCategoryCode |-> asn_DEF_EuVehicleCategoryCode,
     EuVehicleCategoryL |-> asn_DEF_EuVehicleCategoryL,
     EuVehicleCategoryM |-> asn_DEF_EuVehicleCategoryM,
     EuVehicleCategoryN |-> asn_DEF_EuVehicleCategoryN,
     EuVehicleCategoryO |-> asn_DEF_EuVehicleCategoryO,
     Iso3833VehicleType |-> asn_DEF_Iso3833VehicleType]
=============================================================================
