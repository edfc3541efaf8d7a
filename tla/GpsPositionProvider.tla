------------------------ MODULE GpsPositionProvider ------------------------
(***************************************************************************)
(* GpsPositionProvider (mitvane/gps_position_provider.cpp): every 500 ms   *)
(* on_timer reads what gpsd has sent since and, if the last report has a   *)
(* fix, stores its position.  libgps and gpsd are not part of the          *)
(* repository: gps_read takes the next report into gps_data and answers a  *)
(* positive number, 0 when there is none, a negative one on an error.      *)
(***************************************************************************)
EXTENDS Naturals, Sequences

CONSTANTS Positions, ZeroPosition,
          None,         \* a report without a fix
          MaxReports    \* bound: reports gpsd sends in one behaviour

VARIABLES fix,        \* fetched_position_fix
          reports,    \* what gpsd has sent, oldest first
          read,       \* how many of them gps_read has taken
          gps_data,   \* the position in gps_data.fix, None without a fix
          ndevices,   \* gps_data.devices.ndevices, from gpsd's answer to gps_stream
          timer,      \* "off", "waiting", "queued", "fetching"
          fetched,    \* history: reports sent when fetch_position_fix last returned
          finals      \* history: numbers of the reports it had read last when it returned

gpsVars == <<fix, reports, read, gps_data, ndevices, timer, fetched, finals>>

(* The constructor: gps_open, gps_stream, schedule_timer.  A PositionFix is  *)
(* constructed with the position zero.                                       *)
GpsInit ==
    /\ fix = ZeroPosition
    /\ reports = << >> /\ read = 0 /\ gps_data = None
    /\ ndevices \in 0..1
    /\ timer = "waiting"
    /\ fetched = 0 /\ finals = {}

(* gpsd sends a report, with a fix or without. *)
Report(r) ==
    /\ Len(reports) < MaxReports
    /\ reports' = Append(reports, r)
    /\ UNCHANGED <<fix, read, gps_data, ndevices, timer, fetched, finals>>

Expire ==
    /\ timer = "waiting"
    /\ timer' = "queued"
    /\ UNCHANGED <<fix, reports, read, gps_data, ndevices, fetched, finals>>

(* on_timer, up to the first gpsd_read. *)
on_timer ==
    /\ timer = "queued"
    /\ timer' = "fetching"
    /\ UNCHANGED <<fix, reports, read, gps_data, ndevices, fetched, finals>>

(* WRONG variant of Store: status and mode of the report are not looked at *)
Store_unchecked(data) ==
    /\ fix' = IF data = None THEN ZeroPosition ELSE data
    /\ timer' = "waiting"
    /\ fetched' = Len(reports) /\ finals' = finals \cup ({read'} \ {0})

(* The rest of fetch_position_fix after the loop, and schedule_timer: *)
(* without a fix the position stored last is kept.                     *)
Store(data) ==
    /\ fix' = IF data = None THEN fix ELSE data
    /\ timer' = "waiting"
    /\ fetched' = Len(reports) /\ finals' = finals \cup ({read'} \ {0})

(* WRONG variant of Continue: one report per timer *)
Continue_never == FALSE

(* The condition of the loop after a read that was answered. *)
Continue == ndevices > 0

(* gpsd_read finds a report. *)
ReadReport ==
    /\ timer = "fetching" /\ read < Len(reports)
    /\ read' = read + 1
    /\ gps_data' = reports[read + 1]
    /\ IF Continue THEN UNCHANGED <<fix, timer, fetched, finals>> ELSE Store(reports[read + 1])
    /\ UNCHANGED <<reports, ndevices>>

(* gpsd_read finds nothing: the loop ends. *)
ReadNothing ==
    /\ timer = "fetching" /\ read = Len(reports)
    /\ UNCHANGED <<reports, read, gps_data, ndevices>>
    /\ Store(gps_data)

(* gpsd_read fails: GpsPositioningException, out of the handler. *)
ReadError ==
    /\ timer = "fetching"
    /\ timer' = "off"
    /\ UNCHANGED <<fix, reports, read, gps_data, ndevices, fetched, finals>>
=============================================================================
