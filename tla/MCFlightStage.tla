--------------------------- MODULE MCFlightStage ---------------------------
(* A small instance of FlightStage: altitudes in four levels, a lockout of   *)
(* three cycles, windows of one or two, a termination altitude the ground     *)
(* may change in flight, and auto_advance and the bypass on or off.          *)
EXTENDS FlightStage

MCAlts == 0 .. 3

MCSetting(termination, pointing, auto, bypass) ==
    [n \in SettingNames |->
        CASE n = "termination_altitude" -> termination
          [] n = "pointing_activate_altitude" -> pointing
          [] n = "ascent_detect_gain" -> 1
          [] n = "apogee_percent" -> 95
          [] n = "landing_percent" -> 40
          [] n = "recovery_stationary" -> 1
          [] n = "termination_confirm_drop" -> 1
          [] n = "termination_confirm_window" -> 1
          [] n = "pointing_duration" -> 2
          [] n = "auto_advance" -> auto
          [] n = "bypass_launch_altitude_checks" -> bypass]

\* As settings.toml has the switches, with a termination altitude that the ground
\* changes in flight; and every check on, with fixed settings.
MCSettings ==
    {MCSetting(3, 2, 1, 1), MCSetting(2, 2, 1, 1), MCSetting(3, 2, 0, 0)}
=============================================================================
