-------------------------- MODULE MCBalloonFlight --------------------------
(* A flight of five levels.  The ascent takes longer than the lockout when   *)
(* MinBurst is high, and can be over before it when MinBurst is low.         *)
EXTENDS BalloonFlight

MCAlts == 1 .. 6

MCSettings ==
    {[n \in SettingNames |->
        CASE n = "termination_altitude" -> t
          [] n = "pointing_activate_altitude" -> 3
          [] n = "ascent_detect_gain" -> 1
          [] n = "apogee_percent" -> 95
          [] n = "landing_percent" -> 25
          [] n = "recovery_stationary" -> 2
          [] n = "termination_confirm_drop" -> 1
          [] n = "termination_confirm_window" -> 2
          [] n = "pointing_duration" -> 3
          [] n \in SwitchNames -> switch] : t \in {5, 7}, switch \in 0 .. 1}
=============================================================================
