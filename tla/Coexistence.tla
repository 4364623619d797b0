---------------------------- MODULE Coexistence ----------------------------
(***************************************************************************)
(* How the hub shares the radio with Wi-Fi: set_coex_preference_, which    *)
(* also turns Wi-Fi power save off and back on, and apply_wifi_pause_.     *)
(* The operators are called from the handlers of A2dpHub.tla.              *)
(*                                                                         *)
(* Two parties set the driver's power-save mode: the hub itself, and       *)
(* ESPHome's Wi-Fi component (external), which loop() by loop() turns      *)
(* power save off while somebody has requested high performance.  Here     *)
(* only the hub requests it.                                               *)
(***************************************************************************)
CONSTANTS
  SoftwareCoexistence,        \* coexistence: software_coexistence
  PreferBtWhileStreaming,
  PreferBtWhileDiscoverable,
  PauseWifiSourcesOnConnect,
  PsModes,                    \* Wi-Fi power-save modes
  PsNone,                     \* WIFI_PS_NONE
  PsDefault,                  \* WIFI_PS_MIN_MODEM, the field's initial value
  PsConfigured                \* the mode the user configured

ASSUME CoexFlagsAssumption ==
  {SoftwareCoexistence, PreferBtWhileStreaming, PreferBtWhileDiscoverable,
   PauseWifiSourcesOnConnect} \subseteq BOOLEAN
ASSUME PsAssumption == {PsNone, PsDefault, PsConfigured} \subseteq PsModes

VARIABLES
  prefer_bt,       \* what the coexistence arbiter was last told
  wifi_ps,         \* the driver's power-save mode
  saved_wifi_ps,
  wifi_ps_saved,
  wifi_paused,
  high_performance,  \* does the hub's request for high performance stand?
  \* the Wi-Fi component's own
  wifi_up,         \* has Wi-Fi been initialised? (esp_wifi_init)
  wifi_fast        \* has it turned power save off for a request?

psVars == <<prefer_bt, wifi_ps, saved_wifi_ps, wifi_ps_saved>>
pauseVars == <<wifi_paused, high_performance>>
wifiVars == <<wifi_up, wifi_fast>>
coexVars == <<psVars, pauseVars, wifiVars>>

CoexTypeOK ==
  /\ prefer_bt \in BOOLEAN
  /\ wifi_up \in BOOLEAN /\ wifi_fast \in BOOLEAN
  /\ wifi_ps \in PsModes
  /\ saved_wifi_ps \in PsModes
  /\ wifi_ps_saved \in BOOLEAN
  /\ wifi_paused \in BOOLEAN /\ high_performance \in BOOLEAN

CoexInit ==
  /\ prefer_bt = FALSE
  /\ wifi_up = FALSE /\ wifi_fast = FALSE
  /\ wifi_ps = PsConfigured
  /\ saved_wifi_ps = PsDefault
  /\ wifi_ps_saved = FALSE
  /\ wifi_paused = FALSE /\ high_performance = FALSE

\* esp_wifi_set_ps: WIFI_NOT_INIT, and no effect, before esp_wifi_init.
SetPs(mode) == wifi_ps' = IF wifi_up THEN mode ELSE wifi_ps

\* Faulty variant: every call saves the mode it finds.
PreferBtSavingAgain ==
  /\ prefer_bt' = TRUE
  /\ IF wifi_up
       THEN saved_wifi_ps' = wifi_ps /\ wifi_ps_saved' = TRUE
       ELSE UNCHANGED <<saved_wifi_ps, wifi_ps_saved>>
  /\ IF saved_wifi_ps' # PsNone THEN SetPs(PsNone) ELSE UNCHANGED wifi_ps

PreferBt ==
  /\ prefer_bt' = TRUE
  /\ IF ~wifi_ps_saved /\ wifi_up
       THEN saved_wifi_ps' = wifi_ps /\ wifi_ps_saved' = TRUE
       ELSE UNCHANGED <<saved_wifi_ps, wifi_ps_saved>>
  /\ IF saved_wifi_ps' # PsNone THEN SetPs(PsNone) ELSE UNCHANGED wifi_ps

PreferWifi ==
  /\ prefer_bt' = FALSE
  /\ IF wifi_ps_saved THEN SetPs(saved_wifi_ps) ELSE UNCHANGED wifi_ps
  /\ wifi_ps_saved' = FALSE
  /\ UNCHANGED saved_wifi_ps

SetCoexPreference(bt) == IF bt THEN PreferBt ELSE PreferWifi

\* The callers' guard: some only ask for software_coexistence_, some for the
\* matching option as well.
SetCoexPreferenceIf(wanted, bt) ==
  IF SoftwareCoexistence /\ wanted THEN SetCoexPreference(bt)
                                   ELSE UNCHANGED psVars

\* Faulty variant: the two calls are swapped.
ApplyWifiPauseSwapped(pause) ==
  IF PauseWifiSourcesOnConnect /\ pause # wifi_paused
    THEN wifi_paused' = pause /\ high_performance' = pause
    ELSE UNCHANGED pauseVars

\* Roaming suppression moves with the flag; a repeated call returns early.
\* release_high_performance has no effect when nothing was requested, as at the
\* first connection after the boot.
ApplyWifiPause(pause) ==
  IF PauseWifiSourcesOnConnect /\ pause # wifi_paused
    THEN wifi_paused' = pause /\ high_performance' = ~pause
    ELSE UNCHANGED pauseVars

\* Wi-Fi comes up with the configured mode, whenever its component does.
WifiStarts ==
  /\ ~wifi_up
  /\ wifi_up' = TRUE
  /\ UNCHANGED <<psVars, pauseVars, wifi_fast>>

\* WiFiComponent::loop: the mode follows the requests, once per change.
WifiLoopDue == wifi_up /\ wifi_fast # high_performance

WifiLoop ==
  /\ WifiLoopDue
  /\ wifi_fast' = high_performance
  /\ wifi_ps' = IF high_performance THEN PsNone ELSE PsConfigured
  /\ UNCHANGED <<prefer_bt, saved_wifi_ps, wifi_ps_saved, pauseVars, wifi_up>>

CoexReset ==
  /\ prefer_bt' = FALSE
  /\ wifi_up' = FALSE /\ wifi_fast' = FALSE
  /\ wifi_ps' = PsConfigured
  /\ saved_wifi_ps' = PsDefault
  /\ wifi_ps_saved' = FALSE
  /\ wifi_paused' = FALSE /\ high_performance' = FALSE
=============================================================================
