---------------------------- MODULE SessionView ----------------------------
(***************************************************************************)
(* What the hub promises those who subscribe to its callbacks: sessions.   *)
(* A phone comes, its audio starts and stops any number of times, and the  *)
(* phone goes, with the audio if that was still on.  Nothing is told       *)
(* twice, and no audio without a phone.                                    *)
(***************************************************************************)
VARIABLES
  phone,              \* what connection_callback_ said last
  audio               \* what audio_state_callback_ said last

ViewInit == ~phone /\ ~audio

PhoneComes  == ~phone /\ phone' /\ ~audio /\ ~audio'
AudioStarts == phone /\ phone' /\ ~audio /\ audio'
AudioStops  == phone /\ phone' /\ audio /\ ~audio'
PhoneGoes   == phone /\ ~phone' /\ ~audio'

ViewNext == PhoneComes \/ AudioStarts \/ AudioStops \/ PhoneGoes

ViewSpec == ViewInit /\ [][ViewNext]_<<phone, audio>>
=============================================================================
