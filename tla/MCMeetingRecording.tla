-------------------------- MODULE MCMeetingRecording --------------------------
(* MeetingRecording on small sets.                                            *)
EXTENDS MeetingRecording
===============================================================================
