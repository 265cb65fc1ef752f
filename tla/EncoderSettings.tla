-------------------------- MODULE EncoderSettings --------------------------
(***************************************************************************)
(* The encoder settings of encode-1080.ts: which descriptions there are    *)
(* and which of them, and which destination, the outputs of the one HLS    *)
(* group name.  The settings of a description have no reader in this code  *)
(* and are left out.                                                       *)
(***************************************************************************)

AudioDescriptions ==
  {"audio_1_aac64", "audio_2_aac64", "audio_3_aac64",
   "audio_1_aac96", "audio_2_aac96", "audio_3_aac96",
   "audio_1_aac128", "audio_2_aac128", "audio_3_aac128"}

VideoDescriptions ==
  {"video_416_234", "video_480_270", "video_640_360", "video_768_432",
   "video_960_540", "video_1280_720_1", "video_1280_720_2",
   "video_1280_720_3", "video_1920_1080"}

Out(video, audio) == [video |-> video, audio |-> audio]

Outputs ==
  {Out("video_960_540", "audio_2_aac96"), Out("video_1280_720_1", "audio_3_aac96"),
   Out("video_1280_720_2", "audio_1_aac128"),
   Out("video_1280_720_3", "audio_2_aac128"),
   Out("video_1920_1080", "audio_3_aac128"), Out("video_416_234", "audio_1_aac64"),
   Out("video_480_270", "audio_2_aac64"), Out("video_640_360", "audio_3_aac64"),
   Out("video_768_432", "audio_1_aac96")}

\* The destination the group refers to.
HlsGroup == "destination1"

\* MediaLive takes the settings of a channel with these destinations only if
\* every name in them is the name of something.
Accepted(destinations) ==
  /\ HlsGroup \in destinations
  /\ \A out \in Outputs :
       out.video \in VideoDescriptions /\ out.audio \in AudioDescriptions
=============================================================================
