--------------------------- MODULE MCConfigService ---------------------------
(***************************************************************************)
(* Instances of ConfigService for TLC: the options of the broker, and one  *)
(* other option of each type in place of the rest, which are alike.        *)
(***************************************************************************)
EXTENDS ConfigService

SomeTexts == {"mqtt_host", "wav_dir"}
SomePorts == {"mqtt_port", "http_listen_port"}

=============================================================================
