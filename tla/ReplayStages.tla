---------------------------- MODULE ReplayStages ----------------------------
(***************************************************************************)
(* The stages of run_demo_replay around its signal processing, one after   *)
(* another: the recording is read, the frame is searched in the soft       *)
(* decisions, and the payload that the decoder made of it is checked.      *)
(* Each stage is that of its own module; what lies between them, front     *)
(* end, acquisition, demodulation and decoder, leaves the soft decisions   *)
(* and the errors that the next one finds.                                 *)
(*                                                                         *)
(* A stage begins only when the one before has left what it promises: a    *)
(* recording that is loaded, a frame at the aligned start.                 *)
(***************************************************************************)
EXTENDS IqReader, FrameSearch, FrameCheck

stages_vars == <<reader_vars, search_vars, frame_vars>>

StagesInit == FrameCheckInit /\ FrameSearchInit /\ ReaderInit

LoadIq ==
  /\ ReaderNext
  /\ UNCHANGED <<search_vars, frame_vars>>

FindFrames ==
  /\ read_stage = "loaded"
  /\ FrameSearchNext
  /\ UNCHANGED <<reader_vars, frame_vars>>

\* A frame that disagrees with the alignment of the acquisition is not decoded.
CheckPayload ==
  /\ progress = "found"
  /\ frames[1].sync_start_index = 0
  /\ FrameCheckNext
  /\ UNCHANGED <<reader_vars, search_vars>>

StagesNext == LoadIq \/ FindFrames \/ CheckPayload

StagesSpec == StagesInit /\ [][StagesNext]_stages_vars

=============================================================================
