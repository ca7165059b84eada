------------------------------ MODULE MCSurfaces ------------------------------
(* Instances for TLC of the browser, its chat, its push-to-talk button and the    *)
(* panel of the spoken companion, and of that companion: its pipeline, the tags   *)
(* it puts into what it says, and the services it listens with. They are checked  *)
(* side by side: a behaviour is one of a single component, `part`, and the        *)
(* variables of the others stay as they are.                                      *)
EXTENDS Client, PushToTalk, VoiceSession, VoicePipeline, ExpressionTags, Ears, TLC

VARIABLE part

browserVars == <<vars, pttVars, sessionVars>>
voiceVars   == <<pipeVars, tagVars, earsVars>>

SurfacesInit ==
  /\ part \in {"chat", "button", "panel", "pipeline", "tags", "ears"}
  /\ Init /\ (part # "chat" => tts.on)
  /\ PttInit /\ SessionInit
  /\ PipeInit /\ (part # "pipeline" => speaker.enabled)
  /\ EarsInit /\ (part # "ears" => service.kind = "dialog")
  /\ IF part = "tags" THEN TagInit
     ELSE /\ text = <<>> /\ path = "stream" /\ taken = 0
          /\ buffer = <<>> /\ calls = <<>> /\ ended = "no"

ChatMoves     == part = "chat" /\ Next /\ UNCHANGED <<pttVars, sessionVars, voiceVars, part>>
ButtonMoves   == part = "button" /\ PttNext /\ UNCHANGED <<vars, sessionVars, voiceVars, part>>
PanelMoves    == part = "panel" /\ SessionNext /\ UNCHANGED <<vars, pttVars, voiceVars, part>>
PipelineMoves == part = "pipeline" /\ PipeNext /\ UNCHANGED <<browserVars, tagVars, earsVars, part>>
TagsMove      == part = "tags" /\ TagNext /\ UNCHANGED <<browserVars, pipeVars, earsVars, part>>
EarsMove      == part = "ears" /\ EarsNext /\ UNCHANGED <<browserVars, pipeVars, tagVars, part>>

SurfacesNext == ChatMoves \/ ButtonMoves \/ PanelMoves \/ PipelineMoves \/ TagsMove \/ EarsMove
surfaceVars  == <<browserVars, voiceVars, part>>

SurfacesSpec == SurfacesInit /\ [][SurfacesNext]_surfaceVars

SixWords     == <<"one", "two", "three", "four", "five", "six">>
TickSymmetry == Permutations(Ticks)

\* The component a behaviour is of keeps values of their types.
TypesOK ==
  CASE part = "chat"     -> TypeOK
    [] part = "button"   -> PttTypeOK
    [] part = "panel"    -> SessionTypeOK
    [] part = "pipeline" -> PipeTypeOK
    [] part = "ears"     -> EarsTypeOK
    [] part = "tags"     -> TRUE

\* The microphone is off when nobody uses it, held button or panel, outside the
\* races each of the two names.
MicrophoneOff == MicOffUnlessSlipped /\ MicOffWhenStoppedUnlessCrossed
=============================================================================
